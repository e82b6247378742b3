------------------------------ MODULE Pipeline ------------------------------
(***************************************************************************)
(* The server with its PostgreSQL sink: Server and PostgresSink composed   *)
(* as cmd/server/main.go composes them.  The workers of the one are the    *)
(* writers of the other; a worker stays in s.Write for as long as the      *)
(* flush it triggered; main closes the sink when wg.Wait() has returned    *)
(* and ends when Close has; the two die together.                          *)
(*                                                                         *)
(* Server abstracts the sink to the results of Write, and PostgresSink     *)
(* assumes callers that stop before Close.  That the composition           *)
(* implements both shows that each keeps what the other assumes.           *)
(***************************************************************************)
EXTENDS Server

CONSTANTS Flusher, Closer, BatchSize, PoolSize

\* NewPostgres sets a batch of 100 and pgxpool a pool of at least one.
ASSUME PipelineAssumption ==
    /\ Sink = "postgres" /\ MaxPanics = 0
    /\ Flusher \notin Workers /\ Closer \notin Workers /\ Flusher # Closer
    /\ BatchSize \in Nat \ {0} /\ PoolSize \in Nat \ {0}

VARIABLES trades, logs, spc, batch, ins, db, late, fate, batches

sinkVars == <<trades, logs, spc, batch, ins, db, late, fate, batches>>
allVars == <<vars, sinkVars>>

\* The frames that reach the sink.
Decodable == {f \in Frame : Kind[f] # "bad"}

\* Workers inside flush, called from s.Write.
InFlush(w) == wpc[w] = "write" /\ spc[w] # "idle"

\* Events for which s.Write was called.
Written == {f \in Decodable : \/ outcome[f] \in {"ok", "failed"}
                              \/ \E w \in Workers : InFlush(w) /\ job[w] = f}

P == INSTANCE PostgresSink WITH
        Writers <- Workers, Events <- Decodable,
        Type <- [f \in Decodable |-> Kind[f]],
        alive <- mpc \notin {"panicked", "fatal"},
        stopped <- spc[Closer] # "idle",
        written <- Written, pc <- spc

PipeInit == Init /\ P!Init

-----------------------------------------------------------------------------
(* A worker in s.Write *)

\* The event is buffered and Write returns nil at once ...
WriteBuffers(w) ==
    /\ wpc[w] = "write" /\ spc[w] = "idle"
    /\ Settle(w, "ok", "finish")
    /\ UNCHANGED <<mainVars, acc, connVars, clientVars, jobs,
                   activeConns, queueGauge, counters>>
    /\ P!Put(w, job[w])
    /\ spc'[w] = "idle"

\* ... or it fills the batch and the worker flushes it.
WriteFlushes(w) ==
    /\ wpc[w] = "write" /\ spc[w] = "idle"
    /\ UNCHANGED vars
    /\ P!Put(w, job[w])
    /\ spc'[w] # "idle"

\* Variant: return in place of going on, a failed write costs a worker.
WriteReturnsStops(w, result) ==
    /\ InFlush(w)
    /\ Settle(w, result, IF result = "failed" THEN "done" ELSE "finish")
    /\ errors' = IF result = "failed" THEN errors + 1 ELSE errors
    /\ UNCHANGED <<mainVars, acc, connVars, clientVars, jobs,
                   activeConns, queueGauge, processed, observed>>

\* Write returns what flush returned.
WriteReturns(w, result) ==
    /\ InFlush(w)
    /\ Settle(w, result, "finish")
    /\ errors' = IF result = "failed" THEN errors + 1 ELSE errors
    /\ UNCHANGED <<mainVars, acc, connVars, clientVars, jobs,
                   activeConns, queueGauge, processed, observed>>

\* Anybody's flush; a worker's flush ends its Write.
Flush(a) ==
    \/ UNCHANGED vars /\ (P!Begin(a) \/ P!Insert(a) \/ P!SendCommit(a) \/ P!Apply(a))
    \/ UNCHANGED vars /\ a \notin Workers /\ (P!ReturnOk(a) \/ P!ReturnError(a))
    \/ a \in Workers /\ WriteReturns(a, "ok") /\ P!ReturnOk(a)
    \/ a \in Workers /\ WriteReturns(a, "failed") /\ P!ReturnError(a)

WriteCall(w) == WriteBuffers(w) \/ WriteFlushes(w) \/ Flush(w)

-----------------------------------------------------------------------------
(* The flusher and Close *)

\* NewPostgres starts the flusher before the workers are spawned.
SinkOpen == mpc \notin {"boot", "listening"}

FlusherRuns == /\ SinkOpen /\ UNCHANGED vars
               /\ P!Tick \/ P!FlusherStops

\* defer eventSink.Close() is called when main returns ...
CallClose ==
    /\ mpc = "closing" /\ spc[Closer] = "idle"
    /\ UNCHANGED vars
    /\ P!BeginClose

CloseRuns == UNCHANGED vars /\ P!FinalGrab

\* Variant: Close is called in a goroutine of its own.
ExitAtOnce == CloseSink /\ UNCHANGED sinkVars

\* ... and the process ends when it has returned.
Exit ==
    /\ spc[Closer] = "done"
    /\ CloseSink
    /\ UNCHANGED sinkVars

-----------------------------------------------------------------------------
\* What the sink does not take part in.
WorkerAlone(w) == Recv(w) \/ RecvClosed(w) \/ UnmarshalFails(w) \/ Unmarshal(w) \/ Finish(w)
MainAlone == \/ Listen \/ Serve \/ SetShutdown \/ CloseListener
             \/ Cancel \/ CloseJobs \/ WaitWorkers

WorkerTurn(w) == (WorkerAlone(w) /\ UNCHANGED sinkVars) \/ WriteCall(w)
MainTurn == (MainAlone /\ UNCHANGED sinkVars) \/ CallClose \/ CloseRuns \/ Flush(Closer) \/ Exit

Turn ==
    \/ \E c \in Conns : (Client(c) \/ Handler(c)) /\ UNCHANGED sinkVars
    \/ (Acceptor \/ RecvSignal \/ Fatal) /\ UNCHANGED sinkVars
    \/ \E w \in Workers : WorkerTurn(w)
    \/ FlusherRuns \/ Flush(Flusher)
    \/ MainTurn

\* A commit that was sent is applied although its sender has given it up or has
\* died.
LateApply ==
    /\ UNCHANGED vars
    /\ \/ ~Running /\ \E a \in P!Actors : P!Apply(a)
       \/ \E b \in late : P!LateApply(b)

PipeNext == (Running /\ Turn) \/ LateApply \/ (~Running /\ UNCHANGED allVars)

PipeSafety == PipeInit /\ [][PipeNext]_allVars

PipeSpec ==
    /\ PipeSafety
    /\ WF_allVars(Running /\ MainTurn)
    /\ WF_allVars(Running /\ Acceptor /\ UNCHANGED sinkVars)
    /\ \A c \in Conns : WF_allVars(Running /\ Handler(c) /\ UNCHANGED sinkVars)
    /\ \A w \in Workers : WF_allVars(Running /\ WorkerTurn(w))
    /\ WF_allVars(Running /\ (FlusherRuns \/ Flush(Flusher)))

-----------------------------------------------------------------------------
\* Seen from the sockets the pipeline is the server: what PostgresSink.Write
\* returns is what Server assumes of a postgres sink.
ImplementsServer == Spec

\* Seen from the database it is the sink: main and the workers call it as it
\* expects, no Write after Close and none in progress when Close is called.
ImplementsSink == P!Spec

Storable(f) == Kind[f] \in {"trade", "log"}

\* After a clean exit every trade and log that was read from a client is in the
\* database once, or went down with a flush that failed, or is the one frame
\* its handler still had in hand.
StoredOrReported ==
    mpc = "exited" => \A f \in Frame :
        Storable(f) /\ f[2] <= nread[f[1]] /\ ~InHandler(f)
            => db[f] = 1 \/ fate[f] = "failed"

\* The processed counter runs ahead of the database, never behind: no row is
\* visible that the metrics have not counted.
CountedBeforeStored ==
    \A t \in {"trade", "log"} :
        Cardinality({f \in Decodable : Kind[f] = t /\ db[f] > 0}) <= processed[t]

\* A trade or log that was read from a client is flushed in the end, by a full
\* batch, by the ticker or by Close, unless the process ends before.
ReadIsFlushed ==
    \A f \in Decodable :
        Storable(f) /\ f[2] <= nread[f[1]] ~> fate[f] # "none" \/ ~Running
=============================================================================

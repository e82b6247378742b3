------------------------------- MODULE Server -------------------------------
(***************************************************************************)
(* The aegis-stream data plane: cmd/server/main.go and the counters and    *)
(* shutdown flag of internal/metrics/metrics.go.                           *)
(*                                                                         *)
(* Goroutines and their program counters:                                  *)
(*   main      mpc     start-up, the wait for a signal, the shutdown steps *)
(*   acceptor  acc     the listener.Accept loop, lines 105-134             *)
(*   handlers  hpc[c]  one handleConnection per admitted connection c      *)
(*   workers   wpc[w]  the pool that drains the jobs channel               *)
(*                                                                         *)
(* A frame is <<c, i>>, the i-th frame that client c sends; its bytes are  *)
(* abstracted to Kind, what proto.Unmarshal makes of them.  The sink is    *)
(* abstracted to the results sink.Write can return.                        *)
(***************************************************************************)
EXTENDS Naturals, Sequences, FiniteSets

CONSTANTS
    Conns,       \* the client connections
    Workers,     \* the worker goroutines, cfg.Workers of them
    QueueDepth,  \* capacity of the jobs channel, cfg.QueueDepth
    MaxConns,    \* capacity of the connSem channel, cfg.MaxConns
    Sink,        \* cfg.SinkType
    MaxFrames,   \* bound: frames a client sends on one connection
    MaxPanics,   \* bound: workers that panic inside sink.Write
    Kind         \* what a frame decodes to

\* The frames that clients can send; the first component is the connection.
Frame == Conns \X (1..MaxFrames)

\* "bad" does not unmarshal; "none" is an Event whose oneof payload is unset,
\* as the empty frame is.
Kinds == {"trade", "log", "none", "bad"}

\* What config.validate lets through, and finiteness of what was spawned.
ASSUME ServerAssumption ==
    /\ IsFiniteSet(Conns)
    /\ IsFiniteSet(Workers) /\ Workers # {}
    /\ QueueDepth \in Nat \ {0}
    /\ MaxConns \in Nat
    /\ Sink \in {"stdout", "postgres", "nats"}
    /\ MaxFrames \in Nat
    /\ MaxPanics \in Nat
    /\ Kind \in [Frame -> Kinds]

\* A worker between two jobs holds no frame.
NoJob == <<>>

VARIABLES
    mpc,          \* where main is; the last three values end the process
    unhealthy,    \* metrics.shutdownFlag: /healthz answers 503
    listening,    \* the TCP listener is open
    ctxDone,      \* cancel() was called
    jobsClosed,   \* close(jobs) was called
    acc,          \* the accept loop
    hpc,          \* per connection: the client's, the acceptor's or the handler's place
    sent,         \* frames each client has written to its socket
    fin,          \* the client has closed its side
    nread,        \* frames frame.Read has returned on each connection
    depth,        \* each handler's local queueLen
    connSem,      \* tokens in the connSem channel
    jobs,         \* contents of the jobs channel
    wpc,          \* where each worker is
    job,          \* the frame each worker holds
    outcome,      \* what became of each frame (history)
    activeConns,  \* gauge aegis_active_connections
    queueGauge,   \* gauge aegis_queue_depth
    processed,    \* counter aegis_events_processed_total, by type
    errors,       \* counter aegis_event_errors_total
    observed      \* observations in histogram aegis_processing_duration_seconds

mainVars   == <<mpc, unhealthy, listening, ctxDone, jobsClosed>>
clientVars == <<sent, fin>>
connVars   == <<hpc, nread, depth, connSem>>
workerVars == <<wpc, job, outcome>>
counters   == <<processed, errors, observed>>
vars == <<mainVars, acc, connVars, clientVars, jobs, workerVars,
          activeConns, queueGauge, counters>>

Terminal == {"exited", "panicked", "fatal"}

MainStates == {"boot", "listening", "serving", "signalled", "unready", "unlistened",
               "cancelled", "waiting", "closing"} \cup Terminal

ConnStates == {"new", "backlog", "accepted", "start", "check", "read", "gauge",
               "send", "dec", "release", "close", "done", "rejected"}

\* Places at which the handler of a connection holds a token of connSem, and
\* those between ActiveConnections.Inc and Dec.
Holding == {"start", "check", "read", "gauge", "send", "dec", "release"}
Counted == {"check", "read", "gauge", "send", "dec"}

Holders == {c \in Conns : hpc[c] \in Holding}
Active  == {c \in Conns : hpc[c] \in Counted}

\* The client's socket exists and the server has not closed its end.
Connected(c) == hpc[c] \notin {"new", "done", "rejected"}

TypeOK ==
    /\ mpc \in MainStates
    /\ unhealthy \in BOOLEAN /\ listening \in BOOLEAN
    /\ ctxDone \in BOOLEAN /\ jobsClosed \in BOOLEAN
    /\ acc \in {"off", "loop", "stopped"}
    /\ hpc \in [Conns -> ConnStates]
    /\ sent \in [Conns -> 0..MaxFrames]
    /\ fin \in [Conns -> BOOLEAN]
    /\ nread \in [Conns -> 0..MaxFrames]
    /\ depth \in [Conns -> Nat]
    /\ connSem \in Nat
    /\ jobs \in Seq(Frame)
    /\ wpc \in [Workers -> {"off", "recv", "unmarshal", "write", "finish", "done", "panicked"}]
    /\ job \in [Workers -> Frame \cup {NoJob}]
    /\ outcome \in [Frame -> {"none", "ok", "failed", "garbled", "panicked"}]
    /\ activeConns \in Nat
    /\ queueGauge \in Nat
    /\ processed \in [{"trade", "log"} -> Nat]
    /\ errors \in Nat
    /\ observed \in Nat

\* config.Load has succeeded and the metrics server is already answering.
Init ==
    /\ mpc = "boot"
    /\ unhealthy = FALSE /\ listening = FALSE
    /\ ctxDone = FALSE /\ jobsClosed = FALSE
    /\ acc = "off"
    /\ hpc = [c \in Conns |-> "new"]
    /\ sent = [c \in Conns |-> 0]
    /\ fin = [c \in Conns |-> FALSE]
    /\ nread = [c \in Conns |-> 0]
    /\ depth = [c \in Conns |-> 0]
    /\ connSem = 0
    /\ jobs = <<>>
    /\ wpc = [w \in Workers |-> "off"]
    /\ job = [w \in Workers |-> NoJob]
    /\ outcome = [f \in Frame |-> "none"]
    /\ activeConns = 0
    /\ queueGauge = 0
    /\ processed = [t \in {"trade", "log"} |-> 0]
    /\ errors = 0
    /\ observed = 0

-----------------------------------------------------------------------------
(* The clients: any program that speaks the framing protocol. *)

\* The kernel completes the handshake as soon as the listener exists.
Dial(c) ==
    /\ listening
    /\ hpc[c] = "new"
    /\ hpc' = [hpc EXCEPT ![c] = "backlog"]
    /\ UNCHANGED <<mainVars, acc, nread, depth, connSem, clientVars, jobs, workerVars,
                   activeConns, queueGauge, counters>>

ClientSend(c) ==
    /\ Connected(c) /\ ~fin[c]
    /\ sent[c] < MaxFrames
    /\ sent' = [sent EXCEPT ![c] = @ + 1]
    /\ UNCHANGED <<mainVars, acc, connVars, fin, jobs, workerVars,
                   activeConns, queueGauge, counters>>

ClientClose(c) ==
    /\ Connected(c) /\ ~fin[c]
    /\ fin' = [fin EXCEPT ![c] = TRUE]
    /\ UNCHANGED <<mainVars, acc, connVars, sent, jobs, workerVars,
                   activeConns, queueGauge, counters>>

-----------------------------------------------------------------------------
(* The accept loop.  The connection Accept returned is the one at          *)
(* "accepted"; the loop handles it before it calls Accept again.  A failed *)
(* Accept with a live context only logs and tries again.                   *)

AcceptorFree == acc = "loop" /\ \A c \in Conns : hpc[c] # "accepted"

Accept(c) ==
    /\ AcceptorFree
    /\ hpc[c] = "backlog"
    /\ hpc' = [hpc EXCEPT ![c] = "accepted"]
    /\ UNCHANGED <<mainVars, acc, nread, depth, connSem, clientVars, jobs, workerVars,
                   activeConns, queueGauge, counters>>

\* case connSem <- struct{}{}: go handleConnection(...)
Admit(c) ==
    /\ hpc[c] = "accepted"
    /\ connSem < MaxConns
    /\ connSem' = connSem + 1
    /\ hpc' = [hpc EXCEPT ![c] = "start"]
    /\ UNCHANGED <<mainVars, acc, nread, depth, clientVars, jobs, workerVars,
                   activeConns, queueGauge, counters>>

\* default: conn.Close()
Reject(c) ==
    /\ hpc[c] = "accepted"
    /\ ~(connSem < MaxConns)
    /\ hpc' = [hpc EXCEPT ![c] = "rejected"]
    /\ UNCHANGED <<mainVars, acc, nread, depth, connSem, clientVars, jobs, workerVars,
                   activeConns, queueGauge, counters>>

\* Accept fails on the closed listener and ctx.Done() is ready.
AcceptorStops ==
    /\ AcceptorFree
    /\ ~listening
    /\ ctxDone
    /\ acc' = "stopped"
    /\ UNCHANGED <<mainVars, connVars, clientVars, jobs, workerVars,
                   activeConns, queueGauge, counters>>

-----------------------------------------------------------------------------
(* handleConnection.  At "gauge" and "send" the handler holds the frame it *)
(* read last, <<c, nread[c]>>.  The three deferred steps run after every   *)
(* return, last registered first: gauge, token, socket.                    *)

\* Variant: the gauge is never incremented.
StartNoInc(c) ==
    /\ hpc[c] = "start"
    /\ hpc' = [hpc EXCEPT ![c] = "check"]
    /\ UNCHANGED <<mainVars, acc, nread, depth, connSem, clientVars, jobs, workerVars,
                   activeConns, queueGauge, counters>>

Start(c) ==
    /\ hpc[c] = "start"
    /\ hpc' = [hpc EXCEPT ![c] = "check"]
    /\ activeConns' = activeConns + 1
    /\ UNCHANGED <<mainVars, acc, nread, depth, connSem, clientVars, jobs, workerVars,
                   queueGauge, counters>>

\* Variant: a return on ctx.Done() that skips the deferred steps.
CheckCtxLeaks(c) ==
    /\ hpc[c] = "check"
    /\ hpc' = [hpc EXCEPT ![c] = IF ctxDone THEN "done" ELSE "read"]
    /\ UNCHANGED <<mainVars, acc, nread, depth, connSem, clientVars, jobs, workerVars,
                   activeConns, queueGauge, counters>>

\* select { case <-ctx.Done(): return; default: }
CheckCtx(c) ==
    /\ hpc[c] = "check"
    /\ hpc' = [hpc EXCEPT ![c] = IF ctxDone THEN "dec" ELSE "read"]
    /\ UNCHANGED <<mainVars, acc, nread, depth, connSem, clientVars, jobs, workerVars,
                   activeConns, queueGauge, counters>>

\* frame.Read returns a frame, and len(jobs) is read ...
ReadFrame(c) ==
    /\ hpc[c] = "read"
    /\ nread[c] < sent[c]
    /\ nread' = [nread EXCEPT ![c] = @ + 1]
    /\ depth' = [depth EXCEPT ![c] = Len(jobs)]
    /\ hpc' = [hpc EXCEPT ![c] = "gauge"]
    /\ UNCHANGED <<mainVars, acc, connSem, clientVars, jobs, workerVars,
                   activeConns, queueGauge, counters>>

\* ... and stored in the gauge, after whatever happened meanwhile; queueLen is
\* dead from here on.
SetGauge(c) ==
    /\ hpc[c] = "gauge"
    /\ queueGauge' = depth[c]
    /\ depth' = [depth EXCEPT ![c] = 0]
    /\ hpc' = [hpc EXCEPT ![c] = "send"]
    /\ UNCHANGED <<mainVars, acc, nread, connSem, clientVars, jobs, workerVars,
                   activeConns, counters>>

\* Variant: no read deadline, only the client's close ends the read.
ReadFailsNoDeadline(c) ==
    /\ hpc[c] = "read" /\ fin[c]
    /\ hpc' = [hpc EXCEPT ![c] = "dec"]
    /\ UNCHANGED <<mainVars, acc, nread, depth, connSem, clientVars, jobs, workerVars,
                   activeConns, queueGauge, counters>>

\* Variant: the error return forgets the slot.
ReadFailsLeaks(c) ==
    /\ hpc[c] = "read"
    /\ hpc' = [hpc EXCEPT ![c] = "close"]
    /\ activeConns' = activeConns - 1
    /\ UNCHANGED <<mainVars, acc, nread, depth, connSem, clientVars, jobs, workerVars,
                   queueGauge, counters>>

\* frame.Read fails: end of stream, a reset, or the read deadline, which can
\* pass while a frame is still on its way.
ReadFails(c) ==
    /\ hpc[c] = "read"
    /\ hpc' = [hpc EXCEPT ![c] = "dec"]
    /\ UNCHANGED <<mainVars, acc, nread, depth, connSem, clientVars, jobs, workerVars,
                   activeConns, queueGauge, counters>>

\* Variant: a select with a default that drops the frame when the queue is full.
SendJobOrDrop(c) ==
    /\ hpc[c] = "send"
    /\ ~jobsClosed
    /\ jobs' = IF Len(jobs) < QueueDepth THEN Append(jobs, <<c, nread[c]>>) ELSE jobs
    /\ hpc' = [hpc EXCEPT ![c] = "check"]
    /\ UNCHANGED <<mainVars, acc, nread, depth, connSem, clientVars, workerVars,
                   activeConns, queueGauge, counters>>

\* Variant: the handler leaves the send to a goroutine of its own, so that the
\* next frame can overtake it.
SendJobOvertakes(c) ==
    /\ hpc[c] = "send"
    /\ ~jobsClosed
    /\ Len(jobs) < QueueDepth
    /\ jobs' = <<<<c, nread[c]>>>> \o jobs
    /\ hpc' = [hpc EXCEPT ![c] = "check"]
    /\ UNCHANGED <<mainVars, acc, nread, depth, connSem, clientVars, workerVars,
                   activeConns, queueGauge, counters>>

\* jobs <- data blocks while the channel is full ...
SendJob(c) ==
    /\ hpc[c] = "send"
    /\ ~jobsClosed
    /\ Len(jobs) < QueueDepth
    /\ jobs' = Append(jobs, <<c, nread[c]>>)
    /\ hpc' = [hpc EXCEPT ![c] = "check"]
    /\ UNCHANGED <<mainVars, acc, nread, depth, connSem, clientVars, workerVars,
                   activeConns, queueGauge, counters>>

\* ... and panics once it is closed, blocked or not; no recover() here, so
\* the process dies.
SendPanics(c) ==
    /\ hpc[c] = "send"
    /\ jobsClosed
    /\ mpc' = "panicked"
    /\ UNCHANGED <<unhealthy, listening, ctxDone, jobsClosed, acc, connVars,
                   clientVars, jobs, workerVars, activeConns, queueGauge, counters>>

DecGauge(c) ==
    /\ hpc[c] = "dec"
    /\ activeConns' = activeConns - 1
    /\ hpc' = [hpc EXCEPT ![c] = "release"]
    /\ UNCHANGED <<mainVars, acc, nread, depth, connSem, clientVars, jobs, workerVars,
                   queueGauge, counters>>

Release(c) ==
    /\ hpc[c] = "release"
    /\ connSem' = connSem - 1
    /\ hpc' = [hpc EXCEPT ![c] = "close"]
    /\ UNCHANGED <<mainVars, acc, nread, depth, clientVars, jobs, workerVars,
                   activeConns, queueGauge, counters>>

CloseConn(c) ==
    /\ hpc[c] = "close"
    /\ hpc' = [hpc EXCEPT ![c] = "done"]
    /\ UNCHANGED <<mainVars, acc, nread, depth, connSem, clientVars, jobs, workerVars,
                   activeConns, queueGauge, counters>>

-----------------------------------------------------------------------------
(* worker *)

Recv(w) ==
    /\ wpc[w] = "recv"
    /\ jobs # <<>>
    /\ job' = [job EXCEPT ![w] = Head(jobs)]
    /\ jobs' = Tail(jobs)
    /\ wpc' = [wpc EXCEPT ![w] = "unmarshal"]
    /\ UNCHANGED <<mainVars, acc, connVars, clientVars, outcome,
                   activeConns, queueGauge, counters>>

\* range ends on a closed and empty channel; wg.Done() is deferred.
RecvClosed(w) ==
    /\ wpc[w] = "recv"
    /\ jobs = <<>> /\ jobsClosed
    /\ wpc' = [wpc EXCEPT ![w] = "done"]
    /\ UNCHANGED <<mainVars, acc, connVars, clientVars, jobs, job, outcome,
                   activeConns, queueGauge, counters>>

\* The worker is through with its frame.
Settle(w, result, next) ==
    /\ outcome' = [outcome EXCEPT ![job[w]] = result]
    /\ job' = [job EXCEPT ![w] = NoJob]
    /\ wpc' = [wpc EXCEPT ![w] = next]

\* Variant: return in place of continue, a bad frame costs a worker.
UnmarshalFailsReturns(w) ==
    /\ wpc[w] = "unmarshal"
    /\ Kind[job[w]] = "bad"
    /\ errors' = errors + 1
    /\ Settle(w, "garbled", "done")
    /\ UNCHANGED <<mainVars, acc, connVars, clientVars, jobs,
                   activeConns, queueGauge, processed, observed>>

UnmarshalFails(w) ==
    /\ wpc[w] = "unmarshal"
    /\ Kind[job[w]] = "bad"
    /\ errors' = errors + 1
    /\ Settle(w, "garbled", "recv")
    /\ UNCHANGED <<mainVars, acc, connVars, clientVars, jobs,
                   activeConns, queueGauge, processed, observed>>

\* Variant: the type switch lacks its log case.
UnmarshalTradesOnly(w) ==
    /\ wpc[w] = "unmarshal"
    /\ Kind[job[w]] # "bad"
    /\ processed' = [processed EXCEPT !["trade"] = @ + (IF Kind[job[w]] = "trade" THEN 1 ELSE 0)]
    /\ wpc' = [wpc EXCEPT ![w] = "write"]
    /\ UNCHANGED <<mainVars, acc, connVars, clientVars, jobs, job, outcome,
                   activeConns, queueGauge, errors, observed>>

\* The event is counted by type before it is written.
Unmarshal(w) ==
    /\ wpc[w] = "unmarshal"
    /\ Kind[job[w]] # "bad"
    /\ processed' = [t \in {"trade", "log"} |->
                        processed[t] + (IF Kind[job[w]] = t THEN 1 ELSE 0)]
    /\ wpc' = [wpc EXCEPT ![w] = "write"]
    /\ UNCHANGED <<mainVars, acc, connVars, clientVars, jobs, job, outcome,
                   activeConns, queueGauge, errors, observed>>

\* What s.Write may return for frame f.  An event with no payload is dropped
\* without an error by the stdout and postgres sinks (it cannot fill a batch),
\* and refused by the nats sink.
SinkResults(f) ==
    CASE Sink = "stdout"   -> {"ok"}
      [] Sink = "postgres" -> IF Kind[f] = "none" THEN {"ok"} ELSE {"ok", "failed"}
      [] Sink = "nats"     -> IF Kind[f] = "none" THEN {"failed"} ELSE {"ok", "failed"}

\* Variant: a refused write continues with the next job, past the histogram.
WriteFailsContinues(w) ==
    /\ wpc[w] = "write"
    /\ \E result \in SinkResults(job[w]) :
          /\ Settle(w, result, IF result = "failed" THEN "recv" ELSE "finish")
          /\ errors' = IF result = "failed" THEN errors + 1 ELSE errors
    /\ UNCHANGED <<mainVars, acc, connVars, clientVars, jobs,
                   activeConns, queueGauge, processed, observed>>

Write(w) ==
    /\ wpc[w] = "write"
    /\ \E result \in SinkResults(job[w]) :
          /\ Settle(w, result, "finish")
          /\ errors' = IF result = "failed" THEN errors + 1 ELSE errors
    /\ UNCHANGED <<mainVars, acc, connVars, clientVars, jobs,
                   activeConns, queueGauge, processed, observed>>

\* The simulated delay, then ProcessingDuration.Observe.
Finish(w) ==
    /\ wpc[w] = "finish"
    /\ observed' = observed + 1
    /\ wpc' = [wpc EXCEPT ![w] = "recv"]
    /\ UNCHANGED <<mainVars, acc, connVars, clientVars, jobs, job, outcome,
                   activeConns, queueGauge, processed, errors>>

\* A panic below s.Write: recover() logs it, wg.Done() runs, the worker is gone.
WorkerPanics(w) ==
    /\ wpc[w] = "write"
    /\ Cardinality({v \in Workers : wpc[v] = "panicked"}) < MaxPanics
    /\ Settle(w, "panicked", "panicked")
    /\ UNCHANGED <<mainVars, acc, connVars, clientVars, jobs,
                   activeConns, queueGauge, counters>>

-----------------------------------------------------------------------------
(* main *)

\* Main goes from one place to the next and changes nothing of the others.
MainStep(from, to) ==
    /\ mpc = from
    /\ mpc' = to
    /\ UNCHANGED <<connSem, nread, depth, clientVars, jobs, job, outcome,
                   activeConns, queueGauge, counters>>

Listen ==
    /\ MainStep("boot", "listening")
    /\ listening' = TRUE
    /\ UNCHANGED <<unhealthy, ctxDone, jobsClosed, acc, hpc, wpc>>

\* The sink is open: the workers and the accept loop are started.
Serve ==
    /\ MainStep("listening", "serving")
    /\ wpc' = [w \in Workers |-> "recv"]
    /\ acc' = "loop"
    /\ UNCHANGED <<unhealthy, listening, ctxDone, jobsClosed, hpc>>

RecvSignal ==
    /\ MainStep("serving", "signalled")
    /\ UNCHANGED <<unhealthy, listening, ctxDone, jobsClosed, acc, hpc, wpc>>

SetShutdown ==
    /\ MainStep("signalled", "unready")
    /\ unhealthy' = TRUE
    /\ UNCHANGED <<listening, ctxDone, jobsClosed, acc, hpc, wpc>>

\* The kernel resets the connections still waiting to be accepted.
CloseListener ==
    /\ MainStep("unready", "unlistened")
    /\ listening' = FALSE
    /\ hpc' = [c \in Conns |-> IF hpc[c] = "backlog" THEN "done" ELSE hpc[c]]
    /\ UNCHANGED <<unhealthy, ctxDone, jobsClosed, acc, wpc>>

Cancel ==
    /\ MainStep("unlistened", "cancelled")
    /\ ctxDone' = TRUE
    /\ UNCHANGED <<unhealthy, listening, jobsClosed, acc, hpc, wpc>>

\* Variant: close(jobs) is missing.
CloseJobsMissing ==
    /\ MainStep("cancelled", "waiting")
    /\ UNCHANGED <<unhealthy, listening, ctxDone, jobsClosed, acc, hpc, wpc>>

CloseJobs ==
    /\ MainStep("cancelled", "waiting")
    /\ jobsClosed' = TRUE
    /\ UNCHANGED <<unhealthy, listening, ctxDone, acc, hpc, wpc>>

\* Variant: wg.Wait() is missing.
WaitWorkersMissing ==
    /\ MainStep("waiting", "closing")
    /\ UNCHANGED <<unhealthy, listening, ctxDone, jobsClosed, acc, hpc, wpc>>

\* wg.Wait() returns when every worker has run wg.Done().
WaitWorkers ==
    /\ MainStep("waiting", "closing")
    /\ \A w \in Workers : wpc[w] \in {"done", "panicked"}
    /\ UNCHANGED <<unhealthy, listening, ctxDone, jobsClosed, acc, hpc, wpc>>

\* The deferred eventSink.Close(), then main returns and every goroutine ends.
CloseSink ==
    /\ MainStep("closing", "exited")
    /\ UNCHANGED <<unhealthy, listening, ctxDone, jobsClosed, acc, hpc, wpc>>

\* os.Exit(1): no port, no sink, or the metrics server fails at any time.
Fatal ==
    /\ \E from \in MainStates \ Terminal : MainStep(from, "fatal")
    /\ UNCHANGED <<unhealthy, listening, ctxDone, jobsClosed, acc, hpc, wpc>>

-----------------------------------------------------------------------------
Client(c)  == Dial(c) \/ ClientSend(c) \/ ClientClose(c)
Acceptor   == (\E c \in Conns : Accept(c) \/ Admit(c) \/ Reject(c)) \/ AcceptorStops
Handler(c) == \/ Start(c) \/ CheckCtx(c) \/ ReadFrame(c) \/ ReadFails(c)
              \/ SetGauge(c) \/ SendJob(c) \/ SendPanics(c)
              \/ DecGauge(c) \/ Release(c) \/ CloseConn(c)
Worker(w)  == \/ Recv(w) \/ RecvClosed(w) \/ UnmarshalFails(w) \/ Unmarshal(w)
              \/ Write(w) \/ Finish(w) \/ WorkerPanics(w)
Main       == \/ Listen \/ Serve \/ SetShutdown \/ CloseListener
              \/ Cancel \/ CloseJobs \/ WaitWorkers \/ CloseSink

Running == mpc \notin Terminal

Step == \/ \E c \in Conns : Client(c) \/ Handler(c)
        \/ Acceptor
        \/ \E w \in Workers : Worker(w)
        \/ Main
        \/ RecvSignal
        \/ Fatal

\* The process has ended and nothing moves any more.
Ended == ~Running /\ UNCHANGED vars

Next == (Running /\ Step) \/ Ended

Spec == Init /\ [][Next]_vars

(***************************************************************************)
(* Fairness.  The Go scheduler runs every goroutine that can run, so main, *)
(* the acceptor, each handler and each worker are weakly fair; the read    *)
(* deadline makes ReadFails unavoidable while no frame comes.  Nothing     *)
(* obliges a client to dial or send, the platform to send a signal, the    *)
(* metrics server to fail or a worker to panic.                            *)
(***************************************************************************)
Fairness ==
    /\ WF_vars(Running /\ Main)
    /\ WF_vars(Running /\ Acceptor)
    /\ \A c \in Conns : WF_vars(Running /\ Handler(c))
    /\ \A w \in Workers : WF_vars(Running /\ Worker(w))

FairSpec == Spec /\ Fairness

-----------------------------------------------------------------------------
(* Where a frame is *)

InHandler(f) == hpc[f[1]] \in {"gauge", "send"} /\ f[2] = nread[f[1]]
InQueue(f)   == \E k \in 1..Len(jobs) : jobs[k] = f
InWorker(f)  == \E w \in Workers : job[w] = f
Settled(f)   == outcome[f] # "none"
Dequeued(f)  == InWorker(f) \/ Settled(f)

PoolLost == \A w \in Workers : wpc[w] = "panicked"

-----------------------------------------------------------------------------
(* Safety *)

\* The connSem channel holds one token per handler between its admission and
\* its deferred release, the aegis_active_connections gauge counts handlers
\* between Inc and Dec, and neither passes MaxConns: no interleaving of the
\* accept loop with handlers that end leaks or doubles a slot.
SlotAccounting ==
    /\ connSem = Cardinality(Holders)
    /\ activeConns = Cardinality(Active)
    /\ activeConns <= connSem
    /\ connSem <= MaxConns

\* The accept loop turns a client away only while MaxConns handlers are really
\* there: a slot that a finished handler gave back is never forgotten.
RejectOnlyWhenFull ==
    [][\A c \in Conns : hpc[c] # "rejected" /\ hpc'[c] = "rejected"
                            => Cardinality(Holders) = MaxConns]_vars

\* A frame that frame.Read returned is in exactly one place: with its handler,
\* once in the jobs channel, with one worker, or settled once and for all; a
\* frame not yet read is nowhere.  Handlers, channel and workers neither lose
\* nor duplicate a frame while the process runs, nor on the way down.
ExactlyOnePlace ==
    /\ \A f \in Frame :
          /\ f[2] > nread[f[1]] => ~InQueue(f) /\ ~Dequeued(f)
          /\ f[2] <= nread[f[1]] => InHandler(f) \/ InQueue(f) \/ Dequeued(f)
          /\ InHandler(f) => ~InQueue(f) /\ ~Dequeued(f)
          /\ InQueue(f) => ~Dequeued(f)
          /\ InWorker(f) => ~Settled(f)
    /\ \A j, k \in 1..Len(jobs) : jobs[j] = jobs[k] => j = k
    /\ \A v, w \in Workers : job[v] = job[w] /\ job[v] # NoJob => v = w

\* Frames of one connection are queued and taken by workers in the order the
\* client sent them, whatever the handlers of other connections do.
PerConnectionOrder ==
    /\ \A j, k \in 1..Len(jobs) :
          jobs[j][1] = jobs[k][1] /\ j < k => jobs[j][2] < jobs[k][2]
    /\ \A f, g \in Frame : f[1] = g[1] /\ InQueue(f) /\ Dequeued(g) => g[2] < f[2]

\* When main goes on to close the sink, no worker can still be writing to it
\* and every frame read from a client is settled, except the one frame each
\* handler may hold and, if every worker has panicked, the queue.
SinkClosedAfterDrain ==
    mpc \in {"closing", "exited"} =>
        \A c \in Conns, i \in 1..MaxFrames :
            i <= nread[c] => \/ Settled(<<c, i>>)
                             \/ hpc[c] \in {"gauge", "send"} /\ i = nread[c]
                             \/ PoolLost /\ InQueue(<<c, i>>)

\* The metrics agree with what happened to the frames: a trade or log is
\* counted as processed once it was decoded, whatever the sink then did, and
\* the histogram has one observation per finished sink write.
CounterAccounting ==
    /\ \A t \in {"trade", "log"} :
          processed[t] = Cardinality({f \in Frame :
              Kind[f] = t /\ \/ Settled(f)
                             \/ \E w \in Workers : job[w] = f /\ wpc[w] = "write"})
    /\ observed + Cardinality({w \in Workers : wpc[w] = "finish"})
          = Cardinality({f \in Frame : outcome[f] \in {"ok", "failed"}})

-----------------------------------------------------------------------------
(* Liveness, under FairSpec *)

\* After the signal the process ends: no handler, blocked sender or panicked
\* worker can keep main in wg.Wait() for ever.
ShutdownEnds == mpc = "signalled" ~> mpc \in Terminal

\* A queued frame is settled as long as one worker is left, or the process ends:
\* neither bad frames nor refused writes wear the pool out.
QueuedIsSettled ==
    \A f \in Frame : InQueue(f) ~> Settled(f) \/ PoolLost \/ mpc \in Terminal

\* A handler gives its slot back, also when its client falls silent without
\* closing the connection and when the queue was full for a while, unless no
\* worker is left or the process ends.
SlotReturned ==
    \A c \in Conns : hpc[c] \in Holding ~>
        hpc[c] \notin Holding \/ PoolLost \/ mpc \in Terminal

-----------------------------------------------------------------------------
(* Refinement *)

Stage == [f \in Frame |->
    CASE Settled(f)  -> "settled"
      [] InWorker(f) /\ ~Settled(f) -> "taken"
      [] InQueue(f) /\ ~Dequeued(f) -> "queued"
      [] f[2] <= nread[f[1]] /\ ~InQueue(f) /\ ~Dequeued(f) -> "held"
      [] OTHER -> "unread"]

Phase == CASE mpc \in {"panicked", "fatal"} -> "crashed"
           [] mpc \in {"closing", "exited"} -> "stopped"
           [] mpc = "waiting"               -> "draining"
           [] OTHER                         -> "open"

D == INSTANCE Delivery WITH
        Senders <- Conns, stage <- Stage, phase <- Phase, poolLost <- PoolLost

\* The server implements the promise of Delivery: in order, once, and drained
\* on a clean stop.
ImplementsDelivery == D!DeliverySpec

\* NOTES.md on the four-step shutdown: "This shutdown sequence ensures queued
\* events are processed".  A handler that still has a frame to send when
\* close(jobs) runs panics, and the queue dies with the process.
ShutdownDrains ==
    mpc \in {"exited", "panicked"} => \A f \in Frame : ~InQueue(f) /\ ~InWorker(f)
=============================================================================

---------------------------- MODULE PostgresSink ----------------------------
(***************************************************************************)
(* internal/sink/postgres.go: the batching sink.                           *)
(*                                                                         *)
(* Workers append events to two buffers under a mutex and take both away   *)
(* when they are full; a background goroutine takes them at every tick;    *)
(* Close takes them once more after that goroutine has stopped.  Whoever   *)
(* takes a batch writes it to the database in one transaction, outside the *)
(* lock, so several batches can be in flight.  The database is modelled by *)
(* what the code asks of it: a transaction is applied whole or not at all, *)
(* any statement can fail, the answer to a commit can be lost, and a       *)
(* commit can be applied when its sender has given it up or has died.      *)
(***************************************************************************)
EXTENDS Naturals, Sequences, FiniteSets

CONSTANTS
    Writers,    \* workers that call Write
    Flusher,    \* the backgroundFlusher goroutine
    Closer,     \* main, in the deferred Close
    Events,     \* the events written, each once
    Type,       \* the payload of each event: "trade", "log" or "none"
    BatchSize,  \* s.batchSize
    PoolSize    \* connections of the pool

ASSUME SinkAssumption ==
    /\ IsFiniteSet(Events)
    /\ IsFiniteSet(Writers)
    /\ Flusher \notin Writers /\ Closer \notin Writers /\ Flusher # Closer
    /\ Type \in [Events -> {"trade", "log", "none"}]
    /\ BatchSize \in Nat \ {0}
    /\ PoolSize \in Nat \ {0}

Actors == Writers \cup {Flusher, Closer}

VARIABLES
    alive,      \* the process runs
    stopped,    \* main has called Close: stopCh is closed
    written,    \* events handed to Write
    trades,     \* s.trades
    logs,       \* s.logs
    pc,         \* where each actor is
    batch,      \* the two slices each actor has taken
    ins,        \* rows it has inserted in its open transaction
    db,         \* copies of each event's row in the database
    late,       \* commits whose flush has given up, still on their way
    fate,       \* how the flush that had the event ended (history)
    batches     \* the batches taken so far, as non-empty sets (history)

buffers == <<trades, logs>>
vars == <<alive, stopped, written, buffers, pc, batch, ins, db, late, fate, batches>>

NoBatch == [trades |-> <<>>, logs |-> <<>>]

\* The rows of a batch in the order flush inserts them: trades, then logs.
Size(b) == Len(b.trades) + Len(b.logs)
Row(b, k) == IF k <= Len(b.trades) THEN b.trades[k] ELSE b.logs[k - Len(b.trades)]
Rows(b, n) == {Row(b, k) : k \in 1..n}
Batch(a) == Rows(batch[a], Size(batch[a]))

\* Inside flush; and with a connection of the pool.
Flushing == {"begin", "insert", "commit", "applied"}
Connected == {"insert", "commit", "applied"}

TypeOK ==
    /\ alive \in BOOLEAN /\ stopped \in BOOLEAN
    /\ written \in SUBSET Events
    /\ trades \in Seq(Events) /\ logs \in Seq(Events)
    /\ pc \in [Actors -> {"idle", "wait", "done"} \cup Flushing]
    /\ batch \in [Actors -> [trades : Seq(Events), logs : Seq(Events)]]
    /\ ins \in [Actors -> Nat]
    /\ db \in [Events -> Nat]
    /\ late \in SUBSET SUBSET Events
    /\ fate \in [Events -> {"none", "ok", "failed"}]
    /\ batches \in SUBSET SUBSET Events

\* NewPostgres has pinged the database and started the flusher.
Init ==
    /\ trades = <<>> /\ logs = <<>>
    /\ pc = [a \in Actors |-> "idle"]
    /\ batch = [a \in Actors |-> NoBatch]
    /\ ins = [a \in Actors |-> 0]
    /\ db = [e \in Events |-> 0]
    /\ late = {}
    /\ fate = [e \in Events |-> "none"]
    /\ batches = {}
    /\ alive = TRUE /\ stopped = FALSE
    /\ written = {}

-----------------------------------------------------------------------------
(* Taking the buffers, under s.mu *)

\* Variant: the taken slices stay in the sink.
GrabKeepsBuffers(a, ts, ls, next) ==
    LET b == [trades |-> ts, logs |-> ls]
    IN /\ trades' = ts /\ logs' = ls
       /\ batch' = [batch EXCEPT ![a] = b]
       /\ pc' = [pc EXCEPT ![a] = IF Size(b) > 0 THEN "begin" ELSE next]
       /\ batches' = (batches \cup {Rows(b, Size(b))}) \ {{}}

\* The actor takes what the buffers hold and leaves them empty; it flushes a
\* batch that is not empty and goes to next otherwise.
Grab(a, ts, ls, next) ==
    LET b == [trades |-> ts, logs |-> ls]
    IN /\ trades' = <<>> /\ logs' = <<>>
       /\ batch' = [batch EXCEPT ![a] = b]
       /\ pc' = [pc EXCEPT ![a] = IF Size(b) > 0 THEN "begin" ELSE next]
       /\ batches' = (batches \cup {Rows(b, Size(b))}) \ {{}}

\* Variant: the size is compared with > in place of >=.
PutOffByOne(w, e) ==
    /\ LET ts == IF Type[e] = "trade" THEN Append(trades, e) ELSE trades
           ls == IF Type[e] = "log" THEN Append(logs, e) ELSE logs
       IN \/ /\ Len(ts) + Len(ls) > BatchSize
             /\ Grab(w, ts, ls, "idle")
          \/ /\ Len(ts) + Len(ls) <= BatchSize
             /\ trades' = ts /\ logs' = ls
             /\ pc' = pc /\ UNCHANGED <<batch, batches>>
    /\ written' = written \cup {e}
    /\ UNCHANGED <<ins, db, late, fate, alive, stopped>>

\* The locked part of Write: append, and take a full buffer before the lock is
\* released; Write returns at once unless it took a batch.
Put(w, e) ==
    /\ LET ts == IF Type[e] = "trade" THEN Append(trades, e) ELSE trades
           ls == IF Type[e] = "log" THEN Append(logs, e) ELSE logs
       IN \/ /\ Len(ts) + Len(ls) >= BatchSize
             /\ Grab(w, ts, ls, "idle")
          \/ /\ Len(ts) + Len(ls) < BatchSize
             /\ trades' = ts /\ logs' = ls
             /\ pc' = pc /\ UNCHANGED <<batch, batches>>
    /\ written' = written \cup {e}
    /\ UNCHANGED <<ins, db, late, fate, alive, stopped>>

\* A worker that is not inside Write writes an event, before Close.
Write(w, e) ==
    /\ alive /\ ~stopped
    /\ pc[w] = "idle"
    /\ e \in Events \ written
    /\ Put(w, e)

\* Variant: the ticker only looks for full batches.
TickOnlyFull ==
    /\ alive
    /\ pc[Flusher] = "idle"
    /\ Len(trades) + Len(logs) >= BatchSize
    /\ Grab(Flusher, trades, logs, "idle")
    /\ UNCHANGED <<ins, db, late, fate, alive, stopped, written>>

\* case <-ticker.C, also when stopCh is closed by now: select may pick either.
Tick ==
    /\ alive
    /\ pc[Flusher] = "idle"
    /\ Grab(Flusher, trades, logs, "idle")
    /\ UNCHANGED <<ins, db, late, fate, alive, stopped, written>>

\* case <-s.stopCh
FlusherStops ==
    /\ alive
    /\ pc[Flusher] = "idle"
    /\ stopped
    /\ pc' = [pc EXCEPT ![Flusher] = "done"]
    /\ UNCHANGED <<buffers, batch, ins, db, late, fate, batches, alive, stopped, written>>

\* Close begins: close(s.stopCh) ...
BeginClose ==
    /\ pc' = [pc EXCEPT ![Closer] = "wait"]
    /\ stopped' = TRUE
    /\ UNCHANGED <<buffers, batch, ins, db, late, fate, batches, alive, written>>

\* Main calls it once, when every worker has returned.
Close ==
    /\ alive /\ ~stopped
    /\ \A w \in Writers : pc[w] = "idle"
    /\ BeginClose

\* ... s.wg.Wait() and the last look at the buffers.
FinalGrab ==
    /\ alive
    /\ pc[Closer] = "wait"
    /\ pc[Flusher] = "done"
    /\ Grab(Closer, trades, logs, "done")
    /\ UNCHANGED <<ins, db, late, fate, alive, stopped, written>>

-----------------------------------------------------------------------------
(* flush *)

\* Where an actor goes on when its flush has returned.
After(a) == IF a = Closer THEN "done" ELSE "idle"

\* s.pool.Begin waits for a connection of the pool ...
Begin(a) ==
    /\ alive
    /\ pc[a] = "begin"
    /\ Cardinality({b \in Actors : pc[b] \in Connected}) < PoolSize
    /\ pc' = [pc EXCEPT ![a] = "insert"]
    /\ UNCHANGED <<buffers, batch, ins, db, late, fate, batches, alive, stopped, written>>

\* Variant: s.pool.Exec in place of tx.Exec, every row commits by itself.
InsertAutocommits(a) ==
    /\ alive
    /\ pc[a] = "insert"
    /\ ins[a] < Size(batch[a])
    /\ ins' = [ins EXCEPT ![a] = @ + 1]
    /\ db' = [db EXCEPT ![Row(batch[a], ins[a] + 1)] = @ + 1]
    /\ pc' = pc /\ UNCHANGED <<buffers, batch, late, fate, batches, alive, stopped, written>>

\* The next INSERT of the transaction.
Insert(a) ==
    /\ alive
    /\ pc[a] = "insert"
    /\ ins[a] < Size(batch[a])
    /\ ins' = [ins EXCEPT ![a] = @ + 1]
    /\ pc' = pc /\ UNCHANGED <<buffers, batch, db, late, fate, batches, alive, stopped, written>>

\* Every row is in: COMMIT is sent.
SendCommit(a) ==
    /\ alive
    /\ pc[a] = "insert"
    /\ ins[a] = Size(batch[a])
    /\ pc' = [pc EXCEPT ![a] = "commit"]
    /\ UNCHANGED <<buffers, batch, ins, db, late, fate, batches, alive, stopped, written>>

\* The database applies the inserted rows, whether or not the sender still lives.
Apply(a) ==
    /\ pc[a] = "commit"
    /\ db' = [e \in Events |-> IF e \in Rows(batch[a], ins[a]) THEN db[e] + 1 ELSE db[e]]
    /\ pc' = [pc EXCEPT ![a] = "applied"]
    /\ UNCHANGED <<buffers, batch, ins, late, fate, batches, alive, stopped, written>>

\* flush returns; the batch is not used again and the transaction is over.
Return(a, result) ==
    /\ fate' = [e \in Events |-> IF e \in Batch(a) THEN result ELSE fate[e]]
    /\ batch' = [batch EXCEPT ![a] = NoBatch]
    /\ ins' = [ins EXCEPT ![a] = 0]
    /\ pc' = [pc EXCEPT ![a] = After(a)]

\* Variant: the error of tx.Commit is ignored.
ReturnOkUnchecked(a) ==
    /\ alive
    /\ pc[a] \in {"commit", "applied"}
    /\ Return(a, "ok")
    /\ UNCHANGED <<buffers, db, late, batches, alive, stopped, written>>

ReturnOk(a) ==
    /\ alive
    /\ pc[a] = "applied"
    /\ Return(a, "ok")
    /\ UNCHANGED <<buffers, db, late, batches, alive, stopped, written>>

\* Variant: the same batch is tried again after any error.
ReturnErrorRetries(a) ==
    /\ alive
    /\ pc[a] \in Flushing
    /\ pc' = [pc EXCEPT ![a] = "begin"]
    /\ ins' = [ins EXCEPT ![a] = 0]
    /\ UNCHANGED <<buffers, batch, db, late, fate, batches, alive, stopped, written>>

\* No connection within the 10 s of the context, a failed INSERT (the deferred
\* Rollback discards the rows), a refused COMMIT, one whose answer is lost after
\* the database has applied it, or one given up while it is on its way: the
\* connection is closed, the database may yet apply what was sent.  Nobody tries
\* again.
ReturnError(a) ==
    /\ alive
    /\ pc[a] \in Flushing
    /\ Return(a, "failed")
    /\ \/ late' = late
       \/ pc[a] = "commit" /\ late' = late \cup {Batch(a)}
    /\ UNCHANGED <<buffers, db, batches, alive, stopped, written>>

\* The database applies a commit nobody waits for any more; nothing obliges it.
LateApply(b) ==
    /\ b \in late
    /\ db' = [e \in Events |-> IF e \in b THEN db[e] + 1 ELSE db[e]]
    /\ late' = late \ {b}
    /\ UNCHANGED <<buffers, pc, batch, ins, fate, batches, alive, stopped, written>>

\* The process dies: SIGKILL, or a panic in another goroutine.
Crash ==
    /\ alive
    /\ alive' = FALSE
    /\ UNCHANGED <<buffers, pc, batch, ins, db, late, fate, batches, stopped, written>>

-----------------------------------------------------------------------------
Flush(a) == \/ Begin(a) \/ Insert(a) \/ SendCommit(a) \/ Apply(a)
            \/ ReturnOk(a) \/ ReturnError(a)

\* Everything is closed or dead, and no commit is on its way.
Quiet == /\ ~alive \/ pc[Closer] = "done"
         /\ \A a \in Actors : pc[a] # "commit"
         /\ late = {}
         /\ UNCHANGED vars

Next == \/ \E w \in Writers, e \in Events : Write(w, e)
        \/ Tick \/ FlusherStops
        \/ Close \/ FinalGrab
        \/ \E a \in Actors : Flush(a)
        \/ \E b \in late : LateApply(b)
        \/ Crash
        \/ Quiet

Spec == Init /\ [][Next]_vars

(***************************************************************************)
(* Fairness.  The ticker keeps ticking, the scheduler runs the flusher and *)
(* Close, and the context's deadline makes every flush return.  Nothing    *)
(* obliges a worker to write, main to close or the process to die.         *)
(***************************************************************************)
Fairness ==
    /\ WF_vars(Tick) /\ WF_vars(FlusherStops) /\ WF_vars(FinalGrab)
    /\ \A a \in Actors : WF_vars(Flush(a))

FairSpec == Spec /\ Fairness

-----------------------------------------------------------------------------
Buffer == [trades |-> trades, logs |-> logs]
Held == Rows(Buffer, Size(Buffer))
Buffered(e) == e \in Held
Taken(a, e) == e \in Batch(a)

\* Outside the lock the buffers together hold less than a batch, and what an
\* actor has taken is never more than one: memory stays bounded while the
\* database is slow, and a payload-less event can never fill the buffer.
BatchBound ==
    /\ Size(Buffer) < BatchSize
    /\ \A a \in Actors : Size(batch[a]) <= BatchSize

\* An event that was written is in exactly one place: buffered, in one batch in
\* flight, or in a flush that has returned.  The unlocked flushes of workers,
\* ticker and Close neither share a row nor forget one.
OnePlace ==
    \A e \in Events :
        /\ Buffered(e) => /\ e \in written /\ fate[e] = "none"
                          /\ \A a \in Actors : ~Taken(a, e)
        /\ \A a \in Actors : Taken(a, e) =>
              /\ e \in written /\ fate[e] = "none"
              /\ \A b \in Actors : Taken(b, e) => a = b
        /\ e \in written /\ Type[e] # "none" =>
              Buffered(e) \/ (\E a \in Actors : Taken(a, e)) \/ fate[e] # "none"

\* The database never holds an event twice, crash or not, lost answers and late
\* commits included.
AtMostOneRow == \A e \in Events : db[e] <= 1

\* What flush reported as written is in the database.
ReportedIsStored == \A e \in Events : fate[e] = "ok" => db[e] = 1

\* A batch is in the database whole or not at all, at any moment, also when the
\* process died between two rows or between COMMIT and its answer.
BatchAtomic == \A b \in batches : \A e, f \in b : db[e] = db[f]

\* Under FairSpec: a written trade or log does not stay in memory; the ticker
\* or Close picks up what never fills a batch.
EventuallyFlushed ==
    \A e \in Events : e \in written /\ Type[e] # "none" ~> fate[e] # "none" \/ ~alive
=============================================================================

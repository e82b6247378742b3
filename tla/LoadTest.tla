------------------------------ MODULE LoadTest ------------------------------
(***************************************************************************)
(* The two load generators, cmd/bench/main.go and cmd/stress/main.go.      *)
(*                                                                         *)
(* Both read the server's processed counter, send, close, poll the counter *)
(* until it has grown by what was sent or a deadline passes, and report    *)
(* the difference as loss.  bench sends a fixed number on one connection   *)
(* and gives up at the first error; stress runs a sender per connection in *)
(* two phases and counts the errors.                                       *)
(*                                                                         *)
(* The server is modelled by what the tools can see of it: a counter,      *)
(* frames on their way to it, connections it drops, a restart that sets    *)
(* the counter back, other clients, and scrapes that go wrong.             *)
(***************************************************************************)
EXTENDS Naturals, Integers, FiniteSets

CONSTANTS
    Conns,        \* the connections of stress
    First,        \* the one that bench uses
    Target,       \* events bench sends; bound: sends of a stress sender in a phase
    SockBuf,      \* frames that fit between a sender and the server
    Earlier,      \* values of the counter before the test
    MaxOthers,    \* bound: events of other clients
    MaxDrops,     \* bound: connections the server drops
    MaxRestarts,  \* bound: restarts of the server
    MaxBad        \* bound: scrapes that go wrong

ASSUME LoadTestAssumption ==
    /\ IsFiniteSet(Conns) /\ First \in Conns
    /\ Target \in Nat \ {0} /\ SockBuf \in Nat \ {0}
    /\ Earlier \subseteq Nat
    /\ {MaxOthers, MaxDrops, MaxRestarts, MaxBad} \subseteq Nat

VARIABLES
    tool,      \* which of the two programs runs
    pc,        \* its main goroutine
    before,    \* beforeCount
    conn,      \* each connection
    spc,       \* each sender; bench's only one is main itself
    left,      \* how often it may still send in this phase
    sent,      \* res.sent; for bench the loop counter
    failed,    \* res.errors
    report,    \* <<>>, or what was printed, with the truth of that moment (history)
    counter,   \* the server's aegis_events_processed_total, summed
    inflight,  \* frames written on a connection and not yet processed
    real,      \* events of this test that the server has processed (history)
    others,    \* events of others since the first scrape
    drops, restarts, bad,  \* faults so far
    badFirst   \* the first scrape went wrong (history)

toolVars   == <<pc, before, conn, spc, left, sent, failed, report, badFirst>>
serverVars == <<counter, inflight, real, others, drops, restarts>>
vars == <<tool, toolVars, serverVars, bad>>

Used == IF tool = "bench" THEN {First} ELSE Conns
Ended == {"reported", "fatal"}

TypeOK ==
    /\ tool \in {"bench", "stress"}
    /\ pc \in {"first", "dial", "sustained", "spike", "drain", "last"} \cup Ended
    /\ before \in Nat /\ counter \in Nat /\ sent \in Nat /\ failed \in Nat
    /\ conn \in [Conns -> {"none", "up", "broken", "closed"}]
    /\ spc \in [Conns -> {"off", "check", "write", "count", "done"}]
    /\ left \in [Conns -> 0..Target]
    /\ inflight \in [Conns -> 0..SockBuf]
    /\ real \in Nat /\ others \in 0..MaxOthers
    /\ drops \in 0..MaxDrops /\ restarts \in 0..MaxRestarts /\ bad \in 0..MaxBad
    /\ badFirst \in BOOLEAN
    /\ report # <<>> => report.sent \in Nat /\ report.processed \in Int

Init ==
    /\ tool \in {"bench", "stress"}
    /\ pc = "first" /\ before = 0
    /\ conn = [c \in Conns |-> "none"]
    /\ spc = [c \in Conns |-> "off"]
    /\ left = [c \in Conns |-> 0]
    /\ sent = 0 /\ failed = 0 /\ report = <<>>
    /\ counter \in Earlier
    /\ inflight = [c \in Conns |-> 0]
    /\ real = 0 /\ others = 0
    /\ drops = 0 /\ restarts = 0 /\ bad = 0 /\ badFirst = FALSE

-----------------------------------------------------------------------------
(* queryProcessedCount *)

\* The sum of the counter's lines.  An answer without them, whatever its status,
\* reads as 0; a request that fails reads as 0 in stress.
Query(v) ==
    \/ v = counter /\ UNCHANGED bad
    \/ v = 0 /\ bad < MaxBad /\ bad' = bad + 1

\* A request that fails ends bench: log.Fatalf.
QueryFatal ==
    /\ tool = "bench" /\ pc \in {"first", "drain", "last"}
    /\ bad < MaxBad /\ bad' = bad + 1
    /\ pc' = "fatal"
    /\ UNCHANGED <<tool, before, conn, spc, left, sent, failed, report, badFirst, serverVars>>

-----------------------------------------------------------------------------
(* main *)

FirstQuery ==
    /\ pc = "first"
    /\ \E v \in {0, counter} : Query(v) /\ before' = v
    /\ badFirst' = (bad' # bad)
    /\ pc' = "dial"
    /\ others' = 0
    /\ UNCHANGED <<tool, conn, spc, left, sent, failed, report,
                   counter, inflight, real, drops, restarts>>

Dial(c) ==
    /\ pc = "dial" /\ c \in Used /\ conn[c] = "none"
    /\ conn' = [conn EXCEPT ![c] = "up"]
    /\ UNCHANGED <<tool, pc, before, spc, left, sent, failed, report, badFirst, serverVars, bad>>

DialFails ==
    /\ pc = "dial" /\ \E c \in Used : conn[c] = "none"
    /\ pc' = "fatal"
    /\ UNCHANGED <<tool, before, conn, spc, left, sent, failed, report, badFirst, serverVars, bad>>

\* runPhase: one sender per connection.
StartPhase(from, to) ==
    /\ pc = from
    /\ pc' = to
    /\ spc' = [c \in Conns |-> IF c \in Used THEN "check" ELSE "off"]
    /\ left' = [c \in Conns |-> Target]
    /\ UNCHANGED <<tool, before, conn, sent, failed, report, badFirst, serverVars, bad>>

\* wg.Wait() returns; for bench its loop has ended.
SendersDone == \A c \in Used : spc[c] = "done"

Sustained == /\ \A c \in Used : conn[c] # "none"
             /\ StartPhase("dial", "sustained")
Spike     == SendersDone /\ tool = "stress" /\ StartPhase("sustained", "spike")

\* Every connection is closed; the server still gets what was written.
CloseAll ==
    /\ SendersDone
    /\ pc = IF tool = "bench" THEN "sustained" ELSE "spike"
    /\ conn' = [c \in Conns |-> IF conn[c] = "up" THEN "closed" ELSE conn[c]]
    /\ pc' = "drain"
    /\ UNCHANGED <<tool, before, spc, left, sent, failed, report, badFirst, serverVars, bad>>

\* Variant: the count of the first scrape is not subtracted.
ReportTotal(v) ==
    /\ report' = [sent |-> sent, processed |-> v, real |-> real, badLast |-> bad' # bad]
    /\ pc' = "reported"

\* The report: sent, processed, and the truth at the time of the last scrape.
Report(v) ==
    /\ report' = [sent |-> sent, processed |-> v - before, real |-> real,
                  badLast |-> bad' # bad]
    /\ pc' = "reported"

\* waitForDrain: poll until the counter has grown by what was sent ...
DrainPoll ==
    /\ pc = "drain"
    /\ \E v \in {0, counter} :
          /\ Query(v)
          /\ \/ v - before >= sent /\ Report(v)
             \/ v - before < sent /\ UNCHANGED <<report, pc>>
    /\ UNCHANGED <<tool, before, conn, spc, left, sent, failed, badFirst, serverVars>>

\* Variant: the deadline is not looked at while the count is short.
DrainTimeoutNever ==
    /\ pc = "drain" /\ counter - before >= sent
    /\ pc' = "last"
    /\ UNCHANGED <<tool, before, conn, spc, left, sent, failed, report, badFirst, serverVars, bad>>

\* ... or until the deadline has passed,
DrainTimeout ==
    /\ pc = "drain"
    /\ pc' = "last"
    /\ UNCHANGED <<tool, before, conn, spc, left, sent, failed, report, badFirst, serverVars, bad>>

\* and then take what is there.
LastQuery ==
    /\ pc = "last"
    /\ \E v \in {0, counter} : Query(v) /\ Report(v)
    /\ UNCHANGED <<tool, before, conn, spc, left, sent, failed, badFirst, serverVars>>

-----------------------------------------------------------------------------
(* sender, and the send loop of bench *)

Sending == pc \notin {"first", "dial"} \cup Ended

\* Before the deadline, or below TargetEvents, and at the next tick.
NextTick(c) ==
    /\ Sending /\ spc[c] = "check" /\ left[c] > 0
    /\ left' = [left EXCEPT ![c] = @ - 1]
    /\ spc' = [spc EXCEPT ![c] = "write"]
    /\ UNCHANGED <<tool, pc, before, conn, sent, failed, report, badFirst, serverVars, bad>>

\* conn.Write has no deadline: it waits while the socket is full, and returns
\* nil when the kernel has the frame, which it also takes for a server that has
\* dropped the connection until the reset arrives ...
WriteOk(c) ==
    /\ Sending /\ spc[c] = "write"
    /\ \/ /\ conn[c] = "up" /\ inflight[c] < SockBuf
          /\ inflight' = [inflight EXCEPT ![c] = @ + 1]
       \/ conn[c] = "broken" /\ inflight' = inflight
    /\ spc' = [spc EXCEPT ![c] = "count"]
    /\ UNCHANGED <<tool, pc, before, conn, left, sent, failed, report, badFirst,
                   counter, real, others, drops, restarts, bad>>

\* ... and then the event is counted, maybe after the server has processed it.
CountSent(c) ==
    /\ Sending /\ spc[c] = "count"
    /\ sent' = sent + 1
    /\ spc' = [spc EXCEPT ![c] = "check"]
    /\ UNCHANGED <<tool, pc, before, conn, left, failed, report, badFirst, serverVars, bad>>

\* A broken or closed connection: stress counts an error and the sender stops,
\* to try again in the next phase; bench ends.
WriteFails(c) ==
    /\ Sending /\ spc[c] = "write"
    /\ conn[c] \in {"broken", "closed"}
    /\ spc' = [spc EXCEPT ![c] = "done"]
    /\ \/ tool = "stress" /\ failed' = failed + 1 /\ pc' = pc
       \/ tool = "bench" /\ failed' = failed /\ pc' = "fatal"
    /\ UNCHANGED <<tool, before, conn, left, sent, report, badFirst, serverVars, bad>>

\* The phase's deadline, at any time; bench stops after Target events.
SenderStops(c) ==
    /\ Sending /\ spc[c] = "check"
    /\ tool = "bench" => left[c] = 0
    /\ spc' = [spc EXCEPT ![c] = "done"]
    /\ UNCHANGED <<tool, pc, before, conn, left, sent, failed, report, badFirst, serverVars, bad>>

-----------------------------------------------------------------------------
(* The server, the rest of the world *)

\* A worker has decoded a frame of this test.
Process(c) ==
    /\ inflight[c] > 0
    /\ inflight' = [inflight EXCEPT ![c] = @ - 1]
    /\ counter' = counter + 1 /\ real' = real + 1
    /\ UNCHANGED <<tool, toolVars, others, drops, restarts, bad>>

OtherEvent ==
    /\ others < MaxOthers
    /\ others' = others + 1 /\ counter' = counter + 1
    /\ UNCHANGED <<tool, toolVars, inflight, real, drops, restarts, bad>>

Break(C) == [c \in Conns |-> IF c \in C /\ conn[c] = "up" THEN "broken" ELSE conn[c]]

\* The connection limit, the read timeout or a reset: what is on the way is lost.
Drop(c) ==
    /\ conn[c] = "up" /\ drops < MaxDrops
    /\ drops' = drops + 1
    /\ conn' = Break({c})
    /\ inflight' = [inflight EXCEPT ![c] = 0]
    /\ UNCHANGED <<tool, pc, before, spc, left, sent, failed, report, badFirst,
                   counter, real, others, restarts, bad>>

\* The server dies and comes back with a counter of zero.
Restart ==
    /\ restarts < MaxRestarts
    /\ restarts' = restarts + 1
    /\ counter' = 0
    /\ inflight' = [c \in Conns |-> 0]
    /\ conn' = Break(Conns)
    /\ UNCHANGED <<tool, pc, before, spc, left, sent, failed, report, badFirst,
                   real, others, drops, bad>>

-----------------------------------------------------------------------------
MainStep == \/ FirstQuery \/ (\E c \in Conns : Dial(c)) \/ DialFails
            \/ Sustained \/ Spike \/ CloseAll \/ LastQuery
Sender(c) == NextTick(c) \/ WriteOk(c) \/ CountSent(c) \/ WriteFails(c) \/ SenderStops(c)
World == OtherEvent \/ (\E c \in Conns : Drop(c)) \/ Restart

Over == pc \in Ended /\ UNCHANGED vars

Next == \/ MainStep \/ QueryFatal \/ DrainPoll \/ DrainTimeout
        \/ pc \notin Ended /\ World
        \/ \E c \in Conns : Sender(c) \/ Process(c)
        \/ Over

Spec == Init /\ [][Next]_vars

\* The scheduler runs main and the senders, clocks go on, scrapes return (http.Get
\* has no timeout), and a server that has not dropped a connection reads from it.
FairSpec ==
    /\ Spec
    /\ WF_vars(MainStep) /\ WF_vars(DrainTimeout)
    /\ \A c \in Conns : WF_vars(Sender(c)) /\ WF_vars(Process(c))

-----------------------------------------------------------------------------
\* The report tells the truth wherever the counter can.  Its total is final: no
\* sender of either phase is at work when it is read, and none adds to it later.
\* After a good first scrape and without other clients, "no loss" means that
\* every event sent was processed; and loss, after a good last scrape and
\* without a restart, means that some were not by then.
ReportIsTrue ==
    report # <<>> =>
        /\ report.sent = sent /\ \A c \in Conns : spc[c] \in {"off", "done"}
        /\ report.processed >= report.sent /\ others = 0 /\ ~badFirst
              => report.real = report.sent
        /\ report.processed < report.sent /\ ~badFirst /\ ~report.badLast /\ restarts = 0
              => report.real < report.sent

\* Under FairSpec: the tool comes to an end, also when the server has lost
\* events and the counter never reaches what was sent.
ToolEnds == <>(pc \in Ended)
=============================================================================

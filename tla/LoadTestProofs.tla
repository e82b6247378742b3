--------------------------- MODULE LoadTestProofs ---------------------------
(***************************************************************************)
(* Proofs about LoadTest: what bench and stress report is true wherever    *)
(* the server's counter can tell, for any number of connections and        *)
(* events, drops, restarts, other clients and scrapes that go wrong.       *)
(***************************************************************************)
EXTENDS LoadTest, FiniteSetTheorems, TLAPS

\* The frames on their way, and the senders that have written an event and not
\* yet counted it.
InFlight == {e \in Conns \X (1..SockBuf) : e[2] <= inflight[e[1]]}
Counting == {c \in Conns : spc[c] = "count"}

\* No more is processed or on its way than was written; what was written is
\* counted, or about to be.
Written == real + Cardinality(InFlight) <= sent + Cardinality(Counting)

\* Nothing is sent before the first phase, and nobody sends after the last.
Phases ==
    /\ \A c \in Conns \ Used : spc[c] = "off"
    /\ pc \in {"first", "dial"} =>
          /\ \A c \in Conns : spc[c] = "off" /\ inflight[c] = 0
          /\ real = 0 /\ sent = 0
    /\ pc \in {"drain", "last", "reported"} => \A c \in Conns : spc[c] \in {"off", "done"}

\* What the growth of the counter since the first scrape says of this test:
\* without a bad first scrape at most what was processed, by this test or
\* another; without a restart at least that.
Growth ==
    pc \notin {"first", "fatal"} =>
        /\ ~badFirst => counter <= before + real + others
        /\ restarts = 0 => counter >= before + real

Silent == pc # "reported" => report = <<>>

\* The inductive invariant.
Inv == TypeOK /\ Written /\ Phases /\ Growth /\ Silent /\ ReportIsTrue

-----------------------------------------------------------------------------
(* Counting frames and senders *)

\* One element more, one less, or a smaller set.
LEMMA SizeFacts ==
    ASSUME NEW S, IsFiniteSet(S)
    PROVE  /\ Cardinality(S) \in Nat
           /\ \A x : x \notin S => Cardinality(S \cup {x}) = Cardinality(S) + 1
           /\ \A x \in S : Cardinality(S \ {x}) = Cardinality(S) - 1
           /\ \A T \in SUBSET S : IsFiniteSet(T) /\ Cardinality(T) <= Cardinality(S)
BY FS_CardinalityType, FS_AddElement, FS_RemoveElement, FS_Subset

LEMMA SetsAreFinite ==
    /\ IsFiniteSet(InFlight) /\ IsFiniteSet(Counting)
    /\ IsFiniteSet(InFlight') /\ IsFiniteSet(Counting')
<1>1. IsFiniteSet(Conns) /\ SockBuf \in Nat
  BY LoadTestAssumption
<1>2. IsFiniteSet(1..SockBuf)
  BY <1>1, FS_Interval
<1>3. IsFiniteSet(Conns \X (1..SockBuf))
  BY <1>1, <1>2, FS_Product
<1>4. /\ InFlight \subseteq Conns \X (1..SockBuf) /\ InFlight' \subseteq Conns \X (1..SockBuf)
      /\ Counting \subseteq Conns /\ Counting' \subseteq Conns
  BY DEF InFlight, Counting
<1> QED BY <1>1, <1>3, <1>4, FS_Subset

\* The sizes before and after a step.
LEMMA SizesAreNumbers ==
    /\ Cardinality(InFlight) \in Nat /\ Cardinality(Counting) \in Nat
    /\ Cardinality(InFlight') \in Nat /\ Cardinality(Counting') \in Nat
BY SetsAreFinite, SizeFacts

\* A frame is written, is processed, or frames are lost.
LEMMA FrameWritten ==
    ASSUME TypeOK, NEW c \in Conns, inflight[c] < SockBuf,
           inflight' = [inflight EXCEPT ![c] = @ + 1]
    PROVE  Cardinality(InFlight') = Cardinality(InFlight) + 1
<1> DEFINE x == <<c, inflight[c] + 1>>
<1>1. /\ inflight \in [Conns -> 0..SockBuf] /\ SockBuf \in Nat
      /\ \A d \in Conns : inflight'[d] = IF d = c THEN inflight[c] + 1 ELSE inflight[d]
  BY LoadTestAssumption DEF TypeOK
<1>2. x \notin InFlight
  BY <1>1 DEF InFlight
<1>3. InFlight' = InFlight \cup {x}
  <2>1. ASSUME NEW d \in Conns, NEW k \in 1..SockBuf
        PROVE  <<d, k>> \in InFlight' <=> <<d, k>> \in InFlight \cup {x}
    <3>1. CASE d = c
      BY <1>1, <3>1 DEF InFlight
    <3>2. CASE d # c
      BY <1>1, <3>2 DEF InFlight
    <3> QED BY <3>1, <3>2
  <2>2. x \in Conns \X (1..SockBuf)
    BY <1>1
  <2>3. InFlight' \subseteq Conns \X (1..SockBuf) /\ InFlight \cup {x} \subseteq Conns \X (1..SockBuf)
    BY <2>2 DEF InFlight
  <2> HIDE DEF x
  <2> QED BY <2>1, <2>3
<1> HIDE DEF x
<1> QED BY <1>2, <1>3, SetsAreFinite, SizeFacts

LEMMA FrameProcessed ==
    ASSUME TypeOK, NEW c \in Conns, inflight[c] > 0,
           inflight' = [inflight EXCEPT ![c] = @ - 1]
    PROVE  Cardinality(InFlight') = Cardinality(InFlight) - 1
<1> DEFINE x == <<c, inflight[c]>>
<1>1. /\ inflight \in [Conns -> 0..SockBuf] /\ SockBuf \in Nat
      /\ \A d \in Conns : inflight'[d] = IF d = c THEN inflight[c] - 1 ELSE inflight[d]
  BY LoadTestAssumption DEF TypeOK
<1>2. x \in InFlight
  BY <1>1 DEF InFlight
<1>3. InFlight' = InFlight \ {x}
  <2>1. ASSUME NEW d \in Conns, NEW k \in 1..SockBuf
        PROVE  <<d, k>> \in InFlight' <=> <<d, k>> \in InFlight \ {x}
    <3>1. CASE d = c
      BY <1>1, <3>1 DEF InFlight
    <3>2. CASE d # c
      BY <1>1, <3>2 DEF InFlight
    <3> QED BY <3>1, <3>2
  <2>2. InFlight' \subseteq Conns \X (1..SockBuf) /\ InFlight \ {x} \subseteq Conns \X (1..SockBuf)
    BY DEF InFlight
  <2> HIDE DEF x
  <2> QED BY <2>1, <2>2
<1> HIDE DEF x
<1> QED BY <1>2, <1>3, SetsAreFinite, SizeFacts

LEMMA FramesLost ==
    ASSUME TypeOK, inflight' \in [Conns -> 0..SockBuf],
           \A c \in Conns : inflight'[c] <= inflight[c]
    PROVE  Cardinality(InFlight') <= Cardinality(InFlight)
<1>1. InFlight' \subseteq InFlight
  BY LoadTestAssumption DEF InFlight, TypeOK
<1> QED BY <1>1, SetsAreFinite, SizeFacts

\* A sender starts counting or stops.
LEMMA SenderMoves ==
    ASSUME TypeOK, NEW c \in Conns, NEW to, spc' = [spc EXCEPT ![c] = to]
    PROVE  /\ spc[c] # "count" /\ to # "count" => Counting' = Counting
           /\ spc[c] # "count" /\ to = "count" => Cardinality(Counting') = Cardinality(Counting) + 1
           /\ spc[c] = "count" /\ to # "count" => Cardinality(Counting') = Cardinality(Counting) - 1
<1>1. \A d \in Conns : spc'[d] = IF d = c THEN to ELSE spc[d]
  BY DEF TypeOK
<1>2. spc[c] # "count" /\ to # "count" => Counting' = Counting
  BY <1>1 DEF Counting
<1>3. spc[c] # "count" /\ to = "count" => c \notin Counting /\ Counting' = Counting \cup {c}
  BY <1>1 DEF Counting
<1>4. spc[c] = "count" /\ to # "count" => c \in Counting /\ Counting' = Counting \ {c}
  BY <1>1 DEF Counting
<1> QED BY <1>2, <1>3, <1>4, SetsAreFinite, SizeFacts

-----------------------------------------------------------------------------
(* The induction, conjunct by conjunct *)

LEMMA InvInit == Init => Inv
<1> SUFFICES ASSUME Init PROVE Inv
  OBVIOUS
<1>1. /\ IsFiniteSet(Conns) /\ Target \in Nat /\ SockBuf \in Nat /\ Earlier \subseteq Nat
      /\ MaxOthers \in Nat /\ MaxDrops \in Nat /\ MaxRestarts \in Nat /\ MaxBad \in Nat
  BY LoadTestAssumption
<1>2. /\ 0 \in 0..Target /\ 0 \in 0..SockBuf /\ 0 \in 0..MaxOthers /\ 0 \in 0..MaxDrops
      /\ 0 \in 0..MaxRestarts /\ 0 \in 0..MaxBad
  BY <1>1
<1>3. TypeOK
  BY <1>1, <1>2 DEF Init, TypeOK
<1>4. InFlight = {} /\ Counting = {}
  BY <1>1 DEF Init, InFlight, Counting
<1>5. Written
  BY <1>4, FS_EmptySet DEF Init, Written
<1>6. Phases /\ Growth /\ Silent
  BY DEF Init, Phases, Growth, Silent
<1>7. ReportIsTrue
  BY DEF Init, ReportIsTrue
<1> QED BY <1>3, <1>5, <1>6, <1>7 DEF Inv

\* A scrape reads a number, and one that goes wrong is counted.
LEMMA QueryFacts ==
    ASSUME TypeOK, NEW v, Query(v)
    PROVE  /\ v \in Nat /\ bad' \in 0..MaxBad
           /\ v = counter \/ (v = 0 /\ bad' # bad)
BY LoadTestAssumption DEF TypeOK, Query

LEMMA TypeStep == TypeOK /\ [Next]_vars => TypeOK'
<1> SUFFICES ASSUME TypeOK, [Next]_vars PROVE TypeOK'
  OBVIOUS
<1>0. /\ Target \in Nat /\ SockBuf \in Nat /\ MaxOthers \in Nat /\ MaxDrops \in Nat
      /\ MaxRestarts \in Nat /\ MaxBad \in Nat
      /\ 0 \in 0..MaxOthers /\ 0 \in 0..SockBuf /\ Target \in 0..Target
  BY LoadTestAssumption
<1>b. bad < MaxBad /\ bad' = bad + 1 => bad' \in 0..MaxBad
  BY <1>0 DEF TypeOK
<1>1. CASE FirstQuery
  <2>1. PICK v \in {0, counter} : Query(v) /\ before' = v
    BY <1>1 DEF FirstQuery
  <2>2. before' \in Nat /\ bad' \in 0..MaxBad
    BY <2>1, QueryFacts
  <2> QED BY <1>0, <1>1, <2>2 DEF FirstQuery, TypeOK
<1>2. ASSUME NEW c \in Conns, Dial(c) PROVE TypeOK'
  BY <1>2 DEF Dial, TypeOK, serverVars
<1>3. CASE DialFails \/ DrainTimeout
  BY <1>3 DEF DialFails, DrainTimeout, TypeOK, serverVars, Ended
<1>4. CASE Sustained \/ Spike
  <2>1. ASSUME NEW from, NEW to \in {"sustained", "spike"}, StartPhase(from, to) PROVE TypeOK'
    BY <1>0, <2>1 DEF StartPhase, TypeOK, serverVars
  <2> QED BY <1>4, <2>1 DEF Sustained, Spike
<1>5. CASE CloseAll
  BY <1>5 DEF CloseAll, TypeOK, serverVars
<1>6. CASE LastQuery \/ DrainPoll
  <2>1. PICK v \in {0, counter} : Query(v) /\ (Report(v) \/ UNCHANGED <<report, pc>>)
    BY <1>6 DEF LastQuery, DrainPoll
  <2>2. v \in Nat /\ bad' \in 0..MaxBad
    BY <2>1, QueryFacts
  <2>3. UNCHANGED <<tool, before, conn, spc, left, sent, failed, badFirst,
                    counter, inflight, real, others, drops, restarts>>
    BY <1>6 DEF LastQuery, DrainPoll, serverVars
  <2>4. CASE Report(v)
    <3>1. report'.sent = sent /\ report'.processed = v - before /\ pc' = "reported"
      BY <2>4 DEF Report
    <3>2. report'.sent \in Nat /\ report'.processed \in Int
      BY <3>1, <2>2 DEF TypeOK
    <3> QED BY <2>2, <2>3, <3>1, <3>2 DEF TypeOK, Ended
  <2>5. CASE UNCHANGED <<report, pc>>
    BY <2>2, <2>3, <2>5 DEF TypeOK
  <2> QED BY <2>1, <2>4, <2>5
<1>7. CASE QueryFatal
  BY <1>7, <1>b DEF QueryFatal, TypeOK, serverVars, Ended
<1>8. CASE OtherEvent
  BY <1>0, <1>8 DEF OtherEvent, TypeOK, toolVars
<1>9. ASSUME NEW c \in Conns, Drop(c) PROVE TypeOK'
  BY <1>0, <1>9 DEF Drop, Break, TypeOK
<1>10. CASE Restart
  BY <1>0, <1>10 DEF Restart, Break, TypeOK
<1>11. ASSUME NEW c \in Conns, NextTick(c) PROVE TypeOK'
  BY <1>0, <1>11 DEF NextTick, TypeOK, serverVars
<1>12. ASSUME NEW c \in Conns, WriteOk(c) PROVE TypeOK'
  BY <1>0, <1>12 DEF WriteOk, TypeOK
<1>13. ASSUME NEW c \in Conns, CountSent(c) PROVE TypeOK'
  BY <1>13 DEF CountSent, TypeOK, serverVars
<1>14. ASSUME NEW c \in Conns, WriteFails(c) \/ SenderStops(c) PROVE TypeOK'
  <2>1. /\ spc' = [spc EXCEPT ![c] = "done"] /\ failed' \in Nat
        /\ pc' = pc \/ pc' = "fatal"
        /\ UNCHANGED <<tool, before, conn, left, sent, report, badFirst, counter, inflight,
                       real, others, drops, restarts, bad>>
    BY <1>14 DEF WriteFails, SenderStops, TypeOK, serverVars
  <2>2. pc' \in {"first", "dial", "sustained", "spike", "drain", "last"} \cup Ended
    BY <2>1 DEF TypeOK, Ended
  <2> QED BY <2>1, <2>2 DEF TypeOK
<1>15. ASSUME NEW c \in Conns, Process(c) PROVE TypeOK'
  BY <1>0, <1>15 DEF Process, TypeOK, toolVars
<1>16. CASE UNCHANGED vars
  BY <1>16 DEF vars, TypeOK, toolVars, serverVars
<1> QED
  BY <1>1, <1>2, <1>3, <1>4, <1>5, <1>6, <1>7, <1>8, <1>9, <1>10, <1>11, <1>12, <1>13,
     <1>14, <1>15, <1>16
     DEF Next, MainStep, World, Sender, Over

LEMMA WrittenStep == Inv /\ [Next]_vars => Written'
<1> SUFFICES ASSUME Inv, [Next]_vars PROVE Written'
  OBVIOUS
<1>0. /\ TypeOK /\ Written /\ Phases
      /\ real \in Nat /\ sent \in Nat
  BY DEF Inv, TypeOK
<1>s. /\ Cardinality(InFlight) \in Nat /\ Cardinality(Counting) \in Nat
      /\ Cardinality(InFlight') \in Nat /\ Cardinality(Counting') \in Nat
  BY SizesAreNumbers
<1>1. CASE UNCHANGED <<real, sent, inflight, spc>>
  BY <1>0, <1>1 DEF Written, InFlight, Counting
<1>2. CASE Sustained \/ Spike
  <2>1. UNCHANGED <<real, sent, inflight>> /\ Counting' = {}
    BY <1>2 DEF Sustained, Spike, StartPhase, serverVars, Counting
  <2>2. \A c \in Conns : spc[c] # "count"
    <3>1. CASE Sustained
      BY <1>0, <3>1 DEF Phases, Sustained, StartPhase
    <3>2. CASE Spike
      BY <1>0, <3>2 DEF Phases, Spike, SendersDone
    <3> QED BY <1>2, <3>1, <3>2
  <2>3. Counting = {} /\ InFlight' = InFlight
    BY <2>1, <2>2 DEF Counting, InFlight
  <2> QED BY <1>0, <2>1, <2>3 DEF Written
<1>3. ASSUME NEW c \in Conns, Drop(c) PROVE Written'
  <2>1. /\ UNCHANGED <<real, sent, spc>>
        /\ inflight' \in [Conns -> 0..SockBuf]
        /\ \A d \in Conns : inflight'[d] <= inflight[d]
    BY <1>0, <1>3, LoadTestAssumption DEF Drop, TypeOK
  <2>2. Counting' = Counting /\ Cardinality(InFlight') <= Cardinality(InFlight)
    BY <1>0, <2>1, FramesLost DEF Counting
  <2> QED BY <1>0, <1>s, <2>1, <2>2 DEF Written
<1>4. CASE Restart
  <2>1. /\ UNCHANGED <<real, sent, spc>>
        /\ inflight' \in [Conns -> 0..SockBuf]
        /\ \A d \in Conns : inflight'[d] <= inflight[d]
    BY <1>0, <1>4, LoadTestAssumption DEF Restart, TypeOK
  <2>2. Counting' = Counting /\ Cardinality(InFlight') <= Cardinality(InFlight)
    BY <1>0, <2>1, FramesLost DEF Counting
  <2> QED BY <1>0, <1>s, <2>1, <2>2 DEF Written
<1>5. ASSUME NEW c \in Conns, NextTick(c) \/ WriteFails(c) \/ SenderStops(c) PROVE Written'
  <2>1. PICK to \in {"write", "done"} : spc' = [spc EXCEPT ![c] = to]
    BY <1>5 DEF NextTick, WriteFails, SenderStops
  <2>2. spc[c] # "count" /\ UNCHANGED <<real, sent, inflight>>
    BY <1>5 DEF NextTick, WriteFails, SenderStops, serverVars
  <2>3. Counting' = Counting /\ InFlight' = InFlight
    BY <1>0, <2>1, <2>2, SenderMoves DEF InFlight
  <2> QED BY <1>0, <2>2, <2>3 DEF Written
<1>6. ASSUME NEW c \in Conns, WriteOk(c) PROVE Written'
  <2>1. /\ spc[c] = "write" /\ spc' = [spc EXCEPT ![c] = "count"] /\ UNCHANGED <<real, sent>>
        /\ \/ inflight[c] < SockBuf /\ inflight' = [inflight EXCEPT ![c] = @ + 1]
           \/ inflight' = inflight
    BY <1>6 DEF WriteOk
  <2>2. Cardinality(Counting') = Cardinality(Counting) + 1
    BY <1>0, <2>1, SenderMoves
  <2>3. Cardinality(InFlight') <= Cardinality(InFlight) + 1
    <3>1. CASE inflight' = inflight
      BY <1>s, <3>1 DEF InFlight
    <3>2. CASE inflight[c] < SockBuf /\ inflight' = [inflight EXCEPT ![c] = @ + 1]
      <4>1. Cardinality(InFlight') = Cardinality(InFlight) + 1
        BY <1>0, <3>2, FrameWritten
      <4> QED BY <1>s, <4>1
    <3> QED BY <2>1, <3>1, <3>2
  <2> QED BY <1>0, <1>s, <2>1, <2>2, <2>3 DEF Written
<1>7. ASSUME NEW c \in Conns, CountSent(c) PROVE Written'
  <2>1. /\ spc[c] = "count" /\ spc' = [spc EXCEPT ![c] = "check"]
        /\ sent' = sent + 1 /\ UNCHANGED <<real, inflight>>
    BY <1>7 DEF CountSent, serverVars
  <2>2. Cardinality(Counting') = Cardinality(Counting) - 1
    <3>1. spc[c] = "count" /\ "check" # "count" => Cardinality(Counting') = Cardinality(Counting) - 1
      BY <1>0, <2>1, SenderMoves, Zenon
    <3> QED BY <2>1, <3>1
  <2>3. InFlight' = InFlight
    BY <2>1 DEF InFlight
  <2> QED BY <1>0, <1>s, <2>1, <2>2, <2>3 DEF Written
<1>8. ASSUME NEW c \in Conns, Process(c) PROVE Written'
  <2>1. /\ inflight[c] > 0 /\ inflight' = [inflight EXCEPT ![c] = @ - 1]
        /\ real' = real + 1 /\ UNCHANGED <<sent, spc>>
    BY <1>8 DEF Process, toolVars
  <2>2. Cardinality(InFlight') = Cardinality(InFlight) - 1 /\ Counting' = Counting
    BY <1>0, <2>1, FrameProcessed DEF Counting
  <2> QED BY <1>0, <1>s, <2>1, <2>2 DEF Written
<1>9. CASE \/ FirstQuery \/ (\E c \in Conns : Dial(c)) \/ DialFails \/ CloseAll \/ LastQuery
           \/ QueryFatal \/ DrainPoll \/ DrainTimeout \/ OtherEvent \/ UNCHANGED vars
  <2>1. UNCHANGED <<real, sent, inflight, spc>>
    BY <1>9 DEF FirstQuery, Dial, DialFails, CloseAll, LastQuery, QueryFatal, DrainPoll,
                DrainTimeout, OtherEvent, vars, toolVars, serverVars
  <2> QED BY <1>1, <2>1
<1> QED
  BY <1>2, <1>3, <1>4, <1>5, <1>6, <1>7, <1>8, <1>9
     DEF Next, MainStep, World, Sender, Over

\* A sender's step: it is at work, of a phase, and stays in it or ends the tool.
LEMMA SenderFacts ==
    ASSUME Inv, NEW c \in Conns, Sender(c)
    PROVE  /\ pc \in {"sustained", "spike"} /\ (pc' = pc \/ pc' = "fatal")
           /\ c \in Used /\ spc' \in [Conns -> {"off", "check", "write", "count", "done"}]
           /\ \A d \in Conns \ {c} : spc'[d] = spc[d]
           /\ UNCHANGED <<tool, before, report, badFirst, counter, real, others, restarts, bad>>
<1>1. Sending /\ spc[c] \notin {"off", "done"}
  BY DEF Sender, NextTick, WriteOk, CountSent, WriteFails, SenderStops
<1>2. pc \in {"sustained", "spike"}
  BY <1>1 DEF Sending, Inv, TypeOK, Phases, Ended
<1>3. c \in Used
  BY <1>1 DEF Inv, Phases
<1>4. PICK to \in {"check", "write", "count", "done"} : spc' = [spc EXCEPT ![c] = to]
  BY DEF Sender, NextTick, WriteOk, CountSent, WriteFails, SenderStops
<1>5. /\ spc' \in [Conns -> {"off", "check", "write", "count", "done"}]
      /\ \A d \in Conns \ {c} : spc'[d] = spc[d]
  BY <1>4 DEF Inv, TypeOK
<1>6. /\ pc' = pc \/ pc' = "fatal"
      /\ UNCHANGED <<tool, before, report, badFirst, counter, real, others, restarts, bad>>
  BY DEF Sender, NextTick, WriteOk, CountSent, WriteFails, SenderStops, serverVars
<1> QED BY <1>2, <1>3, <1>5, <1>6

LEMMA PhasesStep == Inv /\ [Next]_vars => Phases'
<1> SUFFICES ASSUME Inv, [Next]_vars PROVE Phases'
  OBVIOUS
<1>0. TypeOK /\ Phases
  BY DEF Inv
<1>1. CASE FirstQuery \/ (\E c \in Conns : Dial(c))
  <2>1. /\ pc \in {"first", "dial"} /\ pc' = "dial"
        /\ UNCHANGED <<tool, spc, inflight, real, sent>>
    BY <1>1 DEF FirstQuery, Dial, serverVars
  <2> QED BY <1>0, <2>1 DEF Phases, Used
<1>2. CASE DialFails \/ QueryFatal
  <2>1. pc' = "fatal" /\ UNCHANGED <<tool, spc>>
    BY <1>2 DEF DialFails, QueryFatal
  <2> QED BY <1>0, <2>1 DEF Phases, Used
<1>3. CASE Sustained \/ Spike
  <2>1. /\ pc' \in {"sustained", "spike"} /\ tool' = tool
        /\ \A c \in Conns \ Used : spc'[c] = "off"
    BY <1>3 DEF Sustained, Spike, StartPhase
  <2>2. Used' = Used
    BY <2>1 DEF Used
  <2> QED BY <2>1, <2>2 DEF Phases
<1>4. CASE CloseAll
  <2>1. /\ pc' = "drain" /\ UNCHANGED <<tool, spc>> /\ \A c \in Used : spc[c] = "done"
    BY <1>4 DEF CloseAll, SendersDone
  <2>2. \A c \in Conns : spc[c] \in {"off", "done"}
    BY <1>0, <2>1 DEF Phases
  <2> QED BY <1>0, <2>1, <2>2 DEF Phases, Used
<1>5. CASE LastQuery \/ DrainPoll \/ DrainTimeout
  <2>1. /\ pc \in {"drain", "last"} /\ pc' \in {"drain", "last", "reported"}
        /\ UNCHANGED <<tool, spc>>
    BY <1>5 DEF LastQuery, DrainPoll, DrainTimeout, Report
  <2> QED BY <1>0, <2>1 DEF Phases, Used
<1>6. CASE OtherEvent \/ UNCHANGED vars
  <2>1. UNCHANGED <<tool, pc, spc, inflight, real, sent>>
    BY <1>6 DEF OtherEvent, vars, toolVars, serverVars
  <2> QED BY <1>0, <2>1 DEF Phases, Used
<1>7. CASE Restart \/ (\E c \in Conns : Drop(c))
  <2>1. /\ UNCHANGED <<tool, pc, spc, real, sent>>
        /\ \A c \in Conns : inflight'[c] = inflight[c] \/ inflight'[c] = 0
    BY <1>0, <1>7 DEF Restart, Drop, TypeOK
  <2> QED BY <1>0, <2>1 DEF Phases, Used
<1>8. ASSUME NEW c \in Conns, Sender(c) PROVE Phases'
  <2>1. Used' = Used
    BY <1>8, SenderFacts DEF Used
  <2> QED BY <1>0, <1>8, <2>1, SenderFacts DEF Phases
<1>9. ASSUME NEW c \in Conns, Process(c) PROVE Phases'
  <2>1. UNCHANGED <<tool, pc, spc>> /\ inflight[c] > 0
    BY <1>9 DEF Process, toolVars
  <2>2. pc \notin {"first", "dial"}
    BY <1>0, <2>1 DEF Phases
  <2> QED BY <1>0, <2>1, <2>2 DEF Phases, Used
<1> QED
  BY <1>1, <1>2, <1>3, <1>4, <1>5, <1>6, <1>7, <1>8, <1>9 DEF Next, MainStep, World, Over

LEMMA GrowthStep == Inv /\ [Next]_vars => Growth'
<1> SUFFICES ASSUME Inv, [Next]_vars PROVE Growth'
  OBVIOUS
<1>0. /\ TypeOK /\ Growth /\ Phases
      /\ before \in Nat /\ counter \in Nat /\ real \in Nat /\ others \in Nat /\ restarts \in Nat
  BY LoadTestAssumption DEF Inv, TypeOK
<1>1. CASE FirstQuery
  <2>1. PICK v \in {0, counter} : Query(v) /\ before' = v
    BY <1>1 DEF FirstQuery
  <2>2. /\ badFirst' = (bad' # bad) /\ others' = 0 /\ UNCHANGED <<counter, real, restarts>>
        /\ pc = "first"
    BY <1>1 DEF FirstQuery
  <2>3. real = 0
    BY <1>0, <2>2 DEF Phases
  <2>4. before' = counter \/ (before' = 0 /\ badFirst')
    BY <1>0, <2>1, <2>2, QueryFacts
  <2> QED BY <1>0, <2>2, <2>3, <2>4 DEF Growth
<1>2. CASE DialFails \/ QueryFatal
  BY <1>2 DEF DialFails, QueryFatal, Growth
<1>3. CASE \/ (\E c \in Conns : Dial(c)) \/ Sustained \/ Spike \/ CloseAll \/ LastQuery
           \/ DrainPoll \/ DrainTimeout \/ UNCHANGED vars
  <2>1. UNCHANGED <<before, badFirst, counter, real, others, restarts>>
    BY <1>3 DEF Dial, Sustained, Spike, StartPhase, CloseAll, LastQuery, DrainPoll,
                DrainTimeout, vars, toolVars, serverVars
  <2>2. pc' = pc \/ pc \notin {"first", "fatal"}
    BY <1>3 DEF Dial, Sustained, Spike, StartPhase, CloseAll, LastQuery, DrainPoll,
                DrainTimeout, vars, toolVars
  <2> QED BY <1>0, <2>1, <2>2 DEF Growth
<1>4. CASE OtherEvent
  <2>1. /\ others' = others + 1 /\ counter' = counter + 1
        /\ UNCHANGED <<pc, before, badFirst, real, restarts>>
    BY <1>4 DEF OtherEvent, toolVars
  <2> QED BY <1>0, <2>1 DEF Growth
<1>5. ASSUME NEW c \in Conns, Drop(c) PROVE Growth'
  <2>1. UNCHANGED <<pc, before, badFirst, counter, real, others, restarts>>
    BY <1>5 DEF Drop
  <2> QED BY <1>0, <2>1 DEF Growth
<1>6. CASE Restart
  <2>1. /\ restarts' = restarts + 1 /\ counter' = 0
        /\ UNCHANGED <<pc, before, badFirst, real, others>>
    BY <1>6 DEF Restart
  <2> QED BY <1>0, <2>1 DEF Growth
<1>7. ASSUME NEW c \in Conns, Sender(c) PROVE Growth'
  BY <1>0, <1>7, SenderFacts DEF Growth
<1>8. ASSUME NEW c \in Conns, Process(c) PROVE Growth'
  <2>1. /\ counter' = counter + 1 /\ real' = real + 1
        /\ UNCHANGED <<pc, before, badFirst, others, restarts>>
    BY <1>8 DEF Process, toolVars
  <2> QED BY <1>0, <2>1 DEF Growth
<1> QED
  BY <1>1, <1>2, <1>3, <1>4, <1>5, <1>6, <1>7, <1>8 DEF Next, MainStep, World, Over

\* The report is made in one step, from what the other conjuncts know then;
\* later nothing it is compared with changes.
LEMMA ReportStep == Inv /\ [Next]_vars => Silent' /\ ReportIsTrue'
<1> SUFFICES ASSUME Inv, [Next]_vars PROVE Silent' /\ ReportIsTrue'
  OBVIOUS
<1>0. /\ TypeOK /\ Written /\ Phases /\ Growth /\ Silent /\ ReportIsTrue
      /\ before \in Nat /\ counter \in Nat /\ real \in Nat /\ others \in Nat
      /\ restarts \in Nat /\ sent \in Nat
  BY LoadTestAssumption DEF Inv, TypeOK
<1>1. ASSUME NEW v, Query(v), Report(v), pc \in {"drain", "last"},
             UNCHANGED <<spc, sent, others, badFirst, restarts>>
      PROVE  Silent' /\ ReportIsTrue'
  <2>1. /\ report'.sent = sent /\ report'.processed = v - before /\ report'.real = real
        /\ report'.badLast = (bad' # bad) /\ pc' = "reported"
    BY <1>1 DEF Report
  <2>2. \A c \in Conns : spc[c] \in {"off", "done"}
    BY <1>0, <1>1 DEF Phases
  <2>3. Counting = {}
    BY <2>2 DEF Counting
  <2>4. real <= sent
    BY <1>0, <2>3, SizesAreNumbers, FS_EmptySet DEF Written
  <2>5. /\ v \in Nat
        /\ v = counter \/ (v = 0 /\ report'.badLast)
    BY <1>0, <1>1, <2>1, QueryFacts
  <2>6. /\ ~badFirst => counter <= before + real + others
        /\ restarts = 0 => counter >= before + real
    BY <1>0, <1>1 DEF Growth
  <2>7. v - before >= sent /\ others = 0 /\ ~badFirst => real = sent
    BY <1>0, <2>4, <2>5, <2>6
  <2>8. v - before < sent /\ ~report'.badLast /\ restarts = 0 => real < sent
    BY <1>0, <2>4, <2>5, <2>6
  <2> QED BY <1>1, <2>1, <2>2, <2>7, <2>8 DEF Silent, ReportIsTrue
<1>2. ASSUME UNCHANGED report, pc # "reported", pc' # "reported"
      PROVE  Silent' /\ ReportIsTrue'
  BY <1>0, <1>2 DEF Silent, ReportIsTrue
<1>3. ASSUME UNCHANGED <<report, pc, sent, spc, others, badFirst, restarts>>
      PROVE  Silent' /\ ReportIsTrue'
  BY <1>0, <1>3 DEF Silent, ReportIsTrue
<1>4. CASE LastQuery \/ DrainPoll
  <2>1. PICK v \in {0, counter} : Query(v) /\ (Report(v) \/ UNCHANGED <<report, pc>>)
    BY <1>4 DEF LastQuery, DrainPoll
  <2>2. /\ UNCHANGED <<spc, sent, others, badFirst, restarts>> /\ pc \in {"drain", "last"}
    BY <1>4 DEF LastQuery, DrainPoll, serverVars
  <2> QED BY <1>1, <1>3, <2>1, <2>2
<1>5. CASE \/ FirstQuery \/ (\E c \in Conns : Dial(c)) \/ DialFails \/ Sustained \/ Spike
           \/ CloseAll \/ QueryFatal \/ DrainTimeout
  <2>1. UNCHANGED report /\ pc # "reported" /\ pc' # "reported"
    BY <1>5 DEF FirstQuery, Dial, DialFails, Sustained, Spike, StartPhase, CloseAll,
                QueryFatal, DrainTimeout
  <2> QED BY <1>2, <2>1
<1>6. CASE pc \notin Ended /\ World
  <2>1. UNCHANGED <<report, pc>> /\ pc # "reported"
    BY <1>6 DEF World, OtherEvent, Drop, Restart, toolVars, Ended
  <2> QED BY <1>2, <2>1
<1>7. ASSUME NEW c \in Conns, Sender(c) PROVE Silent' /\ ReportIsTrue'
  <2>1. UNCHANGED report /\ pc # "reported" /\ pc' # "reported"
    BY <1>7, SenderFacts
  <2> QED BY <1>2, <2>1
<1>8. CASE (\E c \in Conns : Process(c)) \/ UNCHANGED vars
  <2>1. UNCHANGED <<report, pc, sent, spc, others, badFirst, restarts>>
    BY <1>8 DEF Process, toolVars, vars, serverVars
  <2> QED BY <1>3, <2>1
<1> QED
  BY <1>4, <1>5, <1>6, <1>7, <1>8 DEF Next, MainStep, Over

LEMMA Invariance == Spec => []Inv
<1>1. Inv /\ [Next]_vars => Inv'
  <2>1. Inv => TypeOK
    BY DEF Inv
  <2> QED BY <2>1, TypeStep, WrittenStep, PhasesStep, GrowthStep, ReportStep DEF Inv
<1> QED BY InvInit, <1>1, PTL DEF Spec

\* What bench and stress print: the total is final, "no loss" means that every
\* event was processed, and a loss is a loss, wherever the counter can tell
\* (waitForDrain and the report of cmd/bench and cmd/stress).
THEOREM ReportsAreTrue == Spec => []ReportIsTrue
<1>1. Inv => ReportIsTrue
  BY DEF Inv
<1> QED BY Invariance, <1>1, PTL
=============================================================================

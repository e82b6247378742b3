--------------------------- MODULE DashboardProofs ---------------------------
(***************************************************************************)
(* Proofs about Dashboard: what the charts show was true, for any number   *)
(* of queries, overlapping polls and faults, and any history size.         *)
(***************************************************************************)
EXTENDS Dashboard, Integers, SequenceTheorems, TLAPS

\* Values are what the backend held at moments between two versions, later
\* queries not before earlier ones.
ReadsAs(vals, from, to) ==
    \E v \in [1..Len(vals) -> from..to] :
        /\ \A p, q \in 1..Len(vals) : p <= q => v[p] <= v[q]
        /\ \A q \in 1..Len(vals) : vals[q] = Value(q, v[q])

\* What is known of a sample before it is complete: SnapshotIsReal speaks of
\* the history only, and a point enters it after many steps of others.
Sampling ==
    \A i \in Slots :
        /\ polls[i].at # "free" => polls[i].sent \in 1..now
        /\ polls[i].at = "api" => Len(polls[i].vals) < Queries
        /\ hook = "metrics" /\ polls[i].at \in {"api", "answer"}
              => ReadsAs(polls[i].vals, polls[i].sent, now)
        /\ hook = "metrics" /\ polls[i].at = "answer" => Len(polls[i].vals) = Queries

\* The inductive invariant.
Inv == TypeOK /\ Sampling /\ SnapshotIsReal

-----------------------------------------------------------------------------
(* Readings *)

\* Nothing has been read yet.
LEMMA NothingRead == \A from, to \in Nat : ReadsAs(<<>>, from, to)
<1> SUFFICES ASSUME NEW from \in Nat, NEW to \in Nat PROVE ReadsAs(<<>>, from, to)
  OBVIOUS
<1> DEFINE v == [q \in 1..0 |-> from]
<1>1. v \in [1..0 -> from..to]
  OBVIOUS
<1>2. Len(<<>>) = 0 /\ \A q \in 1..0 : FALSE
  OBVIOUS
<1> HIDE DEF v
<1>3. 1..Len(<<>>) = 1..0
  BY <1>2
<1> QED BY <1>1, <1>2, <1>3, Zenon DEF ReadsAs

\* A reading stays one when the backend moves on.
LEMMA ReadingLasts ==
    ASSUME NEW vals \in Seq(0..MaxNow), NEW from \in Nat, NEW to \in Nat, NEW to2 \in Nat,
           to <= to2, ReadsAs(vals, from, to)
    PROVE  ReadsAs(vals, from, to2)
<1>1. PICK v \in [1..Len(vals) -> from..to] :
        /\ \A p, q \in 1..Len(vals) : p <= q => v[p] <= v[q]
        /\ \A q \in 1..Len(vals) : vals[q] = Value(q, v[q])
  BY DEF ReadsAs
<1>2. v \in [1..Len(vals) -> from..to2]
  BY <1>1
<1> QED BY <1>1, <1>2 DEF ReadsAs

\* The next query adds what the backend holds now.
LEMMA ReadingGrows ==
    ASSUME NEW vals \in Seq(0..MaxNow), NEW from \in Nat, NEW to \in Nat, from <= to,
           ReadsAs(vals, from, to)
    PROVE  ReadsAs(Append(vals, Value(Len(vals) + 1, to)), from, to)
<1> DEFINE n == Len(vals)
           x == Value(n + 1, to)
           more == Append(vals, x)
<1>1. PICK v \in [1..n -> from..to] :
        /\ \A p, q \in 1..n : p <= q => v[p] <= v[q]
        /\ \A q \in 1..n : vals[q] = Value(q, v[q])
  BY DEF ReadsAs
<1>2. n \in Nat
  OBVIOUS
<1>3. /\ Len(more) = n + 1
      /\ \A q \in 1..n : more[q] = vals[q]
      /\ more[n + 1] = x
  OBVIOUS
<1> DEFINE w == [q \in 1..(n + 1) |-> IF q <= n THEN v[q] ELSE to]
<1>4. w \in [1..(n + 1) -> from..to]
  BY <1>1, <1>2
<1>5. \A p, q \in 1..(n + 1) : p <= q => w[p] <= w[q]
  BY <1>1, <1>2
<1>6. \A q \in 1..(n + 1) : more[q] = Value(q, w[q])
  BY <1>1, <1>2, <1>3
<1> HIDE DEF w, more, n, x
<1>7. ReadsAs(more, from, to)
  BY <1>3, <1>4, <1>5, <1>6 DEF ReadsAs
<1> QED BY <1>7 DEF more, n, x

\* A full reading is a point that SnapshotIsReal accepts.
LEMMA FullReading ==
    ASSUME NEW vals \in Seq(0..MaxNow), NEW from \in Nat, NEW to \in Nat,
           Len(vals) = Queries, ReadsAs(vals, from, to)
    PROVE  \E v \in Readings(from, to) : vals = [q \in 1..Queries |-> Value(q, v[q])]
<1>1. PICK v \in [1..Queries -> from..to] :
        /\ \A p, q \in 1..Queries : p <= q => v[p] <= v[q]
        /\ \A q \in 1..Queries : vals[q] = Value(q, v[q])
  BY DEF ReadsAs
<1>2. v \in Readings(from, to)
  BY <1>1 DEF Readings
<1>3. vals = [q \in 1..Len(vals) |-> vals[q]]
  OBVIOUS
<1>4. vals = [q \in 1..Queries |-> Value(q, v[q])]
  BY <1>1, <1>3
<1> QED BY <1>2, <1>4

\* What a query reads is a version or 0.
LEMMA ValueType == \A q \in Nat : \A v \in 1..MaxNow : Value(q, v) \in 0..MaxNow
BY DashboardAssumption DEF Value

-----------------------------------------------------------------------------
(* The history *)

\* slice(-HISTORY_SIZE) keeps the newest points, and only points there were.
LEMMA SliceFacts ==
    ASSUME NEW S, NEW s \in Seq(S)
    PROVE  /\ Slice(s) \in Seq(S)
           /\ Len(Slice(s)) <= HistorySize
           /\ \A k \in 1..Len(Slice(s)) : \E j \in 1..Len(s) : Slice(s)[k] = s[j]
<1> DEFINE m == IF Len(s) > HistorySize THEN Len(s) - HistorySize + 1 ELSE 1
<1>1. /\ Len(s) \in Nat /\ HistorySize \in Nat \ {0}
      /\ m \in 1..(Len(s) + 1)
      /\ Len(s) - m + 1 <= HistorySize
  BY DashboardAssumption
<1>2. Slice(s) = SubSeq(s, m, Len(s))
  BY DEF Slice, Last
<1> HIDE DEF m
<1>3. /\ SubSeq(s, m, Len(s)) \in Seq(S)
      /\ Len(SubSeq(s, m, Len(s))) = IF m <= Len(s) THEN Len(s) - m + 1 ELSE 0
      /\ \A k \in 1..(Len(s) - m + 1) : SubSeq(s, m, Len(s))[k] = s[m + k - 1]
  BY <1>1, SubSeqProperties
<1>4. ASSUME NEW k \in 1..Len(Slice(s)) PROVE \E j \in 1..Len(s) : Slice(s)[k] = s[j]
  <2>1. k \in 1..(Len(s) - m + 1) /\ m + k - 1 \in 1..Len(s)
    BY <1>1, <1>2, <1>3
  <2> QED BY <2>1, <1>2, <1>3
<1> QED BY <1>1, <1>2, <1>3, <1>4

-----------------------------------------------------------------------------
(* The induction *)

Polled == [at : {"free", "api", "answer", "failed"}, sent : 0..MaxNow, vals : Seq(0..MaxNow)]

LEMMA InvInit == Init => Inv
<1> SUFFICES ASSUME Init PROVE Inv
  OBVIOUS
<1>1. MaxNow \in Nat \ {0} /\ Queries \in Nat \ {0} /\ HistorySize \in Nat \ {0} /\ MaxFaults \in Nat
  BY DashboardAssumption
<1>2. 0 \in 0..MaxNow /\ 1 \in 1..MaxNow /\ 0 \in 0..MaxFaults
  BY <1>1
<1>3. <<>> \in Seq(0..MaxNow) /\ <<>> \in Seq(Samples) /\ Len(<<>>) = 0
  OBVIOUS
<1>4. Free \in Polled /\ Free.vals = <<>> /\ Free.at = "free"
  BY <1>2, <1>3 DEF Free, Polled
<1>5. polls \in [Slots -> Polled]
  BY <1>4 DEF Init
<1>6. \A i \in Slots : polls[i] = Free
  BY DEF Init
<1>7. TypeOK
  <2>1. polls \in [Slots -> Polled] /\ \A i \in Slots : Len(polls[i].vals) <= Queries
    BY <1>1, <1>3, <1>4, <1>5, <1>6
  <2>2. history \in Seq(Samples) /\ Len(history) <= HistorySize /\ shown = <<>>
    BY <1>1, <1>3 DEF Init
  <2> QED BY <1>2, <2>1, <2>2 DEF Init, TypeOK, Polled
<1>8. Sampling
  BY <1>4, <1>6 DEF Sampling
<1>9. SnapshotIsReal
  <2>1. history = <<>> /\ DOMAIN <<>> = {}
    BY DEF Init
  <2> QED BY <2>1, Zenon DEF SnapshotIsReal
<1> QED BY <1>7, <1>8, <1>9 DEF Inv

\* What may be said of one poll, as the conjuncts of TypeOK and Sampling say it.
Sound(p) ==
    /\ p \in Polled /\ Len(p.vals) <= Queries
    /\ p.at # "free" => p.sent \in 1..now
    /\ p.at = "api" => Len(p.vals) < Queries
    /\ hook = "metrics" /\ p.at \in {"api", "answer"} => ReadsAs(p.vals, p.sent, now)
    /\ hook = "metrics" /\ p.at = "answer" => Len(p.vals) = Queries

\* Polls and the rest of the state.
LEMMA InvIsSound ==
    Inv <=> /\ polls \in [Slots -> Polled] /\ \A i \in Slots : Sound(polls[i])
            /\ TypeOK /\ SnapshotIsReal
BY DEF Inv, TypeOK, Sampling, Sound, Polled

LEMMA InvIsSoundNext ==
    Inv' <=> /\ polls' \in [Slots -> Polled] /\ \A i \in Slots : Sound(polls[i])'
             /\ TypeOK' /\ SnapshotIsReal'
BY DEF Inv, TypeOK, Sampling, Sound, Polled

\* A poll that is left alone stays sound while the backend moves on.
LEMMA SoundStays ==
    ASSUME TypeOK, hook' = hook, now' \in 1..MaxNow, now <= now',
           NEW p, Sound(p)
    PROVE  /\ p \in Polled /\ Len(p.vals) <= Queries
           /\ p.at # "free" => p.sent \in 1..now'
           /\ p.at = "api" => Len(p.vals) < Queries
           /\ hook' = "metrics" /\ p.at \in {"api", "answer"} => ReadsAs(p.vals, p.sent, now')
           /\ hook' = "metrics" /\ p.at = "answer" => Len(p.vals) = Queries
<1>1. MaxNow \in Nat \ {0}
  BY DashboardAssumption
<1>2. now \in Nat /\ now' \in Nat
  BY <1>1 DEF TypeOK
<1>3. p.sent \in Nat /\ p.vals \in Seq(0..MaxNow)
  BY <1>1 DEF Sound, Polled
<1>4. p.at # "free" => p.sent \in 1..now'
  BY <1>2, <1>3 DEF Sound
<1>5. ReadsAs(p.vals, p.sent, now) => ReadsAs(p.vals, p.sent, now')
  BY <1>2, <1>3, ReadingLasts
<1> QED BY <1>4, <1>5 DEF Sound

\* A step that changes at most the polls, each to a sound one.
LEMMA PollStep ==
    ASSUME Inv, polls' \in [Slots -> Polled], UNCHANGED <<hook, now, shown, history>>,
           \A i \in Slots : Sound(polls'[i]),
           configured' \in BOOLEAN, up' \in BOOLEAN, api' \in {"down", "up"},
           client' \in {"nil", "made"}, error' \in BOOLEAN, faults' \in 0..MaxFaults
    PROVE  Inv'
<1>1. \A i \in Slots : Sound(polls[i])'
  BY DEF Sound
<1>2. TypeOK'
  BY <1>1 DEF Inv, TypeOK, Sound, Polled
<1>3. SnapshotIsReal'
  BY DEF Inv, SnapshotIsReal
<1> QED BY <1>1, <1>2, <1>3, InvIsSoundNext

\* Settle: the handler's answer.
LEMMA SettleStep ==
    ASSUME Inv, NEW i \in Slots, polls[i].at = "api",
           NEW at \in {"api", "answer", "failed"}, NEW vals \in Seq(0..MaxNow),
           Settle(i, at, vals), Len(vals) <= Queries,
           at = "api" => Len(vals) < Queries,
           hook = "metrics" /\ at # "failed" => ReadsAs(vals, polls[i].sent, now),
           hook = "metrics" /\ at = "answer" => Len(vals) = Queries
    PROVE  Inv'
<1>1. /\ polls \in [Slots -> Polled] /\ \A j \in Slots : Sound(polls[j])
      /\ TypeOK
  BY InvIsSound
<1>2. /\ polls' = [polls EXCEPT ![i].at = at, ![i].vals = vals]
      /\ UNCHANGED <<hook, world, page>>
  BY DEF Settle
<1> DEFINE p == [at |-> at, sent |-> polls[i].sent, vals |-> vals]
<1>3. p \in Polled
  BY <1>1 DEF Polled
<1>4. polls' \in [Slots -> Polled] /\ polls'[i] = p
      /\ \A j \in Slots \ {i} : polls'[j] = polls[j]
  BY <1>1, <1>2, <1>3 DEF Polled
<1>5. polls[i].sent \in 1..now
  BY <1>1 DEF Sound
<1>6. Sound(p)
  BY <1>3, <1>5 DEF Sound
<1>7. \A j \in Slots : Sound(polls'[j])
  BY <1>1, <1>4, <1>6
<1> QED BY <1>1, <1>2, <1>4, <1>7, PollStep DEF TypeOK, world, page

LEMMA QueryStep ==
    ASSUME Inv, NEW i \in Slots, Query(i)
    PROVE  Inv'
<1> DEFINE n == Len(polls[i].vals)
           vals == Append(polls[i].vals, Value(n + 1, now))
           at == IF Len(vals) = Queries THEN "answer" ELSE "api"
<1>1. polls[i].at = "api" /\ hook = "metrics" /\ Settle(i, at, vals)
  BY DEF Query, AtApi
<1>2. /\ polls[i].vals \in Seq(0..MaxNow) /\ n < Queries /\ polls[i].sent \in 1..now
      /\ now \in 1..MaxNow /\ ReadsAs(polls[i].vals, polls[i].sent, now)
  BY <1>1 DEF Inv, TypeOK, Sampling
<1>3. MaxNow \in Nat /\ Queries \in Nat /\ n \in Nat /\ now \in Nat /\ polls[i].sent \in Nat
      /\ polls[i].sent <= now
  BY <1>2, DashboardAssumption
<1>4. Value(n + 1, now) \in 0..MaxNow
  <2>1. n + 1 \in Nat
    BY <1>3
  <2> QED BY <1>2, <2>1, ValueType
<1>5. vals \in Seq(0..MaxNow) /\ Len(vals) = n + 1
  BY <1>2, <1>4
<1>6. ReadsAs(vals, polls[i].sent, now)
  BY <1>2, <1>3, ReadingGrows
<1>7. at \in {"api", "answer", "failed"} /\ (at = "api" => Len(vals) < Queries)
      /\ (at = "answer" => Len(vals) = Queries) /\ Len(vals) <= Queries
  BY <1>2, <1>3, <1>5
<1> HIDE DEF vals, at, n
<1> QED BY <1>1, <1>5, <1>6, <1>7, SettleStep

\* A failed request, of whichever handler.
LEMMA FailStep ==
    ASSUME Inv, NEW i \in Slots, polls[i].at = "api", Settle(i, "failed", <<>>)
    PROVE  Inv'
<1>1. <<>> \in Seq(0..MaxNow) /\ Len(<<>>) = 0 /\ Queries \in Nat
  BY DashboardAssumption
<1>2. "failed" \in {"api", "answer", "failed"} /\ Len(<<>>) <= Queries
  BY <1>1
<1> QED BY <1>1, <1>2, SettleStep

\* An answer of the two handlers that ask once.
LEMMA AnswerStep ==
    ASSUME Inv, NEW i \in Slots, polls[i].at = "api", hook # "metrics",
           NEW vals \in {<<>>, <<now>>, Mock}, Settle(i, "answer", vals)
    PROVE  Inv'
<1>1. now \in 0..MaxNow /\ 0 \in 0..MaxNow /\ Queries \in Nat /\ 1 <= Queries
  BY DashboardAssumption DEF Inv, TypeOK
<1>2. vals \in Seq(0..MaxNow) /\ Len(vals) <= 1
  <2>1. <<>> \in Seq(0..MaxNow) /\ Len(<<>>) = 0
    OBVIOUS
  <2>2. \A x \in 0..MaxNow : <<x>> \in Seq(0..MaxNow) /\ Len(<<x>>) = 1
    OBVIOUS
  <2>3. CASE vals = <<>>
    BY <2>1, <2>3
  <2>4. CASE vals \in {<<now>>, <<0>>}
    <3>1. PICK x \in 0..MaxNow : vals = <<x>>
      BY <1>1, <2>4
    <3>2. vals \in Seq(0..MaxNow) /\ Len(vals) = 1
      BY <2>2, <3>1
    <3> QED BY <3>2
  <2> QED BY <2>3, <2>4 DEF Mock
<1>3. Len(vals) <= Queries
  BY <1>1, <1>2
<1> QED BY <1>2, <1>3, SettleStep

\* Apply is the step that makes a point of a reading.
LEMMA ApplyStep ==
    ASSUME Inv, NEW i \in Slots, Apply(i)
    PROVE  Inv'
<1> DEFINE new == [vals |-> polls[i].vals, sent |-> polls[i].sent, timestamp |-> now]
           longer == Append(history, new)
<1>1. /\ polls \in [Slots -> Polled] /\ \A j \in Slots : Sound(polls[j])
      /\ TypeOK /\ SnapshotIsReal
  BY InvIsSound
<1>2. /\ polls[i].at = "answer" /\ shown' = new /\ error' = FALSE
      /\ hook = "metrics" => history' = Slice(longer)
      /\ hook # "metrics" => history' = history
      /\ polls' = [polls EXCEPT ![i] = Free]
      /\ UNCHANGED <<hook, configured, now, up, api, client, faults>>
  BY DEF Apply, world
<1>3. MaxNow \in Nat \ {0} /\ Queries \in Nat \ {0} /\ now \in 1..MaxNow
  BY <1>1, DashboardAssumption DEF TypeOK
<1>4. /\ polls[i].vals \in Seq(0..MaxNow) /\ polls[i].sent \in 1..now
      /\ hook = "metrics" => /\ Len(polls[i].vals) = Queries
                             /\ ReadsAs(polls[i].vals, polls[i].sent, now)
  BY <1>1, <1>2 DEF Sound, Polled
<1>5. new \in Samples
  BY <1>3, <1>4 DEF Samples
<1>6. longer \in Seq(Samples) /\ Len(longer) = Len(history) + 1
      /\ (\A k \in 1..Len(history) : longer[k] = history[k])
      /\ longer[Len(history) + 1] = new /\ Len(history) \in Nat
  BY <1>1, <1>5 DEF TypeOK
<1>7. /\ new.vals = polls[i].vals /\ new.sent = polls[i].sent /\ new.timestamp = now
  OBVIOUS
<1> DEFINE Real(s) == \E v \in Readings(s.sent, s.timestamp) :
                         s.vals = [q \in 1..Queries |-> Value(q, v[q])]
<1>8. hook = "metrics" => Real(new)
  <2>1. polls[i].sent \in Nat /\ now \in Nat
    BY <1>3, <1>4
  <2>2. hook = "metrics" =>
           \E v \in Readings(polls[i].sent, now) : polls[i].vals = [q \in 1..Queries |-> Value(q, v[q])]
    BY <1>4, <2>1, FullReading
  <2> HIDE DEF new
  <2> QED BY <1>7, <2>2
<1>9. \A k \in 1..Len(history) : Real(history[k])
  <2>1. history \in Seq(Samples) /\ DOMAIN history = 1..Len(history)
    BY <1>1 DEF TypeOK
  <2> QED BY <1>1, <2>1 DEF SnapshotIsReal
<1> HIDE DEF new, longer, Real
<1>10. hook = "metrics" => \A k \in 1..Len(longer) : Real(longer[k])
  BY <1>6, <1>8, <1>9
<1>11. history' \in Seq(Samples) /\ Len(history') <= HistorySize
       /\ \A k \in 1..Len(history') : Real(history'[k])
  <2>1. CASE hook = "metrics"
    BY <2>1, <1>2, <1>6, <1>10, SliceFacts
  <2>2. CASE hook # "metrics"
    BY <2>2, <1>1, <1>2, <1>9 DEF TypeOK
  <2> QED BY <2>1, <2>2
<1>12. SnapshotIsReal'
  <2>1. DOMAIN history' = 1..Len(history')
    BY <1>11
  <2> QED BY <1>11, <2>1 DEF SnapshotIsReal, Real
<1>13. 0 \in 0..MaxNow /\ <<>> \in Seq(0..MaxNow) /\ Len(<<>>) = 0 /\ 0 <= Queries
  BY <1>3
<1>14. Free \in Polled /\ Free.vals = <<>> /\ Free.at = "free"
  BY <1>13 DEF Free, Polled
<1>15. /\ polls' \in [Slots -> Polled] /\ polls'[i] = Free
       /\ \A j \in Slots \ {i} : polls'[j] = polls[j]
  BY <1>1, <1>2, <1>14
<1>16. \A j \in Slots : Sound(polls[j])'
  <2>1. Sound(Free)
    BY <1>13, <1>14 DEF Sound
  <2>2. \A j \in Slots : Sound(polls'[j])
    BY <1>1, <1>15, <2>1
  <2> QED BY <1>2, <2>2 DEF Sound
<1>17. TypeOK'
  BY <1>1, <1>2, <1>5, <1>11, <1>15, <1>16 DEF TypeOK, Sound, Polled
<1> QED BY <1>12, <1>15, <1>16, <1>17, InvIsSoundNext

LEMMA InvStep == Inv /\ [Next]_vars => Inv'
<1> SUFFICES ASSUME Inv, [Next]_vars PROVE Inv'
  OBVIOUS
<1>0. /\ polls \in [Slots -> Polled] /\ \A j \in Slots : Sound(polls[j])
      /\ TypeOK /\ SnapshotIsReal
  BY InvIsSound
<1>t. /\ configured \in BOOLEAN /\ up \in BOOLEAN /\ api \in {"down", "up"} /\ now \in 1..MaxNow
      /\ client \in {"nil", "made"} /\ error \in BOOLEAN /\ faults \in 0..MaxFaults
      /\ MaxNow \in Nat \ {0} /\ MaxFaults \in Nat /\ Queries \in Nat \ {0}
  BY <1>0, DashboardAssumption DEF TypeOK
<1>f. Fault => faults' \in 0..MaxFaults
  BY <1>t DEF Fault
<1>1. CASE NewContent
  <2>1. /\ now' \in 1..MaxNow /\ now <= now'
        /\ UNCHANGED <<hook, configured, up, api, client, faults, polls, shown, error, history>>
    BY <1>1, <1>t DEF NewContent, page
  <2>2. \A i \in Slots : Sound(polls[i])'
    <3> TAKE i \in Slots
    <3>1. Sound(polls[i]) /\ polls'[i] = polls[i]
      BY <1>0, <2>1
    <3> QED BY <3>1, <1>0, <2>1, SoundStays DEF Sound
  <2>3. TypeOK' /\ SnapshotIsReal'
    BY <1>0, <2>1 DEF TypeOK, SnapshotIsReal
  <2> QED BY <1>0, <2>1, <2>2, <2>3, InvIsSoundNext
<1>2. CASE Outage \/ Recovery \/ Boot
  <2>1. /\ UNCHANGED <<hook, configured, now, polls, shown, error, history>>
        /\ up' \in BOOLEAN /\ api' \in {"down", "up"} /\ client' \in {"nil", "made"}
        /\ faults' \in 0..MaxFaults
    BY <1>2, <1>t, <1>f DEF Outage, Recovery, Boot, page
  <2> QED BY <1>0, <1>t, <2>1, PollStep
<1>3. CASE Crash
  <2>1. /\ UNCHANGED <<hook, configured, now, up, shown, error, history>>
        /\ api' = "down" /\ client' = "nil" /\ faults' \in 0..MaxFaults
        /\ polls' = [i \in Slots |-> IF polls[i].at = "api"
                                      THEN [polls[i] EXCEPT !.at = "failed"] ELSE polls[i]]
    BY <1>3, <1>f DEF Crash, page
  <2>2. ASSUME NEW i \in Slots PROVE polls'[i] \in Polled /\ Sound(polls'[i])
    <3>1. Sound(polls[i]) /\ polls[i] \in Polled
      BY <1>0
    <3>2. CASE polls[i].at = "api"
      <4> DEFINE p == [polls[i] EXCEPT !.at = "failed"]
      <4>1. /\ p \in Polled /\ p.at = "failed" /\ p.vals = polls[i].vals
            /\ p.sent = polls[i].sent /\ polls'[i] = p
        BY <2>1, <3>1, <3>2 DEF Polled
      <4> HIDE DEF p
      <4> QED BY <3>1, <3>2, <4>1 DEF Sound
    <3>3. CASE polls[i].at # "api"
      BY <2>1, <3>1, <3>3
    <3> QED BY <3>2, <3>3
  <2>3. polls' \in [Slots -> Polled]
    BY <2>1, <2>2
  <2> QED BY <1>t, <2>1, <2>2, <2>3, PollStep
<1>4. ASSUME NEW i \in Slots, Poll(i) PROVE Inv'
  <2> DEFINE p == [at |-> "api", sent |-> now, vals |-> <<>>]
  <2>1. polls' = [polls EXCEPT ![i] = p]
        /\ UNCHANGED <<hook, configured, now, up, api, client, faults, shown, error, history>>
    BY <1>4 DEF Poll, world, page
  <2>2. p \in Polled /\ Len(<<>>) = 0 /\ now \in Nat /\ 0 < Queries /\ 0 <= Queries /\ now \in 1..now
    BY <1>t DEF Polled
  <2>3. p.at = "api" /\ p.sent = now /\ p.vals = <<>>
    OBVIOUS
  <2> HIDE DEF p
  <2>4. Sound(p)
    BY <2>2, <2>3, NothingRead DEF Sound
  <2>5. polls' \in [Slots -> Polled] /\ \A j \in Slots : Sound(polls'[j])
    BY <1>0, <2>1, <2>2, <2>4
  <2> QED BY <1>t, <2>1, <2>5, PollStep
<1>5. ASSUME NEW i \in Slots, Query(i) PROVE Inv'
  BY <1>5, QueryStep
<1>6. ASSUME NEW i \in Slots, QueryFails(i) \/ BadGateway(i) PROVE Inv'
  BY <1>6, FailStep DEF QueryFails, BadGateway, AtApi
<1>7. ASSUME NEW i \in Slots, GetPipeline(i) PROVE Inv'
  BY <1>7, FailStep, AnswerStep DEF GetPipeline, AtApi
<1>8. ASSUME NEW i \in Slots, GetTrades(i) PROVE Inv'
  BY <1>8, FailStep, AnswerStep DEF GetTrades, AtApi
<1>9. ASSUME NEW i \in Slots, GetTradesCut(i) PROVE Inv'
  <2>1. /\ hook = "trades" /\ polls[i].at = "api" /\ faults' \in 0..MaxFaults
        /\ polls' = [polls EXCEPT ![i].at = "answer"]
        /\ UNCHANGED <<hook, configured, now, up, api, client, shown, error, history>>
    BY <1>9, <1>f DEF GetTradesCut, AtApi, page
  <2> DEFINE p == [polls[i] EXCEPT !.at = "answer"]
  <2>2. /\ p \in Polled /\ p.at = "answer" /\ p.vals = polls[i].vals /\ p.sent = polls[i].sent
        /\ polls' = [polls EXCEPT ![i] = p]
    BY <1>0, <2>1 DEF Polled
  <2> HIDE DEF p
  <2>3. Sound(p)
    BY <1>0, <2>1, <2>2 DEF Sound
  <2>4. polls' \in [Slots -> Polled] /\ \A j \in Slots : Sound(polls'[j])
    BY <1>0, <2>2, <2>3
  <2> QED BY <1>t, <2>1, <2>4, PollStep
<1>10. ASSUME NEW i \in Slots, Apply(i) PROVE Inv'
  BY <1>10, ApplyStep
<1>11. ASSUME NEW i \in Slots, ApplyError(i) PROVE Inv'
  <2>1. /\ error' = TRUE /\ polls' = [polls EXCEPT ![i] = Free]
        /\ UNCHANGED <<hook, configured, now, up, api, client, faults, shown, history>>
    BY <1>11 DEF ApplyError, world
  <2>2. 0 \in 0..MaxNow /\ <<>> \in Seq(0..MaxNow) /\ Len(<<>>) = 0 /\ 0 <= Queries
    BY <1>t
  <2>3. Free \in Polled /\ Free.vals = <<>> /\ Free.at = "free"
    BY <2>2 DEF Free, Polled
  <2>4. Sound(Free)
    BY <2>2, <2>3 DEF Sound
  <2>5. polls' \in [Slots -> Polled] /\ \A j \in Slots : Sound(polls'[j])
    BY <1>0, <2>1, <2>3, <2>4
  <2> QED BY <1>t, <2>1, <2>5, PollStep
<1>12. CASE UNCHANGED vars
  <2>1. UNCHANGED <<hook, configured, now, up, api, client, faults, polls, shown, error, history>>
    BY <1>12 DEF vars, world, page
  <2> QED BY <1>0, <1>t, <2>1, PollStep
<1> QED
  BY <1>1, <1>2, <1>3, <1>4, <1>5, <1>6, <1>7, <1>8, <1>9, <1>10, <1>11, <1>12
     DEF Next, PollSome, Progress

LEMMA Invariance == Spec => []Inv
BY InvInit, InvStep, PTL DEF Spec

\* Types: in particular no sample has more values than queries, and the history
\* never outgrows HISTORY_SIZE (useMetrics.ts).
THEOREM DashboardTypes == Spec => []TypeOK
<1>1. Inv => TypeOK
  BY DEF Inv
<1> QED BY Invariance, <1>1, PTL

\* Every point of the charts was true at moments between the poll and its
\* timestamp, in the order of the queries, whatever polls overlap and whatever
\* fails in FetchMetrics or the API process (prometheus/client.go, useMetrics.ts).
THEOREM PointsWereTrue == Spec => []SnapshotIsReal
<1>1. Inv => SnapshotIsReal
  BY DEF Inv
<1> QED BY Invariance, <1>1, PTL
=============================================================================

----------------------------- MODULE FeedProofs -----------------------------
(***************************************************************************)
(* Proofs about Feed, for any log interval and any number of messages.     *)
(***************************************************************************)
EXTENDS Feed, Integers, TLAPS

\* The reader goes from one message to the next: a trade is in the hands of
\* readLoop only after it was counted, a log only after a trade that makes it
\* due, and no message is counted twice.
Reading ==
    /\ tradeCount <= msgs
    /\ pc \in {"trade", "log"} => tradeCount > 0
    /\ pc = "log" => LogDue

\* The wire is at most as far as the reader.
Behind ==
    \A j \in 1..Len(wire) :
        /\ wire[j][2] <= tradeCount
        /\ pc = "trade" => wire[j][2] < tradeCount
        /\ pc = "log" => wire[j][2] < tradeCount \/ wire[j] = <<"trade", tradeCount>>

\* While the connection is up, the wire has what is due and nothing else.
Complete == tcp = "up" => Len(wire) = Trades + Logs /\ forwarded = Len(wire)

\* Trades in order, each followed by its log if it has one.
Ordered ==
    \A j, k \in 1..Len(wire) :
        j < k => \/ wire[j][2] < wire[k][2]
                 \/ wire[j] = <<"trade", wire[k][2]>> /\ wire[k][1] = "log"

Inv == TypeOK /\ BackoffDoubles /\ Reading /\ Behind /\ Complete /\ Ordered

-----------------------------------------------------------------------------
(* Arithmetic *)

\* Counting one further passes a multiple of l exactly when it arrives at one.
LEMMA DivStep ==
    ASSUME NEW n \in Nat, n > 0, NEW l \in Nat, l > 0
    PROVE  n \div l = IF n % l = 0 THEN ((n - 1) \div l) + 1 ELSE (n - 1) \div l
<1> DEFINE q == n \div l
           r == n % l
           p == (n - 1) \div l
           s == (n - 1) % l
<1>1. /\ q \in Int /\ r \in 0..(l - 1) /\ n = l * q + r
      /\ p \in Int /\ s \in 0..(l - 1) /\ n - 1 = l * p + s
  OBVIOUS
<1> HIDE DEF q, r, p, s
<1>2. l * (q - p) = (1 + s) - r
  BY <1>1
<1>3. \A d \in Int : l * d > 0 => d >= 1
  OBVIOUS
<1>4. \A d \in Int : d >= 2 => l * d >= 2 * l
  OBVIOUS
<1>5. \A d \in Int : d <= -1 => l * d <= -l
  OBVIOUS
<1> QED BY <1>1, <1>2, <1>3, <1>4, <1>5 DEF q, r, p, s

-----------------------------------------------------------------------------
(* The invariant is inductive *)

\* Init establishes the invariant.
LEMMA InitInv == Init => Inv
<1> SUFFICES ASSUME Init PROVE Inv
  OBVIOUS
<1>0. wire = <<>> /\ wire \in Seq({"trade", "log"} \X (1..MaxMsgs)) /\ Len(wire) = 0
  BY DEF Init
<1>1. TypeOK
  <2>1. 0 \in 0..MaxMsgs /\ 0 \in 0..ManyRetries /\ 1 \in 1..MaxBackoff
    BY FeedAssumption DEF MaxBackoff, ManyRetries
  <2> QED BY <1>0, <2>1 DEF Init, TypeOK
<1>2. BackoffDoubles /\ Reading
  BY DEF Init, BackoffDoubles, Delay, Reading
<1>3. Behind /\ Ordered
  BY <1>0 DEF Behind, Ordered
<1>4. Complete
  <2>1. LogInterval > 0 => 0 \div LogInterval = 0
    BY FeedAssumption
  <2> QED BY <1>0, <2>1, FeedAssumption DEF Init, Complete, Trades, Due, Logs
<1> QED BY <1>1, <1>2, <1>3, <1>4 DEF Inv

\* The delay follows the table whenever it is doubled.
LEMMA DelayDoubles ==
    ASSUME NEW n \in 0..ManyRetries
    PROVE  /\ Delay(n) \in 1..MaxBackoff
           /\ n < ManyRetries => Cap(2 * Delay(n)) = Delay(n + 1)
           /\ n = ManyRetries => Cap(2 * Delay(n)) = Delay(n)
<1>1. n \in {0, 1, 2, 3, 4, 5, 6}
  BY DEF ManyRetries
<1>2. /\ Delay(0) = 1 /\ Delay(1) = 2 /\ Delay(2) = 4 /\ Delay(3) = 8 /\ Delay(4) = 16
      /\ Delay(5) = 30 /\ Delay(6) = 30
  BY DEF Delay
<1> QED BY <1>1, <1>2 DEF Cap, MaxBackoff, ManyRetries

\* A step that neither counts a trade nor writes one: the events in the hands
\* of readLoop are given up only with the connection.
LEMMA QuietStep ==
    ASSUME Inv, UNCHANGED <<wire, tradeCount, forwarded>>, msgs' \in Nat, msgs' >= msgs,
           tcp' = "up" => tcp = "up",
           \/ pc' = pc
           \/ pc' \notin {"trade", "log"} /\ (pc \notin {"trade", "log"} \/ tcp' # "up")
    PROVE  Reading' /\ Behind' /\ Complete' /\ Ordered'
<1> USE DEF Inv
<1>1. Reading'
  BY DEF TypeOK, Reading, LogDue
<1>2. Behind'
  BY DEF Behind
<1>3. Complete'
  <2>1. CASE tcp' = "up"
    BY <2>1 DEF Complete, Trades, Due, Logs
  <2> QED BY <2>1 DEF Complete
<1>4. Ordered'
  BY DEF Ordered
<1> QED BY <1>1, <1>2, <1>3, <1>4

\* Writing an event keeps the wire in order if the event comes after all that
\* is on it.
LEMMA AppendStep ==
    ASSUME Inv, NEW e \in {"trade", "log"} \X (1..MaxMsgs),
           wire' = Append(wire, e) \/ wire' = wire,
           \A j \in 1..Len(wire) : \/ wire[j][2] < e[2]
                                   \/ wire[j] = <<"trade", e[2]>> /\ e[1] = "log"
    PROVE  /\ wire' \in Seq({"trade", "log"} \X (1..MaxMsgs))
           /\ Ordered'
           /\ \A j \in 1..Len(wire') : (j \in 1..Len(wire) /\ wire'[j] = wire[j]) \/ wire'[j] = e
<1>0. wire \in Seq({"trade", "log"} \X (1..MaxMsgs)) /\ Ordered
  BY DEF Inv, TypeOK
<1>1. CASE wire' = wire
  BY <1>0, <1>1 DEF Ordered
<1>2. CASE wire' = Append(wire, e)
  <2>1. /\ wire' \in Seq({"trade", "log"} \X (1..MaxMsgs))
        /\ Len(wire') = Len(wire) + 1 /\ wire'[Len(wire) + 1] = e
        /\ \A j \in 1..Len(wire) : wire'[j] = wire[j]
        /\ Len(wire) \in Nat
    BY <1>0, <1>2
  <2>2. \A j \in 1..Len(wire') : j \in 1..Len(wire) \/ j = Len(wire) + 1
    BY <2>1
  <2>3. ASSUME NEW j \in 1..Len(wire'), NEW k \in 1..Len(wire'), j < k
        PROVE  \/ wire'[j][2] < wire'[k][2]
               \/ wire'[j] = <<"trade", wire'[k][2]>> /\ wire'[k][1] = "log"
    <3>1. j \in 1..Len(wire) /\ wire'[j] = wire[j]
      BY <2>1, <2>2, <2>3
    <3>2. CASE k \in 1..Len(wire)
      BY <1>0, <2>1, <2>3, <3>1, <3>2 DEF Ordered
    <3>3. CASE k = Len(wire) + 1
      BY <2>1, <3>1, <3>3
    <3> QED BY <2>2, <3>2, <3>3
  <2> QED BY <2>1, <2>2, <2>3 DEF Ordered
<1> QED BY <1>1, <1>2

\* Every step keeps the invariant.
LEMMA NextInv == Inv /\ [Next]_vars => Inv'
<1> SUFFICES ASSUME Inv, [Next]_vars PROVE Inv'
  OBVIOUS
<1>t. /\ msgs \in 0..MaxMsgs /\ tradeCount \in 0..MaxMsgs /\ tradeCount <= msgs
      /\ forwarded \in Nat /\ errors \in Nat /\ retries \in 0..ManyRetries /\ MaxMsgs \in Nat
      /\ TypeOK /\ BackoffDoubles
  BY FeedAssumption DEF Inv, TypeOK, Reading
<1>1. CASE Cancel \/ ServerDrops \/ Top \/ DialFails \/ Disconnected \/ Loop \/ ReadFails
           \/ Stopped \/ UNCHANGED vars
  <2>1. UNCHANGED <<wire, msgs, tradeCount, forwarded, errors, backoff, retries>>
    BY <1>1 DEF Cancel, ServerDrops, Top, DialFails, Disconnected, Loop, ReadFails, Stopped,
                vars, stats
  <2>2. /\ tcp' = "up" => tcp = "up"
        /\ pc' = pc \/ {pc, pc'} \cap {"trade", "log"} = {}
    <3>1. CASE Cancel \/ ServerDrops \/ Stopped \/ UNCHANGED vars
      <4>1. pc' = pc
        BY <3>1 DEF Cancel, ServerDrops, Stopped, vars
      <4>2. tcp' = tcp \/ tcp' = "cut"
        BY <3>1 DEF Cancel, ServerDrops, Stopped, vars
      <4> QED BY <4>1, <4>2
    <3>2. CASE Top \/ DialFails \/ Disconnected \/ Loop \/ ReadFails
      <4>1. /\ pc \in {"top", "dial", "closed", "loop", "read"} /\ tcp' = tcp
            /\ pc' \in {"stopped", "dial", "sleep", "closed", "read"}
        BY <3>2 DEF Top, DialFails, Disconnected, Loop, ReadFails
      <4> QED BY <4>1
    <3> QED BY <1>1, <3>1, <3>2
  <2>3. TypeOK'
    BY <1>1, <1>t DEF Cancel, ServerDrops, Top, DialFails, Disconnected, Loop, ReadFails, Stopped,
                vars, stats, TypeOK
  <2>4. BackoffDoubles'
    BY <1>t, <2>1 DEF BackoffDoubles, Delay
  <2>5. pc' = pc \/ (pc \notin {"trade", "log"} /\ pc' \notin {"trade", "log"})
    BY <2>2
  <2>6. Reading' /\ Behind' /\ Complete' /\ Ordered'
    BY <1>t, <2>1, <2>2, <2>5, QuietStep
  <2> QED BY <2>3, <2>4, <2>6 DEF Inv
<1>2. CASE DialOk
  <2>1. TypeOK'
    BY <1>2, <1>t DEF DialOk, stats, TypeOK, MaxBackoff, ManyRetries
  <2>2. BackoffDoubles'
    BY <1>2 DEF DialOk, BackoffDoubles, Delay
  <2>3. Reading' /\ Behind' /\ Complete' /\ Ordered'
    BY <1>2, <1>t, QuietStep DEF DialOk, stats
  <2> QED BY <2>1, <2>2, <2>3 DEF Inv
<1>3. CASE Sleep
  <2>1. backoff' \in 1..MaxBackoff /\ retries' \in 0..ManyRetries /\ backoff' = Delay(retries')
    <3>1. CASE UNCHANGED <<backoff, retries>>
      BY <1>t, <3>1 DEF TypeOK, BackoffDoubles
    <3>2. CASE /\ backoff' = Cap(2 * backoff)
               /\ retries' = IF retries < ManyRetries THEN retries + 1 ELSE retries
      <4>1. backoff = Delay(retries) /\ retries + 1 \in Nat
        BY <1>t DEF BackoffDoubles
      <4>2. retries' \in 0..ManyRetries
        BY <1>t, <3>2 DEF ManyRetries
      <4>3. retries < ManyRetries \/ retries = ManyRetries
        BY <1>t DEF ManyRetries
      <4>4. backoff' = Delay(retries')
        BY <1>t, <3>2, <4>1, <4>3, DelayDoubles
      <4> QED BY <4>2, <4>4, DelayDoubles
    <3> QED BY <1>3, <3>1, <3>2 DEF Sleep
  <2>2. TypeOK'
    BY <1>3, <1>t, <2>1 DEF Sleep, stats, TypeOK
  <2>3. BackoffDoubles'
    BY <2>1 DEF BackoffDoubles
  <2>4. Reading' /\ Behind' /\ Complete' /\ Ordered'
    BY <1>3, <1>t, QuietStep DEF Sleep, stats
  <2> QED BY <2>2, <2>3, <2>4 DEF Inv
<1>4. CASE ReadBad
  <2>1. TypeOK'
    BY <1>4, <1>t DEF ReadBad, TypeOK
  <2>2. BackoffDoubles'
    BY <1>4, <1>t DEF ReadBad, BackoffDoubles, Delay
  <2>3. Reading' /\ Behind' /\ Complete' /\ Ordered'
    BY <1>4, <1>t, QuietStep DEF ReadBad
  <2> QED BY <2>1, <2>2, <2>3 DEF Inv
<1>5. CASE ReadTrade
  <2>1. TypeOK'
    BY <1>5, <1>t DEF ReadTrade, TypeOK
  <2>2. BackoffDoubles'
    BY <1>5, <1>t DEF ReadTrade, BackoffDoubles, Delay
  <2>3. Reading'
    BY <1>5, <1>t DEF ReadTrade, Reading
  <2>4. Behind'
    <3> SUFFICES ASSUME NEW j \in 1..Len(wire) PROVE wire[j][2] < tradeCount + 1
      BY <1>5, <1>t DEF ReadTrade, Behind, TypeOK
    <3> QED BY <1>t DEF Inv, Behind, TypeOK
  <2>5. Complete'
    BY <1>5, <1>t DEF ReadTrade, Inv, Complete, Trades, Due, Logs
  <2>6. Ordered'
    BY <1>5 DEF ReadTrade, Inv, Ordered
  <2> QED BY <2>1, <2>2, <2>3, <2>4, <2>5, <2>6 DEF Inv
<1>6. ASSUME SendFails, UNCHANGED <<ctxDone, backoff, retries, msgs, tradeCount>>
      PROVE  Inv'
  <2>1. TypeOK'
    BY <1>6, <1>t DEF SendFails, TypeOK
  <2>2. BackoffDoubles'
    BY <1>6, <1>t DEF BackoffDoubles, Delay
  <2>3. Reading' /\ Behind' /\ Complete' /\ Ordered'
    BY <1>6, <1>t, QuietStep DEF SendFails
  <2> QED BY <2>1, <2>2, <2>3 DEF Inv
<1>7. ASSUME pc = "trade", SendOk(<<"trade", tradeCount>>, IF LogDue THEN "log" ELSE "loop"),
             UNCHANGED <<ctxDone, backoff, retries, msgs, tradeCount>>
      PROVE  Inv'
  <2> DEFINE e == <<"trade", tradeCount>>
  <2>1. tradeCount > 0 /\ e \in {"trade", "log"} \X (1..MaxMsgs) /\ e[1] = "trade" /\ e[2] = tradeCount
    BY <1>7, <1>t DEF Inv, Reading
  <2>2. \A j \in 1..Len(wire) : wire[j][2] < e[2]
    BY <1>7, <2>1 DEF Inv, Behind
  <2>3. wire' = Append(wire, e) \/ wire' = wire
    BY <1>7 DEF SendOk
  <2>4. /\ wire' \in Seq({"trade", "log"} \X (1..MaxMsgs)) /\ Ordered'
        /\ \A j \in 1..Len(wire') : (j \in 1..Len(wire) /\ wire'[j] = wire[j]) \/ wire'[j] = e
    BY <2>1, <2>2, <2>3, AppendStep
  <2>5. TypeOK'
    BY <1>7, <1>t, <2>4 DEF SendOk, TypeOK
  <2>6. BackoffDoubles'
    BY <1>7, <1>t DEF BackoffDoubles, Delay
  <2>7. Reading'
    BY <1>7, <1>t, <2>1 DEF SendOk, Reading, LogDue
  <2>8. Behind'
    <3> SUFFICES ASSUME NEW j \in 1..Len(wire')
                 PROVE  /\ wire'[j][2] <= tradeCount
                        /\ wire'[j][2] < tradeCount \/ wire'[j] = <<"trade", tradeCount>>
      BY <1>7 DEF SendOk, Behind
    <3>1. wire'[j] \in {"trade", "log"} \X (1..MaxMsgs) /\ wire'[j][2] \in Nat
      BY <1>t, <2>4
    <3>2. CASE wire'[j] = e
      BY <1>t, <2>1, <3>2
    <3>3. CASE j \in 1..Len(wire) /\ wire'[j] = wire[j]
      BY <1>t, <2>1, <2>2, <3>1, <3>3
    <3> QED BY <2>4, <3>2, <3>3
  <2>9. Complete'
    <3> SUFFICES ASSUME tcp = "up" PROVE Len(wire') = Trades' + Logs' /\ forwarded' = Len(wire')
      BY <1>7 DEF SendOk, Complete
    <3>1. Len(wire') = Len(wire) + 1 /\ forwarded' = forwarded + 1
      BY <1>7, <1>t DEF SendOk, TypeOK
    <3>2. Len(wire) = Trades + Logs /\ forwarded = Len(wire) /\ Trades = tradeCount - 1 /\ Logs = Due
      BY <1>7 DEF Inv, Complete, Trades, Logs
    <3>3. CASE LogInterval = 0
      <4>1. pc' = "loop"
        BY <1>7, <3>3 DEF SendOk, LogDue
      <4> QED BY <1>7, <1>t, <3>1, <3>2, <3>3, <4>1 DEF Trades, Due, Logs
    <3>4. CASE LogInterval # 0
      <4>0. LogInterval \in Nat /\ LogInterval > 0
        BY <3>4, FeedAssumption
      <4>1. tradeCount \div LogInterval = IF tradeCount % LogInterval = 0 THEN Due + 1 ELSE Due
        BY <1>7, <1>t, <2>1, <4>0, DivStep DEF Due, Trades
      <4>2. Due \in Int
        BY <1>7, <1>t, <4>0 DEF Due, Trades
      <4>3. pc' = IF tradeCount % LogInterval = 0 THEN "log" ELSE "loop"
        BY <1>7, <4>0 DEF SendOk, LogDue
      <4>4. Trades' = tradeCount /\ Due' = tradeCount \div LogInterval
        BY <1>7, <4>0, <4>3 DEF Trades, Due
      <4>5. Logs' = Due
        BY <4>1, <4>2, <4>3, <4>4 DEF Logs
      <4> QED BY <1>t, <3>1, <3>2, <4>2, <4>4, <4>5
    <3> QED BY <3>3, <3>4
  <2> QED BY <2>4, <2>5, <2>6, <2>7, <2>8, <2>9 DEF Inv
<1>8. ASSUME pc = "log", SendOk(<<"log", tradeCount>>, "loop"),
             UNCHANGED <<ctxDone, backoff, retries, msgs, tradeCount>>
      PROVE  Inv'
  <2> DEFINE e == <<"log", tradeCount>>
  <2>1. tradeCount > 0 /\ e \in {"trade", "log"} \X (1..MaxMsgs) /\ e[1] = "log" /\ e[2] = tradeCount
    BY <1>8, <1>t DEF Inv, Reading
  <2>2. \A j \in 1..Len(wire) : wire[j][2] < e[2] \/ wire[j] = <<"trade", e[2]>>
    BY <1>8, <2>1 DEF Inv, Behind
  <2>3. wire' = Append(wire, e) \/ wire' = wire
    BY <1>8 DEF SendOk
  <2>4. /\ wire' \in Seq({"trade", "log"} \X (1..MaxMsgs)) /\ Ordered'
        /\ \A j \in 1..Len(wire') : (j \in 1..Len(wire) /\ wire'[j] = wire[j]) \/ wire'[j] = e
    BY <2>1, <2>2, <2>3, AppendStep
  <2>5. TypeOK'
    BY <1>8, <1>t, <2>4 DEF SendOk, TypeOK
  <2>6. BackoffDoubles'
    BY <1>8, <1>t DEF BackoffDoubles, Delay
  <2>7. Reading'
    BY <1>8, <1>t DEF SendOk, Reading
  <2>8. Behind'
    <3> SUFFICES ASSUME NEW j \in 1..Len(wire') PROVE wire'[j][2] <= tradeCount
      BY <1>8 DEF SendOk, Behind
    <3>1. wire'[j] \in {"trade", "log"} \X (1..MaxMsgs) /\ wire'[j][2] \in Nat
      BY <1>t, <2>4
    <3>2. CASE wire'[j] = e
      BY <1>t, <2>1, <3>2
    <3>3. CASE j \in 1..Len(wire) /\ wire'[j] = wire[j]
      BY <1>t, <2>1, <2>2, <3>1, <3>3
    <3> QED BY <2>4, <3>2, <3>3
  <2>9. Complete'
    <3> SUFFICES ASSUME tcp = "up" PROVE Len(wire') = Trades' + Logs' /\ forwarded' = Len(wire')
      BY <1>8 DEF SendOk, Complete
    <3>1. Len(wire') = Len(wire) + 1 /\ forwarded' = forwarded + 1
      BY <1>8, <1>t DEF SendOk, TypeOK
    <3>2. /\ Len(wire) = Trades + Logs /\ forwarded = Len(wire)
          /\ Trades = tradeCount /\ Logs = Due - 1
      BY <1>8 DEF Inv, Complete, Trades, Logs
    <3>3. Trades' = tradeCount /\ Due' = Due /\ Logs' = Due
      BY <1>8 DEF SendOk, Trades, Due, Logs
    <3>4. Due \in Int
      BY <1>8, <1>t, FeedAssumption DEF Due, Trades
    <3> QED BY <1>t, <3>1, <3>2, <3>3, <3>4
  <2> QED BY <2>4, <2>5, <2>6, <2>7, <2>8, <2>9 DEF Inv
<1> QED
  BY <1>1, <1>2, <1>3, <1>4, <1>5, <1>6, <1>7, <1>8
  DEF Next, connectAndStream, readLoop, SendTrade, SendLog

LEMMA Invariance == Spec => []Inv
BY InitInv, NextInv, PTL DEF Spec

-----------------------------------------------------------------------------
(* The theorems *)

\* The delay before a dial is the one of the doubling table, however failed
\* dials, broken connections and the signal interleave.
THEOREM DelaysDouble == Spec => []BackoffDoubles
<1>1. Inv => BackoffDoubles
  BY DEF Inv
<1> QED BY Invariance, <1>1, PTL

\* While the server is there, every parsed trade is on the wire once and in
\* order, and so is every log that is due, for every log interval.
THEOREM TradesAreForwarded == Spec => []CompleteWhileUp
<1>1. Inv => CompleteWhileUp
  BY DEF Inv, Complete, Ordered, CompleteWhileUp
<1> QED BY Invariance, <1>1, PTL
=============================================================================

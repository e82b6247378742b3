-------------------------- MODULE NatsStreamProofs --------------------------
(***************************************************************************)
(* Proofs about NatsStream, for any number of workers, consumer processes, *)
(* messages, faults and crashes.                                           *)
(***************************************************************************)
EXTENDS NatsStream, FiniteSetTheorems, TLAPS

-----------------------------------------------------------------------------
(* The inductive invariant *)

\* A request is sent once, only to a stream that exists, and leaves the wire
\* when it is stored.
Publishing ==
    /\ sink = "open" \/ wire # {} => stream # Nobody
    /\ wire \subseteq written
    /\ \A e \in Events : Stored(e) => e \in written /\ e \notin wire

\* A process about to acknowledge has handled the message it is at.
Owed(k, e) == e \in handled[k] /\ (e \in Alarming[k] => e \in alerted[k])
Acking == \A k \in Consumers : kpc[k] = "ack" => inbox[k] # <<>> /\ Owed(k, Head(inbox[k]))

\* The copies of a message that a process has received and not handled yet.
Copies(e) == {x \in Consumers \X Nat :
                 /\ x[2] \in 1..Len(inbox[x[1]]) /\ inbox[x[1]][x[2]] = e
                 /\ ~(kpc[x[1]] = "ack" /\ x[2] = 1)}

\* The broker may give the message out without another fault.
Spare(e) == e \notin acked /\ (lease[e] = Nobody \/ ~Busy(e))

\* Every handling, received copy and possible delivery is the first one or
\* has a fault of its own.
Causes ==
    \A e \in Events :
        /\ Type[e] = "bad" => handlings[e] = 0
        /\ IsFiniteSet(Copies(e))
        /\ Type[e] # "bad" =>
              handlings[e] + Cardinality(Copies(e)) + (IF Spare(e) THEN 1 ELSE 0) <= 1 + faults

\* Only a pending message has a lease, and an acknowledged one is not pending.
Leases == /\ \A e \in Events : e \notin pending => lease[e] = Nobody
          /\ pending \cap acked = {}

Inv == TypeOK /\ Publishing /\ StoredOnce /\ Acking /\ AckedIsHandled /\ Leases /\ Causes

-----------------------------------------------------------------------------
(* Types, and the publishing side *)

\* A message is appended to the stream.
LEMMA AppendStores ==
    ASSUME stream \in Seq(Events), NEW e \in Events, stream' = Append(stream, e)
    PROVE  /\ stream' \in Seq(Events) /\ stream' # Nobody
           /\ \A f \in Events : Stored(f)' <=> Stored(f) \/ f = e
           /\ StoredOnce /\ ~Stored(e) =>
                 \A j, k \in 1..Len(stream') : stream'[j] = stream'[k] => j = k
<1>1. stream' \in Seq(Events) /\ stream' # Nobody /\ stream # Nobody
  BY StreamAssumption
<1>2. /\ Len(stream) \in Nat /\ Len(stream') = Len(stream) + 1
      /\ \A k \in 1..Len(stream) : stream'[k] = stream[k]
      /\ stream'[Len(stream) + 1] = e
  OBVIOUS
<1>3. \A f \in Events : Stored(f)' <=> Stored(f) \/ f = e
  BY <1>1, <1>2 DEF Stored
<1>4. ASSUME StoredOnce, ~Stored(e)
      PROVE  \A j, k \in 1..Len(stream') : stream'[j] = stream'[k] => j = k
  <2>1. \A j, k \in 1..Len(stream) : stream[j] = stream[k] => j = k
    BY <1>1, <1>4 DEF StoredOnce
  <2>2. \A k \in 1..Len(stream) : stream[k] # e
    BY <1>1, <1>4 DEF Stored
  <2> QED
    BY <1>2, <2>1, <2>2
<1> QED
  BY <1>1, <1>3, <1>4

\* The steps of the sink and of the wire.
SinkStep == \/ NewNATS \/ CloseSink \/ ServerCrash
            \/ \E p \in Publishers : \/ Returns(p)
                                     \/ \E e \in Events : WriteUnknown(p, e) \/ Write(p, e)
            \/ \E e \in Events : Arrives(e) \/ PublishForeign(e)

\* The steps of the broker towards the consumers, and theirs.
DeliveryStep == \/ \E e \in Events : \/ AckWait(e) \/ AckArrives(e) \/ AckLost(e)
                                     \/ \E k \in Consumers : DeliverNew(k, e) \/ Redeliver(k, e)
                \/ \E k \in Consumers : StartConsumer(k) \/ Callback(k) \/ StopConsumer(k)

\* Next is made of the two.
LEMMA TwoSides ==
    /\ Next <=> SinkStep \/ DeliveryStep
    /\ SinkStep => UNCHANGED <<filter, pending, lease, acked, procVars>>
    /\ DeliveryStep => UNCHANGED <<sinkVars, stream>>
<1>1. Next <=> SinkStep \/ DeliveryStep
  BY DEF Next, SinkStep, DeliveryStep
<1>2. SinkStep => UNCHANGED <<filter, pending, lease, acked, procVars>>
  BY DEF SinkStep, NewNATS, CloseSink, ServerCrash, Returns, WriteOk, WriteFails, WriteUnknown,
         Write, Arrives, Persist, LoseRequest, PublishForeign, brokerVars
<1>3. DeliveryStep => UNCHANGED <<sinkVars, stream>>
  BY DEF DeliveryStep, AckWait, AckArrives, AckLost, DeliverNew, Redeliver, StartConsumer,
         Callback, HandleBad, Handle, Ack, StopConsumer, brokerVars
<1> QED
  BY <1>1, <1>2, <1>3

SinkTypes ==
    /\ sink \in {"off", "open", "closed"}
    /\ crashes \in 0..MaxCrashes
    /\ written \in SUBSET Events
    /\ cur \in [Publishers -> Events \cup {Nobody}]
    /\ wire \in SUBSET Events
    /\ fate \in [Events -> {"none", "ok", "failed"}]
    /\ stream = Nobody \/ stream \in Seq(Events)

DeliveryTypes ==
    /\ filter \in Subjects \cup {Nobody}
    /\ pending \in SUBSET Events /\ acked \in SUBSET Events
    /\ lease \in [Events -> Consumers \cup {Nobody}]
    /\ kpc \in [Consumers -> {"down", "idle", "ack"}]
    /\ inbox \in [Consumers -> Seq(Events)]
    /\ acks \in SUBSET Events
    /\ handled \in [Consumers -> SUBSET Events]
    /\ handlings \in [Events -> Nat]
    /\ alerted \in [Consumers -> SUBSET Events]
    /\ faults \in 0..MaxFaults

\* The publishing side keeps its part of the invariant.
LEMMA PublishingStep ==
    ASSUME SinkTypes, Publishing, StoredOnce, SinkStep
    PROVE  SinkTypes' /\ Publishing' /\ StoredOnce'
<1>0. Nobody \notin Events /\ Nobody \notin Seq(Events) /\ MaxCrashes \in Nat
  BY StreamAssumption
<1>a. ASSUME stream' = stream
      PROVE  (\A e \in Events : Stored(e)' <=> Stored(e))
  BY <1>a DEF Stored
<1>1. CASE NewNATS
  <2>1. UNCHANGED <<crashes, written, cur, wire, fate>> /\ sink' = "open"
    BY <1>1 DEF NewNATS
  <2>2. CASE stream = Nobody
    <3>1. stream' = <<>> /\ wire = {}
      BY <1>1, <2>2 DEF NewNATS, Publishing
    <3>2. stream' # Nobody /\ stream' \in Seq(Events) /\ Len(stream') = 0
      <4>1. <<>> \in Seq(Events) /\ Len(<<>>) = 0
        OBVIOUS
      <4> QED
        BY <1>0, <3>1, <4>1
    <3>3. \A e \in Events : ~Stored(e)' /\ ~Stored(e)
      BY <2>2, <3>2 DEF Stored
    <3> QED
      BY <2>1, <3>1, <3>2, <3>3 DEF SinkTypes, Publishing, StoredOnce
  <2>3. CASE stream # Nobody
    <3>1. stream' = stream
      BY <1>1, <2>3 DEF NewNATS
    <3> QED
      BY <2>1, <2>3, <3>1, <1>a DEF SinkTypes, Publishing, StoredOnce
  <2> QED
    BY <2>2, <2>3
<1>2. CASE CloseSink
  BY <1>2, <1>a DEF CloseSink, brokerVars, SinkTypes, Publishing, StoredOnce
<1>3. CASE ServerCrash
  BY <1>0, <1>3, <1>a DEF ServerCrash, brokerVars, SinkTypes, Publishing, StoredOnce
<1>4. ASSUME NEW p \in Publishers, WriteOk(p)
      PROVE  SinkTypes' /\ Publishing' /\ StoredOnce'
  <2>1. cur[p] \in Events /\ Stored(cur[p])
    BY <1>4 DEF WriteOk, SinkTypes
  <2>2. \A e \in Events : fate'[e] = IF e = cur[p] THEN "ok" ELSE fate[e]
    BY <1>4, <2>1 DEF WriteOk, SinkTypes
  <2> QED
    BY <1>4, <2>1, <2>2, <1>a DEF WriteOk, brokerVars, SinkTypes, Publishing, StoredOnce
<1>5. ASSUME NEW p \in Publishers, WriteFails(p)
      PROVE  SinkTypes' /\ Publishing' /\ StoredOnce'
  <2>1. cur[p] \in Events
    BY <1>5 DEF WriteFails, SinkTypes
  <2>2. \A e \in Events : fate'[e] = IF e = cur[p] THEN "failed" ELSE fate[e]
    BY <1>5, <2>1 DEF WriteFails, SinkTypes
  <2> QED
    BY <1>5, <2>1, <2>2, <1>a DEF WriteFails, brokerVars, SinkTypes, Publishing, StoredOnce
<1>6. ASSUME NEW p \in Publishers, NEW e \in Events, WriteUnknown(p, e)
      PROVE  SinkTypes' /\ Publishing' /\ StoredOnce'
  <2>1. \A f \in Events : fate'[f] = IF f = e THEN "failed" ELSE fate[f]
    BY <1>6 DEF WriteUnknown, SinkTypes
  <2> QED
    BY <1>6, <2>1, <1>a DEF WriteUnknown, brokerVars, SinkTypes, Publishing, StoredOnce
<1>7. ASSUME NEW p \in Publishers, NEW e \in Events, Write(p, e)
      PROVE  SinkTypes' /\ Publishing' /\ StoredOnce'
  BY <1>7, <1>a DEF Write, brokerVars, SinkTypes, Publishing, StoredOnce
<1>8. ASSUME NEW e \in Events, Persist(e)
      PROVE  SinkTypes' /\ Publishing' /\ StoredOnce'
  <2>1. stream \in Seq(Events) /\ ~Stored(e) /\ e \in written
    BY <1>8 DEF Persist, SinkTypes, Publishing
  <2>2. /\ stream' \in Seq(Events) /\ stream' # Nobody
        /\ \A f \in Events : Stored(f)' <=> Stored(f) \/ f = e
        /\ \A j, k \in 1..Len(stream') : stream'[j] = stream'[k] => j = k
    BY <1>8, <2>1, AppendStores DEF Persist
  <2>3. UNCHANGED <<sink, crashes, written, cur, fate>> /\ wire' = wire \ {e}
    BY <1>8 DEF Persist
  <2> QED
    BY <2>1, <2>2, <2>3 DEF SinkTypes, Publishing, StoredOnce
<1>9. ASSUME NEW e \in Events, LoseRequest(e)
      PROVE  SinkTypes' /\ Publishing' /\ StoredOnce'
  BY <1>9, <1>a DEF LoseRequest, brokerVars, SinkTypes, Publishing, StoredOnce
<1>10. ASSUME NEW e \in Events, PublishForeign(e)
       PROVE  SinkTypes' /\ Publishing' /\ StoredOnce'
  <2>1. stream \in Seq(Events) /\ ~Stored(e) /\ e \notin wire
    BY <1>10 DEF PublishForeign, SinkTypes, Publishing
  <2>2. /\ stream' \in Seq(Events) /\ stream' # Nobody
        /\ \A f \in Events : Stored(f)' <=> Stored(f) \/ f = e
        /\ \A j, k \in 1..Len(stream') : stream'[j] = stream'[k] => j = k
    BY <1>10, <2>1, AppendStores DEF PublishForeign
  <2>3. UNCHANGED <<sink, crashes, wire, cur, fate>> /\ written' = written \cup {e}
    BY <1>10 DEF PublishForeign
  <2> QED
    BY <2>1, <2>2, <2>3 DEF SinkTypes, Publishing, StoredOnce
<1> QED
  BY <1>1, <1>2, <1>3, <1>4, <1>5, <1>6, <1>7, <1>8, <1>9, <1>10 DEF SinkStep, Returns, Arrives

-----------------------------------------------------------------------------
(* The delivering side: types, acknowledgements and leases *)

Acks == Acking /\ AckedIsHandled

\* The heads and tails of a process's inbox.
LEMMA InboxFacts ==
    ASSUME DeliveryTypes, NEW k \in Consumers, inbox[k] # <<>>
    PROVE  /\ Head(inbox[k]) \in Events /\ Head(inbox[k]) = inbox[k][1]
           /\ Tail(inbox[k]) \in Seq(Events)
           /\ Len(inbox[k]) \in Nat /\ Len(inbox[k]) > 0
           /\ Len(Tail(inbox[k])) = Len(inbox[k]) - 1
           /\ \A i \in 1..(Len(inbox[k]) - 1) : Tail(inbox[k])[i] = inbox[k][i + 1]
<1>1. inbox[k] \in Seq(Events)
  BY DEF DeliveryTypes
<1> QED
  BY <1>1

\* An acknowledgement stands for a message that was handled, and what was
\* handled stays handled.
LEMMA AcksStay ==
    ASSUME DeliveryTypes, Acks,
           \A k \in Consumers : handled[k] \subseteq handled'[k] /\ alerted[k] \subseteq alerted'[k],
           \A e \in (acks \cup acked)' : \/ e \in acks \cup acked
                                         \/ \E k \in Consumers : Owed(k, e)'
    PROVE  AckedIsHandled'
<1>1. \A k \in Consumers, e \in Events : Owed(k, e) => Owed(k, e)'
  BY DEF Owed
<1>2. \A e \in acks \cup acked : e \in Events /\ \E k \in Consumers : Owed(k, e)
  BY DEF Acks, AckedIsHandled, Owed, DeliveryTypes
<1> QED
  BY <1>1, <1>2 DEF AckedIsHandled, Owed

\* The delivering side keeps its types, the acknowledgements and the leases.
LEMMA AcksStep ==
    ASSUME DeliveryTypes, Acks, Leases, DeliveryStep
    PROVE  DeliveryTypes' /\ Acks' /\ Leases'
<1>0. Nobody \notin Consumers /\ MaxFaults \in Nat /\ SubjectOf \in [Consumers -> Subjects]
  BY StreamAssumption
<1>a. ASSUME acks' \cup acked' \subseteq acks \cup acked, UNCHANGED history
      PROVE  AckedIsHandled'
  BY <1>a, AcksStay DEF history
<1>g. ASSUME NEW k \in Consumers, NEW e \in Events, Give(k, e), UNCHANGED <<kpc, history>>,
             acks' = acks, acked' = acked
      PROVE  /\ inbox' \in [Consumers -> Seq(Events)]
             /\ lease' \in [Events -> Consumers \cup {Nobody}]
             /\ Acks'
             /\ \A f \in Events : lease'[f] = IF f = e THEN k ELSE lease[f]
  <2>1. /\ inbox' = [inbox EXCEPT ![k] = Append(@, e)]
        /\ lease' = [lease EXCEPT ![e] = k]
    BY <1>g DEF Give
  <2>2. inbox[k] \in Seq(Events) /\ Append(inbox[k], e) \in Seq(Events)
    BY DEF DeliveryTypes
  <2>3. /\ inbox' \in [Consumers -> Seq(Events)]
        /\ \A c \in Consumers : inbox'[c] = IF c = k THEN Append(inbox[k], e) ELSE inbox[c]
    BY <2>1, <2>2 DEF DeliveryTypes
  <2>4. inbox[k] # <<>> => Head(Append(inbox[k], e)) = Head(inbox[k])
    BY <2>2
  <2>5. Append(inbox[k], e) # <<>>
    BY <2>2
  <2>6. Acking'
    BY <1>g, <2>3, <2>4, <2>5 DEF Acks, Acking, Owed, history
  <2> QED
    BY <1>a, <1>g, <2>1, <2>3, <2>6 DEF Acks, DeliveryTypes
<1>1. ASSUME NEW e \in Events, AckWait(e) PROVE DeliveryTypes' /\ Acks' /\ Leases'
  <2>1. DeliveryTypes'
    BY <1>0, <1>1 DEF AckWait, DeliveryTypes, history
  <2>2. Acks'
    BY <1>1, <1>a DEF AckWait, Acks, Acking, Owed, history
  <2>3. Leases'
    BY <1>1 DEF AckWait, Leases, DeliveryTypes
  <2> QED
    BY <2>1, <2>2, <2>3
<1>2. ASSUME NEW e \in Events, AckArrives(e) PROVE DeliveryTypes' /\ Acks' /\ Leases'
  <2>1. DeliveryTypes'
    BY <1>0, <1>2 DEF AckArrives, DeliveryTypes, history
  <2>2. Acks'
    BY <1>2, <1>a DEF AckArrives, Acks, Acking, Owed, history
  <2>3. Leases'
    BY <1>2 DEF AckArrives, Leases, DeliveryTypes
  <2> QED
    BY <2>1, <2>2, <2>3
<1>3. ASSUME NEW e \in Events, AckLost(e) PROVE DeliveryTypes' /\ Acks' /\ Leases'
  <2>1. DeliveryTypes'
    BY <1>0, <1>3 DEF AckLost, DeliveryTypes, history, brokerVars
  <2>2. Acks'
    BY <1>3, <1>a DEF AckLost, Acks, Acking, Owed, history, brokerVars
  <2>3. Leases'
    BY <1>3 DEF AckLost, Leases, brokerVars
  <2> QED
    BY <2>1, <2>2, <2>3
<1>4. ASSUME NEW e \in Events, NEW k \in Consumers, DeliverNew(k, e)
      PROVE  DeliveryTypes' /\ Acks' /\ Leases'
  <2>1. Give(k, e) /\ UNCHANGED <<filter, acked, kpc, acks, history, faults>>
    BY <1>4 DEF DeliverNew
  <2>2. pending' = pending \cup {e} /\ e \notin acked
    BY <1>4 DEF DeliverNew
  <2>3. DeliveryTypes'
    BY <1>g, <2>1, <2>2 DEF DeliveryTypes, history
  <2>4. Leases'
    BY <1>g, <2>1, <2>2 DEF Leases
  <2> QED
    BY <1>g, <2>1, <2>3, <2>4
<1>5. ASSUME NEW e \in Events, NEW k \in Consumers, Redeliver(k, e)
      PROVE  DeliveryTypes' /\ Acks' /\ Leases'
  <2>1. Give(k, e) /\ UNCHANGED <<filter, acked, kpc, acks, history, faults, pending>>
    BY <1>5 DEF Redeliver
  <2>2. e \in pending
    BY <1>5 DEF Redeliver
  <2>3. DeliveryTypes'
    BY <1>g, <2>1 DEF DeliveryTypes, history
  <2>4. Leases'
    BY <1>g, <2>1, <2>2 DEF Leases
  <2> QED
    BY <1>g, <2>1, <2>3, <2>4
<1>6. ASSUME NEW k \in Consumers, StartConsumer(k) PROVE DeliveryTypes' /\ Acks' /\ Leases'
  <2>1. DeliveryTypes'
    BY <1>0, <1>6 DEF StartConsumer, DeliveryTypes, history
  <2>2. Acks'
    BY <1>6, <1>a DEF StartConsumer, Acks, Acking, Owed, history, DeliveryTypes
  <2>3. Leases'
    BY <1>6 DEF StartConsumer, Leases
  <2> QED
    BY <2>1, <2>2, <2>3
<1>t. ASSUME NEW k \in Consumers, inbox[k] # <<>>, inbox' = [inbox EXCEPT ![k] = Tail(@)]
      PROVE  /\ inbox' \in [Consumers -> Seq(Events)]
             /\ \A c \in Consumers \ {k} : inbox'[c] = inbox[c]
  BY <1>t, InboxFacts DEF DeliveryTypes
<1>7. ASSUME NEW k \in Consumers, HandleBad(k) PROVE DeliveryTypes' /\ Acks' /\ Leases'
  <2>1. /\ kpc[k] = "idle" /\ inbox[k] # <<>> /\ inbox' = [inbox EXCEPT ![k] = Tail(@)]
        /\ UNCHANGED <<brokerVars, kpc, acks, history, faults>>
    BY <1>7 DEF HandleBad
  <2>2. DeliveryTypes'
    BY <1>t, <2>1 DEF DeliveryTypes, history, brokerVars
  <2>3. Acks'
    BY <1>a, <1>t, <2>1 DEF Acks, Acking, Owed, history, brokerVars
  <2>4. Leases'
    BY <2>1 DEF Leases, brokerVars
  <2> QED
    BY <2>2, <2>3, <2>4
<1>8. ASSUME NEW k \in Consumers, Handle(k) PROVE DeliveryTypes' /\ Acks' /\ Leases'
  <2> DEFINE e == Head(inbox[k])
  <2>1. /\ kpc[k] = "idle" /\ inbox[k] # <<>> /\ kpc' = [kpc EXCEPT ![k] = "ack"]
        /\ UNCHANGED <<brokerVars, inbox, acks, faults>>
        /\ handled' = [handled EXCEPT ![k] = @ \cup {e}]
        /\ handlings' = [handlings EXCEPT ![e] = @ + 1]
        /\ alerted' = [alerted EXCEPT ![k] = IF e \in Alarming[k] THEN @ \cup {e} ELSE @]
    BY <1>8 DEF Handle
  <2>2. e \in Events
    BY <2>1, InboxFacts
  <2> HIDE DEF e
  <2>3. /\ \A c \in Consumers : handled'[c] = IF c = k THEN handled[k] \cup {e} ELSE handled[c]
        /\ \A c \in Consumers : alerted'[c] = IF c = k /\ e \in Alarming[k]
                                              THEN alerted[k] \cup {e} ELSE alerted[c]
        /\ \A c \in Consumers : kpc'[c] = IF c = k THEN "ack" ELSE kpc[c]
    BY <2>1 DEF DeliveryTypes
  <2>4. DeliveryTypes'
    BY <2>1, <2>2 DEF DeliveryTypes, brokerVars
  <2>5. AckedIsHandled'
    BY <2>1, <2>3, AcksStay DEF brokerVars
  <2>6. Acking'
    <3> SUFFICES ASSUME NEW c \in Consumers, kpc'[c] = "ack"
                 PROVE  /\ inbox[c] # <<>> /\ Head(inbox[c]) \in handled'[c]
                        /\ Head(inbox[c]) \in Alarming[c] => Head(inbox[c]) \in alerted'[c]
      BY <2>1 DEF Acking, Owed
    <3>1. CASE c = k
      BY <2>1, <2>3, <3>1 DEF Owed, e
    <3>2. CASE c # k
      BY <2>1, <2>3, <3>2 DEF Acks, Acking, Owed
    <3> QED
      BY <3>1, <3>2
  <2>7. Leases'
    BY <2>1 DEF Leases, brokerVars
  <2> QED
    BY <2>4, <2>5, <2>6, <2>7 DEF Acks
<1>9. ASSUME NEW k \in Consumers, Ack(k) PROVE DeliveryTypes' /\ Acks' /\ Leases'
  <2>1. /\ kpc[k] = "ack" /\ inbox' = [inbox EXCEPT ![k] = Tail(@)]
        /\ acks' = acks \cup {Head(inbox[k])} /\ kpc' = [kpc EXCEPT ![k] = "idle"]
        /\ UNCHANGED <<brokerVars, history, faults>>
    BY <1>9 DEF Ack
  <2>2. inbox[k] # <<>> /\ Owed(k, Head(inbox[k])) /\ Head(inbox[k]) \in Events
    BY <2>1, InboxFacts DEF Acks, Acking
  <2>3. DeliveryTypes'
    BY <1>t, <2>1, <2>2 DEF DeliveryTypes, history, brokerVars
  <2>4. AckedIsHandled'
    <3>1. \A e \in (acks \cup acked)' : \/ e \in acks \cup acked
                                        \/ \E c \in Consumers : Owed(c, e)'
      BY <2>1, <2>2 DEF brokerVars, Owed, history
    <3> QED
      BY <2>1, <3>1, AcksStay DEF history
  <2>5. Acking'
    BY <1>t, <2>1, <2>2 DEF Acks, Acking, Owed, history, DeliveryTypes
  <2>6. Leases'
    BY <2>1 DEF Leases, brokerVars
  <2> QED
    BY <2>3, <2>4, <2>5, <2>6 DEF Acks
<1>10. ASSUME NEW k \in Consumers, StopConsumer(k) PROVE DeliveryTypes' /\ Acks' /\ Leases'
  <2>0. <<>> \in Seq(Events)
    OBVIOUS
  <2>1. DeliveryTypes'
    BY <1>0, <1>10, <2>0 DEF StopConsumer, DeliveryTypes, history, brokerVars
  <2>2. Acking'
    BY <1>10 DEF StopConsumer, Acks, Acking, Owed, history, DeliveryTypes
  <2>3. AckedIsHandled'
    BY <1>10, <1>a DEF StopConsumer, brokerVars
  <2>4. Leases'
    BY <1>10 DEF StopConsumer, Leases, brokerVars
  <2> QED
    BY <2>1, <2>2, <2>3, <2>4 DEF Acks
<1> QED
  BY <1>1, <1>2, <1>3, <1>4, <1>5, <1>6, <1>7, <1>8, <1>9, <1>10 DEF DeliveryStep, Callback

-----------------------------------------------------------------------------
(* The delivering side: how often a message is handled *)

Received(e) == \E k \in Consumers : \E i \in 1..Len(inbox[k]) : inbox[k][i] = e

\* What the causes have to account for besides the handlings so far.
Weight(e) == Cardinality(Copies(e)) + (IF Spare(e) THEN 1 ELSE 0)

\* A step that adds no more than the faults it costs.
LEMMA CausesKept ==
    ASSUME DeliveryTypes, DeliveryTypes', Causes, faults' >= faults,
           \A e \in Events :
              /\ IsFiniteSet(Copies(e)')
              /\ Type[e] = "bad" => handlings'[e] = handlings[e]
              /\ Type[e] # "bad" =>
                    handlings'[e] + Weight(e)' <= handlings[e] + Weight(e) + (faults' - faults)
    PROVE  Causes'
<1> SUFFICES ASSUME NEW e \in Events
             PROVE  /\ Type[e] = "bad" => handlings'[e] = 0
                    /\ IsFiniteSet(Copies(e)')
                    /\ Type[e] # "bad" => handlings'[e] + Cardinality(Copies(e)')
                                             + (IF Spare(e)' THEN 1 ELSE 0) <= 1 + faults'
  BY DEF Causes
<1>1. /\ handlings[e] \in Nat /\ handlings'[e] \in Nat /\ faults \in Nat /\ faults' \in Nat
      /\ Cardinality(Copies(e)) \in Nat /\ Cardinality(Copies(e)') \in Nat
  <2>1. Cardinality(Copies(e)) \in Nat /\ Cardinality(Copies(e)') \in Nat
    BY FS_CardinalityType DEF Causes
  <2> QED
    BY <2>1, StreamAssumption DEF DeliveryTypes
<1>2. /\ Type[e] = "bad" => handlings[e] = 0
      /\ Type[e] # "bad" => handlings[e] + Cardinality(Copies(e))
                               + (IF Spare(e) THEN 1 ELSE 0) <= 1 + faults
  BY DEF Causes
<1>3. Weight(e)' = Cardinality(Copies(e)') + (IF Spare(e)' THEN 1 ELSE 0)
  BY DEF Weight
<1>4. Weight(e) = Cardinality(Copies(e)) + (IF Spare(e) THEN 1 ELSE 0)
  BY DEF Weight
<1> HIDE DEF Weight, Spare, Copies
<1> QED
  BY <1>1, <1>2, <1>3, <1>4

\* The messages that are in hands, as Busy uses them.
LEMMA BusyFacts ==
    /\ \A e \in Events : Busy(e) <=> e \in acks \/ Received(e)
    /\ \A e \in Events : Busy(e)' <=> e \in acks' \/ Received(e)'
BY DEF Busy, Received

\* No process receives or handles anything.
LEMMA CopiesSame ==
    ASSUME inbox' = inbox, \A k \in Consumers : kpc'[k] = "ack" <=> kpc[k] = "ack"
    PROVE  \A e \in Events : Copies(e)' = Copies(e) /\ (Received(e)' <=> Received(e))
BY DEF Copies, Received

\* A process receives a copy.
LEMMA CopiesGive ==
    ASSUME DeliveryTypes, Acking, NEW k \in Consumers, NEW e \in Events,
           inbox' = [inbox EXCEPT ![k] = Append(@, e)], kpc' = kpc
    PROVE  /\ \E x : x \notin Copies(e) /\ Copies(e)' = Copies(e) \cup {x}
           /\ Received(e)'
           /\ \A f \in Events \ {e} : Copies(f)' = Copies(f) /\ (Received(f)' <=> Received(f))
<1> DEFINE n == Len(inbox[k]) + 1
<1>1. inbox[k] \in Seq(Events) /\ Len(inbox[k]) \in Nat
  BY DEF DeliveryTypes
<1>2. /\ \A c \in Consumers \ {k} : inbox'[c] = inbox[c]
      /\ inbox'[k] = Append(inbox[k], e)
  BY DEF DeliveryTypes
<1>3. /\ Len(inbox'[k]) = n
      /\ \A i \in 1..Len(inbox[k]) : inbox'[k][i] = inbox[k][i]
      /\ inbox'[k][n] = e
  BY <1>1, <1>2
<1>4. ~(kpc[k] = "ack" /\ n = 1)
  BY <1>1 DEF Acking
<1>5. n \in Nat /\ n > Len(inbox[k])
  BY <1>1
<1>6. 1..n = (1..Len(inbox[k])) \cup {n}
  BY <1>1
<1> HIDE DEF n
<1>7. ASSUME NEW f \in Events, NEW c \in Consumers, NEW i \in Nat
      PROVE  (i \in 1..Len(inbox'[c]) /\ inbox'[c][i] = f) <=>
                \/ i \in 1..Len(inbox[c]) /\ inbox[c][i] = f
                \/ c = k /\ i = n /\ f = e
  <2>1. CASE c # k
    BY <1>2, <2>1
  <2>2. CASE c = k
    BY <1>3, <1>5, <1>6, <2>2
  <2> QED
    BY <2>1, <2>2
<1>8. \A c \in Consumers : \A i : /\ i \in 1..Len(inbox[c]) => i \in Nat
                                  /\ i \in 1..Len(inbox'[c]) => i \in Nat
  OBVIOUS
<1>9. ASSUME NEW f \in Events PROVE Received(f)' <=> Received(f) \/ f = e
  BY <1>3, <1>5, <1>6, <1>7, <1>8 DEF Received
<1>10. Copies(e)' = Copies(e) \cup {<<k, n>>}
  BY <1>4, <1>5, <1>7 DEF Copies
<1>11. <<k, n>> \notin Copies(e)
  BY <1>1, <1>5 DEF Copies
<1>12. \A f \in Events \ {e} : Copies(f)' = Copies(f)
  BY <1>7 DEF Copies
<1> QED
  BY <1>9, <1>10, <1>11, <1>12

\* A process drops the first message of its inbox, which no longer counts or
\* is not e.
LEMMA CopiesTail ==
    ASSUME DeliveryTypes, NEW k \in Consumers, inbox[k] # <<>>,
           inbox' = [inbox EXCEPT ![k] = Tail(@)],
           \A c \in Consumers \ {k} : kpc'[c] = "ack" <=> kpc[c] = "ack",
           kpc'[k] # "ack", NEW e \in Events, IsFiniteSet(Copies(e))
    PROVE  /\ IsFiniteSet(Copies(e)') /\ Cardinality(Copies(e)') <= Cardinality(Copies(e))
           /\ e # Head(inbox[k]) => (Received(e)' <=> Received(e))
<1>1. /\ \A c \in Consumers \ {k} : inbox'[c] = inbox[c]
      /\ inbox'[k] = Tail(inbox[k])
  BY DEF DeliveryTypes
<1>2. /\ Len(inbox[k]) \in Nat /\ Len(inbox[k]) > 0
      /\ Len(inbox'[k]) = Len(inbox[k]) - 1
      /\ \A i \in 1..(Len(inbox[k]) - 1) : inbox'[k][i] = inbox[k][i + 1]
      /\ Head(inbox[k]) = inbox[k][1]
  BY <1>1, InboxFacts
<1> DEFINE f == [x \in Copies(e)' |-> IF x[1] = k THEN <<k, x[2] + 1>> ELSE x]
<1>3. ASSUME NEW x \in Copies(e)' PROVE f[x] \in Copies(e)
  <2>1. /\ x \in Consumers \X Nat /\ x[1] \in Consumers /\ x[2] \in Nat
        /\ x[2] \in 1..Len(inbox'[x[1]]) /\ inbox'[x[1]][x[2]] = e
        /\ ~(kpc'[x[1]] = "ack" /\ x[2] = 1)
    BY DEF Copies
  <2>2. CASE x[1] = k
    <3>1. x[2] + 1 \in 1..Len(inbox[k]) /\ inbox[k][x[2] + 1] = e /\ x[2] + 1 # 1
      BY <1>2, <2>1, <2>2
    <3>2. f[x] = <<k, x[2] + 1>>
      BY <2>2
    <3>3. <<k, x[2] + 1>> \in Copies(e)
      BY <2>1, <3>1 DEF Copies
    <3> QED
      BY <3>2, <3>3
  <2>3. CASE x[1] # k
    BY <1>1, <2>1, <2>3 DEF Copies
  <2> QED
    BY <2>2, <2>3
<1>4. ASSUME NEW x \in Copies(e)', NEW y \in Copies(e)', f[x] = f[y] PROVE x = y
  <2>1. /\ x = <<x[1], x[2]>> /\ x[2] \in Nat
        /\ y = <<y[1], y[2]>> /\ y[2] \in Nat
    BY DEF Copies
  <2>2. CASE x[1] = k /\ y[1] = k
    <3>1. <<k, x[2] + 1>> = <<k, y[2] + 1>>
      BY <1>4, <2>2
    <3> QED
      BY <2>1, <2>2, <3>1
  <2>3. CASE x[1] = k /\ y[1] # k
    BY <1>4, <2>1, <2>3
  <2>4. CASE x[1] # k /\ y[1] = k
    BY <1>4, <2>1, <2>4
  <2>5. CASE x[1] # k /\ y[1] # k
    BY <1>4, <2>5
  <2> QED
    BY <2>2, <2>3, <2>4, <2>5
<1>5. f \in Injection(Copies(e)', Copies(e))
  BY <1>3, <1>4 DEF Injection, IsInjective
<1>6. IsFiniteSet(Copies(e)') /\ Cardinality(Copies(e)') <= Cardinality(Copies(e))
  BY <1>5, FS_Injection
<1>7. ASSUME e # Head(inbox[k]) PROVE Received(e)' <=> Received(e)
  <2>1. ASSUME NEW i \in 1..Len(inbox[k]), inbox[k][i] = e
        PROVE  i - 1 \in 1..Len(inbox'[k]) /\ inbox'[k][i - 1] = e
    BY <1>2, <1>7, <2>1
  <2>2. ASSUME NEW i \in 1..Len(inbox'[k]), inbox'[k][i] = e
        PROVE  i + 1 \in 1..Len(inbox[k]) /\ inbox[k][i + 1] = e
    BY <1>2, <2>2
  <2>3. ASSUME Received(e) PROVE Received(e)'
    <3>1. PICK c \in Consumers : \E i \in 1..Len(inbox[c]) : inbox[c][i] = e
      BY <2>3 DEF Received
    <3>2. \E i \in 1..Len(inbox'[c]) : inbox'[c][i] = e
      BY <1>1, <2>1, <3>1
    <3> QED
      BY <3>2 DEF Received
  <2>4. ASSUME Received(e)' PROVE Received(e)
    <3>1. PICK c \in Consumers : \E i \in 1..Len(inbox'[c]) : inbox'[c][i] = e
      BY <2>4 DEF Received
    <3>2. \E i \in 1..Len(inbox[c]) : inbox[c][i] = e
      BY <1>1, <2>2, <3>1
    <3> QED
      BY <3>2 DEF Received
  <2> QED
    BY <2>3, <2>4
<1> QED
  BY <1>6, <1>7

\* Every step of the delivering side pays for what it adds.
LEMMA CausesStep ==
    ASSUME DeliveryTypes, DeliveryTypes', Acking, Leases, Causes, DeliveryStep
    PROVE  Causes'
<1>0. faults \in Nat /\ \A e \in Events : handlings[e] \in Nat
  BY StreamAssumption DEF DeliveryTypes
<1>c. \A e \in Events : IsFiniteSet(Copies(e)) /\ Cardinality(Copies(e)) \in Nat
  BY FS_CardinalityType DEF Causes
<1>s. \A e \in Events : /\ Spare(e) <=> e \notin acked /\ (lease[e] = Nobody \/ ~Busy(e))
                        /\ Spare(e)' <=> e \notin acked' /\ (lease'[e] = Nobody \/ ~Busy(e)')
  BY DEF Spare
<1>w. \A e \in Events :
         /\ Weight(e) = Cardinality(Copies(e)) + (IF Spare(e) THEN 1 ELSE 0)
         /\ Weight(e)' = Cardinality(Copies(e)') + (IF Spare(e)' THEN 1 ELSE 0)
  BY DEF Weight
<1> HIDE DEF Weight, Spare, Copies, Received, Busy
<1>1. ASSUME NEW e \in Events, AckWait(e) PROVE Causes'
  <2>1. UNCHANGED <<handlings, acked, acks, inbox, kpc>>
    BY <1>1 DEF AckWait, history
  <2>2. \A f \in Events : lease'[f] = IF f = e THEN Nobody ELSE lease[f]
    BY <1>1 DEF AckWait, DeliveryTypes
  <2>3. \/ ~Busy(e) /\ faults' = faults
        \/ faults' = faults + 1
    BY <1>1 DEF AckWait
  <2>4. \A f \in Events : Copies(f)' = Copies(f) /\ (Busy(f)' <=> Busy(f))
    BY <2>1, CopiesSame, BusyFacts
  <2>5. ASSUME NEW f \in Events PROVE Weight(f)' <= Weight(f) + (faults' - faults)
    BY <1>0, <1>c, <1>s, <1>w, <2>1, <2>2, <2>3, <2>4
  <2> QED
    BY <1>0, <1>c, <1>w, <2>1, <2>3, <2>4, <2>5, CausesKept
<1>2. ASSUME NEW e \in Events, AckArrives(e) PROVE Causes'
  <2>1. /\ UNCHANGED <<handlings, inbox, kpc, faults>>
        /\ acks' = acks \ {e} /\ acked' = acked \cup {e}
    BY <1>2 DEF AckArrives, history
  <2>2. \A f \in Events : lease'[f] = IF f = e THEN Nobody ELSE lease[f]
    BY <1>2 DEF AckArrives, DeliveryTypes
  <2>3. \A f \in Events : Copies(f)' = Copies(f) /\ (f # e => (Busy(f)' <=> Busy(f)))
    BY <2>1, CopiesSame, BusyFacts
  <2>4. ASSUME NEW f \in Events PROVE Weight(f)' <= Weight(f)
    BY <1>c, <1>s, <1>w, <2>1, <2>2, <2>3
  <2> QED
    BY <1>0, <1>c, <1>w, <2>1, <2>3, <2>4, CausesKept
<1>3. ASSUME NEW e \in Events, AckLost(e) PROVE Causes'
  <2>1. UNCHANGED <<handlings, inbox, kpc, acked, lease>> /\ faults' = faults + 1
    BY <1>3 DEF AckLost, history, brokerVars
  <2>2. \A f \in Events : Copies(f)' = Copies(f)
    BY <2>1, CopiesSame
  <2>3. ASSUME NEW f \in Events PROVE Weight(f)' <= Weight(f) + 1
    BY <1>c, <1>w, <2>2
  <2> QED
    BY <1>0, <1>c, <1>w, <2>1, <2>2, <2>3, CausesKept
<1>g. ASSUME NEW k \in Consumers, NEW e \in Events, Give(k, e), Spare(e),
             UNCHANGED <<acked, kpc, acks, history, faults>>
      PROVE  Causes'
  <2>1. /\ inbox' = [inbox EXCEPT ![k] = Append(@, e)]
        /\ \A f \in Events : lease'[f] = IF f = e THEN k ELSE lease[f]
    BY <1>g DEF Give, DeliveryTypes
  <2>2. /\ \E x : x \notin Copies(e) /\ Copies(e)' = Copies(e) \cup {x}
        /\ Received(e)'
        /\ \A f \in Events \ {e} : Copies(f)' = Copies(f) /\ (Received(f)' <=> Received(f))
    BY <1>g, <2>1, CopiesGive
  <2>3. IsFiniteSet(Copies(e)') /\ Cardinality(Copies(e)') = Cardinality(Copies(e)) + 1
    BY <1>c, <2>2, FS_AddElement
  <2>4. ~Spare(e)'
    <3>1. Busy(e)' /\ lease'[e] = k /\ k # Nobody
      BY <2>1, <2>2, BusyFacts, StreamAssumption
    <3> QED
      BY <1>s, <3>1
  <2>5. \A f \in Events \ {e} : Spare(f)' <=> Spare(f)
    BY <1>g, <1>s, <2>1, <2>2, BusyFacts
  <2>6. handlings' = handlings /\ faults' = faults
    BY <1>g DEF history
  <2>7. ASSUME NEW f \in Events PROVE IsFiniteSet(Copies(f)') /\ Weight(f)' = Weight(f)
    <3>1. CASE f = e
      BY <1>c, <1>g, <1>w, <2>3, <2>4, <3>1
    <3>2. CASE f # e
      BY <1>c, <1>w, <2>2, <2>5, <3>2
    <3> QED
      BY <3>1, <3>2
  <2>8. \A f \in Events : Weight(f) \in Nat
    BY <1>c, <1>w
  <2> QED
    BY <1>0, <2>6, <2>7, <2>8, CausesKept
<1>4. ASSUME NEW e \in Events, NEW k \in Consumers, DeliverNew(k, e) PROVE Causes'
  <2>1. Spare(e)
    BY <1>4, <1>s DEF DeliverNew, Leases
  <2> QED
    BY <1>4, <1>g, <2>1 DEF DeliverNew
<1>5. ASSUME NEW e \in Events, NEW k \in Consumers, Redeliver(k, e) PROVE Causes'
  <2>1. Spare(e)
    BY <1>5, <1>s DEF Redeliver, Leases
  <2> QED
    BY <1>5, <1>g, <2>1 DEF Redeliver
<1>6. ASSUME NEW k \in Consumers, StartConsumer(k) PROVE Causes'
  <2>1. UNCHANGED <<handlings, inbox, acked, acks, lease, faults>>
    BY <1>6 DEF StartConsumer, history
  <2>2. \A c \in Consumers : kpc'[c] = "ack" <=> kpc[c] = "ack"
    BY <1>6 DEF StartConsumer, DeliveryTypes
  <2>3. \A f \in Events : Copies(f)' = Copies(f) /\ (Busy(f)' <=> Busy(f))
    BY <2>1, <2>2, CopiesSame, BusyFacts
  <2>4. ASSUME NEW f \in Events PROVE Weight(f)' = Weight(f) /\ Weight(f) \in Nat
    BY <1>c, <1>s, <1>w, <2>1, <2>3
  <2> QED
    BY <1>0, <1>c, <2>1, <2>3, <2>4, CausesKept
<1>7. ASSUME NEW k \in Consumers, HandleBad(k) PROVE Causes'
  <2>1. /\ kpc[k] = "idle" /\ inbox[k] # <<>> /\ inbox' = [inbox EXCEPT ![k] = Tail(@)]
        /\ Type[Head(inbox[k])] = "bad"
        /\ UNCHANGED <<handlings, acked, acks, lease, kpc, faults>>
    BY <1>7 DEF HandleBad, history, brokerVars
  <2>2. ASSUME NEW f \in Events
        PROVE  /\ IsFiniteSet(Copies(f)') /\ Cardinality(Copies(f)') <= Cardinality(Copies(f))
               /\ Cardinality(Copies(f)') \in Nat
               /\ Type[f] # "bad" => (Busy(f)' <=> Busy(f))
    <3>1. /\ IsFiniteSet(Copies(f)') /\ Cardinality(Copies(f)') <= Cardinality(Copies(f))
          /\ f # Head(inbox[k]) => (Received(f)' <=> Received(f))
      BY <1>c, <2>1, CopiesTail
    <3> QED
      BY <2>1, <3>1, BusyFacts, FS_CardinalityType
  <2>3. ASSUME NEW f \in Events, Type[f] # "bad" PROVE Weight(f)' <= Weight(f)
    <3>1. Spare(f)' <=> Spare(f)
      BY <1>s, <2>1, <2>2, <2>3
    <3> QED
      BY <1>c, <1>w, <2>2, <3>1
  <2>4. \A f \in Events : Weight(f) \in Nat /\ Weight(f)' \in Nat
    BY <1>c, <1>w, <2>2
  <2> QED
    BY <1>0, <2>1, <2>2, <2>3, <2>4, CausesKept
<1>8. ASSUME NEW k \in Consumers, Handle(k) PROVE Causes'
  <2> DEFINE e == Head(inbox[k])
  <2>1. /\ kpc[k] = "idle" /\ inbox[k] # <<>> /\ kpc' = [kpc EXCEPT ![k] = "ack"]
        /\ UNCHANGED <<acked, lease, inbox, acks, faults>>
        /\ handlings' = [handlings EXCEPT ![e] = @ + 1]
        /\ Type[e] # "bad"
    BY <1>8 DEF Handle, brokerVars
  <2>2. e \in Events /\ e = inbox[k][1] /\ 1 \in 1..Len(inbox[k])
    BY <2>1, InboxFacts
  <2> HIDE DEF e
  <2>3. \A c \in Consumers : kpc'[c] = IF c = k THEN "ack" ELSE kpc[c]
    BY <2>1 DEF DeliveryTypes
  <2>4. /\ <<k, 1>> \in Copies(e)
        /\ \A f \in Events : Copies(f)' = Copies(f) \ {<<k, 1>>}
    BY <2>1, <2>2, <2>3 DEF Copies
  <2>5. \A f \in Events : Received(f)' <=> Received(f)
    BY <2>1 DEF Received
  <2>6. \A f \in Events : Spare(f)' <=> Spare(f)
    BY <1>s, <2>1, <2>5, BusyFacts
  <2>7. \A f \in Events : handlings'[f] = IF f = e THEN handlings[e] + 1 ELSE handlings[f]
    BY <2>1, <2>2 DEF DeliveryTypes
  <2>8. ASSUME NEW f \in Events
        PROVE  /\ IsFiniteSet(Copies(f)') /\ Weight(f)' \in Nat /\ Weight(f) \in Nat
               /\ handlings'[f] + Weight(f)' <= handlings[f] + Weight(f)
    <3>1. /\ IsFiniteSet(Copies(f)') /\ Cardinality(Copies(f)') <= Cardinality(Copies(f))
          /\ Cardinality(Copies(f)') \in Nat
      BY <1>c, <2>4, FS_RemoveElement, FS_Subset, FS_CardinalityType
    <3>2. f = e => Cardinality(Copies(f)') = Cardinality(Copies(f)) - 1
      BY <1>c, <2>4, FS_RemoveElement
    <3>3. Weight(f)' \in Nat /\ Weight(f) \in Nat
      BY <1>c, <1>w, <3>1
    <3>4. CASE f = e
      BY <1>0, <1>c, <1>w, <2>6, <2>7, <3>1, <3>2, <3>3, <3>4
    <3>5. CASE f # e
      BY <1>0, <1>c, <1>w, <2>6, <2>7, <3>1, <3>3, <3>5
    <3> QED
      BY <3>1, <3>3, <3>4, <3>5
  <2> QED
    BY <1>0, <2>1, <2>7, <2>8, CausesKept
<1>9. ASSUME NEW k \in Consumers, Ack(k) PROVE Causes'
  <2>1. /\ kpc[k] = "ack" /\ inbox' = [inbox EXCEPT ![k] = Tail(@)]
        /\ acks' = acks \cup {Head(inbox[k])} /\ kpc' = [kpc EXCEPT ![k] = "idle"]
        /\ UNCHANGED <<handlings, acked, lease, faults>>
    BY <1>9 DEF Ack, history, brokerVars
  <2>2. /\ inbox[k] # <<>> /\ Head(inbox[k]) \in Events /\ Head(inbox[k]) = inbox[k][1]
        /\ 1 \in 1..Len(inbox[k])
    BY <2>1, InboxFacts DEF Acking
  <2>3. \A c \in Consumers : kpc'[c] = IF c = k THEN "idle" ELSE kpc[c]
    BY <2>1 DEF DeliveryTypes
  <2>4. Received(Head(inbox[k]))
    BY <2>2 DEF Received
  <2>5. ASSUME NEW f \in Events
        PROVE  /\ IsFiniteSet(Copies(f)') /\ Cardinality(Copies(f)') <= Cardinality(Copies(f))
               /\ Cardinality(Copies(f)') \in Nat
               /\ Busy(f)' <=> Busy(f)
    <3>1. /\ IsFiniteSet(Copies(f)') /\ Cardinality(Copies(f)') <= Cardinality(Copies(f))
          /\ f # Head(inbox[k]) => (Received(f)' <=> Received(f))
      <4>1. /\ \A c \in Consumers \ {k} : kpc'[c] = "ack" <=> kpc[c] = "ack"
            /\ kpc'[k] # "ack"
        BY <2>3
      <4> QED
        BY <1>c, <2>1, <2>2, <4>1, CopiesTail
    <3>2. Busy(f)' <=> Busy(f)
      BY <2>1, <2>4, <3>1, BusyFacts
    <3> QED
      BY <3>1, <3>2, FS_CardinalityType
  <2>6. ASSUME NEW f \in Events
        PROVE  Weight(f)' <= Weight(f) /\ Weight(f)' \in Nat /\ Weight(f) \in Nat
    <3>1. Spare(f)' <=> Spare(f)
      BY <1>s, <2>1, <2>5
    <3> QED
      BY <1>c, <1>w, <2>5, <3>1
  <2> QED
    BY <1>0, <2>1, <2>5, <2>6, CausesKept
<1>10. ASSUME NEW k \in Consumers, StopConsumer(k) PROVE Causes'
  <2>1. /\ kpc' = [kpc EXCEPT ![k] = "down"] /\ inbox' = [inbox EXCEPT ![k] = <<>>]
        /\ faults' = faults + 1 /\ handlings' = handlings
    BY <1>10 DEF StopConsumer, history
  <2>2. \A c \in Consumers : /\ inbox'[c] = IF c = k THEN <<>> ELSE inbox[c]
                             /\ kpc'[c] = IF c = k THEN "down" ELSE kpc[c]
    BY <2>1 DEF DeliveryTypes
  <2>3. \A f \in Events : Copies(f)' \in SUBSET Copies(f)
    BY <2>2 DEF Copies
  <2>4. ASSUME NEW f \in Events
        PROVE  /\ IsFiniteSet(Copies(f)') /\ Weight(f)' \in Nat /\ Weight(f) \in Nat
               /\ Weight(f)' <= Weight(f) + 1
    <3>1. /\ IsFiniteSet(Copies(f)') /\ Cardinality(Copies(f)') <= Cardinality(Copies(f))
      BY <1>c, <2>3, FS_Subset
    <3>2. Cardinality(Copies(f)') \in Nat
      BY <3>1, FS_CardinalityType
    <3> QED
      BY <1>c, <1>w, <3>1, <3>2
  <2> QED
    BY <1>0, <2>1, <2>4, CausesKept
<1> QED
  BY <1>1, <1>2, <1>3, <1>4, <1>5, <1>6, <1>7, <1>8, <1>9, <1>10 DEF DeliveryStep, Callback

-----------------------------------------------------------------------------
(* The theorems *)

\* The two halves of the types.
LEMMA TypeHalves ==
    /\ TypeOK <=> SinkTypes /\ DeliveryTypes
    /\ TypeOK' <=> SinkTypes' /\ DeliveryTypes'
BY DEF TypeOK, SinkTypes, DeliveryTypes

LEMMA InvInit == Init => Inv
<1> SUFFICES ASSUME Init PROVE Inv
  OBVIOUS
<1>1. SinkTypes
  BY StreamAssumption DEF Init, SinkTypes
<1>2. DeliveryTypes
  <2>1. <<>> \in Seq(Events)
    OBVIOUS
  <2> QED
    BY <2>1, StreamAssumption DEF Init, DeliveryTypes
<1>3. \A e \in Events : ~Stored(e) /\ fate[e] = "none"
  BY DEF Init, Stored
<1>4. Publishing /\ StoredOnce
  BY <1>3 DEF Init, Publishing, StoredOnce
<1>5. Acking /\ AckedIsHandled /\ Leases
  BY DEF Init, Acking, AckedIsHandled, Leases
<1>6. \A e \in Events : Copies(e) = {}
  BY DEF Init, Copies
<1>7. Causes
  <2>1. IsFiniteSet({}) /\ Cardinality({}) = 0
    BY FS_EmptySet
  <2>2. faults = 0 /\ \A e \in Events : handlings[e] = 0
    BY DEF Init
  <2>3. \A e \in Events : IsFiniteSet(Copies(e)) /\ Cardinality(Copies(e)) = 0
    BY <1>6, <2>1
  <2> QED
    BY <2>2, <2>3 DEF Causes
<1> QED
  BY <1>1, <1>2, <1>4, <1>5, <1>7, TypeHalves DEF Inv

LEMMA InvStep == Inv /\ [Next]_vars => Inv'
<1> SUFFICES ASSUME Inv, [Next]_vars PROVE Inv'
  OBVIOUS
<1>0. SinkTypes /\ DeliveryTypes /\ Acks
  BY TypeHalves DEF Inv, Acks
<1>p. ASSUME UNCHANGED <<sinkVars, stream>> PROVE SinkTypes' /\ Publishing' /\ StoredOnce'
  <2>1. \A e \in Events : Stored(e)' <=> Stored(e)
    BY <1>p DEF Stored
  <2> QED
    BY <1>0, <1>p, <2>1 DEF Inv, sinkVars, SinkTypes, Publishing, StoredOnce
<1>d. ASSUME UNCHANGED <<filter, pending, lease, acked, procVars>>
      PROVE  DeliveryTypes' /\ Acks' /\ Leases' /\ Causes'
  <2>1. DeliveryTypes' /\ Acks' /\ Leases'
    BY <1>0, <1>d DEF procVars, history, DeliveryTypes, Acks, Acking, Owed, AckedIsHandled,
                      Inv, Leases
  <2>2. \A e \in Events : Copies(e)' = Copies(e) /\ (Spare(e)' <=> Spare(e))
    BY <1>d DEF procVars, Copies, Spare, Busy
  <2>3. Causes'
    BY <1>d, <2>2 DEF Inv, procVars, history, Causes
  <2> QED
    BY <2>1, <2>3
<1>1. CASE UNCHANGED vars
  <2>1. UNCHANGED <<sinkVars, stream>> /\ UNCHANGED <<filter, pending, lease, acked, procVars>>
    BY <1>1 DEF vars, brokerVars
  <2> QED
    BY <2>1, <1>p, <1>d, TypeHalves DEF Inv, Acks
<1>2. CASE SinkStep
  BY <1>0, <1>2, <1>d, TwoSides, PublishingStep, TypeHalves DEF Inv, Acks
<1>3. CASE DeliveryStep
  <2>1. DeliveryTypes' /\ Acks' /\ Leases'
    BY <1>0, <1>3, AcksStep DEF Inv
  <2>2. Causes'
    BY <1>0, <1>3, <2>1, CausesStep DEF Inv, Acks
  <2> QED
    BY <1>3, <1>p, <2>1, <2>2, TwoSides, TypeHalves DEF Inv, Acks
<1> QED
  BY <1>1, <1>2, <1>3, TwoSides

LEMMA Invariance == Spec => []Inv
BY InvInit, InvStep, PTL DEF Spec

\* The variables of sink, broker and consumers keep their types.
THEOREM StreamTypes == Spec => []TypeOK
<1>1. Inv => TypeOK
  BY DEF Inv
<1> QED
  BY Invariance, <1>1, PTL

\* The sink's Write never puts an event into the stream twice, and nil from
\* it means the event is there.
THEOREM PublishedOnce == Spec => []StoredOnce
<1>1. Inv => StoredOnce
  BY DEF Inv
<1> QED
  BY Invariance, <1>1, PTL

\* The callback acknowledges after its work: a message the broker forgets was
\* handled, and the alert it called for raised.
THEOREM HandledBeforeAck == Spec => []AckedIsHandled
<1>1. Inv => AckedIsHandled
  BY DEF Inv
<1> QED
  BY Invariance, <1>1, PTL

\* A message is handled more often than once only as often as an
\* acknowledgement was lost, AckWait passed too early or a process stopped.
THEOREM RepeatsHaveCauses == Spec => []RepeatsNeedFaults
<1>1. Inv => RepeatsNeedFaults
  <2> SUFFICES ASSUME Inv, NEW e \in Events PROVE handlings[e] <= 1 + faults
    BY DEF RepeatsNeedFaults
  <2>1. handlings[e] \in Nat /\ faults \in Nat
    BY StreamAssumption DEF Inv, TypeOK
  <2>2. IsFiniteSet(Copies(e)) /\ Cardinality(Copies(e)) \in Nat
    BY FS_CardinalityType DEF Inv, Causes
  <2>3. /\ Type[e] = "bad" => handlings[e] = 0
        /\ Type[e] # "bad" => handlings[e] + Cardinality(Copies(e))
                                 + (IF Spare(e) THEN 1 ELSE 0) <= 1 + faults
    BY DEF Inv, Causes
  <2> QED
    BY <2>1, <2>2, <2>3
<1> QED
  BY Invariance, <1>1, PTL
=============================================================================

----------------------------- MODULE NatsStream -----------------------------
(***************************************************************************)
(* internal/sink/nats.go, the publishing sink, and cmd/consumer/main.go,   *)
(* the price-alert consumer, on the two sides of a JetStream broker.       *)
(*                                                                         *)
(* Workers of the server publish each event with one request and wait for  *)
(* the broker's answer.  Consumer processes share one durable consumer,    *)
(* "price-alerts": each sets the durable's filter when it starts, handles  *)
(* the messages the broker gives it one after the other and acknowledges   *)
(* each by itself.                                                         *)
(*                                                                         *)
(* The broker is external: it stores a request once or loses it, gives a   *)
(* message that is not acknowledged to one process at a time, and again    *)
(* when AckWait has passed; a message never acknowledged stays pending and *)
(* counts against MaxAckPending.                                           *)
(***************************************************************************)
EXTENDS Naturals, Sequences, FiniteSets

CONSTANTS
    Publishers,     \* workers that call the sink's Write
    Consumers,      \* consumer processes
    Events,         \* the events written, each once, and foreign messages
    Type,           \* the payload of each: "trade", "log", "none"; or "bad"
    SubjectOf,      \* the -subject of each consumer process
    Alarming,       \* per consumer: the trades priced above its -threshold
    MaxAckPending,  \* broker: unacknowledged messages before it stops
    MaxFaults,      \* bound: lost acks, early expiries, consumer stops
    MaxCrashes,     \* bound: crashes of the server
    Nobody          \* no event, no process, no stream

Subjects == {"aegis.trades", "aegis.logs"}

ASSUME StreamAssumption ==
    /\ IsFiniteSet(Events)
    /\ Type \in [Events -> {"trade", "log", "none", "bad"}]
    /\ SubjectOf \in [Consumers -> Subjects]
    /\ Alarming \in [Consumers -> SUBSET {e \in Events : Type[e] = "trade"}]
    /\ MaxAckPending \in Nat \ {0}
    /\ MaxFaults \in Nat /\ MaxCrashes \in Nat
    /\ Nobody \notin Events \cup Consumers
    /\ Nobody \notin Seq(Events)

VARIABLES
    sink,       \* the server's NATSSink
    crashes,    \* crashes of the server so far
    written,    \* events handed to Write
    cur,        \* the event each worker is publishing
    wire,       \* publish requests on their way to the broker
    fate,       \* what Write returned for each event
    stream,     \* the stream AEGIS: Nobody until it is created
    filter,     \* FilterSubjects of the durable: Nobody until it is created
    pending,    \* messages delivered and not acknowledged
    lease,      \* the process a pending message was given to, until AckWait
    acked,      \* messages acknowledged
    kpc,        \* each consumer process: down, between messages, before Ack
    inbox,      \* messages it has received, the first one being handled
    acks,       \* acknowledgements on their way to the broker
    handled,    \* the events each process has handled (history)
    handlings,  \* how often each event was handled, by whichever process (history)
    alerted,    \* the alerts each process has raised (history)
    faults      \* faults of the consumer side so far

sinkVars   == <<sink, crashes, written, cur, wire, fate>>
brokerVars == <<stream, filter, pending, lease, acked>>
history    == <<handled, handlings, alerted>>
procVars   == <<kpc, inbox, acks, history, faults>>
vars == <<sinkVars, brokerVars, procVars>>

\* The subject of a message; foreign ones appear among the trades.
Subject(e) == IF Type[e] = "log" THEN "aegis.logs" ELSE "aegis.trades"

Stored(e) == stream # Nobody /\ \E k \in 1..Len(stream) : stream[k] = e

TypeOK ==
    /\ sink \in {"off", "open", "closed"}
    /\ crashes \in 0..MaxCrashes
    /\ written \in SUBSET Events
    /\ cur \in [Publishers -> Events \cup {Nobody}]
    /\ wire \in SUBSET Events
    /\ fate \in [Events -> {"none", "ok", "failed"}]
    /\ stream = Nobody \/ stream \in Seq(Events)
    /\ filter \in Subjects \cup {Nobody}
    /\ pending \in SUBSET Events /\ acked \in SUBSET Events
    /\ lease \in [Events -> Consumers \cup {Nobody}]
    /\ kpc \in [Consumers -> {"down", "idle", "ack"}]
    /\ inbox \in [Consumers -> Seq(Events)]
    /\ acks \in SUBSET Events
    /\ handled \in [Consumers -> SUBSET Events]
    /\ handlings \in [Events -> Nat]
    /\ alerted \in [Consumers -> SUBSET Events]
    /\ faults \in 0..MaxFaults

Init ==
    /\ sink = "off" /\ crashes = 0
    /\ written = {}
    /\ cur = [p \in Publishers |-> Nobody]
    /\ wire = {}
    /\ fate = [e \in Events |-> "none"]
    /\ stream = Nobody /\ filter = Nobody
    /\ pending = {} /\ acked = {}
    /\ lease = [e \in Events |-> Nobody]
    /\ kpc = [k \in Consumers |-> "down"]
    /\ inbox = [k \in Consumers |-> <<>>]
    /\ acks = {}
    /\ handled = [k \in Consumers |-> {}]
    /\ handlings = [e \in Events |-> 0]
    /\ alerted = [k \in Consumers |-> {}]
    /\ faults = 0

-----------------------------------------------------------------------------
(* NATSSink *)

\* NewNATS: CreateOrUpdateStream keeps a stream that is already there.
NewNATS ==
    /\ sink = "off"
    /\ sink' = "open"
    /\ stream' = IF stream = Nobody THEN <<>> ELSE stream
    /\ UNCHANGED <<crashes, written, cur, wire, fate, filter, pending, lease, acked, procVars>>

\* Write of an event without payload: "unknown event type".
WriteUnknown(p, e) ==
    /\ sink = "open" /\ cur[p] = Nobody
    /\ e \in Events \ written /\ Type[e] = "none"
    /\ written' = written \cup {e}
    /\ fate' = [fate EXCEPT ![e] = "failed"]
    /\ UNCHANGED <<sink, crashes, cur, wire, brokerVars, procVars>>

\* Write: js.Publish sends one request ...
Write(p, e) ==
    /\ sink = "open" /\ cur[p] = Nobody
    /\ e \in Events \ written /\ Type[e] \in {"trade", "log"}
    /\ written' = written \cup {e}
    /\ cur' = [cur EXCEPT ![p] = e]
    /\ wire' = wire \cup {e}
    /\ UNCHANGED <<sink, crashes, fate, brokerVars, procVars>>

\* ... and returns nil when the PubAck is there ...
WriteOk(p) ==
    /\ cur[p] # Nobody /\ Stored(cur[p])
    /\ fate' = [fate EXCEPT ![cur[p]] = "ok"]
    /\ cur' = [cur EXCEPT ![p] = Nobody]
    /\ UNCHANGED <<sink, crashes, written, wire, brokerVars, procVars>>

\* Variant: the sink publishes again when the answer does not come.
WriteFailsRetries(p) ==
    /\ cur[p] # Nobody
    /\ wire' = wire \cup {cur[p]}
    /\ UNCHANGED <<sink, crashes, written, cur, fate, brokerVars, procVars>>

\* ... or an error when it does not come in time, stored or not, for the
\* request can also arrive later.  Nobody publishes the event again.
WriteFails(p) ==
    /\ cur[p] # Nobody
    /\ fate' = [fate EXCEPT ![cur[p]] = "failed"]
    /\ cur' = [cur EXCEPT ![p] = Nobody]
    /\ UNCHANGED <<sink, crashes, written, wire, brokerVars, procVars>>

\* conn.Drain() flushes in the background and main returns at once, so the
\* requests still buffered arrive or are lost.
CloseSink ==
    /\ sink = "open"
    /\ \A p \in Publishers : cur[p] = Nobody
    /\ sink' = "closed"
    /\ UNCHANGED <<crashes, written, cur, wire, fate, brokerVars, procVars>>

\* The server dies; the platform starts another, which calls NewNATS.
ServerCrash ==
    /\ sink = "open" /\ crashes < MaxCrashes
    /\ crashes' = crashes + 1
    /\ sink' = "off"
    /\ cur' = [p \in Publishers |-> Nobody]
    /\ UNCHANGED <<written, wire, fate, brokerVars, procVars>>

-----------------------------------------------------------------------------
(* The broker *)

Persist(e) ==
    /\ e \in wire
    /\ wire' = wire \ {e}
    /\ stream' = Append(stream, e)
    /\ UNCHANGED <<sink, crashes, written, cur, fate, filter, pending, lease, acked, procVars>>

LoseRequest(e) ==
    /\ e \in wire
    /\ wire' = wire \ {e}
    /\ UNCHANGED <<sink, crashes, written, cur, fate, brokerVars, procVars>>

\* Some other client publishes what is no Event.
PublishForeign(e) ==
    /\ stream # Nobody
    /\ e \in Events \ written /\ Type[e] = "bad"
    /\ written' = written \cup {e}
    /\ stream' = Append(stream, e)
    /\ UNCHANGED <<sink, crashes, cur, wire, fate, filter, pending, lease, acked, procVars>>

\* The message goes to one process and is that process's until AckWait.
Give(k, e) ==
    /\ kpc[k] # "down"
    /\ lease' = [lease EXCEPT ![e] = k]
    /\ inbox' = [inbox EXCEPT ![k] = Append(@, e)]

DeliverNew(k, e) ==
    /\ Stored(e) /\ Subject(e) = filter
    /\ e \notin pending \cup acked
    /\ Cardinality(pending) < MaxAckPending
    /\ pending' = pending \cup {e}
    /\ Give(k, e)
    /\ UNCHANGED <<sinkVars, stream, filter, acked, kpc, acks, history, faults>>

Redeliver(k, e) ==
    /\ e \in pending /\ lease[e] = Nobody
    /\ Give(k, e)
    /\ UNCHANGED <<sinkVars, stream, filter, pending, acked, kpc, acks, history, faults>>

\* Somebody still has the message, or its acknowledgement is under way.
Busy(e) == \/ e \in acks
           \/ \E k \in Consumers : \E i \in 1..Len(inbox[k]) : inbox[k][i] = e

\* AckWait passes; while the message is still being worked on, that is a fault.
AckWait(e) ==
    /\ e \in pending /\ lease[e] # Nobody
    /\ lease' = [lease EXCEPT ![e] = Nobody]
    /\ \/ ~Busy(e) /\ UNCHANGED faults
       \/ Busy(e) /\ faults < MaxFaults /\ faults' = faults + 1
    /\ UNCHANGED <<sinkVars, stream, filter, pending, acked, kpc, inbox, acks, history>>

AckArrives(e) ==
    /\ e \in acks
    /\ acks' = acks \ {e}
    /\ pending' = pending \ {e}
    /\ acked' = acked \cup {e}
    /\ lease' = [lease EXCEPT ![e] = Nobody]
    /\ UNCHANGED <<sinkVars, stream, filter, kpc, inbox, history, faults>>

AckLost(e) ==
    /\ e \in acks /\ faults < MaxFaults
    /\ acks' = acks \ {e}
    /\ faults' = faults + 1
    /\ UNCHANGED <<sinkVars, brokerVars, kpc, inbox, history>>

-----------------------------------------------------------------------------
(* The consumer process *)

\* CreateOrUpdateConsumer, which fails until the stream exists, then Consume.
StartConsumer(k) ==
    /\ kpc[k] = "down"
    /\ stream # Nobody
    /\ filter' = SubjectOf[k]
    /\ kpc' = [kpc EXCEPT ![k] = "idle"]
    /\ UNCHANGED <<sinkVars, stream, pending, lease, acked, inbox, acks, history, faults>>

\* Variant: the callback tries to decode the message again in place of returning.
HandleBadRetries(k) ==
    /\ kpc[k] = "idle" /\ inbox[k] # <<>>
    /\ Type[Head(inbox[k])] = "bad"
    /\ UNCHANGED vars

\* proto.Unmarshal fails: the callback returns without an acknowledgement.
HandleBad(k) ==
    /\ kpc[k] = "idle" /\ inbox[k] # <<>>
    /\ Type[Head(inbox[k])] = "bad"
    /\ inbox' = [inbox EXCEPT ![k] = Tail(@)]
    /\ UNCHANGED <<sinkVars, brokerVars, kpc, acks, history, faults>>

\* Variant: Ack as the first statement of the callback.
HandleAcksFirst(k) ==
    /\ kpc[k] = "idle" /\ inbox[k] # <<>>
    /\ Type[Head(inbox[k])] # "bad"
    /\ acks' = acks \cup {Head(inbox[k])}
    /\ kpc' = [kpc EXCEPT ![k] = "ack"]
    /\ UNCHANGED <<sinkVars, brokerVars, inbox, history, faults>>

\* The message is counted, and a trade above the threshold raises an alert ...
Handle(k) ==
    /\ kpc[k] = "idle" /\ inbox[k] # <<>>
    /\ LET e == Head(inbox[k])
       IN /\ Type[e] # "bad"
          /\ handled' = [handled EXCEPT ![k] = @ \cup {e}]
          /\ handlings' = [handlings EXCEPT ![e] = @ + 1]
          /\ alerted' = [alerted EXCEPT ![k] = IF e \in Alarming[k] THEN @ \cup {e} ELSE @]
    /\ kpc' = [kpc EXCEPT ![k] = "ack"]
    /\ UNCHANGED <<sinkVars, brokerVars, inbox, acks, faults>>

\* Variant: msg.Nak() in place of msg.Ack().
AckIsNak(k) ==
    /\ kpc[k] = "ack"
    /\ lease' = [lease EXCEPT ![Head(inbox[k])] = Nobody]
    /\ inbox' = [inbox EXCEPT ![k] = Tail(@)]
    /\ kpc' = [kpc EXCEPT ![k] = "idle"]
    /\ UNCHANGED <<sinkVars, stream, filter, pending, acked, acks, history, faults>>

\* ... before msg.Ack(), which does not wait for the broker.
Ack(k) ==
    /\ kpc[k] = "ack"
    /\ acks' = acks \cup {Head(inbox[k])}
    /\ inbox' = [inbox EXCEPT ![k] = Tail(@)]
    /\ kpc' = [kpc EXCEPT ![k] = "idle"]
    /\ UNCHANGED <<sinkVars, brokerVars, history, faults>>

\* A signal or a crash: conn.Drain() in the background of a process that ends.
StopConsumer(k) ==
    /\ kpc[k] # "down" /\ faults < MaxFaults
    /\ kpc' = [kpc EXCEPT ![k] = "down"]
    /\ inbox' = [inbox EXCEPT ![k] = <<>>]
    /\ faults' = faults + 1
    /\ UNCHANGED <<sinkVars, brokerVars, acks, history>>

-----------------------------------------------------------------------------
Returns(p) == WriteOk(p) \/ WriteFails(p)
Arrives(e) == Persist(e) \/ LoseRequest(e)
Callback(k) == HandleBad(k) \/ Handle(k) \/ Ack(k)

Next ==
    \/ NewNATS \/ CloseSink \/ ServerCrash
    \/ \E p \in Publishers : \/ Returns(p)
                             \/ \E e \in Events : WriteUnknown(p, e) \/ Write(p, e)
    \/ \E e \in Events : \/ Arrives(e) \/ PublishForeign(e)
                         \/ AckWait(e) \/ AckArrives(e) \/ AckLost(e)
                         \/ \E k \in Consumers : DeliverNew(k, e) \/ Redeliver(k, e)
    \/ \E k \in Consumers : StartConsumer(k) \/ Callback(k) \/ StopConsumer(k)

Spec == Init /\ [][Next]_vars

(***************************************************************************)
(* Fairness.  A publish request arrives or is given up, the broker gives   *)
(* out what it can and lets AckWait pass, an acknowledgement that is not   *)
(* lost arrives, a consumer process is started again by the platform and   *)
(* runs its callback.  Faults are bounded, so the broker in the end gets   *)
(* an acknowledgement through.                                             *)
(***************************************************************************)
Fairness ==
    /\ \A e \in Events : WF_vars(Arrives(e)) /\ WF_vars(AckArrives(e)) /\ WF_vars(AckWait(e))
    /\ \A e \in Events : /\ SF_vars(\E k \in Consumers : DeliverNew(k, e))
                         /\ WF_vars(\E k \in Consumers : Redeliver(k, e))
    /\ \A k \in Consumers : WF_vars(StartConsumer(k)) /\ WF_vars(Callback(k))
    /\ \A p \in Publishers : WF_vars(Returns(p))

FairSpec == Spec /\ Fairness

-----------------------------------------------------------------------------
\* An event is in the stream at most once, and there if the sink's Write
\* returned nil, whatever was lost, late or crashed on the way.
StoredOnce ==
    /\ stream # Nobody =>
          \A j, k \in 1..Len(stream) : stream[j] = stream[k] => j = k
    /\ \A e \in Events : fate[e] = "ok" => Stored(e)

\* The broker is told to forget a message only after some process has handled
\* it and raised the alert it owed: a process that dies in the callback loses
\* neither the message nor the alert.
AckedIsHandled ==
    \A e \in acks \cup acked :
        \E k \in Consumers : e \in handled[k] /\ (e \in Alarming[k] => e \in alerted[k])

\* Every repetition has a cause: without a lost acknowledgement, an expiry or a
\* process that stops, processes that share the durable handle a message once.
RepeatsNeedFaults == \A e \in Events : handlings[e] <= 1 + faults

\* A stored trade or log on the durable's subject is acknowledged in the end,
\* or another process turns the durable to its subject, or messages that do not
\* decode, which come back for ever, fill the window the broker allows.  Fewer
\* of them do not hold the others up.
StoredIsAcked ==
    \A e \in Events :
        Stored(e) /\ Type[e] # "bad" ~>
            \/ e \in acked
            \/ filter # Subject(e)
            \/ Cardinality({b \in pending : Type[b] = "bad"}) = MaxAckPending

-----------------------------------------------------------------------------
\* NATS.md on two consumers with different thresholds: "Both receive all
\* messages".  They share the durable, so the broker gives each message to one.
BothReceiveAll ==
    \A e \in Events, k \in Consumers :
        Stored(e) /\ Subject(e) = SubjectOf[k] ~> e \in handled[k]
=============================================================================

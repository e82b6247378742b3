------------------------------ MODULE Delivery ------------------------------
(***************************************************************************)
(* What the data plane promises for the frames it reads from its clients:  *)
(* each connection's frames are read, queued and taken by a worker in the  *)
(* order they were sent, each frame is settled once, by the worker that    *)
(* took it, and a clean stop leaves behind nothing that was queued or      *)
(* taken unless the whole worker pool has been lost.                       *)
(*                                                                         *)
(* Channels, goroutines, connection slots and metrics do not appear here;  *)
(* Server refines this specification (Server!ImplementsDelivery).          *)
(***************************************************************************)
EXTENDS Naturals

CONSTANTS
    Senders,   \* the connections
    MaxFrames  \* bound: frames of one connection

VARIABLES
    stage,     \* how far each frame has come
    phase,     \* of the process: still queueing, draining, or ended
    poolLost   \* no worker is left

dvars == <<stage, phase, poolLost>>

Item == Senders \X (1..MaxFrames)

Stages == {"unread", "held", "queued", "taken", "settled"}

DeliveryInit ==
    /\ stage = [f \in Item |-> "unread"]
    /\ phase = "open"
    /\ poolLost = FALSE

\* The earlier frames of f's connection have all left the given stages.
NoneBefore(f, stages) ==
    \A g \in Item : g[1] = f[1] /\ g[2] < f[2] => stage[g] \notin stages

Move(f, from, to) ==
    /\ stage[f] = from
    /\ stage' = [stage EXCEPT ![f] = to]

\* A handler reads the next frame; it has put the previous one on the queue.
\* Handlers are not waited for, so this goes on while the process stops.
Hold(f) ==
    /\ phase # "crashed"
    /\ NoneBefore(f, {"unread", "held"})
    /\ Move(f, "unread", "held")
    /\ UNCHANGED <<phase, poolLost>>

Enqueue(f) ==
    /\ phase = "open"
    /\ Move(f, "held", "queued")
    /\ UNCHANGED <<phase, poolLost>>

Take(f) ==
    /\ phase \in {"open", "draining"}
    /\ ~poolLost
    /\ NoneBefore(f, {"unread", "held", "queued"})
    /\ Move(f, "queued", "taken")
    /\ UNCHANGED <<phase, poolLost>>

\* A worker is through with the frame, or lost with it.
Settled(f) ==
    /\ phase \in {"open", "draining"}
    /\ Move(f, "taken", "settled")
    /\ poolLost' \in {poolLost, TRUE}
    /\ UNCHANGED phase

Drain ==
    /\ phase = "open"
    /\ phase' = "draining"
    /\ UNCHANGED <<stage, poolLost>>

Stop ==
    /\ phase = "draining"
    /\ \A f \in Item : /\ stage[f] # "taken"
                       /\ stage[f] = "queued" => poolLost
    /\ phase' = "stopped"
    /\ UNCHANGED <<stage, poolLost>>

Crash ==
    /\ phase \in {"open", "draining", "stopped"}
    /\ phase' = "crashed"
    /\ UNCHANGED <<stage, poolLost>>

DeliveryNext ==
    \/ \E f \in Item : Hold(f) \/ Enqueue(f) \/ Take(f) \/ Settled(f)
    \/ Drain \/ Stop \/ Crash

DeliverySpec == DeliveryInit /\ [][DeliveryNext]_dvars
=============================================================================

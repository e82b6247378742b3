---------------------------- MODULE ServerProofs ----------------------------
(***************************************************************************)
(* Proofs about Server, for any number of connections, workers, frames,    *)
(* queue and connection limits: its invariants, that it implements         *)
(* Delivery, and, in the last part, that Pipeline, the server with its     *)
(* PostgreSQL sink, implements both of its components.  What is proved of  *)
(* Server rests on ServerAssumption; PipelineAssumption is cited in the    *)
(* last part only.                                                         *)
(***************************************************************************)
EXTENDS Pipeline, FiniteSetTheorems, TLAPS

-----------------------------------------------------------------------------
(* Connection slots and types.  TypeOK is not inductive: that the two      *)
(* counters never go below zero rests on what they count.                  *)

Slots ==
    /\ connSem = Cardinality(Holders)
    /\ activeConns = Cardinality(Active)
    /\ connSem <= MaxConns

\* A finite set of connections and what adding or removing one does to its
\* size, for the handlers that enter and leave.
LEMMA ConnSetFacts ==
    ASSUME NEW S \in SUBSET Conns
    PROVE  /\ IsFiniteSet(S)
           /\ Cardinality(S) \in Nat
           /\ \A c \in Conns \ S : Cardinality(S \cup {c}) = Cardinality(S) + 1
           /\ \A c \in S : /\ Cardinality(S \ {c}) = Cardinality(S) - 1
                           /\ Cardinality(S) > 0
<1>1. IsFiniteSet(Conns)
  BY ServerAssumption
<1>2. IsFiniteSet(S)
  BY <1>1, FS_Subset
<1>3. Cardinality(S) \in Nat
  BY <1>2, FS_CardinalityType
<1>4. \A c \in Conns \ S : Cardinality(S \cup {c}) = Cardinality(S) + 1
  BY <1>2, FS_AddElement
<1>5. ASSUME NEW c \in S
      PROVE  /\ Cardinality(S \ {c}) = Cardinality(S) - 1
             /\ Cardinality(S) > 0
  <2>1. Cardinality(S \ {c}) = Cardinality(S) - 1
    BY <1>2, FS_RemoveElement
  <2>2. S # {}
    OBVIOUS
  <2>3. Cardinality(S) # 0
    BY <1>2, <2>2, FS_EmptySet
  <2> QED
    BY <1>3, <2>1, <2>3
<1> QED
  BY <1>2, <1>3, <1>4, <1>5

\* How the sets Holders and Active follow the program counter of a handler.
LEMMA HandlerMoves ==
    ASSUME TypeOK, NEW c \in Conns, NEW next \in ConnStates,
           hpc' = [hpc EXCEPT ![c] = next]
    PROVE  /\ (hpc[c] \in Holding <=> next \in Holding) => Holders' = Holders
           /\ hpc[c] \notin Holding /\ next \in Holding =>
                 Holders' = Holders \cup {c} /\ c \in Conns \ Holders
           /\ hpc[c] \in Holding /\ next \notin Holding =>
                 Holders' = Holders \ {c} /\ c \in Holders
           /\ (hpc[c] \in Counted <=> next \in Counted) => Active' = Active
           /\ hpc[c] \notin Counted /\ next \in Counted =>
                 Active' = Active \cup {c} /\ c \in Conns \ Active
           /\ hpc[c] \in Counted /\ next \notin Counted =>
                 Active' = Active \ {c} /\ c \in Active
<1>0. hpc \in [Conns -> ConnStates]
  BY DEF TypeOK
<1>1. \A d \in Conns : hpc'[d] = IF d = c THEN next ELSE hpc[d]
  BY <1>0
<1>2. /\ Holders' = {d \in Conns : hpc'[d] \in Holding}
      /\ Active' = {d \in Conns : hpc'[d] \in Counted}
  BY DEF Holders, Active, Holding, Counted
<1> HIDE DEF Holding, Counted
<1> QED
  BY <1>1, <1>2 DEF Holders, Active

\* The initial state has no handler.
LEMMA SlotsInit == Init => Slots
<1> SUFFICES ASSUME Init PROVE Slots
  OBVIOUS
<1>1. Holders = {} /\ Active = {}
  BY DEF Init, Holders, Active, Holding, Counted
<1>2. Cardinality({}) = 0
  BY FS_EmptySet
<1> QED
  BY <1>1, <1>2, ServerAssumption DEF Init, Slots

\* Every step keeps the token count and the gauge equal to what they count.
LEMMA SlotsStep == TypeOK /\ Slots /\ [Next]_vars => Slots'
<1> SUFFICES ASSUME TypeOK, Slots, [Next]_vars PROVE Slots'
  OBVIOUS
<1> USE DEF ConnStates, Holding, Counted
<1>f. /\ Holders \in SUBSET Conns /\ Active \in SUBSET Conns
      /\ connSem \in Nat /\ activeConns \in Nat
  BY DEF Holders, Active, TypeOK
<1>a. ASSUME hpc' = hpc, connSem' = connSem, activeConns' = activeConns
      PROVE  Slots'
  BY <1>a DEF Slots, Holders, Active
<1>b. ASSUME NEW c \in Conns, NEW next \in ConnStates,
             hpc' = [hpc EXCEPT ![c] = next],
             hpc[c] \in Holding <=> next \in Holding,
             hpc[c] \in Counted <=> next \in Counted,
             connSem' = connSem, activeConns' = activeConns
      PROVE  Slots'
  <2>1. Holders' = Holders /\ Active' = Active
    BY <1>b, HandlerMoves
  <2> QED
    BY <1>b, <2>1 DEF Slots
<1>1. CASE UNCHANGED vars
  BY <1>1, <1>a DEF vars, connVars
<1>2. ASSUME NEW c \in Conns, Client(c) PROVE Slots'
  <2>1. CASE Dial(c)
    BY <2>1, <1>b DEF Dial
  <2>2. CASE ClientSend(c)
    BY <2>2, <1>a DEF ClientSend, connVars
  <2>3. CASE ClientClose(c)
    BY <2>3, <1>a DEF ClientClose, connVars
  <2> QED
    BY <1>2, <2>1, <2>2, <2>3 DEF Client
<1>3. ASSUME NEW c \in Conns, Handler(c) PROVE Slots'
  <2>1. CASE Start(c)
    <3>1. Holders' = Holders /\ Active' = Active \cup {c} /\ c \in Conns \ Active
      BY <2>1, HandlerMoves DEF Start
    <3>2. Cardinality(Active \cup {c}) = Cardinality(Active) + 1
      BY <1>f, <3>1, ConnSetFacts
    <3> QED
      BY <2>1, <3>1, <3>2 DEF Start, Slots
  <2>2. CASE CheckCtx(c)
    <3>1. CASE ctxDone
      BY <2>2, <3>1, <1>b DEF CheckCtx
    <3>2. CASE ~ctxDone
      BY <2>2, <3>2, <1>b DEF CheckCtx
    <3> QED
      BY <3>1, <3>2
  <2>3. CASE ReadFrame(c)
    BY <2>3, <1>b DEF ReadFrame
  <2>4. CASE ReadFails(c)
    BY <2>4, <1>b DEF ReadFails
  <2>5. CASE SetGauge(c)
    BY <2>5, <1>b DEF SetGauge
  <2>6. CASE SendJob(c)
    BY <2>6, <1>b DEF SendJob
  <2>7. CASE SendPanics(c)
    BY <2>7, <1>a DEF SendPanics, connVars
  <2>8. CASE DecGauge(c)
    <3>1. Holders' = Holders /\ Active' = Active \ {c} /\ c \in Active
      BY <2>8, HandlerMoves DEF DecGauge
    <3>2. Cardinality(Active \ {c}) = Cardinality(Active) - 1
      BY <1>f, <3>1, ConnSetFacts
    <3> QED
      BY <2>8, <3>1, <3>2 DEF DecGauge, Slots
  <2>9. CASE Release(c)
    <3>1. Active' = Active /\ Holders' = Holders \ {c} /\ c \in Holders
      BY <2>9, HandlerMoves DEF Release
    <3>2. Cardinality(Holders \ {c}) = Cardinality(Holders) - 1
      BY <1>f, <3>1, ConnSetFacts
    <3> QED
      BY <2>9, <1>f, <3>1, <3>2, ServerAssumption DEF Release, Slots
  <2>10. CASE CloseConn(c)
    BY <2>10, <1>b DEF CloseConn
  <2> QED
    BY <1>3, <2>1, <2>2, <2>3, <2>4, <2>5, <2>6, <2>7, <2>8, <2>9, <2>10 DEF Handler
<1>4. CASE Acceptor
  <2>1. ASSUME NEW c \in Conns, Accept(c) PROVE Slots'
    BY <2>1, <1>b DEF Accept
  <2>2. ASSUME NEW c \in Conns, Admit(c) PROVE Slots'
    <3>1. Active' = Active /\ Holders' = Holders \cup {c} /\ c \in Conns \ Holders
      BY <2>2, HandlerMoves DEF Admit
    <3>2. Cardinality(Holders \cup {c}) = Cardinality(Holders) + 1
      BY <1>f, <3>1, ConnSetFacts
    <3> QED
      BY <2>2, <1>f, <3>1, <3>2, ServerAssumption DEF Admit, Slots
  <2>3. ASSUME NEW c \in Conns, Reject(c) PROVE Slots'
    BY <2>3, <1>b DEF Reject
  <2>4. CASE AcceptorStops
    BY <2>4, <1>a DEF AcceptorStops, connVars
  <2> QED
    BY <1>4, <2>1, <2>2, <2>3, <2>4 DEF Acceptor
<1>5. ASSUME NEW w \in Workers, Worker(w) PROVE Slots'
  BY <1>5, <1>a DEF Worker, Recv, RecvClosed, UnmarshalFails, Unmarshal, Write, Finish,
                    WorkerPanics, connVars
<1>6. CASE Main
  <2>1. CASE CloseListener
    <3>1. Holders' = Holders /\ Active' = Active
      BY <2>1 DEF CloseListener, Holders, Active, TypeOK
    <3> QED
      BY <2>1, <3>1 DEF CloseListener, MainStep, Slots
  <2>2. CASE Main /\ ~CloseListener
    BY <2>2, <1>a DEF Main, Listen, Serve, SetShutdown, Cancel, CloseJobs, WaitWorkers,
                      CloseSink, MainStep
  <2> QED
    BY <1>6, <2>1, <2>2
<1>7. CASE RecvSignal \/ Fatal
  BY <1>7, <1>a DEF RecvSignal, Fatal, MainStep
<1>8. CASE Ended
  BY <1>8, <1>1 DEF Ended
<1> QED
  BY <1>1, <1>2, <1>3, <1>4, <1>5, <1>6, <1>7, <1>8 DEF Next, Step

\* A handler that is about to send has read at least one frame.
Reading == \A c \in Conns : hpc[c] \in {"gauge", "send"} => nread[c] > 0

\* Only frame.Read leads to "gauge", and nothing lowers nread.
LEMMA ReadingStep == TypeOK /\ Reading /\ [Next]_vars => Reading'
<1> SUFFICES ASSUME TypeOK, Reading, [Next]_vars, NEW d \in Conns,
                    hpc'[d] \in {"gauge", "send"}
             PROVE  nread'[d] > 0
  BY DEF Reading
<1> USE DEF TypeOK, Reading
<1>1. CASE UNCHANGED vars
  BY <1>1 DEF vars, connVars
<1>2. ASSUME NEW c \in Conns, Client(c) PROVE nread'[d] > 0
  BY <1>2 DEF Client, Dial, ClientSend, ClientClose, connVars
<1>3. ASSUME NEW c \in Conns, Handler(c) PROVE nread'[d] > 0
  BY <1>3 DEF Handler, Start, CheckCtx, ReadFrame, ReadFails, SetGauge, SendJob, SendPanics,
              DecGauge, Release, CloseConn, connVars
<1>4. CASE Acceptor
  BY <1>4 DEF Acceptor, Accept, Admit, Reject, AcceptorStops, connVars
<1>5. ASSUME NEW w \in Workers, Worker(w) PROVE nread'[d] > 0
  BY <1>5 DEF Worker, Recv, RecvClosed, UnmarshalFails, Unmarshal, Write, Finish,
              WorkerPanics, connVars
<1>6. CASE Main
  BY <1>6 DEF Main, Listen, Serve, SetShutdown, CloseListener, Cancel, CloseJobs,
              WaitWorkers, CloseSink, MainStep
<1>7. CASE RecvSignal \/ Fatal
  BY <1>7 DEF RecvSignal, Fatal, MainStep
<1> QED
  BY <1>1, <1>2, <1>3, <1>4, <1>5, <1>6, <1>7 DEF Next, Step, Ended

WorkerStates == {"off", "recv", "unmarshal", "write", "finish", "done", "panicked"}
Outcomes == {"none", "ok", "failed", "garbled", "panicked"}

\* What a worker that is through with a frame leaves behind.
LEMMA SettleTypes ==
    ASSUME TypeOK, NEW w \in Workers, NEW result \in Outcomes, NEW next \in WorkerStates,
           Settle(w, result, next)
    PROVE  /\ wpc' \in [Workers -> WorkerStates]
           /\ job' \in [Workers -> Frame \cup {NoJob}]
           /\ outcome' \in [Frame -> Outcomes]
<1>1. /\ wpc \in [Workers -> WorkerStates]
      /\ job \in [Workers -> Frame \cup {NoJob}]
      /\ outcome \in [Frame -> Outcomes]
  BY DEF TypeOK, WorkerStates, Outcomes
<1>2. wpc' \in [Workers -> WorkerStates]
  BY <1>1 DEF Settle
<1>3. job' \in [Workers -> Frame \cup {NoJob}]
  BY <1>1 DEF Settle
<1>4. outcome' \in [Frame -> Outcomes]
  BY <1>1 DEF Settle
<1> QED
  BY <1>2, <1>3, <1>4

\* Every step keeps every variable in its type.
LEMMA TypeStep == TypeOK /\ Reading /\ Slots' /\ [Next]_vars => TypeOK'
<1> SUFFICES ASSUME TypeOK, Reading, Slots', [Next]_vars PROVE TypeOK'
  OBVIOUS
<1> USE ServerAssumption DEF TypeOK, ConnStates, MainStates, Terminal
<1>n. connSem' \in Nat /\ activeConns' \in Nat
  <2>1. /\ Holders' \in SUBSET Conns
        /\ Active' \in SUBSET Conns
    BY DEF Holders, Active
  <2>2. Cardinality(Holders') \in Nat /\ Cardinality(Active') \in Nat
    BY <2>1, ConnSetFacts
  <2> QED
    BY <2>2 DEF Slots
<1>1. CASE UNCHANGED vars
  BY <1>1 DEF vars, mainVars, connVars, clientVars, workerVars, counters
<1>2. ASSUME NEW c \in Conns, Client(c) PROVE TypeOK'
  <2> USE DEF mainVars, connVars, clientVars, workerVars, counters
  <2>1. CASE Dial(c)
    BY <2>1 DEF Dial
  <2>2. CASE ClientSend(c)
    BY <2>2 DEF ClientSend
  <2>3. CASE ClientClose(c)
    BY <2>3 DEF ClientClose
  <2> QED
    BY <1>2, <2>1, <2>2, <2>3 DEF Client
<1>3. ASSUME NEW c \in Conns, Handler(c) PROVE TypeOK'
  <2> USE DEF mainVars, connVars, clientVars, workerVars, counters
  <2>5. CASE Start(c)
    BY <2>5, <1>n DEF Start
  <2>6. CASE DecGauge(c)
    BY <2>6, <1>n DEF DecGauge
  <2>7. CASE Release(c)
    BY <2>7, <1>n DEF Release
  <2>8. CASE CloseConn(c)
    BY <2>8 DEF CloseConn
  <2>9. CASE SendPanics(c)
    BY <2>9 DEF SendPanics
  <2>10. CASE CheckCtx(c)
    BY <2>10 DEF CheckCtx
  <2>11. CASE ReadFails(c)
    BY <2>11 DEF ReadFails
  <2>12. CASE SetGauge(c)
    BY <2>12 DEF SetGauge
  <2>3. CASE ReadFrame(c)
    <3>1. nread[c] + 1 \in 0..MaxFrames
      BY <2>3 DEF ReadFrame
    <3>2. Len(jobs) \in Nat
      OBVIOUS
    <3> QED
      BY <2>3, <3>1, <3>2 DEF ReadFrame
  <2>4. CASE SendJob(c)
    <3>1. <<c, nread[c]>> \in Frame
      BY <2>4 DEF Frame, SendJob, Reading
    <3> QED
      BY <2>4, <3>1 DEF SendJob
  <2> QED
    BY <1>3, <2>3, <2>4, <2>5, <2>6, <2>7, <2>8, <2>9, <2>10, <2>11, <2>12 DEF Handler
<1>4. CASE Acceptor
  <2> USE DEF mainVars, connVars, clientVars, workerVars, counters
  <2>1. ASSUME NEW c \in Conns, Accept(c) PROVE TypeOK'
    BY <2>1 DEF Accept
  <2>2. ASSUME NEW c \in Conns, Admit(c) PROVE TypeOK'
    BY <2>2, <1>n DEF Admit
  <2>3. ASSUME NEW c \in Conns, Reject(c) PROVE TypeOK'
    BY <2>3 DEF Reject
  <2>4. CASE AcceptorStops
    BY <2>4 DEF AcceptorStops
  <2> QED
    BY <1>4, <2>1, <2>2, <2>3, <2>4 DEF Acceptor
<1>5. ASSUME NEW w \in Workers, Worker(w) PROVE TypeOK'
  <2> USE DEF mainVars, connVars, clientVars, workerVars, counters
  <2>1. CASE Recv(w)
    <3>1. Head(jobs) \in Frame /\ Tail(jobs) \in Seq(Frame)
      BY <2>1 DEF Recv
    <3> QED
      BY <2>1, <3>1 DEF Recv
  <2>2. CASE RecvClosed(w)
    <3>1. /\ wpc' = [wpc EXCEPT ![w] = "done"]
          /\ UNCHANGED <<mainVars, acc, connVars, clientVars, jobs, job, outcome,
                         activeConns, queueGauge, counters>>
      BY <2>2 DEF RecvClosed
    <3> QED
      BY <3>1
  <2>3. CASE UnmarshalFails(w)
    <3>1. Settle(w, "garbled", "recv")
      BY <2>3 DEF UnmarshalFails
    <3> QED
      BY <2>3, <3>1, SettleTypes DEF UnmarshalFails, WorkerStates, Outcomes
  <2>6. CASE Finish(w)
    BY <2>6 DEF Finish
  <2>7. CASE WorkerPanics(w)
    <3>1. Settle(w, "panicked", "panicked")
      BY <2>7 DEF WorkerPanics
    <3> QED
      BY <2>7, <3>1, SettleTypes DEF WorkerPanics, WorkerStates, Outcomes
  <2>4. CASE Unmarshal(w)
    BY <2>4 DEF Unmarshal
  <2>5. CASE Write(w)
    <3>1. PICK result \in SinkResults(job[w]) :
             /\ Settle(w, result, "finish")
             /\ errors' = IF result = "failed" THEN errors + 1 ELSE errors
      BY <2>5 DEF Write
    <3>2. result \in {"ok", "failed"}
      BY <3>1 DEF SinkResults
    <3>3. UNCHANGED <<mainVars, acc, connVars, clientVars, jobs,
                      activeConns, queueGauge, processed, observed>>
      BY <2>5 DEF Write
    <3>4. errors' \in Nat
      BY <3>1
    <3> QED
      BY <3>1, <3>2, <3>3, <3>4, SettleTypes DEF WorkerStates, Outcomes
  <2> QED
    BY <1>5, <2>1, <2>2, <2>3, <2>4, <2>5, <2>6, <2>7 DEF Worker
<1>6. CASE Main
  BY <1>6 DEF Main, Listen, Serve, SetShutdown, CloseListener, Cancel, CloseJobs,
              WaitWorkers, CloseSink, MainStep, mainVars, clientVars, counters
<1>7. CASE RecvSignal \/ Fatal
  BY <1>7 DEF RecvSignal, Fatal, MainStep, mainVars, clientVars, counters
<1> QED
  BY <1>1, <1>2, <1>3, <1>4, <1>5, <1>6, <1>7 DEF Next, Step, Ended

\* The part of the inductive invariant that every other proof starts from.
Base == TypeOK /\ Slots /\ Reading

\* Base holds initially.
LEMMA BaseInit == Init => Base
<1> SUFFICES ASSUME Init PROVE Base
  OBVIOUS
<1>1. TypeOK
  <2>1. jobs \in Seq(Frame)
    BY DEF Init
  <2>2. fin \in [Conns -> BOOLEAN]
    BY DEF Init
  <2>3. /\ sent \in [Conns -> 0..MaxFrames] /\ nread \in [Conns -> 0..MaxFrames]
        /\ depth \in [Conns -> Nat] /\ processed \in [{"trade", "log"} -> Nat]
    BY ServerAssumption DEF Init
  <2>4. /\ hpc \in [Conns -> ConnStates]
        /\ wpc \in [Workers -> {"off", "recv", "unmarshal", "write", "finish", "done",
                                "panicked"}]
        /\ job \in [Workers -> Frame \cup {NoJob}]
        /\ outcome \in [Frame -> {"none", "ok", "failed", "garbled", "panicked"}]
    BY DEF Init, ConnStates
  <2> QED
    BY <2>1, <2>2, <2>3, <2>4 DEF Init, TypeOK, MainStates
<1>2. Reading
  BY DEF Init, Reading
<1> QED
  BY <1>1, <1>2, SlotsInit DEF Base

\* Every step keeps Base.
LEMMA BaseStep == Base /\ [Next]_vars => Base'
BY SlotsStep, ReadingStep, TypeStep DEF Base

\* Base holds in every reachable state.
LEMMA BaseInvariant == Spec => []Base
BY BaseInit, BaseStep, PTL DEF Spec

\* Type correctness: no counter goes below zero, no channel holds anything but
\* frames, and main and its goroutines are always at a place they can be.
THEOREM TypeCorrect == Spec => []TypeOK
BY BaseInvariant, PTL DEF Base

\* Connection slots: whatever the order in which clients come and handlers
\* end, the semaphore holds one token per handler, at most MaxConns of them.
THEOREM SlotsAreCounted == Spec => []SlotAccounting
<1>1. Base => SlotAccounting
  <2> SUFFICES ASSUME Base PROVE SlotAccounting
    OBVIOUS
  <2>1. Active \subseteq Holders /\ Holders \in SUBSET Conns
    BY DEF Active, Holders, Counted, Holding
  <2>2. Cardinality(Active) <= Cardinality(Holders)
    BY <2>1, ConnSetFacts, FS_Subset
  <2> QED
    BY <2>2 DEF Base, Slots, SlotAccounting
<1> QED
  BY <1>1, BaseInvariant, PTL

\* A client is turned away only at full capacity.
THEOREM RejectsAreJustified == Spec => RejectOnlyWhenFull
<1>1. Base /\ [Next]_vars =>
        [\A c \in Conns : hpc[c] # "rejected" /\ hpc'[c] = "rejected"
                             => Cardinality(Holders) = MaxConns]_vars
  <2> SUFFICES ASSUME Base, Next, NEW d \in Conns,
                      hpc[d] # "rejected", hpc'[d] = "rejected"
               PROVE  Cardinality(Holders) = MaxConns
    OBVIOUS
  <2> USE DEF Base, TypeOK
  <2>1. \E c \in Conns : Reject(c)
    <3>1. ASSUME NEW c \in Conns, Client(c) PROVE FALSE
      BY <3>1 DEF Client, Dial, ClientSend, ClientClose, connVars
    <3>2. ASSUME NEW c \in Conns, Handler(c) PROVE FALSE
      BY <3>2 DEF Handler, Start, CheckCtx, ReadFrame, ReadFails, SetGauge, SendJob,
                  SendPanics, DecGauge, Release, CloseConn, connVars
    <3>3. CASE Acceptor
      BY <3>3 DEF Acceptor, Accept, Admit, AcceptorStops, connVars
    <3>4. ASSUME NEW w \in Workers, Worker(w) PROVE FALSE
      BY <3>4 DEF Worker, Recv, RecvClosed, UnmarshalFails, Unmarshal, Write, Finish,
                  WorkerPanics, connVars
    <3>5. CASE Main \/ RecvSignal \/ Fatal
      BY <3>5 DEF Main, Listen, Serve, SetShutdown, CloseListener, Cancel, CloseJobs,
                  WaitWorkers, CloseSink, RecvSignal, Fatal, MainStep
    <3>6. CASE Ended
      BY <3>6 DEF Ended, vars, connVars
    <3> QED
      BY <3>1, <3>2, <3>3, <3>4, <3>5, <3>6 DEF Next, Step
  <2>2. ~(connSem < MaxConns)
    BY <2>1 DEF Reject
  <2> QED
    BY <2>2, ServerAssumption DEF Slots
<1> QED
  BY <1>1, BaseInvariant, PTL DEF Spec, RejectOnlyWhenFull

-----------------------------------------------------------------------------
(* The life of the process.  What the shutdown steps know of the workers   *)
(* and the channel: a worker leaves its loop only on a closed and empty    *)
(* channel, and nothing is queued after the close.                         *)

Lifecycle ==
    /\ mpc \in {"boot", "listening"} => \A w \in Workers : wpc[w] = "off"
    /\ mpc \in {"waiting", "closing", "exited"} => jobsClosed
    /\ jobsClosed => mpc \in {"waiting", "closing"} \cup Terminal
    /\ \A w \in Workers : job[w] # NoJob <=> wpc[w] \in {"unmarshal", "write"}
    /\ \A w \in Workers : wpc[w] = "done" => jobsClosed /\ jobs = <<>>
    /\ mpc \in {"closing", "exited"} => \A w \in Workers : wpc[w] \in {"done", "panicked"}

\* The value of an idle worker's job is not a frame.
LEMMA NoJobIsNoFrame == NoJob \notin Frame
BY DEF NoJob, Frame

\* The life cycle holds initially.
LEMMA LifecycleInit == Init => Lifecycle
BY DEF Init, Lifecycle, NoJob, Terminal

\* Every step keeps the life cycle.
LEMMA LifecycleStep == Base /\ Lifecycle /\ [Next]_vars => Lifecycle'
<1> SUFFICES ASSUME Base, Lifecycle, [Next]_vars PROVE Lifecycle'
  OBVIOUS
<1>t. TypeOK /\ Reading
  BY DEF Base
<1>a. ASSUME mpc' = mpc, jobsClosed' = jobsClosed, jobs' = jobs, wpc' = wpc, job' = job
      PROVE  Lifecycle'
  BY <1>a DEF Lifecycle
<1>1. CASE UNCHANGED vars
  BY <1>1, <1>a DEF vars, mainVars, workerVars
<1>2. ASSUME NEW c \in Conns, Client(c) PROVE Lifecycle'
  BY <1>2, <1>a DEF Client, Dial, ClientSend, ClientClose, mainVars, workerVars
<1>3. ASSUME NEW c \in Conns, Handler(c) PROVE Lifecycle'
  <2>1. CASE SendJob(c)
    <3>1. mpc' = mpc /\ jobsClosed' = jobsClosed /\ wpc' = wpc /\ job' = job /\ ~jobsClosed
      BY <2>1 DEF SendJob, mainVars, workerVars
    <3> QED
      BY <3>1 DEF Lifecycle
  <2>2. CASE SendPanics(c)
    <3>1. /\ mpc' = "panicked" /\ jobsClosed' = jobsClosed /\ jobs' = jobs
          /\ wpc' = wpc /\ job' = job
      BY <2>2 DEF SendPanics, workerVars
    <3> QED
      BY <3>1 DEF Lifecycle, Terminal
  <2>3. CASE Handler(c) /\ ~SendJob(c) /\ ~SendPanics(c)
    BY <2>3, <1>a DEF Handler, Start, CheckCtx, ReadFrame, ReadFails, SetGauge, DecGauge,
                      Release, CloseConn, mainVars, workerVars
  <2> QED
    BY <1>3, <2>1, <2>2, <2>3
<1>4. CASE Acceptor
  BY <1>4, <1>a DEF Acceptor, Accept, Admit, Reject, AcceptorStops, mainVars, workerVars
<1>5. ASSUME NEW w \in Workers, Worker(w) PROVE Lifecycle'
  <2>0. mpc' = mpc /\ jobsClosed' = jobsClosed
    BY <1>5 DEF Worker, Recv, RecvClosed, UnmarshalFails, Unmarshal, Write, Finish,
                WorkerPanics, mainVars
  <2>t. wpc \in [Workers -> WorkerStates] /\ job \in [Workers -> Frame \cup {NoJob}]
    BY <1>t DEF TypeOK, WorkerStates
  <2>b. ASSUME NEW from \in {"recv", "unmarshal", "write", "finish"},
               NEW next \in {"recv", "unmarshal", "write", "finish", "panicked"},
               NEW held \in Frame \cup {NoJob},
               wpc[w] = from, wpc' = [wpc EXCEPT ![w] = next],
               job' = [job EXCEPT ![w] = held],
               held # NoJob <=> next \in {"unmarshal", "write"},
               jobs' = jobs \/ jobs # <<>>
        PROVE  Lifecycle'
    <3>1. \A v \in Workers : /\ wpc'[v] = IF v = w THEN next ELSE wpc[v]
                             /\ job'[v] = IF v = w THEN held ELSE job[v]
      BY <2>t, <2>b
    <3>2. \A v \in Workers : job'[v] # NoJob <=> wpc'[v] \in {"unmarshal", "write"}
      BY <3>1, <2>b DEF Lifecycle
    <3>3. \A v \in Workers : wpc'[v] = "done" => jobsClosed' /\ jobs' = <<>>
      BY <3>1, <2>b, <2>0 DEF Lifecycle
    <3>4. mpc' \notin {"boot", "listening", "closing", "exited"}
      BY <2>0, <2>b DEF Lifecycle
    <3> QED
      BY <3>2, <3>3, <3>4, <2>0 DEF Lifecycle
  <2>1. CASE Recv(w)
    <3>1. Head(jobs) \in Frame
      BY <2>1, <1>t DEF Recv, TypeOK
    <3> QED
      BY <2>1, <2>b, <3>1, NoJobIsNoFrame DEF Recv
  <2>2. CASE RecvClosed(w)
    <3>1. \A v \in Workers : wpc'[v] = IF v = w THEN "done" ELSE wpc[v]
      BY <2>2, <2>t DEF RecvClosed
    <3>2. job' = job /\ jobs' = jobs /\ jobs = <<>> /\ jobsClosed /\ wpc[w] = "recv"
      BY <2>2 DEF RecvClosed
    <3> QED
      BY <3>1, <3>2, <2>0 DEF Lifecycle
  <2>3. CASE UnmarshalFails(w)
    BY <2>3, <2>b DEF UnmarshalFails, Settle
  <2>4. CASE Unmarshal(w)
    <3>1. job[w] # NoJob /\ job' = [job EXCEPT ![w] = job[w]]
      BY <2>4, <2>t DEF Unmarshal, Lifecycle
    <3>2. job[w] \in Frame \cup {NoJob}
      BY <2>t
    <3> QED
      BY <2>4, <2>b, <3>1, <3>2 DEF Unmarshal
  <2>5. CASE Write(w)
    BY <2>5, <2>b DEF Write, Settle
  <2>6. CASE Finish(w)
    <3>1. job[w] = NoJob /\ job' = [job EXCEPT ![w] = NoJob]
      BY <2>6, <2>t DEF Finish, Lifecycle
    <3> QED
      BY <2>6, <2>b, <3>1 DEF Finish
  <2>7. CASE WorkerPanics(w)
    BY <2>7, <2>b DEF WorkerPanics, Settle
  <2> QED
    BY <1>5, <2>1, <2>2, <2>3, <2>4, <2>5, <2>6, <2>7 DEF Worker
<1>6. CASE Main
  <2>0. jobs' = jobs /\ job' = job
    BY <1>6 DEF Main, Listen, Serve, SetShutdown, CloseListener, Cancel, CloseJobs,
                WaitWorkers, CloseSink, MainStep
  <2>1. CASE Serve
    <3>1. \A w \in Workers : wpc[w] = "off" /\ wpc'[w] = "recv"
      BY <2>1 DEF Serve, MainStep, Lifecycle
    <3>2. mpc = "listening" /\ mpc' = "serving" /\ jobsClosed' = jobsClosed
      BY <2>1 DEF Serve, MainStep
    <3>3. ~jobsClosed
      BY <3>2 DEF Lifecycle, Terminal
    <3> QED
      BY <2>0, <3>1, <3>2, <3>3 DEF Lifecycle
  <2>2. CASE WaitWorkers
    BY <2>0, <2>2 DEF WaitWorkers, MainStep, Lifecycle
  <2>3. CASE CloseJobs
    BY <2>0, <2>3 DEF CloseJobs, MainStep, Lifecycle
  <2>4. CASE Listen \/ SetShutdown \/ CloseListener \/ Cancel \/ CloseSink
    BY <2>0, <2>4 DEF Listen, SetShutdown, CloseListener, Cancel, CloseSink, MainStep,
                      Lifecycle, Terminal
  <2> QED
    BY <1>6, <2>1, <2>2, <2>3, <2>4 DEF Main
<1>7. CASE RecvSignal \/ Fatal
  BY <1>7 DEF RecvSignal, Fatal, MainStep, Lifecycle, Terminal
<1> QED
  BY <1>1, <1>2, <1>3, <1>4, <1>5, <1>6, <1>7 DEF Next, Step, Ended

-----------------------------------------------------------------------------
(* Where frames are.  ExactlyOnePlace and PerConnectionOrder are inductive *)
(* together with Lifecycle; only five steps move a frame.                  *)

Places == ExactlyOnePlace /\ PerConnectionOrder

\* The frame a handler holds.
Sending == {"gauge", "send"}

\* A frame is the pair of its connection and its number.
LEMMA FrameFacts ==
    /\ \A f \in Frame : f[1] \in Conns /\ f[2] \in 1..MaxFrames /\ f = <<f[1], f[2]>>
    /\ \A c \in Conns, i \in 1..MaxFrames :
          <<c, i>> \in Frame /\ <<c, i>>[1] = c /\ <<c, i>>[2] = i
BY DEF Frame

\* Steps that move no frame.
LEMMA PlacesStill ==
    ASSUME TypeOK, Places,
           nread' = nread, jobs' = jobs, job' = job, outcome' = outcome,
           \A c \in Conns : hpc'[c] \in Sending <=> hpc[c] \in Sending
    PROVE  Places'
<1>1. \A f \in Frame : /\ InHandler(f)' <=> InHandler(f)
                       /\ InQueue(f)' <=> InQueue(f)
                       /\ InWorker(f)' <=> InWorker(f)
                       /\ Settled(f)' <=> Settled(f)
                       /\ Dequeued(f)' <=> Dequeued(f)
  BY FrameFacts DEF InHandler, InQueue, InWorker, Settled, Dequeued, Sending
<1>2. ExactlyOnePlace'
  BY <1>1 DEF Places, ExactlyOnePlace
<1>3. PerConnectionOrder'
  BY <1>1 DEF Places, PerConnectionOrder
<1> QED
  BY <1>2, <1>3 DEF Places

\* A frame comes into the hands of a handler that held none.
LEMMA PlacesRead ==
    ASSUME TypeOK, Places, NEW c \in Conns, ReadFrame(c)
    PROVE  Places'
<1> DEFINE n == <<c, nread[c] + 1>>
<1>0. /\ hpc \in [Conns -> ConnStates] /\ nread \in [Conns -> 0..MaxFrames]
      /\ sent \in [Conns -> 0..MaxFrames] /\ MaxFrames \in Nat
  BY ServerAssumption DEF TypeOK
<1>1. /\ hpc[c] = "read"
      /\ \A d \in Conns : /\ hpc'[d] = IF d = c THEN "gauge" ELSE hpc[d]
                          /\ nread'[d] = IF d = c THEN nread[c] + 1 ELSE nread[d]
      /\ jobs' = jobs /\ job' = job /\ outcome' = outcome
      /\ nread[c] + 1 \in 1..MaxFrames
  BY <1>0 DEF ReadFrame, workerVars
<1>2. n \in Frame /\ n[1] = c /\ n[2] = nread[c] + 1
  BY <1>1, FrameFacts
<1>3. \A f \in Frame : /\ InQueue(f)' <=> InQueue(f)
                       /\ InWorker(f)' <=> InWorker(f)
                       /\ Settled(f)' <=> Settled(f)
                       /\ Dequeued(f)' <=> Dequeued(f)
  BY <1>1 DEF InQueue, InWorker, Settled, Dequeued
<1>4. \A f \in Frame : InHandler(f)' <=> InHandler(f) \/ f = n
  BY <1>0, <1>1, <1>2, FrameFacts DEF InHandler
<1>5. \A f \in Frame : f[1] = c => ~InHandler(f)
  BY <1>1 DEF InHandler
<1>6. ~InQueue(n) /\ ~Dequeued(n)
  BY <1>0, <1>2 DEF Places, ExactlyOnePlace
<1>7. \A f \in Frame :
          /\ f[2] > nread'[f[1]] => ~InQueue(f)' /\ ~Dequeued(f)'
          /\ f[2] <= nread'[f[1]] => InHandler(f)' \/ InQueue(f)' \/ Dequeued(f)'
  <2> SUFFICES ASSUME NEW f \in Frame
               PROVE  /\ f[2] > nread'[f[1]] => ~InQueue(f) /\ ~Dequeued(f)
                      /\ f[2] <= nread'[f[1]] =>
                            InHandler(f) \/ f = n \/ InQueue(f) \/ Dequeued(f)
    BY <1>3, <1>4
  <2>1. f[1] \in Conns /\ f[2] \in 1..MaxFrames /\ f = <<f[1], f[2]>>
    BY FrameFacts
  <2>2. /\ f[2] > nread[f[1]] => ~InQueue(f) /\ ~Dequeued(f)
        /\ f[2] <= nread[f[1]] => InHandler(f) \/ InQueue(f) \/ Dequeued(f)
    BY DEF Places, ExactlyOnePlace
  <2>3. f[1] = c /\ f[2] = nread[c] + 1 => f = n
    BY <2>1
  <2> QED
    BY <1>0, <1>1, <2>1, <2>2, <2>3
<1>8. ExactlyOnePlace'
  <2> HIDE DEF n
  <2>1. \A f \in Frame : /\ InHandler(f)' => ~InQueue(f)' /\ ~Dequeued(f)'
                         /\ InQueue(f)' => ~Dequeued(f)'
                         /\ InWorker(f)' => ~Settled(f)'
    BY <1>3, <1>4, <1>6 DEF Places, ExactlyOnePlace
  <2>2. /\ \A j, k \in 1..Len(jobs') : jobs'[j] = jobs'[k] => j = k
        /\ \A v, w \in Workers : job'[v] = job'[w] /\ job'[v] # NoJob => v = w
    BY <1>1 DEF Places, ExactlyOnePlace
  <2> QED
    BY <1>7, <2>1, <2>2 DEF ExactlyOnePlace
<1>9. PerConnectionOrder'
  BY <1>1, <1>3 DEF Places, PerConnectionOrder
<1> QED
  BY <1>8, <1>9 DEF Places

\* A frame goes from its handler to the end of the queue.
LEMMA PlacesSend ==
    ASSUME TypeOK, Places, Reading, NEW c \in Conns, SendJob(c)
    PROVE  Places'
<1> DEFINE n == <<c, nread[c]>>
<1>0. /\ hpc \in [Conns -> ConnStates] /\ nread \in [Conns -> 0..MaxFrames]
      /\ jobs \in Seq(Frame) /\ MaxFrames \in Nat
  BY ServerAssumption DEF TypeOK
<1>1. /\ hpc[c] = "send"
      /\ \A d \in Conns : hpc'[d] = IF d = c THEN "check" ELSE hpc[d]
      /\ nread' = nread /\ job' = job /\ outcome' = outcome
      /\ jobs' = Append(jobs, n)
      /\ nread[c] \in 1..MaxFrames
  BY <1>0 DEF SendJob, workerVars, Reading
<1>2. n \in Frame /\ n[1] = c /\ n[2] = nread[c]
  BY <1>1, FrameFacts
<1>3. /\ Len(jobs) \in Nat /\ Len(jobs') = Len(jobs) + 1
      /\ \A k \in 1..Len(jobs) : jobs'[k] = jobs[k]
      /\ jobs'[Len(jobs) + 1] = n
      /\ \A k \in 1..Len(jobs) : jobs[k] \in Frame
  BY <1>0, <1>1, <1>2
<1> HIDE DEF n
<1>4. \A f \in Frame : /\ InQueue(f)' <=> InQueue(f) \/ f = n
                       /\ InWorker(f)' <=> InWorker(f)
                       /\ Settled(f)' <=> Settled(f)
                       /\ Dequeued(f)' <=> Dequeued(f)
  BY <1>1, <1>3 DEF InQueue, InWorker, Settled, Dequeued
<1>5. \A f \in Frame : InHandler(f)' <=> InHandler(f) /\ f # n
  <2> SUFFICES ASSUME NEW f \in Frame PROVE InHandler(f)' <=> InHandler(f) /\ f # n
    OBVIOUS
  <2>1. f[1] \in Conns /\ f = <<f[1], f[2]>>
    BY FrameFacts
  <2> QED
    BY <1>1, <1>2, <2>1 DEF InHandler, n
<1>6. InHandler(n) /\ ~InQueue(n) /\ ~Dequeued(n)
  BY <1>1, <1>2 DEF Places, ExactlyOnePlace, InHandler
<1>7. \A k \in 1..Len(jobs) : jobs[k][1] = c => jobs[k][2] < nread[c]
  <2> SUFFICES ASSUME NEW k \in 1..Len(jobs), jobs[k][1] = c PROVE jobs[k][2] < nread[c]
    OBVIOUS
  <2>1. jobs[k] \in Frame /\ InQueue(jobs[k])
    BY <1>3 DEF InQueue
  <2>2. jobs[k][2] \in 1..MaxFrames /\ jobs[k] = <<jobs[k][1], jobs[k][2]>>
    BY <2>1, FrameFacts
  <2>3. ~(jobs[k][2] > nread[c])
    BY <2>1 DEF Places, ExactlyOnePlace
  <2>4. jobs[k] # n
    BY <1>6, <2>1
  <2> QED
    BY <1>1, <2>2, <2>3, <2>4 DEF n
<1>8. \A g \in Frame : g[1] = c /\ Dequeued(g) => g[2] < nread[c]
  <2> SUFFICES ASSUME NEW g \in Frame, g[1] = c, Dequeued(g) PROVE g[2] < nread[c]
    OBVIOUS
  <2>1. g[2] \in 1..MaxFrames /\ g = <<g[1], g[2]>>
    BY FrameFacts
  <2>2. ~(g[2] > nread[c])
    BY DEF Places, ExactlyOnePlace
  <2>3. g # n
    BY <1>6
  <2> QED
    BY <1>1, <2>1, <2>2, <2>3 DEF n
<1>9. ExactlyOnePlace'
  <2>1. \A f \in Frame :
          /\ f[2] > nread'[f[1]] => ~InQueue(f)' /\ ~Dequeued(f)'
          /\ f[2] <= nread'[f[1]] => InHandler(f)' \/ InQueue(f)' \/ Dequeued(f)'
          /\ InHandler(f)' => ~InQueue(f)' /\ ~Dequeued(f)'
          /\ InQueue(f)' => ~Dequeued(f)'
          /\ InWorker(f)' => ~Settled(f)'
    BY <1>0, <1>1, <1>2, <1>4, <1>5, <1>6 DEF Places, ExactlyOnePlace
  <2>2. \A j, k \in 1..Len(jobs') : jobs'[j] = jobs'[k] => j = k
    <3>1. \A k \in 1..Len(jobs) : jobs[k] # n
      BY <1>6 DEF InQueue
    <3>2. \A j, k \in 1..Len(jobs) : jobs[j] = jobs[k] => j = k
      BY DEF Places, ExactlyOnePlace
    <3> QED
      BY <1>3, <3>1, <3>2
  <2>3. \A v, w \in Workers : job'[v] = job'[w] /\ job'[v] # NoJob => v = w
    BY <1>1 DEF Places, ExactlyOnePlace
  <2> QED
    BY <2>1, <2>2, <2>3 DEF ExactlyOnePlace
<1>10. PerConnectionOrder'
  <2>1. \A j, k \in 1..Len(jobs') :
          jobs'[j][1] = jobs'[k][1] /\ j < k => jobs'[j][2] < jobs'[k][2]
    <3>1. \A j, k \in 1..Len(jobs) :
            jobs[j][1] = jobs[k][1] /\ j < k => jobs[j][2] < jobs[k][2]
      BY DEF Places, PerConnectionOrder
    <3> QED
      BY <1>2, <1>3, <1>7, <3>1
  <2>2. \A f, g \in Frame : f[1] = g[1] /\ InQueue(f)' /\ Dequeued(g)' => g[2] < f[2]
    BY <1>2, <1>4, <1>8 DEF Places, PerConnectionOrder
  <2> QED
    BY <2>1, <2>2 DEF PerConnectionOrder
<1> QED
  BY <1>9, <1>10 DEF Places

\* The first frame of the queue goes to a worker that held none.
LEMMA PlacesRecv ==
    ASSUME TypeOK, Places, Lifecycle, NEW w \in Workers, Recv(w)
    PROVE  /\ Places'
           /\ Head(jobs) \in Frame /\ InQueue(Head(jobs))
           /\ \A f \in Frame : /\ InQueue(f)' <=> InQueue(f) /\ f # Head(jobs)
                               /\ InWorker(f)' <=> InWorker(f) \/ f = Head(jobs)
                               /\ Settled(f)' <=> Settled(f)
<1> DEFINE n == Head(jobs)
<1>0. jobs \in Seq(Frame) /\ job \in [Workers -> Frame \cup {NoJob}]
  BY DEF TypeOK
<1>1. /\ jobs # <<>> /\ jobs' = Tail(jobs)
      /\ job[w] = NoJob
      /\ \A v \in Workers : job'[v] = IF v = w THEN n ELSE job[v]
      /\ nread' = nread /\ hpc' = hpc /\ outcome' = outcome
  BY <1>0 DEF Recv, connVars, Lifecycle
<1>2. /\ n \in Frame /\ n = jobs[1]
      /\ Len(jobs) \in Nat /\ Len(jobs) > 0 /\ Len(jobs') = Len(jobs) - 1
      /\ \A k \in 1..Len(jobs') : jobs'[k] = jobs[k + 1]
      /\ \A k \in 1..Len(jobs) : jobs[k] \in Frame
  BY <1>0, <1>1
<1> HIDE DEF n
<1>3. \A j, k \in 1..Len(jobs) : jobs[j] = jobs[k] => j = k
  BY DEF Places, ExactlyOnePlace
<1>4. InQueue(n)
  BY <1>2 DEF InQueue
<1>5. \A f \in Frame : InQueue(f)' <=> InQueue(f) /\ f # n
  <2> SUFFICES ASSUME NEW f \in Frame PROVE InQueue(f)' <=> InQueue(f) /\ f # n
    OBVIOUS
  <2>1. ASSUME InQueue(f)' PROVE InQueue(f) /\ f # n
    <3>1. PICK k \in 1..Len(jobs') : jobs'[k] = f
      BY <2>1 DEF InQueue
    <3>2. k + 1 \in 1..Len(jobs) /\ jobs[k + 1] = f /\ k + 1 # 1 /\ 1 \in 1..Len(jobs)
      BY <1>2, <3>1
    <3> QED
      BY <1>2, <1>3, <3>2 DEF InQueue
  <2>2. ASSUME InQueue(f), f # n PROVE InQueue(f)'
    <3>1. PICK k \in 1..Len(jobs) : jobs[k] = f
      BY <2>2 DEF InQueue
    <3>2. k - 1 \in 1..Len(jobs') /\ jobs'[k - 1] = f
      BY <1>2, <2>2, <3>1
    <3> QED
      BY <3>2 DEF InQueue
  <2> QED
    BY <2>1, <2>2
<1>6. \A f \in Frame : /\ InHandler(f)' <=> InHandler(f)
                       /\ InWorker(f)' <=> InWorker(f) \/ f = n
                       /\ Settled(f)' <=> Settled(f)
                       /\ Dequeued(f)' <=> Dequeued(f) \/ f = n
  BY <1>1, <1>2, NoJobIsNoFrame DEF InHandler, InWorker, Settled, Dequeued
<1>7. ~Dequeued(n) /\ ~InHandler(n) /\ ~InWorker(n) /\ ~Settled(n)
  BY <1>2, <1>4 DEF Places, ExactlyOnePlace, Dequeued
<1>8. ExactlyOnePlace'
  <2>1. \A f \in Frame :
          /\ f[2] > nread'[f[1]] => ~InQueue(f)' /\ ~Dequeued(f)'
          /\ f[2] <= nread'[f[1]] => InHandler(f)' \/ InQueue(f)' \/ Dequeued(f)'
          /\ InHandler(f)' => ~InQueue(f)' /\ ~Dequeued(f)'
          /\ InQueue(f)' => ~Dequeued(f)'
          /\ InWorker(f)' => ~Settled(f)'
    BY <1>1, <1>2, <1>4, <1>5, <1>6, <1>7 DEF Places, ExactlyOnePlace
  <2>2. \A j, k \in 1..Len(jobs') : jobs'[j] = jobs'[k] => j = k
    BY <1>2, <1>3
  <2>3. \A u, v \in Workers : job'[u] = job'[v] /\ job'[u] # NoJob => u = v
    <3>1. \A v \in Workers : job[v] # n
      BY <1>7 DEF InWorker
    <3>2. \A u, v \in Workers : job[u] = job[v] /\ job[u] # NoJob => u = v
      BY DEF Places, ExactlyOnePlace
    <3> QED
      BY <1>1, <3>1, <3>2
  <2> QED
    BY <2>1, <2>2, <2>3 DEF ExactlyOnePlace
<1>9. PerConnectionOrder'
  <2>0. \A j, k \in 1..Len(jobs) :
          jobs[j][1] = jobs[k][1] /\ j < k => jobs[j][2] < jobs[k][2]
    BY DEF Places, PerConnectionOrder
  <2>1. \A j, k \in 1..Len(jobs') :
          jobs'[j][1] = jobs'[k][1] /\ j < k => jobs'[j][2] < jobs'[k][2]
    BY <1>2, <2>0
  <2>2. \A f \in Frame : f[1] = n[1] /\ InQueue(f)' => n[2] < f[2]
    <3> SUFFICES ASSUME NEW f \in Frame, f[1] = n[1], InQueue(f)' PROVE n[2] < f[2]
      OBVIOUS
    <3>1. PICK k \in 1..Len(jobs') : jobs'[k] = f
      BY DEF InQueue
    <3>2. k + 1 \in 1..Len(jobs) /\ jobs[k + 1] = f /\ 1 < k + 1 /\ 1 \in 1..Len(jobs)
      BY <1>2, <3>1
    <3> QED
      BY <1>2, <2>0, <3>2
  <2>3. \A f, g \in Frame : f[1] = g[1] /\ InQueue(f)' /\ Dequeued(g)' => g[2] < f[2]
    BY <1>5, <1>6, <2>2 DEF Places, PerConnectionOrder
  <2> QED
    BY <2>1, <2>3 DEF PerConnectionOrder
<1> QED
  BY <1>2, <1>4, <1>5, <1>6, <1>8, <1>9 DEF Places, n

\* A worker is through with its frame.
LEMMA PlacesSettle ==
    ASSUME TypeOK, Places, Lifecycle, NEW w \in Workers, wpc[w] \in {"unmarshal", "write"},
           NEW result \in Outcomes \ {"none"}, NEW next \in WorkerStates,
           Settle(w, result, next),
           nread' = nread, hpc' = hpc, jobs' = jobs
    PROVE  /\ Places'
           /\ job[w] \in Frame /\ InWorker(job[w])
           /\ \A f \in Frame : /\ InQueue(f)' <=> InQueue(f)
                               /\ InWorker(f)' <=> InWorker(f) /\ f # job[w]
                               /\ Settled(f)' <=> Settled(f) \/ f = job[w]
<1> DEFINE n == job[w]
<1>0. outcome \in [Frame -> Outcomes] /\ job \in [Workers -> Frame \cup {NoJob}]
  BY DEF TypeOK, Outcomes
<1>1. n \in Frame /\ InWorker(n) /\ n # NoJob
  BY <1>0, NoJobIsNoFrame DEF Lifecycle, InWorker
<1>2. /\ \A v \in Workers : job'[v] = IF v = w THEN NoJob ELSE job[v]
      /\ \A f \in Frame : outcome'[f] = IF f = n THEN result ELSE outcome[f]
  BY <1>0, <1>1 DEF Settle
<1>3. \A u, v \in Workers : job[u] = job[v] /\ job[u] # NoJob => u = v
  BY DEF Places, ExactlyOnePlace
<1>4. ~InQueue(n) /\ ~InHandler(n) /\ ~Settled(n)
  BY <1>1 DEF Places, ExactlyOnePlace, Dequeued
<1>5. \A f \in Frame : /\ InHandler(f)' <=> InHandler(f)
                       /\ InQueue(f)' <=> InQueue(f)
                       /\ InWorker(f)' <=> InWorker(f) /\ f # n
                       /\ Settled(f)' <=> Settled(f) \/ f = n
  <2>1. \A f \in Frame : InWorker(f)' <=> InWorker(f) /\ f # n
    BY <1>1, <1>2, <1>3, NoJobIsNoFrame DEF InWorker
  <2>2. \A f \in Frame : Settled(f)' <=> Settled(f) \/ f = n
    BY <1>2 DEF Settled
  <2> QED
    BY <2>1, <2>2 DEF InHandler, InQueue
<1>6. \A f \in Frame : Dequeued(f)' <=> Dequeued(f)
  BY <1>1, <1>5 DEF Dequeued
<1> HIDE DEF n
<1>7. ExactlyOnePlace'
  <2>1. \A f \in Frame :
          /\ f[2] > nread'[f[1]] => ~InQueue(f)' /\ ~Dequeued(f)'
          /\ f[2] <= nread'[f[1]] => InHandler(f)' \/ InQueue(f)' \/ Dequeued(f)'
          /\ InHandler(f)' => ~InQueue(f)' /\ ~Dequeued(f)'
          /\ InQueue(f)' => ~Dequeued(f)'
          /\ InWorker(f)' => ~Settled(f)'
    BY <1>5, <1>6 DEF Places, ExactlyOnePlace
  <2>2. \A j, k \in 1..Len(jobs') : jobs'[j] = jobs'[k] => j = k
    BY DEF Places, ExactlyOnePlace
  <2>3. \A u, v \in Workers : job'[u] = job'[v] /\ job'[u] # NoJob => u = v
    BY <1>2, <1>3
  <2> QED
    BY <2>1, <2>2, <2>3 DEF ExactlyOnePlace
<1>8. PerConnectionOrder'
  BY <1>5, <1>6 DEF Places, PerConnectionOrder
<1> QED
  BY <1>1, <1>5, <1>7, <1>8 DEF Places, n

\* Frames are in place initially: nothing has been read.
LEMMA PlacesInit == Init => Places
<1> SUFFICES ASSUME Init PROVE Places
  OBVIOUS
<1>1. \A f \in Frame : ~InHandler(f) /\ ~InQueue(f) /\ ~Dequeued(f) /\ f[2] > nread[f[1]]
  BY FrameFacts, NoJobIsNoFrame
     DEF Init, InHandler, InQueue, InWorker, Settled, Dequeued
<1>2. 1..Len(jobs) = {} /\ \A w \in Workers : job[w] = NoJob
  BY DEF Init
<1>3. \A f \in Frame : ~(f[2] <= nread[f[1]]) /\ ~InWorker(f)
  BY <1>1, FrameFacts DEF Init, Dequeued
<1> QED
  BY <1>1, <1>2, <1>3 DEF Places, ExactlyOnePlace, PerConnectionOrder

\* The steps of handlers, clients, acceptor and main that move no frame.
StillHandler(c) == \/ Start(c) \/ CheckCtx(c) \/ ReadFails(c) \/ SetGauge(c) \/ SendPanics(c)
                   \/ DecGauge(c) \/ Release(c) \/ CloseConn(c)
StillWorker(w) == RecvClosed(w) \/ Unmarshal(w) \/ Finish(w)

Still == /\ nread' = nread /\ jobs' = jobs /\ job' = job /\ outcome' = outcome
         /\ \A c \in Conns : hpc'[c] \in Sending <=> hpc[c] \in Sending

\* The clients, the accept loop, main and the remaining steps of handlers and
\* workers move no frame.
LEMMA StillSteps ==
    ASSUME TypeOK
    PROVE  /\ UNCHANGED vars => Still
           /\ \A c \in Conns : Client(c) \/ StillHandler(c) => Still
           /\ Acceptor => Still
           /\ \A w \in Workers : StillWorker(w) => Still
           /\ Main \/ RecvSignal \/ Fatal => Still
<1>0. hpc \in [Conns -> ConnStates]
  BY DEF TypeOK
<1> USE DEF Still, Sending, connVars, workerVars
<1>1. UNCHANGED vars => Still
  BY DEF vars
<1>2. ASSUME NEW c \in Conns, Client(c) PROVE Still
  BY <1>0, <1>2 DEF Client, Dial, ClientSend, ClientClose
<1>3. ASSUME NEW c \in Conns, StillHandler(c) PROVE Still
  BY <1>0, <1>3 DEF StillHandler, Start, CheckCtx, ReadFails, SetGauge, SendPanics, DecGauge,
                    Release, CloseConn
<1>4. Acceptor => Still
  BY <1>0 DEF Acceptor, Accept, Admit, Reject, AcceptorStops
<1>5. ASSUME NEW w \in Workers, StillWorker(w) PROVE Still
  BY <1>5 DEF StillWorker, RecvClosed, Unmarshal, Finish
<1>6. Main \/ RecvSignal \/ Fatal => Still
  BY <1>0 DEF Main, Listen, Serve, SetShutdown, CloseListener, Cancel, CloseJobs,
              WaitWorkers, CloseSink, RecvSignal, Fatal, MainStep
<1> QED
  BY <1>1, <1>2, <1>3, <1>4, <1>5, <1>6

\* The three ways a worker settles a frame.
Settles(w) == UnmarshalFails(w) \/ Write(w) \/ WorkerPanics(w)

\* Each of the three gives the frame a result and touches nothing else of frames.
LEMMA SettleSteps ==
    ASSUME TypeOK, NEW w \in Workers, Settles(w)
    PROVE  /\ wpc[w] \in {"unmarshal", "write"}
           /\ \E result \in Outcomes \ {"none"}, next \in WorkerStates : Settle(w, result, next)
           /\ nread' = nread /\ hpc' = hpc /\ jobs' = jobs
<1>1. CASE UnmarshalFails(w)
  <2>1. Settle(w, "garbled", "recv")
    BY <1>1 DEF UnmarshalFails
  <2> QED
    BY <1>1, <2>1 DEF UnmarshalFails, connVars, Outcomes, WorkerStates
<1>2. CASE Write(w)
  <2>1. PICK result \in SinkResults(job[w]) : Settle(w, result, "finish")
    BY <1>2 DEF Write
  <2>2. result \in Outcomes \ {"none"}
    BY <2>1, ServerAssumption DEF SinkResults, Outcomes
  <2> QED
    BY <1>2, <2>1, <2>2 DEF Write, connVars, WorkerStates
<1>3. CASE WorkerPanics(w)
  <2>1. Settle(w, "panicked", "panicked")
    BY <1>3 DEF WorkerPanics
  <2> QED
    BY <1>3, <2>1 DEF WorkerPanics, connVars, Outcomes, WorkerStates
<1> QED
  BY <1>1, <1>2, <1>3 DEF Settles

\* Next, by what it does to frames.
LEMMA StepKinds ==
    ASSUME TypeOK, [Next]_vars
    PROVE  \/ Still
           \/ \E c \in Conns : ReadFrame(c) \/ SendJob(c)
           \/ \E w \in Workers : Recv(w) \/ Settles(w)
<1>1. ASSUME NEW c \in Conns, Handler(c) PROVE StillHandler(c) \/ ReadFrame(c) \/ SendJob(c)
  BY <1>1 DEF Handler, StillHandler
<1>2. ASSUME NEW w \in Workers, Worker(w) PROVE StillWorker(w) \/ Recv(w) \/ Settles(w)
  BY <1>2 DEF Worker, StillWorker, Settles
<1> QED
  BY <1>1, <1>2, StillSteps DEF Next, Step, Ended

\* The inductive invariant.
Inv == Base /\ Lifecycle /\ Places

\* Inv holds initially.
LEMMA InvInit == Init => Inv
BY BaseInit, LifecycleInit, PlacesInit DEF Inv

\* Every step keeps Inv.
LEMMA InvStep == Inv /\ [Next]_vars => Inv'
<1> SUFFICES ASSUME Inv, [Next]_vars PROVE Inv'
  OBVIOUS
<1>1. Base' /\ Lifecycle'
  BY BaseStep, LifecycleStep DEF Inv
<1>2. TypeOK /\ Reading /\ Places /\ Lifecycle
  BY DEF Inv, Base
<1>3. ASSUME NEW c \in Conns, ReadFrame(c) \/ SendJob(c) PROVE Places'
  BY <1>2, <1>3, PlacesRead, PlacesSend
<1>4. ASSUME NEW w \in Workers, Recv(w) PROVE Places'
  BY <1>2, <1>4, PlacesRecv
<1>5. ASSUME NEW w \in Workers, Settles(w) PROVE Places'
  BY <1>2, <1>5, SettleSteps, PlacesSettle
<1>6. ASSUME Still PROVE Places'
  BY <1>2, <1>6, PlacesStill DEF Still
<1>7. Places'
  BY <1>2, <1>3, <1>4, <1>5, <1>6, StepKinds
<1> QED
  BY <1>1, <1>7 DEF Inv

\* Inv holds in every reachable state.
LEMMA Invariance == Spec => []Inv
BY InvInit, InvStep, PTL DEF Spec

\* No frame is lost or doubled between a handler, the queue and the workers.
THEOREM FramesAreInOnePlace == Spec => []ExactlyOnePlace
BY Invariance, PTL DEF Inv, Places

\* The frames of one connection keep their order.
THEOREM ConnectionsKeepOrder == Spec => []PerConnectionOrder
BY Invariance, PTL DEF Inv, Places

\* The sink is closed after the workers have drained the queue.
THEOREM DrainedBeforeClose == Spec => []SinkClosedAfterDrain
<1>1. Inv => SinkClosedAfterDrain
  <2> SUFFICES ASSUME Inv, mpc \in {"closing", "exited"}, NEW c \in Conns,
                      NEW i \in 1..MaxFrames, i <= nread[c]
               PROVE  \/ Settled(<<c, i>>)
                      \/ hpc[c] \in {"gauge", "send"} /\ i = nread[c]
                      \/ PoolLost /\ InQueue(<<c, i>>)
    BY DEF SinkClosedAfterDrain
  <2> DEFINE f == <<c, i>>
  <2>1. f \in Frame /\ f[1] = c /\ f[2] = i
    BY FrameFacts
  <2>2. \A w \in Workers : wpc[w] \in {"done", "panicked"} /\ job[w] = NoJob
    BY DEF Inv, Lifecycle
  <2>3. ~InWorker(f)
    BY <2>1, <2>2, NoJobIsNoFrame DEF InWorker
  <2>4. InHandler(f) \/ InQueue(f) \/ Settled(f)
    BY <2>1, <2>3 DEF Inv, Places, ExactlyOnePlace, Dequeued
  <2>5. ASSUME InQueue(f) PROVE PoolLost
    <3>1. jobs # <<>>
      BY <2>5 DEF InQueue
    <3> QED
      BY <2>2, <3>1 DEF PoolLost, Inv, Lifecycle
  <2> QED
    BY <2>1, <2>4, <2>5 DEF InHandler
<1> QED
  BY <1>1, Invariance, PTL

-----------------------------------------------------------------------------
(* The metrics.  CounterAccounting is inductive relative to Inv: that a    *)
(* frame is counted once rests on its being with one worker only.          *)

Decoded(t) == {f \in Frame : Kind[f] = t /\ \/ Settled(f)
                                            \/ \E w \in Workers : job[w] = f /\ wpc[w] = "write"}
Passed    == {f \in Frame : outcome[f] \in {"ok", "failed"}}
Finishing == {w \in Workers : wpc[w] = "finish"}

\* Finitely many clients send finitely many frames.
LEMMA FramesAreFinite == IsFiniteSet(Frame)
<1>1. IsFiniteSet(1..MaxFrames)
  BY FS_Interval, ServerAssumption
<1> QED
  BY <1>1, FS_Product, ServerAssumption DEF Frame

\* Sets of frames and of workers are finite, and how their sizes change.
LEMMA FrameSetFacts ==
    ASSUME NEW S \in SUBSET Frame
    PROVE  /\ Cardinality(S) \in Nat
           /\ \A f \in Frame \ S : Cardinality(S \cup {f}) = Cardinality(S) + 1
<1>1. IsFiniteSet(S)
  BY FramesAreFinite, FS_Subset
<1> QED
  BY <1>1, FS_CardinalityType, FS_AddElement

LEMMA WorkerSetFacts ==
    ASSUME NEW S \in SUBSET Workers
    PROVE  /\ Cardinality(S) \in Nat
           /\ \A w \in Workers \ S : Cardinality(S \cup {w}) = Cardinality(S) + 1
           /\ \A w \in S : Cardinality(S \ {w}) = Cardinality(S) - 1
<1>1. IsFiniteSet(S)
  BY FS_Subset, ServerAssumption
<1> QED
  BY <1>1, FS_CardinalityType, FS_AddElement, FS_RemoveElement

\* The property in terms of these sets.
LEMMA CountersAreSizes ==
    CounterAccounting <=> /\ \A t \in {"trade", "log"} : processed[t] = Cardinality(Decoded(t))
                          /\ observed + Cardinality(Finishing) = Cardinality(Passed)
BY DEF CounterAccounting, Decoded, Passed, Finishing

\* Every step keeps the counters true.
LEMMA CountersStep == Inv /\ CounterAccounting /\ [Next]_vars => CounterAccounting'
<1> SUFFICES ASSUME Inv, CounterAccounting, [Next]_vars PROVE CounterAccounting'
  OBVIOUS
<1>t. /\ TypeOK /\ Lifecycle /\ Places
      /\ wpc \in [Workers -> WorkerStates] /\ job \in [Workers -> Frame \cup {NoJob}]
      /\ outcome \in [Frame -> Outcomes]
      /\ processed \in [{"trade", "log"} -> Nat] /\ observed \in Nat
  BY DEF Inv, Base, TypeOK, WorkerStates, Outcomes
<1>u. \A v, w \in Workers : job[v] = job[w] /\ job[v] # NoJob => v = w
  BY <1>t DEF Places, ExactlyOnePlace
<1>s. /\ Decoded("trade") \in SUBSET Frame /\ Decoded("log") \in SUBSET Frame
      /\ Passed \in SUBSET Frame /\ Finishing \in SUBSET Workers
  BY DEF Decoded, Passed, Finishing
<1>p. CounterAccounting' <=>
         /\ \A t \in {"trade", "log"} : processed'[t] = Cardinality(Decoded(t)')
         /\ observed' + Cardinality(Finishing') = Cardinality(Passed')
  BY DEF CounterAccounting, Decoded, Passed, Finishing
<1>a. ASSUME UNCHANGED <<counters, job, outcome>>,
             \A w \in Workers : /\ wpc'[w] = "write" <=> wpc[w] = "write"
                                /\ wpc'[w] = "finish" <=> wpc[w] = "finish"
      PROVE  CounterAccounting'
  <2>1. \A t \in {"trade", "log"} : Decoded(t)' = Decoded(t)
    BY <1>a DEF Decoded, Settled
  <2>2. Passed' = Passed /\ Finishing' = Finishing
    BY <1>a DEF Passed, Finishing
  <2> QED
    BY <1>a, <2>1, <2>2, <1>p, CountersAreSizes DEF counters
<1>1. CASE UNCHANGED vars
  BY <1>1, <1>a DEF vars, workerVars
<1>2. ASSUME NEW c \in Conns, Client(c) \/ Handler(c) PROVE CounterAccounting'
  BY <1>2, <1>a DEF Client, Dial, ClientSend, ClientClose, Handler, Start, CheckCtx,
                    ReadFrame, ReadFails, SetGauge, SendJob, SendPanics, DecGauge, Release,
                    CloseConn, workerVars
<1>3. CASE Acceptor
  BY <1>3, <1>a DEF Acceptor, Accept, Admit, Reject, AcceptorStops, workerVars
<1>4. ASSUME NEW w \in Workers, Worker(w) PROVE CounterAccounting'
  <2>m. ASSUME NEW next \in WorkerStates, wpc' = [wpc EXCEPT ![w] = next]
        PROVE  \A v \in Workers : wpc'[v] = IF v = w THEN next ELSE wpc[v]
    BY <2>m, <1>t
  <2>s. ASSUME NEW r \in Outcomes, NEW next \in {"recv", "finish", "panicked"},
               Settle(w, r, next), wpc[w] \in {"unmarshal", "write"},
               wpc[w] = "unmarshal" => Kind[job[w]] = "bad",
               r # "none", processed' = processed
        PROVE  /\ job[w] \in Frame /\ outcome[job[w]] = "none"
               /\ \A f \in Frame : outcome'[f] = IF f = job[w] THEN r ELSE outcome[f]
               /\ \A t \in {"trade", "log"} : Decoded(t)' = Decoded(t)
               /\ \A v \in Workers : wpc'[v] = IF v = w THEN next ELSE wpc[v]
    <3>1. job[w] \in Frame /\ job[w] # NoJob
      BY <2>s, <1>t DEF Lifecycle
    <3>2. outcome[job[w]] = "none"
      BY <3>1, <1>t DEF Places, ExactlyOnePlace, InWorker, Settled
    <3>3. /\ \A f \in Frame : outcome'[f] = IF f = job[w] THEN r ELSE outcome[f]
          /\ \A v \in Workers : job'[v] = IF v = w THEN NoJob ELSE job[v]
      BY <2>s, <1>t DEF Settle
    <3>4. \A v \in Workers : wpc'[v] = IF v = w THEN next ELSE wpc[v]
      BY <2>s, <2>m DEF Settle, WorkerStates
    <3>5. ASSUME NEW t \in {"trade", "log"}, NEW f \in Frame, Kind[f] = t
          PROVE  (Settled(f)' \/ \E v \in Workers : job'[v] = f /\ wpc'[v] = "write")
                 <=> (Settled(f) \/ \E v \in Workers : job[v] = f /\ wpc[v] = "write")
      <4>1. CASE f = job[w]
        <5>1. Settled(f)'
          BY <2>s, <3>3, <4>1 DEF Settled
        <5>2. wpc[w] = "write"
          BY <2>s, <3>5, <4>1
        <5> QED
          BY <4>1, <5>1, <5>2
      <4>2. CASE f # job[w]
        <5>1. Settled(f)' <=> Settled(f)
          BY <3>3, <4>2 DEF Settled
        <5>2. \A v \in Workers : job'[v] = f /\ wpc'[v] = "write"
                                    <=> job[v] = f /\ wpc[v] = "write"
          BY <2>s, <3>3, <3>4, <4>2, NoJobIsNoFrame
        <5> QED
          BY <5>1, <5>2
      <4> QED
        BY <4>1, <4>2
    <3>6. \A t \in {"trade", "log"} : Decoded(t)' = Decoded(t)
      BY <3>5 DEF Decoded
    <3> QED
      BY <3>1, <3>2, <3>3, <3>4, <3>6
  <2>1. CASE Recv(w)
    <3>1. \A v \in Workers : wpc'[v] = IF v = w THEN "unmarshal" ELSE wpc[v]
      BY <2>1, <2>m DEF Recv, WorkerStates
    <3>2. /\ job[w] = NoJob /\ wpc[w] = "recv"
          /\ \A v \in Workers : v # w => job'[v] = job[v]
      BY <2>1, <1>t DEF Recv, Lifecycle
    <3>3. outcome' = outcome /\ UNCHANGED counters
      BY <2>1 DEF Recv
    <3>4. \A t \in {"trade", "log"} : Decoded(t)' = Decoded(t)
      BY <3>1, <3>2, <3>3 DEF Decoded, Settled
    <3>5. Passed' = Passed /\ Finishing' = Finishing
      BY <3>1, <3>2, <3>3 DEF Passed, Finishing
    <3> QED
      BY <3>3, <3>4, <3>5, <1>p, CountersAreSizes DEF counters
  <2>2. CASE RecvClosed(w)
    <3>1. \A v \in Workers : wpc'[v] = IF v = w THEN "done" ELSE wpc[v]
      BY <2>2, <2>m DEF RecvClosed, WorkerStates
    <3> QED
      BY <2>2, <3>1, <1>a DEF RecvClosed
  <2>3. CASE UnmarshalFails(w)
    <3>1. /\ job[w] \in Frame /\ outcome[job[w]] = "none"
          /\ \A f \in Frame : outcome'[f] = IF f = job[w] THEN "garbled" ELSE outcome[f]
          /\ \A t \in {"trade", "log"} : Decoded(t)' = Decoded(t)
          /\ \A v \in Workers : wpc'[v] = IF v = w THEN "recv" ELSE wpc[v]
      BY <2>3, <2>s DEF UnmarshalFails, Outcomes
    <3>2. Passed' = Passed
      BY <3>1 DEF Passed
    <3>3. Finishing' = Finishing
      BY <2>3, <3>1 DEF Finishing, UnmarshalFails
    <3>4. processed' = processed /\ observed' = observed
      BY <2>3 DEF UnmarshalFails
    <3> QED
      BY <3>1, <3>2, <3>3, <3>4, <1>p, CountersAreSizes
  <2>4. CASE Unmarshal(w)
    <3>1. /\ job[w] \in Frame /\ job[w] # NoJob /\ outcome[job[w]] = "none"
          /\ wpc[w] = "unmarshal" /\ UNCHANGED <<job, outcome, errors, observed>>
      <4>1. job[w] \in Frame /\ job[w] # NoJob
        BY <2>4, <1>t DEF Unmarshal, Lifecycle
      <4> QED
        BY <2>4, <4>1, <1>t DEF Unmarshal, Places, ExactlyOnePlace, InWorker, Settled
    <3>2. \A v \in Workers : wpc'[v] = IF v = w THEN "write" ELSE wpc[v]
      BY <2>4, <2>m DEF Unmarshal, WorkerStates
    <3>3. Passed' = Passed /\ Finishing' = Finishing
      BY <3>1, <3>2 DEF Passed, Finishing
    <3>4. ASSUME NEW t \in {"trade", "log"}
          PROVE  processed'[t] = Cardinality(Decoded(t)')
      <4>1. processed[t] = Cardinality(Decoded(t))
        BY DEF CounterAccounting, Decoded
      <4>2. processed'[t] = processed[t] + (IF Kind[job[w]] = t THEN 1 ELSE 0)
        BY <2>4 DEF Unmarshal
      <4>3. CASE Kind[job[w]] = t
        <5>1. Decoded(t)' = Decoded(t) \cup {job[w]}
          BY <3>1, <3>2, <4>3 DEF Decoded, Settled
        <5>2. job[w] \notin Decoded(t)
          BY <1>u, <3>1 DEF Decoded, Settled
        <5>3. Decoded(t) \in SUBSET Frame
          BY DEF Decoded
        <5>4. Cardinality(Decoded(t)') = Cardinality(Decoded(t)) + 1
          BY <3>1, <5>1, <5>2, <5>3, FrameSetFacts
        <5> QED
          BY <4>1, <4>2, <4>3, <5>4
      <4>4. CASE Kind[job[w]] # t
        <5>1. Decoded(t)' = Decoded(t)
          BY <3>1, <3>2, <4>4 DEF Decoded, Settled
        <5>2. processed[t] \in Nat
          BY <1>t
        <5> QED
          BY <4>1, <4>2, <4>4, <5>1, <5>2
      <4> QED
        BY <4>3, <4>4
    <3> QED
      BY <3>1, <3>3, <3>4, <1>p, CountersAreSizes
  <2>5. CASE Write(w)
    <3>1. PICK r \in SinkResults(job[w]) : Settle(w, r, "finish")
      BY <2>5 DEF Write
    <3>2. r \in {"ok", "failed"}
      BY <3>1, ServerAssumption DEF SinkResults
    <3>3. wpc[w] = "write" /\ processed' = processed /\ observed' = observed
      BY <2>5 DEF Write
    <3>4. /\ job[w] \in Frame /\ outcome[job[w]] = "none"
          /\ \A f \in Frame : outcome'[f] = IF f = job[w] THEN r ELSE outcome[f]
          /\ \A t \in {"trade", "log"} : Decoded(t)' = Decoded(t)
          /\ \A v \in Workers : wpc'[v] = IF v = w THEN "finish" ELSE wpc[v]
      BY <2>s, <3>1, <3>2, <3>3 DEF Outcomes
    <3>5. Passed' = Passed \cup {job[w]} /\ job[w] \notin Passed
      BY <3>2, <3>4 DEF Passed
    <3>6. Finishing' = Finishing \cup {w} /\ w \notin Finishing
      BY <3>3, <3>4 DEF Finishing
    <3>7. /\ Cardinality(Passed') = Cardinality(Passed) + 1
          /\ Cardinality(Finishing') = Cardinality(Finishing) + 1
          /\ Cardinality(Finishing) \in Nat
      BY <1>s, <3>4, <3>5, <3>6, FrameSetFacts, WorkerSetFacts
    <3>8. observed' + Cardinality(Finishing') = Cardinality(Passed')
      <4>1. observed + Cardinality(Finishing) = Cardinality(Passed)
        BY DEF CounterAccounting, Finishing, Passed
      <4> QED
        BY <1>t, <3>3, <3>7, <4>1
    <3> QED
      BY <3>3, <3>4, <3>8, <1>p, CountersAreSizes
  <2>6. CASE Finish(w)
    <3>1. \A v \in Workers : wpc'[v] = IF v = w THEN "recv" ELSE wpc[v]
      BY <2>6, <2>m DEF Finish, WorkerStates
    <3>2. /\ wpc[w] = "finish" /\ observed' = observed + 1
          /\ UNCHANGED <<job, outcome, processed, errors>>
      BY <2>6 DEF Finish
    <3>3. \A t \in {"trade", "log"} : Decoded(t)' = Decoded(t)
      BY <3>1, <3>2 DEF Decoded, Settled
    <3>4. Passed' = Passed
      BY <3>2 DEF Passed
    <3>5. Finishing' = Finishing \ {w} /\ w \in Finishing
      BY <3>1, <3>2 DEF Finishing
    <3>6. Cardinality(Finishing') = Cardinality(Finishing) - 1 /\ Cardinality(Finishing) \in Nat
      BY <1>s, <3>5, WorkerSetFacts
    <3>7. observed' + Cardinality(Finishing') = Cardinality(Passed')
      <4>1. observed + Cardinality(Finishing) = Cardinality(Passed)
        BY DEF CounterAccounting, Finishing, Passed
      <4> QED
        BY <1>t, <3>2, <3>4, <3>6, <4>1
    <3> QED
      BY <3>2, <3>3, <3>4, <3>7, <1>p, CountersAreSizes
  <2>7. CASE WorkerPanics(w)
    <3>1. /\ job[w] \in Frame /\ outcome[job[w]] = "none"
          /\ \A f \in Frame : outcome'[f] = IF f = job[w] THEN "panicked" ELSE outcome[f]
          /\ \A t \in {"trade", "log"} : Decoded(t)' = Decoded(t)
          /\ \A v \in Workers : wpc'[v] = IF v = w THEN "panicked" ELSE wpc[v]
      BY <2>7, <2>s DEF WorkerPanics, Outcomes, counters
    <3>2. Passed' = Passed
      BY <3>1 DEF Passed
    <3>3. Finishing' = Finishing
      BY <2>7, <3>1 DEF Finishing, WorkerPanics
    <3>4. UNCHANGED counters
      BY <2>7 DEF WorkerPanics
    <3> QED
      BY <3>1, <3>2, <3>3, <3>4, <1>p, CountersAreSizes DEF counters
  <2> QED
    BY <1>4, <2>1, <2>2, <2>3, <2>4, <2>5, <2>6, <2>7 DEF Worker
<1>5. CASE Main
  <2>1. CASE Serve
    <3>1. \A w \in Workers : wpc[w] = "off" /\ wpc'[w] = "recv"
      BY <2>1, <1>t DEF Serve, MainStep, Lifecycle
    <3> QED
      BY <2>1, <3>1, <1>a DEF Serve, MainStep
  <2>2. CASE Main /\ ~Serve
    BY <2>2, <1>a DEF Main, Listen, SetShutdown, CloseListener, Cancel, CloseJobs,
                      WaitWorkers, CloseSink, MainStep
  <2> QED
    BY <1>5, <2>1, <2>2
<1>6. CASE RecvSignal \/ Fatal
  BY <1>6, <1>a DEF RecvSignal, Fatal, MainStep
<1> QED
  BY <1>1, <1>2, <1>3, <1>4, <1>5, <1>6 DEF Next, Step, Ended

\* The processed counters and the histogram tell what happened to the frames,
\* whatever the workers interleave, fail or lose.
THEOREM CountersAreTrue == Spec => []CounterAccounting
<1>1. Init => CounterAccounting
  <2> SUFFICES ASSUME Init PROVE CounterAccounting
    OBVIOUS
  <2>1. /\ \A t \in {"trade", "log"} : Decoded(t) = {}
        /\ Passed = {} /\ Finishing = {}
    BY DEF Init, Decoded, Passed, Finishing, Settled
  <2>2. Cardinality({}) = 0
    BY FS_EmptySet
  <2>3. \A t \in {"trade", "log"} : processed[t] = Cardinality(Decoded(t))
    BY <2>1, <2>2 DEF Init
  <2>4. observed + Cardinality(Finishing) = Cardinality(Passed)
    BY <2>1, <2>2 DEF Init
  <2> QED
    BY <2>3, <2>4, CountersAreSizes
<1> QED
  BY <1>1, CountersStep, Invariance, PTL DEF Spec

-----------------------------------------------------------------------------
(* Server implements Delivery.  The refinement mapping reads the stage of  *)
(* a frame off the place it is in; that it is in one place only is what    *)
(* Inv says.                                                               *)

\* The frames of Server are the items of Delivery.
LEMMA ItemIsFrame == D!Item = Frame
BY DEF D!Item, Frame

\* The stage of a frame tells its place, and the place the stage.
StageIsPlace ==
    \A f \in Frame :
        /\ Stage[f] = "settled" <=> Settled(f)
        /\ Stage[f] = "taken"   <=> InWorker(f)
        /\ Stage[f] = "queued"  <=> InQueue(f)
        /\ Stage[f] = "held"    <=> InHandler(f)
        /\ Stage[f] = "unread"  <=> f[2] > nread[f[1]]

\* A frame that is in exactly one place has exactly one stage.
LEMMA StagesArePlaces == Inv => StageIsPlace
<1> SUFFICES ASSUME Inv, NEW f \in Frame
             PROVE  /\ Stage[f] = "settled" <=> Settled(f)
                    /\ Stage[f] = "taken"   <=> InWorker(f)
                    /\ Stage[f] = "queued"  <=> InQueue(f)
                    /\ Stage[f] = "held"    <=> InHandler(f)
                    /\ Stage[f] = "unread"  <=> f[2] > nread[f[1]]
  BY DEF StageIsPlace
<1>1. f[2] \in Nat /\ nread[f[1]] \in Nat
  BY FrameFacts, ServerAssumption DEF Inv, Base, TypeOK
<1>2. /\ f[2] > nread[f[1]] => ~InQueue(f) /\ ~Dequeued(f)
      /\ f[2] <= nread[f[1]] => InHandler(f) \/ InQueue(f) \/ Dequeued(f)
      /\ InHandler(f) => ~InQueue(f) /\ ~Dequeued(f)
      /\ InQueue(f) => ~Dequeued(f)
      /\ InWorker(f) => ~Settled(f)
  BY DEF Inv, Places, ExactlyOnePlace
<1>3. InHandler(f) => f[2] = nread[f[1]]
  BY DEF InHandler
<1>4. Stage[f] = CASE Settled(f)  -> "settled"
                   [] InWorker(f) /\ ~Settled(f) -> "taken"
                   [] InQueue(f) /\ ~Dequeued(f) -> "queued"
                   [] f[2] <= nread[f[1]] /\ ~InQueue(f) /\ ~Dequeued(f) -> "held"
                   [] OTHER -> "unread"
  BY DEF Stage
<1>5. CASE Settled(f)
  BY <1>1, <1>2, <1>3, <1>4, <1>5 DEF Dequeued
<1>6. CASE InWorker(f) /\ ~Settled(f)
  BY <1>1, <1>2, <1>3, <1>4, <1>6 DEF Dequeued
<1>7. CASE InQueue(f)
  BY <1>1, <1>2, <1>3, <1>4, <1>7 DEF Dequeued
<1>8. CASE InHandler(f)
  BY <1>1, <1>2, <1>3, <1>4, <1>8 DEF Dequeued
<1>9. CASE f[2] > nread[f[1]]
  BY <1>1, <1>2, <1>3, <1>4, <1>9 DEF Dequeued
<1> QED
  BY <1>1, <1>2, <1>5, <1>6, <1>7, <1>8, <1>9 DEF Dequeued

\* The same after a step.
LEMMA StagesArePlacesNext == Inv' => StageIsPlace'
BY StagesArePlaces, PTL

\* The stage of a frame depends on its places only.
LEMMA SameStage ==
    ASSUME NEW f \in Frame,
           Settled(f)' <=> Settled(f), InWorker(f)' <=> InWorker(f),
           InQueue(f)' <=> InQueue(f),
           f[2] <= nread'[f[1]] <=> f[2] <= nread[f[1]]
    PROVE  Stage'[f] = Stage[f]
<1>1. Stage[f] = CASE Settled(f)  -> "settled"
                   [] InWorker(f) /\ ~Settled(f) -> "taken"
                   [] InQueue(f) /\ ~Dequeued(f) -> "queued"
                   [] f[2] <= nread[f[1]] /\ ~InQueue(f) /\ ~Dequeued(f) -> "held"
                   [] OTHER -> "unread"
  BY DEF Stage
<1>2. Stage'[f] = CASE Settled(f)'  -> "settled"
                    [] InWorker(f)' /\ ~Settled(f)' -> "taken"
                    [] InQueue(f)' /\ ~Dequeued(f)' -> "queued"
                    [] f[2] <= nread'[f[1]] /\ ~InQueue(f)' /\ ~Dequeued(f)' -> "held"
                    [] OTHER -> "unread"
  BY DEF Stage
<1>3. Dequeued(f)' <=> Dequeued(f)
  BY DEF Dequeued
<1> QED
  BY <1>1, <1>2, <1>3

\* Moving one frame is a Move of Delivery.
LEMMA StageMove ==
    ASSUME NEW n \in Frame, NEW from, NEW to,
           Stage[n] = from, Stage'[n] = to,
           \A f \in Frame : f # n => Stage'[f] = Stage[f]
    PROVE  D!Move(n, from, to)
<1>1. /\ Stage = [f \in Frame |-> Stage[f]]
      /\ Stage' = [f \in Frame |-> Stage'[f]]
  BY DEF Stage
<1>2. Stage' = [Stage EXCEPT ![n] = to]
  BY <1>1
<1> QED
  BY <1>2 DEF D!Move

\* Initial states map to initial states.
LEMMA InitRefines == Init /\ Inv => D!DeliveryInit
<1> SUFFICES ASSUME Init, Inv PROVE D!DeliveryInit
  OBVIOUS
<1>1. \A f \in Frame : f[2] > nread[f[1]]
  BY FrameFacts DEF Init
<1>2. \A f \in Frame : Stage[f] = "unread"
  BY <1>1, StagesArePlaces DEF StageIsPlace
<1>3. Stage = [f \in Frame |-> Stage[f]]
  BY DEF Stage
<1>4. Stage = [f \in Frame |-> "unread"]
  BY <1>2, <1>3
<1>5. Phase = "open" /\ PoolLost = FALSE
  BY ServerAssumption DEF Init, Phase, PoolLost
<1> QED
  BY <1>4, <1>5, ItemIsFrame DEF D!DeliveryInit

\* The phases of a running process.
LEMMA RunningPhase ==
    ASSUME TypeOK, Running
    PROVE  /\ mpc = "closing" <=> Phase = "stopped"
           /\ mpc = "waiting" <=> Phase = "draining"
           /\ mpc \notin {"closing", "waiting"} <=> Phase = "open"
BY DEF Phase, Running, Terminal, TypeOK, MainStates

\* Steps of handlers and workers other than a panic on the closed channel
\* leave main, and with it the phase, where it is.
LEMMA PhaseStays ==
    ASSUME mpc' = mpc PROVE Phase' = Phase
BY DEF Phase

\* frame.Read is a Hold.
LEMMA ReadRefines ==
    ASSUME Inv, Inv', Running, NEW c \in Conns, ReadFrame(c)
    PROVE  \E f \in D!Item : D!Hold(f)
<1>0. /\ nread \in [Conns -> 0..MaxFrames] /\ sent \in [Conns -> 0..MaxFrames]
      /\ MaxFrames \in Nat /\ hpc \in [Conns -> ConnStates]
  BY ServerAssumption DEF Inv, Base, TypeOK
<1>1. /\ hpc[c] = "read" /\ mpc' = mpc /\ wpc' = wpc
      /\ \A d \in Conns : nread'[d] = IF d = c THEN nread[c] + 1 ELSE nread[d]
      /\ jobs' = jobs /\ job' = job /\ outcome' = outcome
      /\ nread[c] + 1 \in 1..MaxFrames
      /\ hpc'[c] = "gauge"
  BY <1>0 DEF ReadFrame, workerVars, mainVars
<1>2. PICK n \in Frame : n = <<c, nread[c] + 1>> /\ n[1] = c /\ n[2] = nread[c] + 1
  <2>1. PICK i \in 1..MaxFrames : i = nread[c] + 1
    BY <1>1
  <2>2. <<c, i>> \in Frame /\ <<c, i>>[1] = c /\ <<c, i>>[2] = i
    BY FrameFacts
  <2> QED
    BY <2>1, <2>2
<1>3. StageIsPlace /\ StageIsPlace'
  BY StagesArePlaces, StagesArePlacesNext
<1>4. Stage[n] = "unread" /\ Stage'[n] = "held"
  <2>1. n[2] > nread[n[1]]
    BY <1>0, <1>2
  <2>2. InHandler(n)'
    BY <1>1, <1>2 DEF InHandler
  <2> QED
    BY <1>3, <2>1, <2>2 DEF StageIsPlace
<1>5. ASSUME NEW f \in Frame, f # n PROVE Stage'[f] = Stage[f]
  <2>1. f[1] \in Conns /\ f[2] \in 1..MaxFrames /\ f = <<f[1], f[2]>>
    BY FrameFacts
  <2>2. f[2] <= nread'[f[1]] <=> f[2] <= nread[f[1]]
    BY <1>0, <1>1, <1>2, <1>5, <2>1
  <2>3. /\ Settled(f)' <=> Settled(f)
        /\ InWorker(f)' <=> InWorker(f)
        /\ InQueue(f)' <=> InQueue(f)
    BY <1>1 DEF Settled, InWorker, InQueue
  <2> QED
    BY <2>2, <2>3, SameStage
<1>6. D!NoneBefore(n, {"unread", "held"})
  <2> SUFFICES ASSUME NEW g \in Frame, g[1] = c, g[2] < nread[c] + 1
               PROVE  Stage[g] \notin {"unread", "held"}
    BY <1>2, ItemIsFrame DEF D!NoneBefore
  <2>1. ~(g[2] > nread[g[1]]) /\ ~InHandler(g)
    BY <1>0, <1>1, FrameFacts DEF InHandler
  <2> QED
    BY <1>3, <2>1 DEF StageIsPlace
<1>7. D!Move(n, "unread", "held")
  BY <1>4, <1>5, StageMove
<1>8. Phase # "crashed" /\ Phase' = Phase
  BY <1>1, RunningPhase, PhaseStays DEF Inv, Base, TypeOK, MainStates
<1>9. PoolLost' = PoolLost
  BY <1>1 DEF PoolLost
<1> QED
  BY <1>2, <1>6, <1>7, <1>8, <1>9, ItemIsFrame DEF D!Hold

\* jobs <- data is an Enqueue.
LEMMA SendRefines ==
    ASSUME Inv, Inv', Running, NEW c \in Conns, SendJob(c)
    PROVE  \E f \in D!Item : D!Enqueue(f)
<1>0. /\ nread \in [Conns -> 0..MaxFrames] /\ MaxFrames \in Nat /\ jobs \in Seq(Frame)
  BY ServerAssumption DEF Inv, Base, TypeOK
<1>1. /\ hpc[c] = "send" /\ mpc' = mpc /\ wpc' = wpc /\ ~jobsClosed
      /\ nread' = nread /\ job' = job /\ outcome' = outcome
      /\ jobs' = Append(jobs, <<c, nread[c]>>)
      /\ nread[c] \in 1..MaxFrames
  BY <1>0 DEF SendJob, workerVars, mainVars, Inv, Base, Reading
<1>2. PICK n \in Frame : n = <<c, nread[c]>> /\ n[1] = c /\ n[2] = nread[c]
  BY <1>1, FrameFacts
<1>3. StageIsPlace /\ StageIsPlace'
  BY StagesArePlaces, StagesArePlacesNext
<1>4. \A f \in Frame : InQueue(f)' <=> InQueue(f) \/ f = n
  <2>1. /\ Len(jobs) \in Nat /\ Len(jobs') = Len(jobs) + 1
        /\ \A k \in 1..Len(jobs) : jobs'[k] = jobs[k]
        /\ jobs'[Len(jobs) + 1] = n
    BY <1>0, <1>1, <1>2
  <2> QED
    BY <2>1 DEF InQueue
<1>5. Stage[n] = "held" /\ Stage'[n] = "queued"
  <2>1. InHandler(n) /\ InQueue(n)'
    BY <1>1, <1>2, <1>4 DEF InHandler
  <2> QED
    BY <1>3, <2>1 DEF StageIsPlace
<1>6. ASSUME NEW f \in Frame, f # n PROVE Stage'[f] = Stage[f]
  <2>1. /\ Settled(f)' <=> Settled(f)
        /\ InWorker(f)' <=> InWorker(f)
        /\ InQueue(f)' <=> InQueue(f)
    BY <1>1, <1>4, <1>6 DEF Settled, InWorker
  <2> QED
    BY <1>1, <2>1, SameStage
<1>7. D!Move(n, "held", "queued")
  BY <1>5, <1>6, StageMove
<1>8. Phase = "open" /\ Phase' = Phase
  BY <1>1, RunningPhase, PhaseStays DEF Inv, Base, Lifecycle
<1>9. PoolLost' = PoolLost
  BY <1>1 DEF PoolLost
<1> QED
  BY <1>7, <1>8, <1>9, ItemIsFrame DEF D!Enqueue

\* A worker at work keeps main from closing the sink.
LEMMA WorkingPhase ==
    ASSUME Inv, Running, NEW w \in Workers, wpc[w] \in {"recv", "unmarshal", "write"}
    PROVE  Phase \in {"open", "draining"} /\ ~PoolLost
<1>1. mpc # "closing"
  BY DEF Inv, Lifecycle
<1>2. Phase \in {"open", "draining"}
  BY <1>1, RunningPhase DEF Inv, Base
<1> QED
  BY <1>2 DEF PoolLost

\* A receive from the channel is a Take.
LEMMA RecvRefines ==
    ASSUME Inv, Inv', Running, NEW w \in Workers, Recv(w)
    PROVE  \E f \in D!Item : D!Take(f)
<1>1. /\ wpc[w] = "recv" /\ mpc' = mpc /\ nread' = nread
      /\ wpc' = [wpc EXCEPT ![w] = "unmarshal"]
  BY DEF Recv, mainVars, connVars
<1>2. /\ Head(jobs) \in Frame /\ InQueue(Head(jobs))
      /\ \A f \in Frame : /\ InQueue(f)' <=> InQueue(f) /\ f # Head(jobs)
                          /\ InWorker(f)' <=> InWorker(f) \/ f = Head(jobs)
                          /\ Settled(f)' <=> Settled(f)
  BY PlacesRecv DEF Inv, Base
<1>3. PICK n \in Frame : n = Head(jobs)
  BY <1>2
<1>4. StageIsPlace /\ StageIsPlace'
  BY StagesArePlaces, StagesArePlacesNext
<1>5. Stage[n] = "queued" /\ Stage'[n] = "taken"
  BY <1>2, <1>3, <1>4 DEF StageIsPlace
<1>6. ASSUME NEW f \in Frame, f # n PROVE Stage'[f] = Stage[f]
  BY <1>1, <1>2, <1>3, <1>6, SameStage
<1>7. D!Move(n, "queued", "taken")
  BY <1>5, <1>6, StageMove
<1>8. D!NoneBefore(n, {"unread", "held", "queued"})
  <2> SUFFICES ASSUME NEW g \in Frame, g[1] = n[1], g[2] < n[2]
               PROVE  Stage[g] \notin {"unread", "held", "queued"}
    BY ItemIsFrame DEF D!NoneBefore
  <2>0. nread \in [Conns -> 0..MaxFrames] /\ MaxFrames \in Nat
    BY ServerAssumption DEF Inv, Base, TypeOK
  <2>1. /\ g[2] \in Nat /\ n[2] \in Nat /\ nread[n[1]] \in Nat
        /\ n[1] \in Conns
    BY <2>0, FrameFacts
  <2>2. ~(n[2] > nread[n[1]]) /\ ~InHandler(n)
    BY <1>2, <1>3 DEF Inv, Places, ExactlyOnePlace
  <2>3. ~(g[2] > nread[g[1]]) /\ ~InHandler(g)
    BY <2>1, <2>2 DEF InHandler
  <2>4. ~InQueue(g)
    <3>1. InQueue(g) => InQueue(g)'
      BY <1>2, <1>3, <2>1
    <3>2. Dequeued(n)'
      BY <1>2, <1>3 DEF Dequeued
    <3>3. InQueue(g)' /\ Dequeued(n)' => n[2] < g[2]
      BY DEF Inv, Places, PerConnectionOrder
    <3> QED
      BY <2>1, <3>1, <3>2, <3>3
  <2> QED
    BY <1>4, <2>3, <2>4 DEF StageIsPlace
<1>9. Phase \in {"open", "draining"} /\ ~PoolLost /\ Phase' = Phase
  BY <1>1, WorkingPhase, PhaseStays
<1>10. ~PoolLost'
  <2>1. wpc'[w] = "unmarshal"
    BY <1>1 DEF Inv, Base, TypeOK
  <2> QED
    BY <2>1 DEF PoolLost
<1>11. PoolLost' = PoolLost
  BY <1>9, <1>10 DEF PoolLost
<1> QED
  BY <1>7, <1>8, <1>9, <1>11, ItemIsFrame DEF D!Take

\* Every way to be through with a frame is a Settled of Delivery.
LEMMA SettleRefines ==
    ASSUME Inv, Inv', Running, NEW w \in Workers, Settles(w)
    PROVE  \E f \in D!Item : D!Settled(f)
<1>0. TypeOK /\ Places /\ Lifecycle
  BY DEF Inv, Base
<1>1. /\ wpc[w] \in {"unmarshal", "write"} /\ mpc' = mpc
      /\ nread' = nread /\ hpc' = hpc /\ jobs' = jobs
  <2>1. mpc' = mpc
    BY DEF Settles, UnmarshalFails, Write, WorkerPanics, mainVars
  <2> QED
    BY <1>0, <2>1, SettleSteps
<1>2. PICK result \in Outcomes \ {"none"}, next \in WorkerStates : Settle(w, result, next)
  BY <1>0, SettleSteps
<1>3. /\ job[w] \in Frame /\ InWorker(job[w])
      /\ \A f \in Frame : /\ InQueue(f)' <=> InQueue(f)
                          /\ InWorker(f)' <=> InWorker(f) /\ f # job[w]
                          /\ Settled(f)' <=> Settled(f) \/ f = job[w]
  BY <1>0, <1>1, <1>2, PlacesSettle
<1>4. PICK n \in Frame : n = job[w]
  BY <1>3
<1>5. StageIsPlace /\ StageIsPlace'
  BY StagesArePlaces, StagesArePlacesNext
<1>6. Stage[n] = "taken" /\ Stage'[n] = "settled"
  BY <1>3, <1>4, <1>5 DEF StageIsPlace
<1>7. ASSUME NEW f \in Frame, f # n PROVE Stage'[f] = Stage[f]
  BY <1>1, <1>3, <1>4, <1>7, SameStage
<1>8. D!Move(n, "taken", "settled")
  BY <1>6, <1>7, StageMove
<1>9. Phase \in {"open", "draining"} /\ ~PoolLost /\ Phase' = Phase
  BY <1>1, WorkingPhase, PhaseStays
<1>10. PoolLost' \in {PoolLost, TRUE}
  BY <1>9 DEF PoolLost
<1> QED
  BY <1>8, <1>9, <1>10, ItemIsFrame DEF D!Settled

\* A step that moves no frame changes no stage.
LEMMA StillStage == ASSUME Still PROVE Stage' = Stage
<1>1. \A f \in Frame : Stage'[f] = Stage[f]
  BY SameStage DEF Still, Settled, InWorker, InQueue
<1>2. /\ Stage = [f \in Frame |-> Stage[f]]
      /\ Stage' = [f \in Frame |-> Stage'[f]]
  BY DEF Stage
<1> QED
  BY <1>1, <1>2

\* Such a step leaves the pool as it is, lost or not.
LEMMA StillPool ==
    ASSUME Inv, Step, Still
    PROVE  PoolLost' = PoolLost \/ \E w \in Workers : Settles(w)
<1>0. wpc \in [Workers -> WorkerStates] /\ Workers # {}
  BY ServerAssumption DEF Inv, Base, TypeOK, WorkerStates
<1>a. ASSUME wpc' = wpc PROVE PoolLost' = PoolLost
  BY <1>a DEF PoolLost
<1>b. ASSUME NEW w \in Workers, wpc[w] # "panicked", wpc'[w] # "panicked"
      PROVE  PoolLost' = PoolLost
  BY <1>b DEF PoolLost
<1>1. ASSUME NEW c \in Conns, Client(c) \/ Handler(c) PROVE wpc' = wpc
  BY <1>1 DEF Client, Dial, ClientSend, ClientClose, Handler, Start, CheckCtx, ReadFrame,
              ReadFails, SetGauge, SendJob, SendPanics, DecGauge, Release, CloseConn,
              workerVars
<1>2. Acceptor => wpc' = wpc
  BY DEF Acceptor, Accept, Admit, Reject, AcceptorStops, workerVars
<1>3. ASSUME NEW w \in Workers, Worker(w)
      PROVE  PoolLost' = PoolLost \/ Settles(w)
  <2>1. CASE Recv(w) \/ RecvClosed(w) \/ Unmarshal(w) \/ Finish(w)
    <3>1. wpc[w] # "panicked" /\ wpc'[w] # "panicked"
      BY <1>0, <2>1 DEF Recv, RecvClosed, Unmarshal, Finish
    <3> QED
      BY <1>b, <3>1
  <2> QED
    BY <1>3, <2>1 DEF Worker, Settles
<1>4. CASE Serve
  <2>1. PICK w \in Workers : TRUE
    BY <1>0
  <2>2. wpc[w] # "panicked" /\ wpc'[w] # "panicked"
    BY <1>4 DEF Serve, MainStep, Inv, Lifecycle
  <2> QED
    BY <1>b, <2>2
<1>5. (Main /\ ~Serve) \/ RecvSignal \/ Fatal => wpc' = wpc
  BY DEF Main, Listen, SetShutdown, CloseListener, Cancel, CloseJobs, WaitWorkers,
         CloseSink, RecvSignal, Fatal
<1> QED
  BY <1>a, <1>1, <1>2, <1>3, <1>4, <1>5 DEF Step

\* main goes through the phases in order; a panic and os.Exit are crashes.
LEMMA PhaseSteps ==
    ASSUME Inv, Running, Step
    PROVE  \/ Phase' = Phase
           \/ Phase = "open" /\ Phase' = "draining"
           \/ WaitWorkers /\ Phase = "draining" /\ Phase' = "stopped"
           \/ Phase \in {"open", "draining", "stopped"} /\ Phase' = "crashed"
<1>0. TypeOK /\ Phase \in {"open", "draining", "stopped"}
  <2>1. TypeOK
    BY DEF Inv, Base
  <2> QED
    BY <2>1, RunningPhase
<1>1. CASE mpc' = mpc
  BY <1>1, PhaseStays
<1>2. ASSUME NEW c \in Conns, SendPanics(c) PROVE Phase' = "crashed"
  BY <1>2 DEF SendPanics, Phase
<1>3. CASE Fatal
  BY <1>0, <1>3 DEF Fatal, MainStep, Phase
<1>4. CASE CloseJobs
  BY <1>4 DEF CloseJobs, MainStep, Phase
<1>5. CASE WaitWorkers
  BY <1>5 DEF WaitWorkers, MainStep, Phase
<1>6. CASE Listen \/ Serve \/ SetShutdown \/ CloseListener \/ Cancel \/ CloseSink \/ RecvSignal
  BY <1>6 DEF Listen, Serve, SetShutdown, CloseListener, Cancel, CloseSink, RecvSignal,
              MainStep, Phase
<1>7. ASSUME NEW c \in Conns, Client(c) \/ (Handler(c) /\ ~SendPanics(c)) PROVE mpc' = mpc
  BY <1>7 DEF Client, Dial, ClientSend, ClientClose, Handler, Start, CheckCtx, ReadFrame,
              ReadFails, SetGauge, SendJob, DecGauge, Release, CloseConn, mainVars
<1>8. Acceptor => mpc' = mpc
  BY DEF Acceptor, Accept, Admit, Reject, AcceptorStops, mainVars
<1>9. ASSUME NEW w \in Workers, Worker(w) PROVE mpc' = mpc
  BY <1>9 DEF Worker, Recv, RecvClosed, UnmarshalFails, Unmarshal, Write, Finish,
              WorkerPanics, mainVars
<1> QED
  BY <1>0, <1>1, <1>2, <1>3, <1>4, <1>5, <1>6, <1>7, <1>8, <1>9 DEF Step, Main

\* Steps that move no frame are phase changes or stutter.
LEMMA StillRefines ==
    ASSUME Inv, Inv', Running, Step, Still
    PROVE  [D!DeliveryNext]_(D!dvars)
<1>1. Stage' = Stage
  BY StillStage
<1>2. CASE \E w \in Workers : Settles(w)
  <2>1. \E f \in D!Item : D!Settled(f)
    BY <1>2, SettleRefines
  <2> QED
    BY <2>1 DEF D!DeliveryNext
<1>3. CASE PoolLost' = PoolLost
  <2>1. CASE Phase' = Phase
    BY <1>1, <1>3, <2>1 DEF D!dvars
  <2>2. CASE Phase = "open" /\ Phase' = "draining"
    <3>1. D!Drain
      BY <1>1, <1>3, <2>2 DEF D!Drain
    <3> QED
      BY <3>1 DEF D!DeliveryNext
  <2>3. CASE WaitWorkers /\ Phase = "draining" /\ Phase' = "stopped"
    <3>1. StageIsPlace
      BY StagesArePlaces
    <3>2. \A w \in Workers : wpc[w] \in {"done", "panicked"} /\ job[w] = NoJob
      BY <2>3 DEF WaitWorkers, Inv, Lifecycle
    <3>3. \A f \in Frame : ~InWorker(f)
      BY <3>2, NoJobIsNoFrame DEF InWorker
    <3>4. ASSUME NEW f \in Frame, InQueue(f) PROVE PoolLost
      <4>1. jobs # <<>>
        BY <3>4 DEF InQueue
      <4> QED
        BY <3>2, <4>1 DEF PoolLost, Inv, Lifecycle
    <3>5. \A f \in Frame : Stage[f] # "taken" /\ (Stage[f] = "queued" => PoolLost)
      BY <3>1, <3>3, <3>4 DEF StageIsPlace
    <3>6. D!Stop
      BY <1>1, <1>3, <2>3, <3>5, ItemIsFrame DEF D!Stop
    <3> QED
      BY <3>6 DEF D!DeliveryNext
  <2>4. CASE Phase \in {"open", "draining", "stopped"} /\ Phase' = "crashed"
    <3>1. D!Crash
      BY <1>1, <1>3, <2>4 DEF D!Crash
    <3> QED
      BY <3>1 DEF D!DeliveryNext
  <2> QED
    BY <2>1, <2>2, <2>3, <2>4, PhaseSteps
<1> QED
  BY <1>2, <1>3, StillPool

\* The server keeps the promise of Delivery: frames of a connection are taken
\* in order, each is settled once, and a clean stop leaves nothing queued or
\* taken behind unless every worker has panicked.
THEOREM ServerImplementsDelivery == Spec => ImplementsDelivery
<1>1. Init /\ Inv => D!DeliveryInit
  BY InitRefines
<1>2. Inv /\ Inv' /\ [Next]_vars => [D!DeliveryNext]_(D!dvars)
  <2> SUFFICES ASSUME Inv, Inv', [Next]_vars PROVE [D!DeliveryNext]_(D!dvars)
    OBVIOUS
  <2>1. CASE UNCHANGED vars
    <3>1. Stage' = Stage /\ Phase' = Phase /\ PoolLost' = PoolLost
      <4>1. TypeOK /\ mpc' = mpc /\ wpc' = wpc
        BY <2>1 DEF vars, mainVars, workerVars, Inv, Base
      <4>2. Still
        BY <2>1, <4>1, StillSteps
      <4>3. Stage' = Stage
        BY <4>2, StillStage
      <4>4. Phase' = Phase
        BY <4>1, PhaseStays
      <4> QED
        BY <4>1, <4>3, <4>4 DEF PoolLost
    <3> QED
      BY <3>1 DEF D!dvars
  <2>2. CASE Running /\ Step
    <3>0. TypeOK
      BY DEF Inv, Base
    <3>1. CASE Still
      BY <2>2, <3>1, StillRefines
    <3>2. ASSUME NEW c \in Conns, ReadFrame(c) \/ SendJob(c) PROVE D!DeliveryNext
      BY <2>2, <3>2, ReadRefines, SendRefines DEF D!DeliveryNext
    <3>3. ASSUME NEW w \in Workers, Recv(w) \/ Settles(w) PROVE D!DeliveryNext
      BY <2>2, <3>3, RecvRefines, SettleRefines DEF D!DeliveryNext
    <3> QED
      BY <3>0, <3>1, <3>2, <3>3, StepKinds
  <2> QED
    BY <2>1, <2>2 DEF Next, Ended
<1> QED
  BY <1>1, <1>2, Invariance, PTL DEF Spec, ImplementsDelivery, D!DeliverySpec

-----------------------------------------------------------------------------
(* Pipeline.  Its two refinements need each other: that a worker's Write   *)
(* returns only what Server allows rests on the bounds of the sink's       *)
(* buffers, and that the sink is used as it expects rests on the life      *)
(* cycle of the server.  So the invariants of both components and what     *)
(* links them are kept by one induction, and each step takes the proved    *)
(* lemmas of the components.                                               *)

PP == INSTANCE PostgresSinkProofs WITH
        Writers <- Workers, Events <- Decodable,
        Type <- [f \in Decodable |-> Kind[f]],
        alive <- mpc \notin {"panicked", "fatal"},
        stopped <- spc[Closer] # "idle",
        written <- Written, pc <- spc

-----------------------------------------------------------------------------
(* The sink inside the pipeline *)

\* The pipeline gives the sink constants that it accepts.
LEMMA SinkAssumed ==
    /\ PP!IsFiniteSet(Decodable)
    /\ PP!IsFiniteSet(Workers)
    /\ Flusher \notin Workers /\ Closer \notin Workers /\ Flusher # Closer
    /\ [f \in Decodable |-> Kind[f]] \in [Decodable -> {"trade", "log", "none"}]
    /\ BatchSize \in Nat \ {0}
    /\ PoolSize \in Nat \ {0}
<1>1. IsFiniteSet(Decodable) /\ IsFiniteSet(Workers)
  BY FramesAreFinite, FS_Subset, ServerAssumption DEF Decodable
<1>2. PP!IsFiniteSet(Decodable) /\ PP!IsFiniteSet(Workers)
  BY <1>1 DEF IsFiniteSet, PP!IsFiniteSet
<1>3. [f \in Decodable |-> Kind[f]] \in [Decodable -> {"trade", "log", "none"}]
  BY ServerAssumption DEF Decodable, Kinds
<1> QED BY <1>2, <1>3, PipelineAssumption

\* What was proved about PostgresSink holds for the pipeline's sink.
LEMMA SinkInvInit == P!Init => PP!Inv
<1>1. P!Init => PP!Init
  BY DEF P!Init, PP!Init, P!Actors, PP!Actors, P!NoBatch, PP!NoBatch
<1> QED BY <1>1, SinkAssumed, PP!InvInit

LEMMA SinkInvStep == PP!Inv /\ [P!Next]_(P!vars) => PP!Inv'
<1> USE DEF P!buffers, PP!buffers, P!Actors, PP!Actors, P!NoBatch, PP!NoBatch, P!Rows, PP!Rows,
            P!Row, PP!Row, P!Size, PP!Size, P!Connected, PP!Connected, P!Flushing, PP!Flushing,
            P!After, PP!After, P!Grab, PP!Grab, P!Return, PP!Return, P!Batch, PP!Batch
<1>0. P!vars = PP!vars /\ (P!vars)' = (PP!vars)'
  BY DEF P!vars, PP!vars
<1>1. ASSUME NEW w, NEW e, P!Write(w, e) PROVE PP!Write(w, e)
  BY <1>1 DEF P!Write, PP!Write, P!Put, PP!Put
<1>2. P!Tick => PP!Tick
  BY DEF P!Tick, PP!Tick
<1>3. P!FlusherStops => PP!FlusherStops
  BY DEF P!FlusherStops, PP!FlusherStops
<1>4. P!Close => PP!Close
  BY DEF P!Close, PP!Close, P!BeginClose, PP!BeginClose
<1>5. P!FinalGrab => PP!FinalGrab
  BY DEF P!FinalGrab, PP!FinalGrab
<1>6. ASSUME NEW a, P!Flush(a) PROVE PP!Flush(a)
  <2>1. P!Begin(a) => PP!Begin(a)
    BY DEF P!Begin, PP!Begin, P!Cardinality, PP!Cardinality
  <2>2. P!Insert(a) => PP!Insert(a)
    BY DEF P!Insert, PP!Insert
  <2>3. P!SendCommit(a) => PP!SendCommit(a)
    BY DEF P!SendCommit, PP!SendCommit
  <2>4. P!Apply(a) => PP!Apply(a)
    BY DEF P!Apply, PP!Apply
  <2>5. P!ReturnOk(a) => PP!ReturnOk(a)
    BY DEF P!ReturnOk, PP!ReturnOk
  <2>6. P!ReturnError(a) => PP!ReturnError(a)
    BY DEF P!ReturnError, PP!ReturnError
  <2> QED BY <1>6, <2>1, <2>2, <2>3, <2>4, <2>5, <2>6 DEF P!Flush, PP!Flush
<1>7. P!Crash => PP!Crash
  BY DEF P!Crash, PP!Crash
<1>8. P!Quiet => PP!Quiet
  BY DEF P!Quiet, PP!Quiet, P!vars, PP!vars
<1>9. ASSUME NEW b, P!LateApply(b) PROVE PP!LateApply(b)
  BY <1>9 DEF P!LateApply, PP!LateApply
<1>10. P!Next => PP!Next
  BY <1>1, <1>2, <1>3, <1>4, <1>5, <1>6, <1>7, <1>8, <1>9 DEF P!Next, PP!Next
<1> HIDE DEF P!buffers, PP!buffers, P!Actors, PP!Actors, P!NoBatch, PP!NoBatch, P!Rows, PP!Rows,
             P!Row, PP!Row, P!Size, PP!Size, P!Connected, PP!Connected, P!Flushing, PP!Flushing,
             P!After, PP!After, P!Grab, PP!Grab, P!Return, PP!Return, P!Batch, PP!Batch
<1>11. PP!Inv /\ [PP!Next]_(PP!vars) => PP!Inv'
  BY SinkAssumed, PP!InvStep
<1> QED BY <1>0, <1>10, <1>11

-----------------------------------------------------------------------------
(* The inductive invariant *)

\* What ties the two components together: only a worker in s.Write is in the
\* sink, with an event that can fill a batch; main closes the sink last; and a
\* worker settles an event as what the sink returned.
Link ==
    /\ \A w \in Workers : /\ spc[w] # "idle" => wpc[w] = "write" /\ Kind[job[w]] # "none"
                          /\ wpc[w] = "write" => Kind[job[w]] # "bad"
                          /\ wpc[w] # "panicked"
    /\ spc[Closer] # "idle" => mpc \in {"closing"} \cup Terminal
    /\ mpc = "exited" => spc[Closer] = "done"
    /\ \A f \in Frame : /\ outcome[f] = "garbled" => Kind[f] = "bad"
                        /\ outcome[f] # "panicked"

PipeInv == Inv /\ PP!Inv /\ Link

\* What the invariant says of a worker in s.Write.
LEMMA WritingFacts ==
    ASSUME PipeInv, NEW w \in Workers, wpc[w] = "write"
    PROVE  /\ job[w] \in Decodable
           /\ outcome[job[w]] = "none"
           /\ \A v \in Workers : job[v] = job[w] => v = w
           /\ mpc \notin {"closing", "exited"}
<1>1. job[w] # NoJob /\ job[w] \in Frame
  BY DEF PipeInv, Inv, Base, TypeOK, Lifecycle
<1>2. job[w] \in Decodable
  BY <1>1 DEF PipeInv, Link, Decodable
<1>3. InWorker(job[w]) /\ ~Settled(job[w])
  BY <1>1 DEF PipeInv, Inv, Places, ExactlyOnePlace, InWorker
<1>4. \A v \in Workers : job[v] = job[w] => v = w
  BY <1>1 DEF PipeInv, Inv, Places, ExactlyOnePlace
<1>5. mpc \notin {"closing", "exited"}
  BY DEF PipeInv, Inv, Lifecycle
<1> QED BY <1>2, <1>3, <1>4, <1>5 DEF Settled

\* The initial states have the invariant.
LEMMA PipeInvInit == PipeInit => PipeInv
<1> SUFFICES ASSUME PipeInit PROVE PipeInv
  OBVIOUS
<1>1. Inv /\ PP!Inv
  BY InvInit, SinkInvInit DEF PipeInit
<1>2. /\ spc = [a \in P!Actors |-> "idle"] /\ Closer \in P!Actors /\ Workers \subseteq P!Actors
      /\ mpc = "boot" /\ wpc = [w \in Workers |-> "off"] /\ outcome = [f \in Frame |-> "none"]
  BY DEF PipeInit, Init, P!Init, P!Actors
<1>3. Link
  BY <1>2 DEF Link
<1> QED BY <1>1, <1>3 DEF PipeInv

-----------------------------------------------------------------------------
(* Steps of the server that leave the sink alone *)

\* What such a step may do: it moves no worker that is in the sink, decides the
\* outcome of no event that reaches the sink, and does not end main.
Apart ==
    /\ UNCHANGED sinkVars
    /\ \A w \in Workers : /\ spc[w] # "idle" => wpc'[w] = wpc[w] /\ job'[w] = job[w]
                          /\ wpc'[w] = "write" => Kind[job'[w]] # "bad"
                          /\ wpc'[w] # "panicked"
    /\ \A f \in Frame : outcome'[f] = outcome[f] \/ (outcome'[f] = "garbled" /\ Kind[f] = "bad")
    /\ \/ mpc' = mpc
       \/ mpc' \in {"panicked", "fatal"}
       \/ mpc \notin {"closing"} \cup Terminal /\ mpc' \notin Terminal

\* A worker's own steps, apart from s.Write.
LEMMA WorkerAloneApart ==
    ASSUME PipeInv, NEW v \in Workers, WorkerAlone(v), UNCHANGED sinkVars
    PROVE  Apart
<1>1. /\ mpc' = mpc
      /\ wpc[v] \in {"recv", "unmarshal", "finish"} /\ spc[v] = "idle"
      /\ \A w \in Workers \ {v} : wpc'[w] = wpc[w] /\ job'[w] = job[w]
      /\ wpc'[v] \in {"recv", "unmarshal", "write", "done"}
  BY DEF WorkerAlone, Recv, RecvClosed, UnmarshalFails, Unmarshal, Finish, Settle, mainVars,
         PipeInv, Inv, Base, TypeOK, Link
<1>2. wpc'[v] = "write" => Kind[job'[v]] # "bad"
  BY DEF WorkerAlone, Recv, RecvClosed, UnmarshalFails, Unmarshal, Finish, Settle,
         PipeInv, Inv, Base, TypeOK
<1>3. \A f \in Frame : outcome'[f] = outcome[f] \/ (outcome'[f] = "garbled" /\ Kind[f] = "bad")
  BY DEF WorkerAlone, Recv, RecvClosed, UnmarshalFails, Unmarshal, Finish, Settle,
         PipeInv, Inv, Base, TypeOK
<1>4. \A w \in Workers : /\ spc[w] # "idle" => wpc'[w] = wpc[w] /\ job'[w] = job[w]
                         /\ wpc'[w] = "write" => Kind[job'[w]] # "bad"
                         /\ wpc'[w] # "panicked"
  BY <1>1, <1>2 DEF PipeInv, Link
<1> QED BY <1>1, <1>3, <1>4 DEF Apart

\* A step that leaves the workers alone.
LEMMA WorkersStayApart ==
    ASSUME PipeInv, UNCHANGED sinkVars, UNCHANGED workerVars,
           \/ mpc' = mpc
           \/ mpc' \in {"panicked", "fatal"}
           \/ mpc \notin {"closing"} \cup Terminal /\ mpc' \notin Terminal
    PROVE  Apart
BY DEF workerVars, PipeInv, Link, Apart

LEMMA OthersApart ==
    ASSUME PipeInv, UNCHANGED sinkVars,
           \/ \E c \in Conns : Client(c) \/ Handler(c)
           \/ Acceptor \/ RecvSignal \/ Fatal \/ MainAlone
    PROVE  Apart
<1>1. ASSUME NEW c \in Conns, Client(c) PROVE Apart
  BY <1>1, WorkersStayApart DEF Client, Dial, ClientSend, ClientClose, mainVars
<1>2. ASSUME NEW c \in Conns, Handler(c) PROVE Apart
  BY <1>2, WorkersStayApart
  DEF Handler, Start, CheckCtx, ReadFrame, ReadFails, SetGauge, SendJob, SendPanics, DecGauge,
      Release, CloseConn, mainVars
<1>3. CASE Acceptor
  BY <1>3, WorkersStayApart DEF Acceptor, Accept, Admit, Reject, AcceptorStops, mainVars
<1>4. CASE RecvSignal \/ Fatal
  BY <1>4, WorkersStayApart DEF RecvSignal, Fatal, MainStep, workerVars, Terminal
<1>5. CASE MainAlone
  <2>1. CASE Serve
    <3>1. \A w \in Workers : spc[w] = "idle" /\ wpc'[w] = "recv"
      BY <2>1 DEF Serve, MainStep, PipeInv, Inv, Lifecycle, Link
    <3> QED BY <2>1, <3>1 DEF Serve, MainStep, Apart, Terminal
  <2>2. CASE Listen \/ SetShutdown \/ CloseListener \/ Cancel \/ CloseJobs \/ WaitWorkers
    BY <2>2, WorkersStayApart
    DEF Listen, SetShutdown, CloseListener, Cancel, CloseJobs, WaitWorkers, MainStep, workerVars,
        Terminal
  <2> QED BY <1>5, <2>1, <2>2 DEF MainAlone
<1> QED BY <1>1, <1>2, <1>3, <1>4, <1>5

\* Such a step keeps the link ...
LEMMA ApartLink == ASSUME PipeInv, Running, Apart PROVE Link'
BY DEF PipeInv, Link, Apart, sinkVars, Running, Terminal

\* ... and the sink sees nothing of it, except that the process dies.
LEMMA ApartSink == ASSUME PipeInv, Running, Apart PROVE [P!Next]_(P!vars)
<1>1. \A f \in Decodable : outcome'[f] = outcome[f]
  BY DEF Apart, Decodable
<1>2. \A w \in Workers : /\ InFlush(w)' <=> InFlush(w)
                         /\ InFlush(w) => job'[w] = job[w]
  <2> SUFFICES ASSUME NEW w \in Workers
               PROVE  /\ InFlush(w)' <=> InFlush(w)
                      /\ InFlush(w) => job'[w] = job[w]
    OBVIOUS
  <2>1. spc' = spc
    BY DEF Apart, sinkVars
  <2>2. CASE spc[w] = "idle"
    BY <2>1, <2>2 DEF InFlush
  <2>3. CASE spc[w] # "idle"
    BY <2>1, <2>3 DEF Apart, InFlush
  <2> QED BY <2>2, <2>3
<1>3. Written' = Written
  BY <1>1, <1>2 DEF Written
<1>4. CASE mpc' \in {"panicked", "fatal"}
  <2>1. P!Crash
    BY <1>3, <1>4 DEF P!Crash, P!buffers, Apart, sinkVars, Running, Terminal
  <2> QED BY <2>1 DEF P!Next
<1>5. CASE mpc' \notin {"panicked", "fatal"}
  <2>1. mpc \notin {"panicked", "fatal"}
    BY DEF Running, Terminal
  <2>2. UNCHANGED P!vars
    BY <1>3, <1>5, <2>1 DEF P!vars, P!buffers, Apart, sinkVars
  <2> QED BY <2>2
<1> QED BY <1>4, <1>5

-----------------------------------------------------------------------------
(* Steps of the sink *)

LEMMA ActorFacts ==
    ASSUME PipeInv
    PROVE  /\ P!Actors = Workers \cup {Flusher, Closer}
           /\ DOMAIN spc = P!Actors
           /\ spc = [a \in P!Actors |-> spc[a]]
BY DEF PipeInv, PP!Inv, PP!TypeOK, PP!Actors, P!Actors

\* A step of one actor in the sink, beside the server, keeps the link.
LEMMA BesideLink ==
    ASSUME PipeInv, UNCHANGED vars, NEW a \in P!Actors, NEW next,
           spc' = [spc EXCEPT ![a] = next],
           a \in Workers => wpc[a] = "write" /\ Kind[job[a]] # "none",
           a = Closer => mpc \in {"closing", "panicked", "fatal"}
    PROVE  Link'
<1>1. \A b \in P!Actors : spc'[b] = IF b = a THEN next ELSE spc[b]
  BY ActorFacts
<1>2. UNCHANGED <<mpc, wpc, job, outcome>>
  BY DEF vars, mainVars, workerVars
<1>3. Closer \in P!Actors /\ Workers \subseteq P!Actors
  BY ActorFacts
<1>4. \A w \in Workers : /\ spc'[w] # "idle" => wpc'[w] = "write" /\ Kind[job'[w]] # "none"
                         /\ wpc'[w] = "write" => Kind[job'[w]] # "bad"
                         /\ wpc'[w] # "panicked"
  BY <1>1, <1>2, <1>3 DEF PipeInv, Link
<1>5. /\ spc'[Closer] # "idle" => mpc' \in {"closing"} \cup Terminal
      /\ mpc' = "exited" => spc'[Closer] = "done"
  BY <1>1, <1>2, <1>3 DEF PipeInv, Link, Terminal
<1>6. \A f \in Frame : /\ outcome'[f] = "garbled" => Kind[f] = "bad"
                       /\ outcome'[f] # "panicked"
  BY <1>2 DEF PipeInv, Link
<1> QED BY <1>4, <1>5, <1>6 DEF Link

\* The end of a Write keeps the link.
LEMMA SettleLink ==
    ASSUME PipeInv, NEW w \in Workers, wpc[w] = "write", NEW result \in {"ok", "failed"},
           Settle(w, result, "finish"), mpc' = mpc,
           \A b \in P!Actors : spc'[b] = IF b = w THEN "idle" ELSE spc[b]
    PROVE  Link'
<1>1. \A v \in Workers : /\ wpc'[v] = IF v = w THEN "finish" ELSE wpc[v]
                         /\ v # w => job'[v] = job[v]
  BY DEF Settle, PipeInv, Inv, Base, TypeOK
<1>2. \A f \in Frame : outcome'[f] = outcome[f] \/ outcome'[f] = result
  BY DEF Settle, PipeInv, Inv, Base, TypeOK
<1>3. Closer \in P!Actors /\ Workers \subseteq P!Actors /\ Closer # w
  BY ActorFacts, SinkAssumed
<1>4. \A v \in Workers : /\ spc'[v] # "idle" => wpc'[v] = "write" /\ Kind[job'[v]] # "none"
                         /\ wpc'[v] = "write" => Kind[job'[v]] # "bad"
                         /\ wpc'[v] # "panicked"
  BY <1>1, <1>3 DEF PipeInv, Link
<1>5. /\ spc'[Closer] # "idle" => mpc' \in {"closing"} \cup Terminal
      /\ mpc' = "exited" => spc'[Closer] = "done"
  BY <1>3 DEF PipeInv, Link
<1>6. \A f \in Frame : /\ outcome'[f] = "garbled" => Kind[f] = "bad"
                       /\ outcome'[f] # "panicked"
  BY <1>2 DEF PipeInv, Link
<1> QED BY <1>4, <1>5, <1>6 DEF Link

\* What the server sees of a Write: it returns a result that Server allows.
LEMMA WriteIsServer ==
    ASSUME PipeInv, Running, NEW w \in Workers, wpc[w] = "write", NEW result \in {"ok", "failed"},
           Settle(w, result, "finish"),
           result = "failed" => Kind[job[w]] # "none",
           errors' = IF result = "failed" THEN errors + 1 ELSE errors,
           UNCHANGED <<mainVars, acc, connVars, clientVars, jobs,
                       activeConns, queueGauge, processed, observed>>
    PROVE  Next
<1>1. result \in SinkResults(job[w])
  BY PipelineAssumption DEF SinkResults
<1>2. Write(w)
  BY <1>1 DEF Write
<1> QED BY <1>2 DEF Worker, Step, Next

\* What the sink sees of the locked part of Write: a writer that is not inside
\* Write brings a new event, and Close was not called.
LEMMA PutIsWrite ==
    ASSUME PipeInv, Running, NEW w \in Workers, wpc[w] = "write", spc[w] = "idle",
           P!Put(w, job[w])
    PROVE  P!Next
<1>1. /\ job[w] \in Decodable /\ outcome[job[w]] = "none"
      /\ \A v \in Workers : job[v] = job[w] => v = w
      /\ mpc \notin {"closing", "exited"}
  BY WritingFacts
<1>2. job[w] \notin Written
  BY <1>1 DEF Written, InFlush
<1>3. mpc \notin {"panicked", "fatal"} /\ spc[Closer] = "idle"
  BY <1>1 DEF Running, Terminal, PipeInv, Link
<1>4. P!Write(w, job[w])
  BY <1>1, <1>2, <1>3 DEF P!Write
<1> QED BY <1>1, <1>4 DEF P!Next

\* An event without payload cannot fill the batch: its Write does not flush.
LEMMA PutMoves ==
    ASSUME PipeInv, NEW w \in Workers, wpc[w] = "write", spc[w] = "idle", P!Put(w, job[w])
    PROVE  /\ \/ spc' = spc
              \/ \E next : spc' = [spc EXCEPT ![w] = next]
           /\ spc'[w] # "idle" => Kind[job[w]] # "none"
<1>1. job[w] \in Decodable
  BY WritingFacts
<1>2. Len(trades) + Len(logs) < BatchSize /\ Len(trades) + Len(logs) \in Nat
  BY DEF PipeInv, PP!Inv, PP!BatchBound, PP!Size, PP!Buffer, PP!TypeOK
<1>3. \/ spc' = spc
      \/ \E next : spc' = [spc EXCEPT ![w] = next]
  BY DEF P!Put, P!Grab
<1>4. ASSUME Kind[job[w]] = "none" PROVE spc' = spc
  <2> DEFINE type == [f \in Decodable |-> Kind[f]]
             ts == IF type[job[w]] = "trade" THEN Append(trades, job[w]) ELSE trades
             ls == IF type[job[w]] = "log" THEN Append(logs, job[w]) ELSE logs
  <2>1. ts = trades /\ ls = logs
    BY <1>1, <1>4
  <2>2. \/ Len(ts) + Len(ls) >= BatchSize
        \/ spc' = spc
    BY DEF P!Put
  <2>3. ~(Len(trades) + Len(logs) >= BatchSize)
    BY <1>2, PipelineAssumption
  <2> QED BY <2>1, <2>2, <2>3
<1> QED BY <1>3, <1>4

LEMMA WriteBuffersStep ==
    ASSUME PipeInv, Running, NEW w \in Workers, WriteBuffers(w)
    PROVE  Next /\ P!Next /\ Link'
<1>1. /\ wpc[w] = "write" /\ spc[w] = "idle" /\ P!Put(w, job[w]) /\ spc'[w] = "idle"
      /\ Settle(w, "ok", "finish") /\ mpc' = mpc
  BY DEF WriteBuffers, mainVars
<1>2. Next
  BY <1>1, WriteIsServer DEF WriteBuffers, counters
<1>3. \A b \in P!Actors : spc'[b] = IF b = w THEN "idle" ELSE spc[b]
  BY <1>1, PutMoves, ActorFacts
<1> QED BY <1>1, <1>2, <1>3, PutIsWrite, SettleLink

LEMMA WriteFlushesStep ==
    ASSUME PipeInv, Running, NEW w \in Workers, WriteFlushes(w)
    PROVE  P!Next /\ Link' /\ UNCHANGED vars
<1>1. /\ wpc[w] = "write" /\ spc[w] = "idle" /\ P!Put(w, job[w]) /\ spc'[w] # "idle"
      /\ UNCHANGED vars
  BY DEF WriteFlushes
<1>2. /\ \E next : spc' = [spc EXCEPT ![w] = next]
      /\ Kind[job[w]] # "none"
  BY <1>1, PutMoves
<1>3. w \in P!Actors /\ w # Closer
  BY ActorFacts, SinkAssumed
<1>4. Link'
  BY <1>1, <1>2, <1>3, BesideLink
<1> QED BY <1>1, <1>4, PutIsWrite

\* Anybody's flush, seen from both sides.
LEMMA FlushStep ==
    ASSUME PipeInv, Running, NEW a \in P!Actors, Flush(a)
    PROVE  [Next]_vars /\ P!Next /\ Link'
<1>a. /\ Closer \notin Workers
      /\ spc[a] # "idle" =>
            /\ a \in Workers => wpc[a] = "write" /\ Kind[job[a]] # "none"
            /\ a = Closer => mpc \in {"closing", "panicked", "fatal"}
  BY SinkAssumed DEF PipeInv, Link, Running, Terminal
<1>1. CASE UNCHANGED vars /\ (P!Begin(a) \/ P!Insert(a) \/ P!SendCommit(a) \/ P!Apply(a))
  <2>1. P!Next
    BY <1>1 DEF P!Flush, P!Next
  <2>2. spc[a] # "idle" /\ \E next : spc' = [spc EXCEPT ![a] = next]
    <3>1. CASE P!Insert(a)
      <4>1. spc' = [spc EXCEPT ![a] = spc[a]]
        BY <3>1, ActorFacts DEF P!Insert
      <4> QED BY <3>1, <4>1 DEF P!Insert
    <3>2. CASE P!Begin(a) \/ P!SendCommit(a) \/ P!Apply(a)
      BY <3>2 DEF P!Begin, P!SendCommit, P!Apply
    <3> QED BY <1>1, <3>1, <3>2
  <2>3. Link'
    BY <1>1, <1>a, <2>2, BesideLink
  <2> QED BY <1>1, <2>1, <2>3
<1>2. CASE UNCHANGED vars /\ a \notin Workers /\ (P!ReturnOk(a) \/ P!ReturnError(a))
  <2>1. P!Next
    BY <1>2 DEF P!Flush, P!Next
  <2>2. spc[a] # "idle" /\ \E next : spc' = [spc EXCEPT ![a] = next]
    BY <1>2 DEF P!ReturnOk, P!ReturnError, P!Return, P!Flushing
  <2>3. Link'
    BY <1>2, <1>a, <2>2, BesideLink
  <2> QED BY <1>2, <2>1, <2>3
<1>3. ASSUME a \in Workers, NEW result \in {"ok", "failed"}, WriteReturns(a, result),
             P!ReturnOk(a) \/ P!ReturnError(a)
      PROVE  Next /\ P!Next /\ Link'
  <2>1. P!Next
    BY <1>3 DEF P!Flush, P!Next
  <2>2. /\ wpc[a] = "write" /\ spc[a] # "idle" /\ Settle(a, result, "finish") /\ mpc' = mpc
        /\ spc' = [spc EXCEPT ![a] = P!After(a)]
    BY <1>3 DEF WriteReturns, InFlush, P!ReturnOk, P!ReturnError, P!Return, mainVars
  <2>3. P!After(a) = "idle"
    BY <1>3, <1>a DEF P!After
  <2>4. Next
    BY <1>3, <1>a, <2>2, WriteIsServer DEF WriteReturns
  <2>5. \A b \in P!Actors : spc'[b] = IF b = a THEN "idle" ELSE spc[b]
    BY <2>2, <2>3, ActorFacts
  <2> QED BY <1>3, <2>1, <2>2, <2>4, <2>5, SettleLink
<1> QED BY <1>1, <1>2, <1>3 DEF Flush

\* The ticker, the flusher's end, the call of Close and its last look.
LEMMA CloseStep ==
    ASSUME PipeInv, Running, FlusherRuns \/ CallClose \/ CloseRuns
    PROVE  UNCHANGED vars /\ P!Next /\ Link'
<1>0. UNCHANGED vars /\ Flusher \in P!Actors /\ Closer \in P!Actors
  BY ActorFacts DEF FlusherRuns, CallClose, CloseRuns
<1>1. CASE FlusherRuns
  <2>1. P!Next
    BY <1>1 DEF FlusherRuns, P!Next
  <2>2. \E next : spc' = [spc EXCEPT ![Flusher] = next]
    BY <1>1 DEF FlusherRuns, P!Tick, P!FlusherStops, P!Grab
  <2>3. Link'
    BY <1>0, <2>2, BesideLink, SinkAssumed
  <2> QED BY <1>0, <2>1, <2>3
<1>2. CASE CallClose
  <2>1. /\ mpc = "closing" /\ spc[Closer] = "idle" /\ P!BeginClose
        /\ spc' = [spc EXCEPT ![Closer] = "wait"]
    BY <1>2 DEF CallClose, P!BeginClose
  <2>2. \A w \in Workers : spc[w] = "idle"
    BY <2>1 DEF PipeInv, Inv, Lifecycle, Link
  <2>3. P!Close
    BY <2>1, <2>2 DEF P!Close
  <2>4. Link'
    BY <1>0, <2>1, BesideLink, SinkAssumed
  <2> QED BY <1>0, <2>3, <2>4 DEF P!Next
<1>3. CASE CloseRuns
  <2>1. P!FinalGrab /\ spc[Closer] = "wait" /\ \E next : spc' = [spc EXCEPT ![Closer] = next]
    BY <1>3 DEF CloseRuns, P!FinalGrab, P!Grab
  <2>2. mpc = "closing"
    BY <2>1 DEF PipeInv, Link, Running
  <2>3. Link'
    BY <1>0, <2>1, <2>2, BesideLink, SinkAssumed
  <2> QED BY <1>0, <2>1, <2>3 DEF P!Next
<1> QED BY <1>1, <1>2, <1>3

\* main returns: Close has returned, the sink notices nothing.
LEMMA ExitStep ==
    ASSUME PipeInv, Running, Exit
    PROVE  Next /\ UNCHANGED P!vars /\ Link'
<1>1. /\ mpc = "closing" /\ mpc' = "exited" /\ spc[Closer] = "done" /\ UNCHANGED workerVars
      /\ UNCHANGED sinkVars
  BY DEF Exit, CloseSink, MainStep, workerVars
<1>2. Next
  BY DEF Exit, Main, Step, Next
<1>3. Written' = Written
  BY <1>1 DEF Written, InFlush, workerVars, sinkVars
<1>4. UNCHANGED P!vars
  BY <1>1, <1>3 DEF P!vars, P!buffers, sinkVars
<1>5. Link'
  BY <1>1 DEF PipeInv, Link, workerVars, sinkVars, Terminal
<1> QED BY <1>2, <1>4, <1>5

\* The database applies a commit that was given up, or of a process that is
\* gone.
LEMMA LateStep ==
    ASSUME PipeInv, LateApply
    PROVE  UNCHANGED vars /\ P!Next /\ Link'
<1>1. UNCHANGED vars
  BY DEF LateApply
<1>2. ASSUME NEW a \in P!Actors, P!Apply(a) PROVE P!Next /\ Link'
  <2>1. spc[a] = "commit" /\ \E next : spc' = [spc EXCEPT ![a] = next]
    BY <1>2 DEF P!Apply
  <2>2. /\ a \in Workers => wpc[a] = "write" /\ Kind[job[a]] # "none"
        /\ a = Closer => mpc \in {"closing", "panicked", "fatal"}
    BY <2>1 DEF PipeInv, Link, Terminal
  <2>3. Link'
    BY <1>1, <2>1, <2>2, BesideLink
  <2> QED BY <1>2, <2>3 DEF P!Flush, P!Next
<1>3. ASSUME NEW b \in late, P!LateApply(b) PROVE P!Next /\ Link'
  <2>1. spc' = spc /\ UNCHANGED <<mpc, wpc, job, outcome>>
    BY <1>1, <1>3 DEF P!LateApply, vars, mainVars, workerVars
  <2>2. Link'
    BY <2>1 DEF PipeInv, Link
  <2> QED BY <1>3, <2>2 DEF P!Next
<1> QED BY <1>1, <1>2, <1>3 DEF LateApply

-----------------------------------------------------------------------------
(* The induction *)

\* Every step of the pipeline is one of the server and one of the sink.
LEMMA PipeStep ==
    ASSUME PipeInv, [PipeNext]_allVars
    PROVE  [Next]_vars /\ [P!Next]_(P!vars) /\ Link'
<1>0. CASE UNCHANGED allVars
  <2>1. UNCHANGED <<mpc, workerVars, sinkVars>> /\ UNCHANGED vars
    BY <1>0 DEF allVars, vars, mainVars
  <2>2. Written' = Written
    BY <2>1 DEF Written, InFlush, workerVars, sinkVars
  <2>3. UNCHANGED P!vars
    BY <2>1, <2>2 DEF P!vars, P!buffers, sinkVars
  <2>4. Link'
    BY <2>1 DEF PipeInv, Link, workerVars, sinkVars
  <2> QED BY <2>1, <2>3, <2>4
<1>1. ASSUME Running, UNCHANGED sinkVars,
             \/ \E c \in Conns : Client(c) \/ Handler(c)
             \/ Acceptor \/ RecvSignal \/ Fatal \/ MainAlone
      PROVE  [Next]_vars /\ [P!Next]_(P!vars) /\ Link'
  <2>1. Next
    BY <1>1 DEF Next, Step, Main, MainAlone
  <2> QED BY <1>1, <2>1, OthersApart, ApartLink, ApartSink
<1>2. ASSUME Running, NEW w \in Workers, WorkerTurn(w)
      PROVE  [Next]_vars /\ [P!Next]_(P!vars) /\ Link'
  <2>1. CASE WorkerAlone(w) /\ UNCHANGED sinkVars
    <3>1. Next
      BY <1>2, <2>1 DEF Next, Step, Worker, WorkerAlone
    <3> QED BY <1>2, <2>1, <3>1, WorkerAloneApart, ApartLink, ApartSink
  <2>2. w \in P!Actors
    BY ActorFacts
  <2> QED
    BY <1>2, <2>1, <2>2, WriteBuffersStep, WriteFlushesStep, FlushStep DEF WorkerTurn, WriteCall
<1>3. ASSUME Running, FlusherRuns \/ Flush(Flusher) \/ MainTurn
      PROVE  [Next]_vars /\ [P!Next]_(P!vars) /\ Link'
  <2>1. Flusher \in P!Actors /\ Closer \in P!Actors
    BY ActorFacts
  <2> QED BY <1>1, <1>3, <2>1, CloseStep, FlushStep, ExitStep DEF MainTurn
<1>4. CASE Running /\ Turn
  BY <1>1, <1>2, <1>3, <1>4 DEF Turn
<1>5. CASE LateApply
  BY <1>5, LateStep
<1> QED BY <1>0, <1>4, <1>5 DEF PipeNext

LEMMA PipeInvariance == PipeSafety => []PipeInv
<1>1. PipeInv /\ [PipeNext]_allVars => PipeInv'
  BY PipeStep, InvStep, SinkInvStep DEF PipeInv
<1> QED BY PipeInvInit, <1>1, PTL DEF PipeSafety

-----------------------------------------------------------------------------
(* The theorems *)

\* Server may abstract the sink to the results of Write: with the batching sink
\* in its place, every behaviour is one of Server.
THEOREM PipelineImplementsServer == PipeSpec => ImplementsServer
<1>1. PipeInit => Init
  BY DEF PipeInit
<1>2. PipeInv /\ [PipeNext]_allVars => [Next]_vars
  BY PipeStep
<1> QED BY <1>1, <1>2, PipeInvariance, PTL DEF PipeSpec, PipeSafety, ImplementsServer, Spec

\* main and the workers use the sink as PostgresSink assumes: every event once,
\* no Write after Close, Close once and with no Write in progress.
THEOREM PipelineImplementsSink == PipeSpec => ImplementsSink
<1>1. PipeInit => P!Init
  BY DEF PipeInit
<1>2. PipeInv /\ [PipeNext]_allVars => [P!Next]_(P!vars)
  BY PipeStep
<1> QED BY <1>1, <1>2, PipeInvariance, PTL DEF PipeSpec, PipeSafety, ImplementsSink, P!Spec

\* After a clean exit no event that was read is missing without an error: the
\* drained queue of the server and the last flush of Close together.
THEOREM NothingIsMissing == PipeSpec => []StoredOrReported
<1>1. PipeInv => StoredOrReported
  <2> SUFFICES ASSUME PipeInv, mpc = "exited", NEW f \in Frame,
                      Storable(f), f[2] <= nread[f[1]], ~InHandler(f)
               PROVE  db[f] = 1 \/ fate[f] = "failed"
    BY DEF StoredOrReported
  <2>1. \A w \in Workers : wpc[w] = "done" /\ job[w] = NoJob
    BY DEF PipeInv, Inv, Lifecycle, Link
  <2>2. jobs = <<>>
    BY <2>1, ServerAssumption DEF PipeInv, Inv, Lifecycle
  <2>3. ~InQueue(f) /\ ~InWorker(f)
    BY <2>1, <2>2, NoJobIsNoFrame DEF InQueue, InWorker
  <2>4. outcome[f] # "none"
    BY <2>3 DEF PipeInv, Inv, Places, ExactlyOnePlace, Dequeued, Settled
  <2>5. outcome[f] \in {"ok", "failed"} /\ f \in Decodable
    BY <2>4 DEF PipeInv, Inv, Base, TypeOK, Link, Storable, Decodable
  <2>6. f \in Written
    BY <2>5 DEF Written
  <2>7. spc[Closer] = "done"
    BY DEF PipeInv, Link
  <2>8. PP!ClosedIsFlushed
    BY SinkAssumed, PP!InvClosed DEF PipeInv
  <2>9. fate[f] # "none"
    BY <2>5, <2>6, <2>7, <2>8 DEF PP!ClosedIsFlushed, Storable
  <2>10. fate[f] \in {"ok", "failed"}
    BY <2>5, <2>9 DEF PipeInv, PP!Inv, PP!TypeOK
  <2> QED BY <2>5, <2>10 DEF PipeInv, PP!Inv, PP!Core, PP!Stored
<1> QED BY <1>1, PipeInvariance, PTL DEF PipeSpec

\* A row is in the database only for an event that the processed counter has,
\* so the counter is never behind the table.
THEOREM CounterIsAhead == PipeSpec => []CountedBeforeStored
<1>1. PipeInv /\ CounterAccounting => CountedBeforeStored
  <2> SUFFICES ASSUME PipeInv, CounterAccounting, NEW t \in {"trade", "log"}
               PROVE  Cardinality({f \in Decodable : Kind[f] = t /\ db[f] > 0}) <= processed[t]
    BY DEF CountedBeforeStored
  <2> DEFINE Visible == {f \in Decodable : Kind[f] = t /\ db[f] > 0}
  <2>1. ASSUME NEW f \in Visible PROVE f \in Decoded(t)
    <3>1. f \in Decodable /\ f \in Frame /\ Kind[f] = t /\ db[f] > 0
      BY DEF Decodable
    <3>2. f \in Written
      BY <3>1 DEF PipeInv, PP!Inv, PP!Core, PP!Stored
    <3>3. Settled(f) \/ \E w \in Workers : job[w] = f /\ wpc[w] = "write"
      BY <3>2 DEF Written, InFlush, Settled
    <3> QED BY <3>1, <3>3 DEF Decoded
  <2>2. Decoded(t) \subseteq Frame /\ IsFiniteSet(Decoded(t))
    BY FramesAreFinite, FS_Subset DEF Decoded
  <2>3. Cardinality(Visible) <= Cardinality(Decoded(t))
    BY <2>1, <2>2, FS_Subset
  <2>4. processed[t] = Cardinality(Decoded(t))
    BY CountersAreSizes
  <2> QED BY <2>3, <2>4
<1>2. PipeSpec => []CounterAccounting
  BY PipelineImplementsServer, CountersAreTrue, PTL DEF ImplementsServer
<1> QED BY <1>1, <1>2, PipeInvariance, PTL DEF PipeSpec
=============================================================================

------------------------- MODULE PostgresSinkProofs -------------------------
(***************************************************************************)
(* Proofs about PostgresSink, for any number of writers and events, any    *)
(* batch size and any pool.                                                *)
(***************************************************************************)
EXTENDS PostgresSink, TLAPS

-----------------------------------------------------------------------------
(* The inductive invariant *)

\* Only an actor inside flush has a batch, and COMMIT is sent for all of it.
FlushState ==
    \A a \in Actors :
        /\ pc[a] \notin Flushing => Batch(a) = {}
        /\ pc[a] \in {"commit", "applied"} => ins[a] = Size(batch[a])

\* What the database holds follows from where the event is.
Stored ==
    \A e \in Events :
        /\ e \notin written => db[e] = 0 /\ fate[e] = "none"
        /\ e \in Held => db[e] = 0
        /\ \A a \in Actors : e \in Batch(a) =>
              db[e] = IF pc[a] = "applied" THEN 1 ELSE 0
        /\ fate[e] = "ok" => db[e] = 1
        /\ db[e] <= 1

\* A batch was written, has left the buffers and stays with one actor.
TakenWhole ==
    \A b \in batches :
        /\ b \subseteq written
        /\ b \cap Held = {}
        /\ \A a \in Actors : \A e, f \in b : e \in Batch(a) => f \in Batch(a)

\* A commit that was given up has failed, is not in the database yet, is whole
\* and shares no row with another one.
LateOnes ==
    \A l \in late :
        /\ \A e \in l : e \in written /\ fate[e] = "failed" /\ db[e] = 0
        /\ \A m \in late : l = m \/ l \cap m = {}
        /\ \A b \in batches : \A e, f \in b : e \in l => f \in l

\* The part that speaks of the rows as sets.
Core == FlushState /\ OnePlace /\ Stored /\ TakenWhole /\ BatchAtomic /\ LateOnes

\* Before Close is called the closer does nothing.
CloserWaits == ~stopped => pc[Closer] = "idle"

\* Nobody writes after Close was called, and nobody fills a buffer after Close
\* has emptied it: the flusher has stopped by then.
Quiesced ==
    /\ stopped => \A w \in Writers : pc[w] = "idle"
    /\ pc[Closer] \notin {"idle", "wait"} =>
          pc[Flusher] = "done" /\ trades = <<>> /\ logs = <<>>

Inv == TypeOK /\ BatchBound /\ CloserWaits /\ Quiesced /\ Core

-----------------------------------------------------------------------------
(* What the two slices of a batch hold *)

Slices == [trades : Seq(Events), logs : Seq(Events)]
Elements(s) == {s[i] : i \in 1..Len(s)}

\* The rows flush inserts are the elements of the two slices.
LEMMA RowsAreElements ==
    ASSUME NEW b \in Slices
    PROVE  /\ Rows(b, Size(b)) = Elements(b.trades) \cup Elements(b.logs)
           /\ Rows(b, Size(b)) \subseteq Events
           /\ Size(b) \in Nat
           /\ Size(b) = 0 <=> b = NoBatch
<1>1. /\ b.trades \in Seq(Events) /\ b.logs \in Seq(Events)
      /\ Len(b.trades) \in Nat /\ Len(b.logs) \in Nat
  BY DEF Slices
<1>2. \A k \in 1..Size(b) : Row(b, k) \in Elements(b.trades) \cup Elements(b.logs)
  BY <1>1 DEF Size, Row, Elements, Slices
<1>3. \A i \in 1..Len(b.trades) : i \in 1..Size(b) /\ Row(b, i) = b.trades[i]
  BY <1>1 DEF Size, Row, Slices
<1>4. \A i \in 1..Len(b.logs) :
         /\ Len(b.trades) + i \in 1..Size(b)
         /\ Row(b, Len(b.trades) + i) = b.logs[i]
  BY <1>1 DEF Size, Row, Slices
<1>5. Elements(b.trades) \subseteq Rows(b, Size(b))
  BY <1>3 DEF Elements, Rows
<1>6. Elements(b.logs) \subseteq Rows(b, Size(b))
  BY <1>4 DEF Elements, Rows
<1>7. Rows(b, Size(b)) \subseteq Elements(b.trades) \cup Elements(b.logs)
  BY <1>2 DEF Rows
<1>8. Elements(b.trades) \subseteq Events /\ Elements(b.logs) \subseteq Events
  BY <1>1 DEF Elements
<1>9. Size(b) \in Nat /\ (Size(b) = 0 <=> b = NoBatch)
  <2>1. Size(b) \in Nat
    BY <1>1 DEF Size, Slices
  <2>2. Size(b) = 0 => b.trades = <<>> /\ b.logs = <<>>
    BY <1>1 DEF Size, Slices
  <2>3. b = [trades |-> b.trades, logs |-> b.logs]
    BY DEF Slices
  <2>4. Size(NoBatch) = 0
    BY DEF Size, NoBatch
  <2> QED
    BY <2>1, <2>2, <2>3, <2>4 DEF NoBatch
<1> QED
  BY <1>5, <1>6, <1>7, <1>8, <1>9

\* append adds one element.
LEMMA ElementsOfAppend ==
    ASSUME NEW s \in Seq(Events), NEW e \in Events
    PROVE  Elements(Append(s, e)) = Elements(s) \cup {e}
<1>1. /\ Len(Append(s, e)) = Len(s) + 1
      /\ Len(s) \in Nat
      /\ \A i \in 1..Len(s) : Append(s, e)[i] = s[i]
      /\ Append(s, e)[Len(s) + 1] = e
  OBVIOUS
<1>2. Elements(s) \cup {e} \subseteq Elements(Append(s, e))
  BY <1>1 DEF Elements
<1>3. Elements(Append(s, e)) \subseteq Elements(s) \cup {e}
  BY <1>1 DEF Elements
<1> QED
  BY <1>2, <1>3

\* A nil batch has no rows.
LEMMA NoBatchIsEmpty == NoBatch \in Slices /\ Rows(NoBatch, Size(NoBatch)) = {}
<1>1. Size(NoBatch) = 0
  BY DEF Size, NoBatch
<1>2. Rows(NoBatch, 0) = {}
  BY DEF Rows
<1>3. NoBatch \in Slices
  BY DEF NoBatch, Slices
<1> QED
  BY <1>1, <1>2, <1>3

-----------------------------------------------------------------------------
(* Types and bounds.  That a batch is no larger than BatchSize rests on    *)
(* the buffers being smaller between two calls.                            *)

\* Taking the buffers keeps the types; the batch is what was taken.
LEMMA GrabTypes ==
    ASSUME TypeOK, NEW a \in Actors, NEW ts \in Seq(Events), NEW ls \in Seq(Events),
           NEW next \in {"idle", "done"},
           Grab(a, ts, ls, next),
           UNCHANGED <<ins, db, late, fate, alive, stopped>>,
           written' \in SUBSET Events,
           Len(ts) + Len(ls) <= BatchSize, BatchBound
    PROVE  TypeOK' /\ BatchBound'
<1> DEFINE b == [trades |-> ts, logs |-> ls]
<1>1. b \in Slices /\ Rows(b, Size(b)) \subseteq Events
  <2>1. b \in Slices
    BY DEF Slices
  <2> QED
    BY <2>1, RowsAreElements
<1>2. /\ trades' = <<>> /\ logs' = <<>>
      /\ batch' = [batch EXCEPT ![a] = b]
      /\ pc' = [pc EXCEPT ![a] = IF Size(b) > 0 THEN "begin" ELSE next]
      /\ batches' = (batches \cup {Rows(b, Size(b))}) \ {{}}
  BY DEF Grab
<1>3. Size(b) <= BatchSize
  BY DEF Size
<1> HIDE DEF b
<1>4. TypeOK'
  <2>1. batch' \in [Actors -> [trades : Seq(Events), logs : Seq(Events)]]
    BY <1>1, <1>2 DEF TypeOK, Slices
  <2>2. batches' \in SUBSET SUBSET Events
    BY <1>1, <1>2 DEF TypeOK
  <2>3. pc' \in [Actors -> {"idle", "wait", "done"} \cup Flushing]
    BY <1>2 DEF TypeOK, Flushing
  <2>4. trades' \in Seq(Events) /\ logs' \in Seq(Events)
    BY <1>2
  <2> QED
    BY <2>1, <2>2, <2>3, <2>4 DEF TypeOK
<1>5. BatchBound'
  <2>1. Size(Buffer)' < BatchSize
    BY <1>2, SinkAssumption DEF Buffer, Size
  <2>2. \A c \in Actors : Size(batch'[c]) <= BatchSize
    BY <1>2, <1>3 DEF TypeOK, BatchBound
  <2> QED
    BY <2>1, <2>2 DEF BatchBound
<1> QED
  BY <1>4, <1>5

\* Every step keeps the types and the bounds.
LEMMA TypeStep == TypeOK /\ BatchBound /\ [Next]_vars => TypeOK' /\ BatchBound'
<1> SUFFICES ASSUME TypeOK, BatchBound, [Next]_vars PROVE TypeOK' /\ BatchBound'
  OBVIOUS
<1>a. ASSUME buffers' = buffers, batch' = batch
      PROVE  BatchBound'
  BY <1>a DEF BatchBound, buffers, Buffer
<1>b. Flusher \in Actors /\ Closer \in Actors /\ Writers \subseteq Actors
  BY DEF Actors
<1>1. CASE UNCHANGED vars
  BY <1>1, <1>a DEF vars, buffers, TypeOK
<1>2. ASSUME NEW w \in Writers, NEW e \in Events, Write(w, e)
      PROVE  TypeOK' /\ BatchBound'
  <2> DEFINE ts == IF Type[e] = "trade" THEN Append(trades, e) ELSE trades
             ls == IF Type[e] = "log" THEN Append(logs, e) ELSE logs
  <2>1. ts \in Seq(Events) /\ ls \in Seq(Events)
    BY DEF TypeOK
  <2>2. Len(ts) + Len(ls) <= BatchSize
    <3>1. Len(trades) + Len(logs) < BatchSize
      BY DEF BatchBound, Buffer, Size
    <3>2. \/ Len(ts) = Len(trades) /\ Len(ls) = Len(logs)
          \/ Len(ts) = Len(trades) + 1 /\ Len(ls) = Len(logs)
          \/ Len(ts) = Len(trades) /\ Len(ls) = Len(logs) + 1
      BY DEF TypeOK
    <3>3. /\ Len(ts) \in Nat /\ Len(ls) \in Nat
          /\ Len(trades) \in Nat /\ Len(logs) \in Nat
      BY <2>1 DEF TypeOK
    <3> HIDE DEF ts, ls
    <3> QED
      BY <3>1, <3>2, <3>3, SinkAssumption
  <2>3. /\ written' = written \cup {e}
        /\ UNCHANGED <<ins, db, late, fate, alive, stopped>>
        /\ \/ Grab(w, ts, ls, "idle")
           \/ /\ Len(ts) + Len(ls) < BatchSize
              /\ trades' = ts /\ logs' = ls
              /\ pc' = pc /\ UNCHANGED <<batch, batches>>
    BY <1>2 DEF Write, Put
  <2>4. written' \in SUBSET Events
    BY <2>3 DEF TypeOK
  <2> HIDE DEF ts, ls
  <2>5. CASE Grab(w, ts, ls, "idle")
    BY <2>1, <2>2, <2>3, <2>4, <2>5, <1>b, GrabTypes
  <2>6. CASE /\ Len(ts) + Len(ls) < BatchSize
             /\ trades' = ts /\ logs' = ls
             /\ pc' = pc /\ UNCHANGED <<batch, batches>>
    <3>1. TypeOK'
      BY <2>1, <2>3, <2>4, <2>6 DEF TypeOK
    <3>2. BatchBound'
      BY <2>6 DEF BatchBound, Buffer, Size
    <3> QED
      BY <3>1, <3>2
  <2> QED
    BY <2>3, <2>5, <2>6
<1>c. Len(trades) + Len(logs) <= BatchSize
  BY SinkAssumption DEF BatchBound, Buffer, Size, TypeOK
<1>d. trades \in Seq(Events) /\ logs \in Seq(Events) /\ written \in SUBSET Events
  BY DEF TypeOK
<1>3. CASE Tick
  BY <1>3, <1>b, <1>c, <1>d, GrabTypes DEF Tick
<1>4. CASE FinalGrab
  BY <1>4, <1>b, <1>c, <1>d, GrabTypes DEF FinalGrab
<1>5. CASE FlusherStops
  BY <1>5, <1>a, <1>b DEF FlusherStops, buffers, TypeOK
<1>6. CASE Close
  BY <1>6, <1>a, <1>b DEF Close, BeginClose, buffers, TypeOK
<1>7. ASSUME NEW a \in Actors, Flush(a)
      PROVE  TypeOK' /\ BatchBound'
  <2>1. CASE Begin(a)
    BY <2>1, <1>a DEF Begin, buffers, TypeOK, Flushing
  <2>2. CASE Insert(a)
    BY <2>2, <1>a DEF Insert, buffers, TypeOK
  <2>3. CASE SendCommit(a)
    BY <2>3, <1>a DEF SendCommit, buffers, TypeOK, Flushing
  <2>4. CASE Apply(a)
    BY <2>4, <1>a DEF Apply, buffers, TypeOK, Flushing
  <2>5. ASSUME NEW r \in {"ok", "failed"}, Return(a, r),
               late' \in {late, late \cup {Batch(a)}},
               UNCHANGED <<buffers, db, batches, alive, stopped, written>>
        PROVE  TypeOK' /\ BatchBound'
    <3>0. late' \in SUBSET SUBSET Events
      <4>1. batch[a] \in Slices
        BY DEF TypeOK, Slices
      <4>2. Batch(a) \in SUBSET Events
        BY <4>1, RowsAreElements DEF Batch
      <4> QED
        BY <2>5, <4>2 DEF TypeOK
    <3>1. TypeOK'
      BY <2>5, <3>0 DEF Return, TypeOK, buffers, After, NoBatch
    <3>2. Size(NoBatch) <= BatchSize
      BY SinkAssumption DEF Size, NoBatch
    <3>3. \A c \in Actors : Size(batch'[c]) <= BatchSize
      BY <2>5, <3>2 DEF Return, TypeOK, BatchBound
    <3>4. Buffer' = Buffer
      BY <2>5 DEF Buffer, buffers
    <3> QED
      BY <3>1, <3>3, <3>4 DEF BatchBound
  <2>6. CASE ReturnOk(a)
    BY <2>6, <2>5 DEF ReturnOk
  <2>7. CASE ReturnError(a)
    BY <2>7, <2>5 DEF ReturnError
  <2> QED
    BY <1>7, <2>1, <2>2, <2>3, <2>4, <2>6, <2>7 DEF Flush
<1>8. CASE Crash
  BY <1>8, <1>a DEF Crash, buffers, TypeOK
<1>9. CASE Quiet
  BY <1>9, <1>1 DEF Quiet
<1>10. ASSUME NEW b \in late, LateApply(b) PROVE TypeOK' /\ BatchBound'
  BY <1>10, <1>a DEF LateApply, buffers, TypeOK
<1> QED
  BY <1>1, <1>2, <1>3, <1>4, <1>5, <1>6, <1>7, <1>8, <1>9, <1>10 DEF Next

-----------------------------------------------------------------------------
(* The rows as sets, one lemma per kind of step *)

\* While nobody moves a row, only pc and ins change.
LEMMA CoreStill ==
    ASSUME Core, FlushState',
           Held' = Held, \A a \in Actors : Batch(a)' = Batch(a),
           \A a \in Actors : pc'[a] = "applied" <=> pc[a] = "applied",
           UNCHANGED <<db, late, fate, batches, written>>
    PROVE  Core'
<1>1. OnePlace'
  BY DEF Core, OnePlace, Buffered, Taken
<1>2. Stored'
  BY DEF Core, Stored
<1>3. TakenWhole'
  BY DEF Core, TakenWhole
<1>4. BatchAtomic' /\ LateOnes'
  BY DEF Core, BatchAtomic, LateOnes
<1> QED
  BY <1>1, <1>2, <1>3, <1>4 DEF Core

\* The events of new are written; those with a payload, put, go to the buffers.
Enters(new, put) ==
    /\ new \in SUBSET (Events \ written)
    /\ put \subseteq new
    /\ \A e \in new \ put : Type[e] = "none"
    /\ written' = written \cup new
    /\ UNCHANGED <<db, late, fate>>

\* ... and stay there.
LEMMA CorePut ==
    ASSUME Core, FlushState', NEW new, NEW put, Enters(new, put),
           Held' = Held \cup put, \A a \in Actors : Batch(a)' = Batch(a),
           pc' = pc, batches' = batches
    PROVE  Core'
<1>1. OnePlace'
  BY DEF Core, OnePlace, Buffered, Taken, Enters, Stored
<1>2. Stored'
  BY DEF Core, Stored, Enters, OnePlace, Taken
<1>3. TakenWhole'
  BY DEF Core, TakenWhole, Enters
<1>4. BatchAtomic' /\ LateOnes'
  BY DEF Core, BatchAtomic, LateOnes, Enters
<1> QED
  BY <1>1, <1>2, <1>3, <1>4 DEF Core

\* ... or leave with the rest of the buffers for a, which had no batch.
LEMMA CoreGrab ==
    ASSUME Core, FlushState', NEW new, NEW put, Enters(new, put),
           NEW a \in Actors, pc[a] \notin Flushing, pc'[a] # "applied",
           \A c \in Actors \ {a} : pc'[c] = pc[c] /\ Batch(c)' = Batch(c),
           Held' = {}, Batch(a)' = Held \cup put,
           Held \subseteq Events,
           batches' = (batches \cup {Held \cup put}) \ {{}}
    PROVE  Core'
<1>0. Batch(a) = {}
  BY DEF Core, FlushState
<1>1. OnePlace'
  <2> SUFFICES ASSUME NEW e \in Events
               PROVE  /\ \A c \in Actors : Taken(c, e)' =>
                            /\ e \in written' /\ fate'[e] = "none"
                            /\ \A d \in Actors : Taken(d, e)' => c = d
                      /\ e \in written' /\ Type[e] # "none" =>
                            (\E c \in Actors : Taken(c, e)') \/ fate'[e] # "none"
    BY DEF OnePlace, Buffered
  <2>1. \A c \in Actors : e \in Batch(c)' =>
           \/ c = a /\ e \in Held \cup put
           \/ c # a /\ e \in Batch(c)
    OBVIOUS
  <2>2. ASSUME NEW c \in Actors, Taken(c, e)'
        PROVE  /\ e \in written' /\ fate'[e] = "none"
               /\ \A d \in Actors : Taken(d, e)' => c = d
    BY <2>1, <2>2 DEF Core, OnePlace, Buffered, Taken, Enters, Stored
  <2>3. ASSUME e \in written', Type[e] # "none", fate'[e] = "none"
        PROVE  \E c \in Actors : Taken(c, e)'
    <3>1. CASE e \in written
      BY <1>0, <2>3, <3>1 DEF Core, OnePlace, Buffered, Taken, Enters
    <3>2. CASE e \in put
      BY <3>2 DEF Taken
    <3> QED
      BY <2>3, <3>1, <3>2 DEF Enters
  <2> QED
    BY <2>2, <2>3
<1>2. Stored'
  <2> SUFFICES ASSUME NEW e \in Events
               PROVE  /\ e \notin written' => db'[e] = 0 /\ fate'[e] = "none"
                      /\ \A c \in Actors : e \in Batch(c)' =>
                            db'[e] = IF pc'[c] = "applied" THEN 1 ELSE 0
                      /\ fate'[e] = "ok" => db'[e] = 1
                      /\ db'[e] <= 1
    BY DEF Stored
  <2>1. ASSUME NEW c \in Actors, e \in Batch(c)'
        PROVE  db'[e] = IF pc'[c] = "applied" THEN 1 ELSE 0
    <3>1. CASE c = a
      BY <2>1, <3>1 DEF Core, Stored, Enters
    <3>2. CASE c # a
      BY <2>1, <3>2 DEF Core, Stored, Enters
    <3> QED
      BY <3>1, <3>2
  <2> QED
    BY <2>1 DEF Core, Stored, Enters
<1>3. TakenWhole'
  <2> SUFFICES ASSUME NEW b \in batches'
               PROVE  /\ b \subseteq written'
                      /\ \A c \in Actors : \A e, f \in b : e \in Batch(c)' => f \in Batch(c)'
    BY DEF TakenWhole
  <2>1. CASE b \in batches
    <3>1. b \cap (Held \cup put) = {}
      BY <2>1 DEF Core, TakenWhole, Enters
    <3> QED
      BY <2>1, <3>1 DEF Core, TakenWhole, Enters
  <2>2. CASE b = Held \cup put
    <3>1. b \subseteq written'
      BY <2>2 DEF Core, OnePlace, Buffered, Enters
    <3>2. ASSUME NEW c \in Actors, c # a PROVE b \cap Batch(c)' = {}
      BY <2>2, <3>2 DEF Core, OnePlace, Buffered, Taken, Enters
    <3> QED
      BY <2>2, <3>1, <3>2
  <2> QED
    BY <2>1, <2>2
<1>4. BatchAtomic'
  <2>1. \A e \in Held \cup put : db'[e] = 0
    BY DEF Core, Stored, Enters
  <2> QED
    BY <2>1 DEF Core, BatchAtomic, Enters
<1>5. LateOnes'
  <2>1. \A e \in Held \cup put : fate[e] = "none"
    BY DEF Core, OnePlace, Buffered, Stored, Enters
  <2>2. \A l \in late : \A e \in Held \cup put : e \notin l
    BY <2>1 DEF Core, LateOnes
  <2> QED
    BY <2>2 DEF Core, LateOnes, Enters
<1> QED
  BY <1>1, <1>2, <1>3, <1>4, <1>5 DEF Core

\* The database applies a whole batch.
LEMMA CoreApply ==
    ASSUME Core, TypeOK, FlushState', NEW a \in Actors, pc[a] = "commit",
           pc' = [pc EXCEPT ![a] = "applied"],
           db' = [e \in Events |-> IF e \in Batch(a) THEN db[e] + 1 ELSE db[e]],
           Held' = Held, \A c \in Actors : Batch(c)' = Batch(c),
           UNCHANGED <<late, fate, batches, written>>
    PROVE  Core'
<1>0. \A c \in Actors : pc'[c] = IF c = a THEN "applied" ELSE pc[c]
  BY DEF TypeOK
<1>1. OnePlace'
  BY DEF Core, OnePlace, Buffered, Taken
<1>2. \A e \in Events : e \in Batch(a) =>
         /\ db[e] = 0 /\ db'[e] = 1
         /\ e \in written /\ e \notin Held /\ fate[e] = "none"
         /\ \A c \in Actors : e \in Batch(c) => c = a
  BY DEF Core, OnePlace, Buffered, Taken, Stored
<1>3. \A e \in Events : e \notin Batch(a) => db'[e] = db[e]
  OBVIOUS
<1>4. Stored'
  <2> SUFFICES ASSUME NEW e \in Events
               PROVE  /\ e \notin written => db'[e] = 0 /\ fate[e] = "none"
                      /\ e \in Held => db'[e] = 0
                      /\ \A c \in Actors : e \in Batch(c) =>
                            db'[e] = IF pc'[c] = "applied" THEN 1 ELSE 0
                      /\ fate[e] = "ok" => db'[e] = 1
                      /\ db'[e] <= 1
    BY DEF Stored
  <2>1. CASE e \in Batch(a)
    BY <1>0, <1>2, <2>1
  <2>2. CASE e \notin Batch(a)
    BY <1>0, <1>3, <2>2 DEF Core, Stored
  <2> QED
    BY <2>1, <2>2
<1>5. TakenWhole'
  BY DEF Core, TakenWhole
<1>6. BatchAtomic'
  <2> SUFFICES ASSUME NEW b \in batches, NEW e \in b, NEW f \in b
               PROVE  db'[e] = db'[f]
    BY DEF BatchAtomic
  <2>1. e \in Batch(a) <=> f \in Batch(a)
    BY DEF Core, TakenWhole
  <2>2. e \in Events /\ f \in Events /\ db[e] = db[f]
    BY DEF TypeOK, Core, BatchAtomic
  <2> QED
    BY <2>1, <2>2
<1>7. LateOnes'
  <2>1. \A l \in late : \A e \in l : e \in Events /\ e \notin Batch(a)
    BY <1>2 DEF TypeOK, Core, LateOnes
  <2> QED
    BY <1>3, <2>1 DEF Core, LateOnes
<1> QED
  BY <1>1, <1>4, <1>5, <1>6, <1>7 DEF Core

\* The database applies a commit that was given up.
LEMMA CoreLate ==
    ASSUME Core, TypeOK, FlushState', NEW l \in late, late' = late \ {l},
           db' = [e \in Events |-> IF e \in l THEN db[e] + 1 ELSE db[e]],
           Held' = Held, \A c \in Actors : Batch(c)' = Batch(c),
           UNCHANGED <<pc, fate, batches, written>>
    PROVE  Core'
<1>1. \A e \in Events : e \in l =>
         /\ db[e] = 0 /\ db'[e] = 1
         /\ e \in written /\ e \notin Held /\ fate[e] = "failed"
         /\ \A c \in Actors : e \notin Batch(c)
  BY DEF Core, LateOnes, OnePlace, Buffered, Taken
<1>2. \A e \in Events : e \notin l => db'[e] = db[e]
  OBVIOUS
<1>3. OnePlace' /\ TakenWhole'
  BY DEF Core, OnePlace, Buffered, Taken, TakenWhole
<1>4. Stored'
  <2> SUFFICES ASSUME NEW e \in Events
               PROVE  /\ e \notin written => db'[e] = 0 /\ fate[e] = "none"
                      /\ e \in Held => db'[e] = 0
                      /\ \A c \in Actors : e \in Batch(c) =>
                            db'[e] = IF pc[c] = "applied" THEN 1 ELSE 0
                      /\ fate[e] = "ok" => db'[e] = 1
                      /\ db'[e] <= 1
    BY DEF Stored
  <2>1. CASE e \in l
    BY <1>1, <2>1
  <2>2. CASE e \notin l
    BY <1>2, <2>2 DEF Core, Stored
  <2> QED
    BY <2>1, <2>2
<1>5. BatchAtomic'
  <2> SUFFICES ASSUME NEW b \in batches, NEW e \in b, NEW f \in b
               PROVE  db'[e] = db'[f]
    BY DEF BatchAtomic
  <2>1. e \in l <=> f \in l
    BY DEF Core, LateOnes
  <2>2. e \in Events /\ f \in Events /\ db[e] = db[f]
    BY DEF TypeOK, Core, BatchAtomic
  <2> QED
    BY <2>1, <2>2
<1>6. LateOnes'
  <2>1. \A m \in late' : m \in late /\ \A e \in m : e \in Events /\ e \notin l
    BY DEF TypeOK, Core, LateOnes
  <2> QED
    BY <1>2, <2>1 DEF Core, LateOnes
<1> QED
  BY <1>3, <1>4, <1>5, <1>6 DEF Core

\* flush returns: the batch is gone and its rows have their fate, which is ok
\* only after the database has applied them.
LEMMA CoreReturn ==
    ASSUME Core, TypeOK, FlushState', NEW a \in Actors, NEW r \in {"ok", "failed"},
           r = "ok" => pc[a] = "applied",
           \/ late' = late
           \/ r = "failed" /\ pc[a] = "commit" /\ late' = late \cup {Batch(a)},
           \A c \in Actors \ {a} : pc'[c] = pc[c] /\ Batch(c)' = Batch(c),
           Batch(a)' = {}, Held' = Held,
           fate' = [e \in Events |-> IF e \in Batch(a) THEN r ELSE fate[e]],
           UNCHANGED <<db, batches, written>>
    PROVE  Core'
<1>1. \A e \in Events : e \in Batch(a) =>
         /\ e \in written /\ e \notin Held
         /\ \A c \in Actors : e \in Batch(c) => c = a
         /\ r = "ok" => db[e] = 1
  BY DEF Core, OnePlace, Buffered, Taken, Stored
<1>2. OnePlace'
  <2> SUFFICES ASSUME NEW e \in Events
               PROVE  /\ e \in Held => /\ e \in written /\ fate'[e] = "none"
                                       /\ \A c \in Actors : e \notin Batch(c)'
                      /\ \A c \in Actors : e \in Batch(c)' =>
                            /\ e \in written /\ fate'[e] = "none"
                            /\ \A d \in Actors : e \in Batch(d)' => c = d
                      /\ e \in written /\ Type[e] # "none" =>
                            \/ e \in Held \/ (\E c \in Actors : e \in Batch(c)')
                            \/ fate'[e] # "none"
    BY DEF OnePlace, Buffered, Taken
  <2>1. CASE e \in Batch(a)
    BY <1>1, <2>1
  <2>2. CASE e \notin Batch(a)
    BY <2>2 DEF Core, OnePlace, Buffered, Taken
  <2> QED
    BY <2>1, <2>2
<1>3. Stored'
  <2> SUFFICES ASSUME NEW e \in Events
               PROVE  /\ e \notin written => db[e] = 0 /\ fate'[e] = "none"
                      /\ e \in Held => db[e] = 0
                      /\ \A c \in Actors : e \in Batch(c)' =>
                            db[e] = IF pc'[c] = "applied" THEN 1 ELSE 0
                      /\ fate'[e] = "ok" => db[e] = 1
                      /\ db[e] <= 1
    BY DEF Stored
  <2>1. CASE e \in Batch(a)
    BY <1>1, <2>1 DEF Core, Stored
  <2>2. CASE e \notin Batch(a)
    BY <2>2 DEF Core, Stored
  <2> QED
    BY <2>1, <2>2
<1>4. TakenWhole'
  BY DEF Core, TakenWhole
<1>5. BatchAtomic'
  BY DEF Core, BatchAtomic
<1>6. LateOnes'
  <2>1. \A l \in late : \A e \in l : /\ e \in Events /\ e \notin Batch(a)
                                    /\ fate'[e] = "failed" /\ db[e] = 0 /\ e \in written
    BY DEF TypeOK, Core, LateOnes, OnePlace, Taken
  <2>2. CASE late' = late
    BY <2>1, <2>2 DEF Core, LateOnes
  <2>3. CASE r = "failed" /\ pc[a] = "commit" /\ late' = late \cup {Batch(a)}
    <3>1. Batch(a) \subseteq Events
      <4>1. batch[a] \in Slices
        BY DEF TypeOK, Slices
      <4> QED
        BY <4>1, RowsAreElements DEF Batch
    <3>2. \A e \in Batch(a) : e \in written /\ fate'[e] = "failed" /\ db[e] = 0
      BY <1>1, <2>3, <3>1 DEF Core, Stored
    <3>3. \A b \in batches : \A e, f \in b : e \in Batch(a) => f \in Batch(a)
      BY DEF Core, TakenWhole
    <3>4. \A l \in late : l \cap Batch(a) = {}
      BY <2>1
    <3> QED
      BY <2>1, <2>3, <3>2, <3>3, <3>4 DEF Core, LateOnes
  <2> QED
    BY <2>2, <2>3
<1> QED
  BY <1>2, <1>3, <1>4, <1>5, <1>6 DEF Core

-----------------------------------------------------------------------------
(* Which kind each step is *)

\* Steps that leave the slices alone leave the sets of rows alone.
LEMMA SameRows ==
    ASSUME buffers' = buffers, batch' = batch
    PROVE  Held' = Held /\ \A a \in Actors : Batch(a)' = Batch(a)
<1>1. Buffer' = Buffer
  BY DEF buffers, Buffer
<1> QED
  BY <1>1 DEF Held, Batch

\* Taking the slices ts and ls empties the buffers and gives their elements
\* to the actor.
LEMMA GrabRows ==
    ASSUME TypeOK, NEW a \in Actors, NEW ts \in Seq(Events), NEW ls \in Seq(Events),
           NEW next \in {"idle", "done"}, Grab(a, ts, ls, next)
    PROVE  /\ Held' = {}
           /\ Batch(a)' = Elements(ts) \cup Elements(ls)
           /\ \A c \in Actors \ {a} : pc'[c] = pc[c] /\ Batch(c)' = Batch(c)
           /\ pc'[a] \in {"begin", next}
           /\ pc'[a] # "begin" => Batch(a)' = {}
           /\ batches' = (batches \cup {Elements(ts) \cup Elements(ls)}) \ {{}}
<1> DEFINE b == [trades |-> ts, logs |-> ls]
<1>1. b \in Slices /\ b.trades = ts /\ b.logs = ls
  BY DEF Slices
<1>2. Rows(b, Size(b)) = Elements(ts) \cup Elements(ls)
  BY <1>1, RowsAreElements
<1>3. /\ Buffer' = NoBatch
      /\ batch' = [batch EXCEPT ![a] = b]
      /\ pc' = [pc EXCEPT ![a] = IF Size(b) > 0 THEN "begin" ELSE next]
      /\ batches' = (batches \cup {Rows(b, Size(b))}) \ {{}}
  BY DEF Grab, Buffer, NoBatch
<1>4. Size(b) \in Nat /\ (~(Size(b) > 0) => b = NoBatch)
  BY <1>1, RowsAreElements
<1> HIDE DEF b
<1>5. Held' = {}
  BY <1>3, NoBatchIsEmpty DEF Held
<1>6. batch'[a] = b /\ \A c \in Actors \ {a} : batch'[c] = batch[c] /\ pc'[c] = pc[c]
  BY <1>3 DEF TypeOK
<1>7. Batch(a)' = Rows(b, Size(b))
  BY <1>6 DEF Batch
<1>8. \A c \in Actors \ {a} : Batch(c)' = Batch(c)
  BY <1>6 DEF Batch
<1>9. pc'[a] = IF Size(b) > 0 THEN "begin" ELSE next
  BY <1>3 DEF TypeOK
<1>10. pc'[a] # "begin" => Batch(a)' = {}
  BY <1>4, <1>7, <1>9, NoBatchIsEmpty
<1> QED
  BY <1>2, <1>3, <1>5, <1>6, <1>7, <1>8, <1>9, <1>10

\* The buffers as a set.
LEMMA HeldElements ==
    ASSUME TypeOK
    PROVE  Held = Elements(trades) \cup Elements(logs) /\ Held \subseteq Events
<1>1. Buffer \in Slices /\ Buffer.trades = trades /\ Buffer.logs = logs
  BY DEF TypeOK, Buffer, Slices
<1> QED
  BY <1>1, RowsAreElements DEF Held

\* Every step keeps the sets of rows in order.
LEMMA CoreStep == TypeOK /\ CloserWaits /\ Core /\ [Next]_vars => Core'
<1> SUFFICES ASSUME TypeOK, CloserWaits, Core, [Next]_vars PROVE Core'
  OBVIOUS
<1>b. Flusher \in Actors /\ Closer \in Actors /\ Writers \subseteq Actors
  BY DEF Actors
<1>t. /\ trades \in Seq(Events) /\ logs \in Seq(Events)
      /\ pc \in [Actors -> {"idle", "wait", "done"} \cup Flushing]
      /\ ins \in [Actors -> Nat]
  BY DEF TypeOK
<1>a. ASSUME NEW a \in Actors, NEW next,
             pc' = [pc EXCEPT ![a] = next],
             pc[a] # "applied", next # "applied",
             pc[a] \in Flushing <=> next \in Flushing,
             next = "commit" => ins[a] = Size(batch[a]),
             pc[a] # "commit",
             \A c \in Actors \ {a} : ins'[c] = ins[c],
             next = "commit" => ins'[a] = ins[a],
             UNCHANGED <<buffers, batch, db, late, fate, batches, written>>
      PROVE  Core'
  <2>1. \A c \in Actors : pc'[c] = IF c = a THEN next ELSE pc[c]
    BY <1>a, <1>t
  <2>2. FlushState'
    <3> SUFFICES ASSUME NEW c \in Actors
                 PROVE  /\ pc'[c] \notin Flushing => Batch(c)' = {}
                        /\ pc'[c] \in {"commit", "applied"} => ins'[c] = Size(batch'[c])
      BY DEF FlushState
    <3>1. CASE c = a
      BY <1>a, <2>1, <3>1, SameRows DEF Core, FlushState
    <3>2. CASE c # a
      BY <1>a, <2>1, <3>2, SameRows DEF Core, FlushState
    <3> QED
      BY <3>1, <3>2
  <2> QED
    BY <1>a, <2>1, <2>2, SameRows, CoreStill
<1>u. ASSUME UNCHANGED <<buffers, pc, batch, ins, db, late, fate, batches, written>>
      PROVE  Core'
  <2>1. FlushState'
    BY <1>u, SameRows DEF Core, FlushState
  <2> QED
    BY <1>u, <2>1, SameRows, CoreStill
<1>g. ASSUME NEW a \in Actors, NEW ts \in Seq(Events), NEW ls \in Seq(Events),
             NEW next \in {"idle", "done"}, Grab(a, ts, ls, next),
             NEW new, NEW put, Enters(new, put),
             Elements(ts) \cup Elements(ls) = Held \cup put,
             pc[a] \in {"idle", "wait"}, ins' = ins
      PROVE  Core'
  <2> DEFINE S == Elements(ts) \cup Elements(ls)
  <2>1. /\ Held' = {} /\ Batch(a)' = S
        /\ \A c \in Actors \ {a} : pc'[c] = pc[c] /\ Batch(c)' = Batch(c)
        /\ pc'[a] \in {"begin", next}
        /\ pc'[a] # "begin" => Batch(a)' = {}
        /\ batches' = (batches \cup {S}) \ {{}}
    BY <1>g, GrabRows
  <2>2. \A c \in Actors \ {a} : batch'[c] = batch[c]
    BY <1>g DEF Grab, TypeOK
  <2>3. FlushState'
    <3> SUFFICES ASSUME NEW c \in Actors
                 PROVE  /\ pc'[c] \notin Flushing => Batch(c)' = {}
                        /\ pc'[c] \in {"commit", "applied"} => ins'[c] = Size(batch'[c])
      BY DEF FlushState
    <3>1. CASE c = a
      BY <2>1, <3>1 DEF Flushing
    <3>2. CASE c # a
      BY <1>g, <2>1, <2>2, <3>2 DEF Core, FlushState
    <3> QED
      BY <3>1, <3>2
  <2>4. pc[a] \notin Flushing /\ pc'[a] # "applied"
    BY <1>g, <2>1 DEF Flushing
  <2>5. Held \subseteq Events
    BY HeldElements
  <2> HIDE DEF S
  <2>6. S = Held \cup put
    BY <1>g DEF S
  <2> QED
    BY <1>g, <2>1, <2>3, <2>4, <2>5, <2>6, CoreGrab
<1>1. CASE UNCHANGED vars
  BY <1>1, <1>u DEF vars
<1>2. ASSUME NEW w \in Writers, NEW e \in Events, Write(w, e)
      PROVE  Core'
  <2> DEFINE ts == IF Type[e] = "trade" THEN Append(trades, e) ELSE trades
             ls == IF Type[e] = "log" THEN Append(logs, e) ELSE logs
             put == IF Type[e] = "none" THEN {} ELSE {e}
  <2>1. ts \in Seq(Events) /\ ls \in Seq(Events)
    BY <1>t
  <2>2. Elements(ts) \cup Elements(ls) = Held \cup put
    <3>1. Type[e] \in {"trade", "log", "none"}
      BY SinkAssumption
    <3>2. Elements(ts) = IF Type[e] = "trade" THEN Elements(trades) \cup {e}
                                              ELSE Elements(trades)
      BY <1>t, ElementsOfAppend
    <3>3. Elements(ls) = IF Type[e] = "log" THEN Elements(logs) \cup {e}
                                            ELSE Elements(logs)
      BY <1>t, ElementsOfAppend
    <3>4. Held = Elements(trades) \cup Elements(logs)
      BY HeldElements
    <3> HIDE DEF ts, ls
    <3> QED
      BY <3>1, <3>2, <3>3, <3>4
  <2>3. /\ ins' = ins
        /\ pc[w] = "idle"
        /\ \/ Grab(w, ts, ls, "idle")
           \/ /\ trades' = ts /\ logs' = ls
              /\ pc' = pc /\ UNCHANGED <<batch, batches>>
    BY <1>2 DEF Write, Put
  <2>4. Enters({e}, put)
    BY <1>2 DEF Write, Put, Enters
  <2> HIDE DEF ts, ls, put
  <2>5. CASE Grab(w, ts, ls, "idle")
    BY <2>1, <2>2, <2>3, <2>4, <2>5, <1>b, <1>g
  <2>6. CASE /\ trades' = ts /\ logs' = ls
             /\ pc' = pc /\ UNCHANGED <<batch, batches>>
    <3>1. Held' = Held \cup put
      <4>1. Buffer' \in Slices /\ Buffer'.trades = ts /\ Buffer'.logs = ls
        BY <2>1, <2>6 DEF Buffer, Slices
      <4> QED
        BY <2>2, <4>1, RowsAreElements DEF Held
    <3>2. \A a \in Actors : Batch(a)' = Batch(a)
      BY <2>6 DEF Batch
    <3>3. FlushState'
      BY <2>3, <2>6, <3>2 DEF Core, FlushState
    <3> QED
      BY <2>4, <2>6, <3>1, <3>2, <3>3, CorePut
  <2> QED
    BY <2>3, <2>5, <2>6
<1>k. ASSUME UNCHANGED <<db, late, fate, written>>
      PROVE  Enters({}, {}) /\ Elements(trades) \cup Elements(logs) = Held \cup {}
  BY <1>k, HeldElements DEF Enters
<1>3. CASE Tick
  BY <1>3, <1>b, <1>g, <1>k, <1>t DEF Tick
<1>4. CASE FinalGrab
  BY <1>4, <1>b, <1>g, <1>k, <1>t DEF FinalGrab
<1>5. CASE FlusherStops
  BY <1>5, <1>a, <1>b DEF FlusherStops, Flushing
<1>6. CASE Close
  <2>1. pc[Closer] = "idle"
    BY <1>6 DEF Close, CloserWaits
  <2> QED
    BY <1>6, <2>1, <1>a, <1>b DEF Close, BeginClose, Flushing
<1>7. ASSUME NEW a \in Actors, Flush(a)
      PROVE  Core'
  <2>1. CASE Begin(a)
    BY <2>1, <1>a DEF Begin, Flushing
  <2>2. CASE Insert(a)
    <3>1. pc' = [pc EXCEPT ![a] = "insert"] /\ \A c \in Actors \ {a} : ins'[c] = ins[c]
      BY <2>2, <1>t DEF Insert
    <3> QED
      BY <2>2, <3>1, <1>a DEF Insert, Flushing
  <2>3. CASE SendCommit(a)
    BY <2>3, <1>a DEF SendCommit, Flushing
  <2>4. CASE Apply(a)
    <3>1. Rows(batch[a], ins[a]) = Batch(a)
      BY <2>4 DEF Apply, Core, FlushState, Batch
    <3>2. db' = [e \in Events |-> IF e \in Batch(a) THEN db[e] + 1 ELSE db[e]]
      BY <2>4, <3>1 DEF Apply
    <3>3. Held' = Held /\ \A c \in Actors : Batch(c)' = Batch(c)
      BY <2>4, SameRows DEF Apply
    <3>4. FlushState'
      BY <2>4, <3>3, <1>t DEF Apply, Core, FlushState, Flushing
    <3> QED
      BY <2>4, <3>2, <3>3, <3>4, CoreApply DEF Apply
  <2>5. ASSUME NEW r \in {"ok", "failed"}, Return(a, r),
               r = "ok" => pc[a] = "applied",
               \/ late' = late
               \/ r = "failed" /\ pc[a] = "commit" /\ late' = late \cup {Batch(a)},
               UNCHANGED <<buffers, db, batches, alive, stopped, written>>
        PROVE  Core'
    <3>1. /\ batch'[a] = NoBatch /\ pc'[a] \in {"done", "idle"}
          /\ \A c \in Actors \ {a} : /\ batch'[c] = batch[c]
                                     /\ pc'[c] = pc[c] /\ ins'[c] = ins[c]
      BY <2>5 DEF Return, TypeOK, After
    <3>2. Batch(a)' = {} /\ \A c \in Actors \ {a} : Batch(c)' = Batch(c)
      BY <3>1, NoBatchIsEmpty DEF Batch
    <3>3. Held' = Held
      BY <2>5 DEF Held, Buffer, buffers
    <3>4. fate' = [e \in Events |-> IF e \in Batch(a) THEN r ELSE fate[e]]
      BY <2>5 DEF Return, Batch
    <3>5. FlushState'
      <4> SUFFICES ASSUME NEW c \in Actors
                   PROVE  /\ pc'[c] \notin Flushing => Batch(c)' = {}
                          /\ pc'[c] \in {"commit", "applied"} => ins'[c] = Size(batch'[c])
        BY DEF FlushState
      <4>1. CASE c = a
        BY <3>1, <3>2, <4>1
      <4>2. CASE c # a
        BY <3>1, <3>2, <4>2 DEF Core, FlushState
      <4> QED
        BY <4>1, <4>2
    <3> QED
      BY <2>5, <3>1, <3>2, <3>3, <3>4, <3>5, CoreReturn
  <2>6. CASE ReturnOk(a)
    BY <2>6, <2>5 DEF ReturnOk
  <2>7. CASE ReturnError(a)
    BY <2>7, <2>5 DEF ReturnError
  <2> QED
    BY <1>7, <2>1, <2>2, <2>3, <2>4, <2>6, <2>7 DEF Flush
<1>8. CASE Crash
  BY <1>8, <1>u DEF Crash
<1>9. CASE Quiet
  BY <1>9, <1>1 DEF Quiet
<1>10. ASSUME NEW l \in late, LateApply(l) PROVE Core'
  <2>1. Held' = Held /\ \A c \in Actors : Batch(c)' = Batch(c)
    BY <1>10, SameRows DEF LateApply
  <2>2. FlushState'
    BY <1>10, <2>1 DEF LateApply, Core, FlushState
  <2> QED
    BY <1>10, <2>1, <2>2, CoreLate DEF LateApply
<1> QED
  BY <1>1, <1>2, <1>3, <1>4, <1>5, <1>6, <1>7, <1>8, <1>9, <1>10 DEF Next

\* The closer moves only after Close, and nobody takes Close back.
LEMMA CloserStep == TypeOK /\ CloserWaits /\ [Next]_vars => CloserWaits'
<1> SUFFICES ASSUME TypeOK, CloserWaits, [Next]_vars, ~stopped' PROVE pc'[Closer] = "idle"
  BY DEF CloserWaits
<1>1. CASE UNCHANGED vars
  BY <1>1 DEF vars, CloserWaits
<1>2. ASSUME NEW w \in Writers, NEW e \in Events, Write(w, e) PROVE pc'[Closer] = "idle"
  BY <1>2, SinkAssumption DEF Write, Put, Grab, CloserWaits, TypeOK, Actors
<1>3. CASE Tick
  BY <1>3, SinkAssumption DEF Tick, Grab, CloserWaits, TypeOK, Actors
<1>4. CASE FinalGrab
  BY <1>4 DEF FinalGrab, CloserWaits
<1>5. CASE FlusherStops
  BY <1>5, SinkAssumption DEF FlusherStops, CloserWaits, TypeOK, Actors
<1>6. CASE Close
  BY <1>6 DEF Close, BeginClose
<1>7. ASSUME NEW a \in Actors, Flush(a) PROVE pc'[Closer] = "idle"
  <2>1. stopped' = stopped /\ pc[a] \in Flushing /\ \E next : pc' = [pc EXCEPT ![a] = next]
    BY <1>7 DEF Flush, Begin, Insert, SendCommit, Apply, ReturnOk, ReturnError, Return,
                Flushing, TypeOK
  <2>2. a # Closer /\ Closer \in Actors
    BY <2>1 DEF CloserWaits, Flushing, Actors
  <2> QED
    BY <2>1, <2>2 DEF CloserWaits, TypeOK
<1>8. CASE Crash \/ \E b \in late : LateApply(b)
  BY <1>8 DEF Crash, LateApply, CloserWaits
<1>9. CASE Quiet
  BY <1>9, <1>1 DEF Quiet
<1> QED
  BY <1>1, <1>2, <1>3, <1>4, <1>5, <1>6, <1>7, <1>8, <1>9 DEF Next

\* The workers are through before Close, the flusher before the last look.
LEMMA QuiescedStep == TypeOK /\ CloserWaits /\ Quiesced /\ [Next]_vars => Quiesced'
<1> SUFFICES ASSUME TypeOK, CloserWaits, Quiesced, [Next]_vars PROVE Quiesced'
  OBVIOUS
<1>a. /\ Flusher \in Actors /\ Closer \in Actors /\ Writers \subseteq Actors
      /\ Flusher \notin Writers /\ Closer \notin Writers /\ Flusher # Closer
  BY SinkAssumption DEF Actors
<1>p. pc \in [Actors -> {"idle", "wait", "done"} \cup Flushing]
  BY DEF TypeOK
<1>1. CASE UNCHANGED vars
  BY <1>1 DEF vars, buffers, Quiesced
<1>2. ASSUME NEW w \in Writers, NEW e \in Events, Write(w, e) PROVE Quiesced'
  <2>1. ~stopped /\ ~stopped' /\ pc[Closer] = "idle"
    BY <1>2 DEF Write, Put, CloserWaits
  <2>2. pc'[Closer] = "idle"
    BY <1>2, <1>a, <1>p, <2>1 DEF Write, Put, Grab
  <2> QED
    BY <2>1, <2>2 DEF Quiesced
<1>3. CASE Tick \/ FlusherStops
  <2>1. /\ pc[Flusher] = "idle" /\ stopped' = stopped
        /\ \E next : pc' = [pc EXCEPT ![Flusher] = next]
    BY <1>3 DEF Tick, FlusherStops, Grab
  <2>2. pc[Closer] \in {"idle", "wait"} /\ pc'[Closer] = pc[Closer]
    BY <1>a, <1>p, <2>1 DEF Quiesced
  <2>3. \A w \in Writers : pc'[w] = pc[w]
    BY <1>a, <1>p, <2>1
  <2> QED
    BY <2>1, <2>2, <2>3 DEF Quiesced
<1>4. CASE Close
  <2>1. pc'[Closer] = "wait" /\ \A w \in Writers : pc'[w] = "idle"
    BY <1>4, <1>a, <1>p DEF Close, BeginClose
  <2> QED
    BY <2>1 DEF Quiesced
<1>5. CASE FinalGrab
  <2>1. /\ trades' = <<>> /\ logs' = <<>> /\ stopped' = stopped
        /\ \E next : pc' = [pc EXCEPT ![Closer] = next]
        /\ pc[Flusher] = "done"
    BY <1>5 DEF FinalGrab, Grab
  <2>2. pc'[Flusher] = "done" /\ \A w \in Writers : pc'[w] = pc[w]
    BY <1>a, <1>p, <2>1
  <2> QED
    BY <2>1, <2>2 DEF Quiesced
<1>6. ASSUME NEW a \in Actors, Flush(a) PROVE Quiesced'
  <2>1. /\ stopped' = stopped /\ trades' = trades /\ logs' = logs /\ pc[a] \in Flushing
        /\ \E next : pc' = [pc EXCEPT ![a] = next]
    BY <1>6 DEF Flush, Begin, Insert, SendCommit, Apply, ReturnOk, ReturnError, Return,
                Flushing, buffers, TypeOK
  <2>2. \A b \in Actors : pc[b] \notin Flushing => pc'[b] = pc[b]
    BY <1>p, <2>1
  <2>3. /\ stopped => \A w \in Writers : pc'[w] = "idle"
        /\ pc[Closer] \in {"idle", "wait"} => pc'[Closer] = pc[Closer]
        /\ pc[Flusher] = "done" => pc'[Flusher] = "done"
    BY <1>a, <2>2 DEF Quiesced, Flushing
  <2> QED
    BY <2>1, <2>3 DEF Quiesced
<1>7. CASE Crash \/ \E b \in late : LateApply(b)
  BY <1>7 DEF Crash, LateApply, buffers, Quiesced
<1>8. CASE Quiet
  BY <1>8, <1>1 DEF Quiet
<1> QED
  BY <1>1, <1>2, <1>3, <1>4, <1>5, <1>6, <1>7, <1>8 DEF Next

\* NewPostgres returns with empty buffers and nothing in flight.
LEMMA InvInit == Init => Inv
<1> SUFFICES ASSUME Init PROVE Inv
  OBVIOUS
<1>1. TypeOK
  <2>1. <<>> \in Seq(Events) /\ NoBatch \in [trades : Seq(Events), logs : Seq(Events)]
    BY DEF NoBatch
  <2> QED
    BY <2>1 DEF Init, TypeOK
<1>2. Buffer = NoBatch /\ Size(NoBatch) = 0 /\ \A a \in Actors : batch[a] = NoBatch
  BY DEF Init, Buffer, NoBatch, Size
<1>3. BatchBound
  BY <1>2, SinkAssumption DEF BatchBound
<1>4. Held = {} /\ \A a \in Actors : Batch(a) = {}
  BY <1>2, NoBatchIsEmpty DEF Held, Batch
<1>5. CloserWaits
  BY DEF Init, CloserWaits, Actors
<1>q. Quiesced
  BY DEF Init, Quiesced, Actors
<1>6. FlushState
  BY <1>4 DEF FlushState, Init
<1>7. OnePlace
  BY <1>4 DEF OnePlace, Buffered, Taken, Init
<1>8. Stored
  BY <1>4 DEF Stored, Init
<1>9. TakenWhole /\ BatchAtomic /\ LateOnes
  BY DEF TakenWhole, BatchAtomic, LateOnes, Init
<1> QED
  BY <1>1, <1>3, <1>5, <1>q, <1>6, <1>7, <1>8, <1>9 DEF Inv, Core

\* Every step keeps the invariant.
LEMMA InvStep == Inv /\ [Next]_vars => Inv'
BY TypeStep, CloserStep, QuiescedStep, CoreStep DEF Inv

LEMMA Invariance == Spec => []Inv
BY InvInit, InvStep, PTL DEF Spec

-----------------------------------------------------------------------------
(* The theorems *)

\* The variables of the sink keep their types.
THEOREM SinkTypes == Spec => []TypeOK
<1>1. Inv => TypeOK
  BY DEF Inv
<1> QED
  BY Invariance, <1>1, PTL

\* s.batchSize bounds the buffers and every batch in flight, whoever fills or
\* takes them.
THEOREM BatchesAreBounded == Spec => []BatchBound
<1>1. Inv => BatchBound
  BY DEF Inv
<1> QED
  BY Invariance, <1>1, PTL

\* Write, the ticker and Close never lose an event between the lock and the
\* flush, and never give it to two flushes.
THEOREM EventsAreInOnePlace == Spec => []OnePlace
<1>1. Inv => OnePlace
  BY DEF Inv, Core
<1> QED
  BY Invariance, <1>1, PTL

\* No sequence of flushes, errors, lost answers and late commits stores an event
\* twice.
THEOREM NoDuplicateRows == Spec => []AtMostOneRow
<1>1. Inv => AtMostOneRow
  BY DEF Inv, Core, Stored, AtMostOneRow
<1> QED
  BY Invariance, <1>1, PTL

\* flush returns nil only for rows that are in the database.
THEOREM SuccessIsTrue == Spec => []ReportedIsStored
<1>1. Inv => ReportedIsStored
  BY DEF Inv, Core, Stored, ReportedIsStored
<1> QED
  BY Invariance, <1>1, PTL

\* The rows of one batch are all in the database or all not, crashes included.
THEOREM BatchesAreAtomic == Spec => []BatchAtomic
<1>1. Inv => BatchAtomic
  BY DEF Inv, Core
<1> QED
  BY Invariance, <1>1, PTL

\* When Close has returned, every trade and log that was written has been
\* flushed, with success or with an error.
ClosedIsFlushed ==
    pc[Closer] = "done" => \A e \in written : Type[e] # "none" => fate[e] # "none"

\* In any state with the invariant: the buffers are empty and nobody is in
\* flush, so there is no other place left for an event.
LEMMA InvClosed == Inv => ClosedIsFlushed
<1> SUFFICES ASSUME Inv, pc[Closer] = "done", NEW e \in written, Type[e] # "none"
             PROVE  fate[e] # "none"
  BY DEF ClosedIsFlushed
<1>1. /\ pc[Flusher] = "done" /\ trades = <<>> /\ logs = <<>> /\ stopped
      /\ \A w \in Writers : pc[w] = "idle"
  BY DEF Inv, Quiesced, CloserWaits
<1>2. \A a \in Actors : Batch(a) = {}
  BY <1>1 DEF Inv, Core, FlushState, Actors, Flushing
<1>3. Held = {}
  BY <1>1, NoBatchIsEmpty DEF Held, Buffer, NoBatch
<1>4. e \in Events
  BY DEF Inv, TypeOK
<1> QED
  BY <1>2, <1>3, <1>4 DEF Inv, Core, OnePlace, Buffered, Taken

\* Close leaves nothing behind in memory, whichever flushes it races with.
THEOREM CloseFlushesAll == Spec => []ClosedIsFlushed
BY Invariance, InvClosed, PTL
=============================================================================

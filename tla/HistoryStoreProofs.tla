------------------------- MODULE HistoryStoreProofs -------------------------
(***************************************************************************)
(* Proofs about the history store, for any rows and partitions, when it is *)
(* not closed in the middle of a sweep.  The invariant: at most one roll   *)
(* is under way and it is known whose it is; a section past its beginning  *)
(* has the partitions to itself, and what it has read is what is there;    *)
(* what a roll has copied is in the new generation; and the index lists    *)
(* what has rows.                                                          *)
(***************************************************************************)
EXTENDS HistoryStore, SequenceTheorems, FiniteSetTheorems, TLAPS

NoCloseInSweep == "closeInSweep" \notin Inputs

Held == hold.by # "nobody"
Idle == writer = NoItem

\* Who may be at work when.
Shifts ==
  /\ ~Held => hold = Free
  /\ Held => phase = "open" /\ jobs[hold.by].active
  /\ phase # "open" => \A j \in Jobs : ~jobs[j].active
  /\ phase \in {"down", "opening", "flushing"} => Idle
  /\ writer.stage = "idle" => Idle
  /\ flush.of # None => phase \in {"opening", "flushing"}
  /\ phase \notin {"opening", "flushing"} => flush = NoFlush
  /\ hold.stage # "entered" => NoAppendInFlight
  /\ hold.stage # "waits"

\* The one roll under way, by whoever awaits it.
TheRoll ==
  rolls = IF hold.stage = "rolling" THEN <<[of |-> hold.of, by |-> "hold"]>>
          ELSE IF writer.stage = "rolling" THEN <<[of |-> writer.of, by |-> "writer"]>>
          ELSE IF flush.of # None THEN <<[of |-> flush.of, by |-> "flush"]>>
          ELSE <<>>

CopiedIsThere ==
  copied => /\ rolls # <<>>
            /\ files[rolls[1].of].staged \subseteq files[rolls[1].of].cur

\* A torn generation holds nothing that is not staged as well.
TornIsStaged ==
  /\ \A p \in Partitions : files[p].torn => files[p].staged # {}
  /\ copied => ~files[rolls[1].of].torn

\* The rows kept stand for the rows there were.
StandFor(kept, rows, p) ==
  IF p \in Tiered THEN \A r \in rows : \E s \in kept : ObjectOf[s] = ObjectOf[r]
  ELSE rows \subseteq kept

Sections ==
  /\ Held => hold.of \in Partitions
  /\ Held /\ hold.op = "delete" =>
       hold.of \notin Kept \/ (hold.stage # "entered" /\ Stored(files[hold.of]) = {})
  /\ hold.stage = "ready" /\ hold.op = "rewrite" =>
       /\ Stored(files[hold.of]) = hold.saw /\ hold.saw # {}
       /\ StandFor(hold.kept, hold.saw, hold.of)
  /\ hold.stage = "staged" =>
       /\ hold.op = "rewrite"
       /\ files[hold.of].staged # {}
       /\ StandFor(files[hold.of].staged, files[hold.of].cur, hold.of)
  /\ hold.stage = "dropped" =>
       /\ hold.op = "delete" /\ files[hold.of].cur = {} /\ ~files[hold.of].torn
       /\ files[hold.of].staged # {} => hold.of \in Listed

\* What the jobs and the writer are about to do is legal.
Orders ==
  /\ \A j \in Jobs : \A p \in Partitions : jobs[j].todo[p] = "delete" => p \notin Kept
  /\ \A n \in DOMAIN queue : queue[n].rows # {}
  /\ IsFiniteSet(QueuedRows)
  /\ writer.stage = "appending" => writer.rows # {}
  /\ writer.stage \in {"appending", "rolling"} => writer.of \in Partitions

Indexed ==
  phase # "down" => \A p \in Partitions :
    (hold.stage = "dropped" /\ hold.of = p) \/ (p \in Listed <=> Stored(files[p]) # {})

IInv == TypeOK /\ Shifts /\ TheRoll /\ CopiedIsThere /\ TornIsStaged /\ Sections /\ Orders /\ Indexed

-----------------------------------------------------------------------------
(* Facts about the records.                                                *)

LEMMA FreeFacts ==
  /\ Free.by = "nobody" /\ Free.stage = "entered" /\ Free.op = "delete" /\ Free \in Section
  /\ NoItem.stage = "idle" /\ NoItem.of = None /\ NoItem.rows = {}
  /\ NoFlush.of = None /\ NoFlush.todo = {}
  BY HistoryAssumption DEF Free, NoItem, NoFlush, Section

\* An empty queue holds nothing.
LEMMA EmptyQueue ==
  ASSUME queue = <<>>
  PROVE  IsFiniteSet(QueuedRows) /\ Cardinality(QueuedRows) <= MaxQueued
<1>1. QueuedRows = {}
  BY DEF QueuedRows
<1>. QED BY <1>1, FS_EmptySet, HistoryAssumption

LEMMA InitIInv == Init => IInv
<1> SUFFICES ASSUME Init PROVE IInv
  OBVIOUS
<1> USE FreeFacts, HistoryAssumption
<1>1. TypeOK
  <2>1. files \in [Partitions -> File] /\ index \in [Partitions -> Entry]
    BY DEF Init, NoFile, File, Entry
  <2>2. queue \in Seq(Item) /\ rolls \in Seq(Roll)
    BY EmptySeq DEF Init
  <2>3. writer \in Writing /\ flush \in Flushing /\ hold \in Section
    BY DEF Init, NoItem, NoFlush, Writing, Flushing
  <2>4. jobs \in [Jobs -> Job]
    BY DEF Init, NoJob, Job
  <2>. QED BY <2>1, <2>2, <2>3, <2>4, EmptyQueue DEF Init, TypeOK
<1>2. Shifts
  BY DEF Init, Shifts, Held, Idle, NoAppendInFlight, NoJob, Jobs
<1>3. TheRoll /\ CopiedIsThere /\ TornIsStaged
  BY DEF Init, TheRoll, CopiedIsThere, TornIsStaged, NoFile
<1>4. Sections
  BY DEF Init, Sections, Held
<1>5. Orders
  BY EmptyQueue DEF Init, Orders, NoJob
<1>6. Indexed
  BY DEF Init, Indexed
<1>. QED BY <1>1, <1>2, <1>3, <1>4, <1>5, <1>6 DEF IInv

-----------------------------------------------------------------------------
(* Writing.                                                                *)

LEMMA QueueFacts ==
  ASSUME TypeOK
  PROVE  /\ queue \in Seq(Item) /\ DOMAIN queue = 1 .. Len(queue)
         /\ \A n \in DOMAIN queue : queue[n] \in Item
<1>1. queue \in Seq(Item)
  BY DEF TypeOK
<1>. QED BY <1>1, LenProperties, ElementOfSeq

LEMMA EnqueuedType ==
  ASSUME TypeOK, Orders, NEW r \in Rows
  PROVE  /\ Enqueued(r) \in Seq(Item)
         /\ \A n \in DOMAIN Enqueued(r) : Enqueued(r)[n].rows # {}
<1> DEFINE p == PartitionOf[r]
           at == {n \in DOMAIN queue : queue[n].of = p}
<1>1. p \in Partitions
  BY HistoryAssumption
<1>2. CASE at = {}
  <2> DEFINE item == [of |-> p, rows |-> {r}]
  <2>1. Enqueued(r) = Append(queue, item)
    BY <1>2 DEF Enqueued
  <2>2. item \in Item /\ item.rows # {}
    BY <1>1 DEF Item
  <2> HIDE DEF item
  <2>3. Append(queue, item) \in Seq(Item)
    BY <2>2, QueueFacts
  <2>4. \A n \in DOMAIN Append(queue, item) :
          Append(queue, item)[n] = item \/ (n \in DOMAIN queue /\ Append(queue, item)[n] = queue[n])
    BY <2>2, QueueFacts
  <2>. QED BY <2>1, <2>2, <2>3, <2>4 DEF Orders
<1>3. CASE at # {}
  <2> DEFINE n == CHOOSE n \in at : TRUE
             more == [queue[n] EXCEPT !.rows = @ \union {r}]
  <2>1. n \in DOMAIN queue
    BY <1>3
  <2>2. Enqueued(r) = [queue EXCEPT ![n] = more]
    BY <1>3 DEF Enqueued
  <2>3. more \in Item /\ more.rows # {}
    BY <2>1, QueueFacts DEF Item
  <2> HIDE DEF n, more
  <2>4. [queue EXCEPT ![n] = more] \in Seq(Item)
    BY <2>1, <2>3, QueueFacts, ExceptSeq
  <2>. QED BY <2>1, <2>2, <2>3, <2>4, QueueFacts DEF Orders
<1>. QED BY <1>2, <1>3

\* A row is added to the queue; the head of the queue is taken.
LEMMA QueueGrows ==
  ASSUME IInv, NEW r \in Rows, queue' = Enqueued(r), HasRoom
  PROVE  IsFiniteSet(QueuedRows') /\ Cardinality(QueuedRows') <= MaxQueued
<1> DEFINE p == PartitionOf[r]
           at == {n \in DOMAIN queue : queue[n].of = p}
<1>1. QueuedRows' \subseteq QueuedRows \union {r}
  <2>1. CASE at = {}
    <3> DEFINE item == [of |-> p, rows |-> {r}]
    <3>1. queue' = Append(queue, item) /\ item.rows = {r}
      BY <2>1 DEF Enqueued
    <3>2. item \in Item
      BY HistoryAssumption DEF Item
    <3> HIDE DEF item
    <3>3. \A n \in DOMAIN queue' :
            queue'[n] = item \/ (n \in DOMAIN queue /\ queue'[n] = queue[n])
      BY <3>1, <3>2, QueueFacts DEF IInv
    <3>. QED BY <3>1, <3>3 DEF QueuedRows
  <2>2. CASE at # {}
    <3> DEFINE n == CHOOSE n \in at : TRUE
               more == [queue[n] EXCEPT !.rows = @ \union {r}]
    <3>1. n \in DOMAIN queue /\ queue' = [queue EXCEPT ![n] = more]
      BY <2>2 DEF Enqueued
    <3>2. more.rows = queue[n].rows \union {r}
      BY <3>1, QueueFacts DEF Item, IInv
    <3> HIDE DEF n, more
    <3>3. DOMAIN queue' = DOMAIN queue
      BY <3>1
    <3>4. \A k \in DOMAIN queue : queue'[k] = IF k = n THEN more ELSE queue[k]
      BY <3>1
    <3>. QED BY <3>1, <3>2, <3>3, <3>4 DEF QueuedRows
  <2>. QED BY <2>1, <2>2
<1>2. IsFiniteSet(QueuedRows) /\ Cardinality(QueuedRows) < MaxQueued
  BY DEF IInv, Orders, HasRoom
<1>3. /\ IsFiniteSet(QueuedRows \union {r}) /\ Cardinality(QueuedRows) \in Nat
      /\ Cardinality(QueuedRows \union {r}) \in {Cardinality(QueuedRows), Cardinality(QueuedRows) + 1}
  BY <1>2, FS_AddElement, FS_CardinalityType
<1>4. /\ IsFiniteSet(QueuedRows') /\ Cardinality(QueuedRows') \in Nat
      /\ Cardinality(QueuedRows') <= Cardinality(QueuedRows \union {r})
  BY <1>1, <1>3, FS_Subset, FS_CardinalityType
<1>. QED BY <1>2, <1>3, <1>4, HistoryAssumption

LEMMA QueueShrinks ==
  ASSUME IInv, queue # <<>>, queue' = Tail(queue)
  PROVE  IsFiniteSet(QueuedRows') /\ Cardinality(QueuedRows') <= MaxQueued
<1>1. QueuedRows' \subseteq QueuedRows
  <2>1. /\ queue' \in Seq(Item) /\ Len(queue') = Len(queue) - 1
        /\ \A n \in 1 .. Len(queue') : queue'[n] = queue[n + 1]
    BY QueueFacts, HeadTailProperties DEF IInv
  <2>2. DOMAIN queue' = 1 .. Len(queue') /\ DOMAIN queue = 1 .. Len(queue) /\ Len(queue) \in Nat
    BY <2>1, QueueFacts, LenProperties DEF IInv
  <2>3. \A n \in DOMAIN queue' : n + 1 \in DOMAIN queue /\ queue'[n] = queue[n + 1]
    BY <2>1, <2>2
  <2>. QED BY <2>3 DEF QueuedRows
<1>2. /\ IsFiniteSet(QueuedRows) /\ Cardinality(QueuedRows) <= MaxQueued
      /\ Cardinality(QueuedRows) \in Nat
  BY FS_CardinalityType DEF IInv, Orders, TypeOK
<1>3. /\ IsFiniteSet(QueuedRows') /\ Cardinality(QueuedRows') \in Nat
      /\ Cardinality(QueuedRows') <= Cardinality(QueuedRows)
  BY <1>1, <1>2, FS_Subset, FS_CardinalityType
<1>. QED BY <1>2, <1>3, HistoryAssumption

LEMMA WriteBatchKeeps ==
  ASSUME IInv, NEW r \in Rows, NEW startsOver \in BOOLEAN, WriteBatch(r, startsOver)
  PROVE  IInv'
<1> USE FreeFacts DEF IInv
<1>1. UNCHANGED <<files, phase, index, rolls, copied, rollFailed, jobs, hold, flush>>
  BY DEF WriteBatch, chain, upkeep
<1>2. /\ queue' = queue \/ (queue' = Enqueued(r) /\ HasRoom)
      /\ writer' = writer \/ writer' = Kicked
  BY DEF WriteBatch
<1>3. \/ writer' = writer
      \/ writer.stage = "idle" /\ writer' = [writer EXCEPT !.stage = "waiting"]
  BY <1>2 DEF Kicked
<1>11. /\ writer' \in Writing /\ writer'.rows = writer.rows /\ writer'.of = writer.of
       /\ writer'.stage = writer.stage \/ (writer.stage = "idle" /\ writer'.stage = "waiting")
       /\ writer'.stage = "idle" => writer' = writer
  BY <1>3 DEF TypeOK, Writing
<1>4. last' \in [Objects -> Rows \union {None}]
  BY HistoryAssumption DEF WriteBatch, TypeOK
<1>12. IsFiniteSet(QueuedRows') /\ Cardinality(QueuedRows') <= MaxQueued
  <2>1. CASE queue' = queue
    BY <2>1 DEF QueuedRows, TypeOK, Orders
  <2>. QED BY <1>2, <2>1, QueueGrows
<1>5. TypeOK'
  BY <1>1, <1>2, <1>4, <1>11, <1>12, EnqueuedType DEF TypeOK
<1>6. phase = "open"
  BY DEF WriteBatch
<1>7. Shifts'
  BY <1>1, <1>6, <1>11 DEF Shifts, Held, Idle, NoAppendInFlight
<1>8. TheRoll' /\ CopiedIsThere' /\ TornIsStaged'
  BY <1>1, <1>11 DEF TheRoll, CopiedIsThere, TornIsStaged
<1>9. Sections' /\ Indexed'
  BY <1>1 DEF Sections, Held, Indexed, Listed
<1>10. Orders'
  BY <1>1, <1>2, <1>11, <1>12, EnqueuedType DEF Orders
<1>. QED BY <1>5, <1>7, <1>8, <1>9, <1>10

LEMMA DrainTakesKeeps ==
  ASSUME IInv, DrainTakes
  PROVE  IInv'
<1> USE FreeFacts DEF IInv
<1>1. UNCHANGED <<files, phase, index, last, rolls, copied, rollFailed, jobs, hold, flush>>
  BY DEF DrainTakes, chain, upkeep
<1>2. /\ queue' = Tail(queue) /\ queue # <<>> /\ writer.stage = "waiting" /\ ~Held
      /\ writer' = [stage |-> "appending", of |-> queue[1].of, rows |-> queue[1].rows]
  BY DEF DrainTakes, MayDrain, Held
<1>3. Len(queue) \in Nat \ {0} /\ 1 \in DOMAIN queue
  BY <1>2, QueueFacts, EmptySeq
<1>4. queue[1] \in Item /\ queue[1].rows # {}
  BY <1>3, QueueFacts DEF Orders
<1>5. queue' \in Seq(Item) /\ \A n \in DOMAIN queue' : queue'[n].rows # {}
  <2>1. /\ queue' \in Seq(Item) /\ Len(queue') = Len(queue) - 1
        /\ \A n \in 1 .. Len(queue') : queue'[n] = queue[n + 1]
    BY <1>2, QueueFacts, HeadTailProperties
  <2>2. DOMAIN queue' = 1 .. Len(queue')
    BY <2>1, LenProperties
  <2>3. \A n \in 1 .. Len(queue') : n + 1 \in DOMAIN queue
    BY <1>3, <2>1, QueueFacts
  <2>. QED BY <2>1, <2>2, <2>3 DEF Orders
<1>11. IsFiniteSet(QueuedRows') /\ Cardinality(QueuedRows') <= MaxQueued
  BY <1>2, QueueShrinks
<1>6. TypeOK'
  BY <1>1, <1>2, <1>4, <1>5, <1>11 DEF TypeOK, Item, Writing
<1>7. Shifts'
  BY <1>1, <1>2 DEF Shifts, Held, Idle, NoAppendInFlight
<1>8. TheRoll' /\ CopiedIsThere' /\ TornIsStaged'
  BY <1>1, <1>2 DEF TheRoll, CopiedIsThere, TornIsStaged
<1>9. Sections' /\ Indexed'
  BY <1>1 DEF Sections, Held, Indexed, Listed
<1>10. Orders'
  BY <1>1, <1>2, <1>4, <1>5, <1>11 DEF Orders, Item
<1>. QED BY <1>6, <1>7, <1>8, <1>9, <1>10

LEMMA NextItemFacts ==
  /\ NextItem \in Writing /\ NextItem.stage \in {"idle", "waiting"}
  /\ NextItem.stage = "idle" => NextItem = NoItem
  BY DEF NextItem, NoItem, Writing

LEMMA AppendedKeeps ==
  ASSUME IInv, Appended
  PROVE  IInv'
<1> USE FreeFacts DEF IInv
<1> DEFINE p == writer.of
           f == [files[p] EXCEPT !.staged = @ \union writer.rows]
<1>1. UNCHANGED <<phase, queue, last, copied, rollFailed, jobs, hold, flush>>
  BY DEF Appended, upkeep
<1>2. writer.stage = "appending" /\ p \in Partitions /\ writer.rows # {} /\ writer.rows \subseteq Rows
  BY DEF Appended, Orders, TypeOK, Writing
<1>3. /\ files' = [files EXCEPT ![p] = f]
      /\ \E entry \in {"plain", "done"} : index' = [index EXCEPT ![p] = entry]
  BY DEF Appended, Put, List
<1>4. \/ writer' = NextItem /\ rolls' = rolls
      \/ /\ writer' = [writer EXCEPT !.stage = "rolling", !.rows = {}]
         /\ rolls' = Append(rolls, [of |-> p, by |-> "writer"])
  BY DEF Appended
<1>5. hold.stage = "entered" /\ flush.of = None /\ rolls = <<>> /\ ~copied
  BY <1>2 DEF Shifts, NoAppendInFlight, TheRoll, CopiedIsThere, Idle
<1>6. f \in File /\ Stored(f) # {} /\ f.staged # {}
  BY <1>2 DEF TypeOK, File, Stored
<1> HIDE DEF f
<1>7. files' \in [Partitions -> File] /\ index' \in [Partitions -> Entry]
  BY <1>2, <1>3, <1>6 DEF TypeOK, Entry
<1>10. /\ writer' \in Writing /\ writer'.stage \in {"idle", "waiting", "rolling"}
       /\ rolls' \in Seq(Roll)
       /\ rolls' = IF writer'.stage = "rolling" THEN <<[of |-> p, by |-> "writer"]>> ELSE <<>>
       /\ writer'.stage = "rolling" => writer'.of = p
       /\ writer'.stage = "idle" => writer' = NoItem
  <2>1. CASE writer' = NextItem /\ rolls' = rolls
    BY <1>5, <2>1, NextItemFacts DEF TypeOK
  <2>2. CASE /\ writer' = [writer EXCEPT !.stage = "rolling", !.rows = {}]
             /\ rolls' = Append(rolls, [of |-> p, by |-> "writer"])
    <3>1. writer' \in Writing /\ writer'.stage = "rolling" /\ writer'.of = p
      BY <2>2 DEF TypeOK, Writing
    <3>2. [of |-> p, by |-> "writer"] \in Roll
      BY <1>2 DEF Roll
    <3>. QED BY <1>5, <2>2, <3>1, <3>2 DEF TypeOK
  <2>. QED BY <1>4, <2>1, <2>2
<1>11. TypeOK'
  BY <1>1, <1>7, <1>10 DEF TypeOK, QueuedRows
<1>12. phase \in {"open", "closing"}
  BY <1>2 DEF Shifts, Idle, TypeOK
<1>13. Shifts'
  BY <1>1, <1>5, <1>10, <1>12 DEF Shifts, Held, Idle, NoAppendInFlight
<1>14. TheRoll' /\ CopiedIsThere' /\ TornIsStaged'
  <2>1. \A q \in Partitions \ {p} : files'[q] = files[q]
    BY <1>2, <1>3 DEF TypeOK
  <2>2. files'[p].staged # {}
    BY <1>2, <1>3, <1>6 DEF TypeOK
  <2>. QED BY <1>1, <1>5, <1>10, <2>1, <2>2 DEF TheRoll, CopiedIsThere, TornIsStaged
<1>15. Sections'
  BY <1>1, <1>5 DEF Sections, Held, Listed
<1>16. Orders'
  BY <1>1, <1>2, <1>10 DEF Orders, QueuedRows
<1>17. Indexed'
  BY <1>1, <1>2, <1>3, <1>6 DEF Indexed, Listed, TypeOK
<1>. QED BY <1>11, <1>13, <1>14, <1>15, <1>16, <1>17

LEMMA AppendFailsKeeps ==
  ASSUME IInv, AppendFails
  PROVE  IInv'
<1> USE FreeFacts, NextItemFacts DEF IInv
<1>1. /\ UNCHANGED <<files, phase, index, queue, last, rolls, copied, rollFailed, jobs, hold, flush>>
      /\ writer.stage = "appending" /\ writer' = NextItem
  BY DEF AppendFails, chain, upkeep
<1>2. TypeOK'
  BY <1>1 DEF TypeOK, QueuedRows
<1>3. phase \in {"open", "closing"}
  BY <1>1 DEF Shifts, Idle, TypeOK
<1>4. Shifts'
  BY <1>1, <1>3 DEF Shifts, Held, Idle, NoAppendInFlight
<1>5. TheRoll' /\ CopiedIsThere' /\ TornIsStaged'
  BY <1>1 DEF TheRoll, CopiedIsThere, TornIsStaged
<1>6. Sections' /\ Indexed'
  BY <1>1 DEF Sections, Held, Indexed, Listed
<1>7. Orders'
  BY <1>1 DEF Orders, QueuedRows
<1>. QED BY <1>2, <1>4, <1>5, <1>6, <1>7
-----------------------------------------------------------------------------
(* Rolls.                                                                  *)

\* The chain holds one roll, and who awaits it is at that step.
LEMMA RollFacts ==
  ASSUME IInv, rolls # <<>>
  PROVE  /\ Head(rolls) = rolls[1] /\ Tail(rolls) = <<>> /\ rolls[1] \in Roll
         /\ hold.stage \in {"entered", "rolling"}
         /\ rolls[1].by = "hold" => hold.stage = "rolling" /\ Held
         /\ rolls[1].by # "hold" => hold.stage = "entered"
         /\ rolls[1].by = "writer" => writer.stage = "rolling" /\ flush = NoFlush
         /\ rolls[1].by # "writer" => writer.stage # "rolling"
         /\ rolls[1].by = "flush" => flush.of # None
         /\ rolls[1].by # "flush" => flush.of = None
<1> USE FreeFacts DEF IInv
<1>1. Len(rolls) = 1 /\ rolls \in Seq(Roll)
  BY DEF TheRoll, TypeOK
<1>2. Head(rolls) = rolls[1] /\ Tail(rolls) = <<>>
  <2>1. Tail(rolls) \in Seq(Roll) /\ Len(Tail(rolls)) = 0
    BY <1>1, HeadTailProperties
  <2>2. Tail(rolls) = <<>>
    BY <2>1, EmptySeq
  <2>. QED BY <1>1, <2>2
<1>3. rolls[1] \in Roll
  BY <1>1, ElementOfSeq DEF TypeOK
<1>4. hold.stage # "entered" => Held /\ phase = "open" /\ flush.of = None
  BY DEF Shifts
<1>5. writer.stage = "rolling" => flush = NoFlush /\ hold.stage = "entered"
  BY DEF Shifts, Idle, NoAppendInFlight
<1>6. CASE hold.stage = "rolling"
  <2>1. rolls[1].by = "hold"
    BY <1>6 DEF TheRoll
  <2>. QED BY <1>2, <1>3, <1>4, <1>5, <1>6, <2>1
<1>7. CASE hold.stage # "rolling" /\ writer.stage = "rolling"
  <2>1. rolls[1].by = "writer"
    BY <1>7 DEF TheRoll
  <2>. QED BY <1>2, <1>3, <1>4, <1>5, <1>7, <2>1
<1>8. CASE hold.stage # "rolling" /\ writer.stage # "rolling"
  <2>1. rolls[1].by = "flush" /\ flush.of # None
    BY <1>8 DEF TheRoll
  <2>. QED BY <1>2, <1>3, <1>4, <1>5, <1>8, <2>1
<1>. QED BY <1>6, <1>7, <1>8

\* A roll that leaves every partition's rows where they are keeps the invariant.
LEMMA LeavesChainKeeps ==
  ASSUME IInv, rolls # <<>>, NEW failed \in BOOLEAN, LeavesChain(failed), UNCHANGED index,
         files' \in [Partitions -> File],
         \A p \in Partitions : Stored(files'[p]) = Stored(files[p]),
         \A p \in Partitions : files'[p].torn => files'[p].staged # {}
  PROVE  IInv'
<1> USE FreeFacts, NextItemFacts, RollFacts DEF IInv
<1> DEFINE by == rolls[1].by
<1>1. /\ rolls' = <<>> /\ copied' = FALSE /\ rollFailed' \in Partitions \union {None}
      /\ UNCHANGED <<phase, queue, last, jobs>>
  BY DEF LeavesChain, Roll
<1>2. writer' = IF by = "writer" THEN NextItem ELSE writer
  BY DEF LeavesChain
<1>3. flush' = IF by = "flush" THEN [flush EXCEPT !.of = None] ELSE flush
  BY DEF LeavesChain
<1>4. hold' = IF by = "hold" THEN [hold EXCEPT !.stage = "over"] ELSE hold
  BY DEF LeavesChain, Resumed
<1>5. /\ writer' \in Writing /\ writer'.stage # "rolling"
      /\ writer'.stage = "idle" => writer' = NoItem
      /\ writer.stage # "rolling" => writer' = writer
      /\ writer'.stage = "appending" => writer' = writer
  BY <1>2 DEF TypeOK, Shifts, Idle
<1>6. flush' \in Flushing /\ flush'.of = None /\ (flush = NoFlush => flush' = NoFlush)
  BY <1>3 DEF TypeOK, Flushing
<1>7. /\ hold' \in Section /\ hold'.by = hold.by /\ hold'.of = hold.of /\ hold'.op = hold.op
      /\ hold'.stage = (IF by = "hold" THEN "over" ELSE "entered")
      /\ ~Held => hold' = hold
  BY <1>4 DEF TypeOK, Section
<1>8. TypeOK'
  BY <1>1, <1>5, <1>6, <1>7, EmptySeq DEF TypeOK, QueuedRows
<1>9. Idle => writer' = writer
  BY <1>5 DEF Idle
<1>10. Shifts'
  BY <1>1, <1>5, <1>6, <1>7, <1>9 DEF Shifts, Held, Idle, NoAppendInFlight
<1>11. TheRoll' /\ CopiedIsThere' /\ TornIsStaged'
  BY <1>1, <1>5, <1>6, <1>7 DEF TheRoll, CopiedIsThere, TornIsStaged
<1>12. Sections'
  BY <1>7 DEF Sections, Held, Listed
<1>13. Orders'
  BY <1>1, <1>5 DEF Orders, QueuedRows
<1>14. Indexed'
  BY <1>1, <1>7 DEF Indexed, Listed
<1>. QED BY <1>8, <1>10, <1>11, <1>12, <1>13, <1>14

\* The files of one partition are replaced.
LEMMA PutFacts ==
  ASSUME TypeOK, NEW f \in File, NEW p \in Partitions, Put(f, p)
  PROVE  /\ files' \in [Partitions -> File] /\ files'[p] = f
         /\ \A q \in Partitions \ {p} : files'[q] = files[q]
  BY DEF Put, TypeOK

LEMMA FileFacts ==
  ASSUME TypeOK, NEW p \in Partitions
  PROVE  /\ files[p] \in File
         /\ \A rows \in SUBSET Rows :
              /\ [files[p] EXCEPT !.staged = rows] \in File
              /\ [files[p] EXCEPT !.staged = rows].cur = files[p].cur
              /\ [files[p] EXCEPT !.staged = rows].staged = rows
              /\ [files[p] EXCEPT !.cur = rows] \in File
              /\ [files[p] EXCEPT !.cur = rows].cur = rows
              /\ [files[p] EXCEPT !.cur = rows].staged = files[p].staged
              /\ [files[p] EXCEPT !.staged = rows].torn = files[p].torn
              /\ [files[p] EXCEPT !.cur = rows].torn = files[p].torn
  BY DEF TypeOK, File

LEMMA TornFacts ==
  ASSUME TypeOK, NEW p \in Partitions, NEW torn \in BOOLEAN
  PROVE  /\ [files[p] EXCEPT !.torn = torn] \in File
         /\ [files[p] EXCEPT !.torn = torn].cur = files[p].cur
         /\ [files[p] EXCEPT !.torn = torn].staged = files[p].staged
         /\ [files[p] EXCEPT !.torn = torn].torn = torn
         /\ [files[p] EXCEPT !.cur = {}, !.torn = FALSE] \in File
         /\ [files[p] EXCEPT !.cur = {}, !.torn = FALSE].cur = {}
         /\ [files[p] EXCEPT !.cur = {}, !.torn = FALSE].staged = files[p].staged
         /\ [files[p] EXCEPT !.cur = {}, !.torn = FALSE].torn = FALSE
  BY DEF TypeOK, File

LEMMA RollCopiesKeeps ==
  ASSUME IInv, RollCopies
  PROVE  IInv'
<1> USE FreeFacts DEF IInv
<1> DEFINE p == rolls[1].of
           f == Folded(files[p])
<1>1. /\ rolls # <<>> /\ ~copied /\ Put(f, p) /\ copied' = TRUE /\ ~files[p].torn
      /\ UNCHANGED <<phase, index, queue, last, writer, rolls, rollFailed, jobs, hold, flush>>
  BY RollFacts DEF RollCopies, line, upkeep
<1>2. p \in Partitions
  BY <1>1, RollFacts DEF Roll
<1>3. /\ f \in File /\ f.cur = files[p].cur \union files[p].staged /\ f.staged = files[p].staged
      /\ f.torn = files[p].torn
  BY <1>2 DEF Folded, TypeOK, File
<1> HIDE DEF f
<1>4. /\ files' \in [Partitions -> File] /\ files'[p] = f
      /\ \A q \in Partitions \ {p} : files'[q] = files[q]
  BY <1>1, <1>2, <1>3, PutFacts
<1>5. \A q \in Partitions : Stored(files'[q]) = Stored(files[q])
  BY <1>3, <1>4 DEF Stored
<1>6. TypeOK'
  BY <1>1, <1>4 DEF TypeOK, QueuedRows
<1>7. Shifts' /\ TheRoll' /\ Orders'
  BY <1>1 DEF Shifts, TheRoll, Orders, Held, Idle, NoAppendInFlight, QueuedRows
<1>8. CopiedIsThere' /\ TornIsStaged'
  BY <1>1, <1>3, <1>4 DEF CopiedIsThere, TornIsStaged
<1>9. Sections'
  BY <1>1, <1>5, RollFacts DEF Sections, Held, Listed
<1>10. Indexed'
  BY <1>1, <1>5 DEF Indexed, Listed
<1>. QED BY <1>6, <1>7, <1>8, <1>9, <1>10

LEMMA RollEndsKeeps ==
  ASSUME IInv, RollEnds
  PROVE  /\ IInv'
         /\ \A p \in Partitions : Stored(files'[p]) = Stored(files[p])
<1> DEFINE p == rolls[1].of
           f == [files[p] EXCEPT !.staged = {}]
<1>1. /\ rolls # <<>> /\ UNCHANGED index /\ LeavesChain(FALSE) /\ Put(f, p)
      /\ copied \/ files[p].staged = {}
  BY RollFacts DEF RollEnds
<1>2. p \in Partitions
  BY <1>1, RollFacts DEF Roll
<1>3. f \in File /\ f.cur = files[p].cur /\ f.staged = {} /\ f.torn = files[p].torn
  BY ZenonT(30), <1>2, FileFacts DEF IInv
<1>4. Stored(f) = Stored(files[p]) /\ ~f.torn
  BY <1>1, <1>2, <1>3 DEF Stored, IInv, CopiedIsThere, TornIsStaged
<1> HIDE DEF f
<1>5. /\ files' \in [Partitions -> File]
      /\ \A q \in Partitions : Stored(files'[q]) = Stored(files[q])
      /\ \A q \in Partitions : files'[q].torn => files'[q].staged # {}
  BY <1>1, <1>2, <1>3, <1>4, PutFacts DEF IInv, TornIsStaged
<1>. QED BY <1>1, <1>5, LeavesChainKeeps

LEMMA RollFailsKeeps ==
  ASSUME IInv, RollFails
  PROVE  /\ IInv'
         /\ \A p \in Partitions : Stored(files'[p]) = Stored(files[p])
<1> DEFINE p == rolls[1].of
<1>1. /\ rolls # <<>> /\ UNCHANGED index /\ LeavesChain(TRUE) /\ files[p].staged # {}
      /\ \/ ~copied /\ \E torn \in {files[p].torn, TRUE} : Put([files[p] EXCEPT !.torn = torn], p)
         \/ copied /\ \E staged \in {files[p].staged, {}} : Put([files[p] EXCEPT !.staged = staged], p)
  BY RollFacts DEF RollFails
<1>2. p \in Partitions
  BY <1>1, RollFacts DEF Roll
<1>3. PICK f \in File : /\ Put(f, p) /\ Stored(f) = Stored(files[p])
                        /\ f.torn => f.staged # {}
  <2>1. CASE ~copied
    <3>1. PICK torn \in {files[p].torn, TRUE} : Put([files[p] EXCEPT !.torn = torn], p)
      BY <1>1, <2>1
    <3>2. torn \in BOOLEAN
      BY <1>2 DEF IInv, TypeOK, File
    <3> DEFINE f == [files[p] EXCEPT !.torn = torn]
    <3>3. f \in File /\ f.cur = files[p].cur /\ f.staged = files[p].staged
      BY <1>2, <3>2, TornFacts DEF IInv
    <3>4. Put(f, p)
      BY <3>1
    <3> HIDE DEF f
    <3>. QED BY <1>1, <3>3, <3>4 DEF Stored
  <2>2. CASE copied
    <3>1. PICK staged \in {files[p].staged, {}} : Put([files[p] EXCEPT !.staged = staged], p)
      BY <1>1, <2>2
    <3>2. staged \in SUBSET Rows /\ staged \subseteq files[p].staged
      BY <1>2 DEF IInv, TypeOK, File
    <3> DEFINE f == [files[p] EXCEPT !.staged = staged]
    <3>3. f \in File /\ f.cur = files[p].cur /\ f.staged = staged /\ f.torn = files[p].torn
      BY <1>2, <3>2, FileFacts DEF IInv
    <3>4. Put(f, p)
      BY <3>1
    <3> HIDE DEF f
    <3>5. files[p].staged \subseteq files[p].cur /\ ~files[p].torn
      BY <2>2 DEF IInv, CopiedIsThere, TornIsStaged
    <3>. QED BY <3>1, <3>3, <3>4, <3>5 DEF Stored
  <2>. QED BY <2>1, <2>2
<1>4. /\ files' \in [Partitions -> File]
      /\ \A q \in Partitions : Stored(files'[q]) = Stored(files[q])
      /\ \A q \in Partitions : files'[q].torn => files'[q].staged # {}
  BY <1>2, <1>3, PutFacts DEF IInv, TornIsStaged
<1>. QED BY <1>1, <1>4, LeavesChainKeeps-----------------------------------------------------------------------------
(* The jobs and their sections.                                            *)

LEMMA BecomeJobKeeps ==
  ASSUME IInv, NEW j \in Jobs, NEW x \in Job, BecomeJob(j, x),
         phase # "open" => ~x.active,
         hold.by = j => x.active,
         \A p \in Partitions : x.todo[p] = "delete" => p \notin Kept
  PROVE  IInv'
<1> USE DEF IInv
<1>1. /\ jobs' = [jobs EXCEPT ![j] = x]
      /\ UNCHANGED <<files, phase, index, queue, last, writer, rolls, copied, rollFailed, hold, flush>>
  BY DEF BecomeJob, line, chain
<1>2. jobs' \in [Jobs -> Job] /\ jobs'[j] = x /\ \A k \in Jobs \ {j} : jobs'[k] = jobs[k]
  BY <1>1 DEF TypeOK
<1>3. TypeOK'
  BY <1>1, <1>2 DEF TypeOK, QueuedRows
<1>4. hold.by \in Jobs \union {"nobody"}
  BY DEF TypeOK, Section
<1>5. Shifts'
  BY <1>1, <1>2, <1>4 DEF Shifts, Held, Idle, NoAppendInFlight
<1>6. TheRoll' /\ CopiedIsThere' /\ TornIsStaged' /\ Sections' /\ Indexed'
  BY <1>1 DEF TheRoll, CopiedIsThere, TornIsStaged, Sections, Held, Indexed, Listed
<1>7. Orders'
  BY <1>1, <1>2 DEF Orders, QueuedRows
<1>. QED BY <1>3, <1>5, <1>6, <1>7

LEMMA SweepRetentionKeeps ==
  ASSUME IInv, NEW old \in SUBSET Partitions, NEW aged \in SUBSET Partitions,
         SweepRetention(old, aged)
  PROVE  IInv'
<1> DEFINE x == [active |-> TRUE, capping |-> FALSE,
                 todo |-> [p \in Partitions |-> Decision(p, old, aged)]]
<1>1. phase = "open" /\ BecomeJob("sweep", x)
  BY DEF SweepRetention
<1>2. \A p \in Partitions :
        /\ Decision(p, old, aged) \in {"no", "delete", "rewrite"}
        /\ Decision(p, old, aged) = "delete" => p \notin Kept
  BY DEF Decision
<1>3. x \in Job /\ x.active /\ \A p \in Partitions : x.todo[p] = "delete" => p \notin Kept
  BY <1>2 DEF Job
<1> HIDE DEF x
<1>. QED BY <1>1, <1>3, BecomeJobKeeps DEF Jobs

LEMMA DeletionsFacts ==
  ASSUME IInv, NEW j \in Jobs, NEW victims, victims \subseteq Listed \ Kept
  PROVE  /\ Deletions(jobs[j], victims) \in [Partitions -> {"no", "delete", "rewrite"}]
         /\ \A p \in Partitions : Deletions(jobs[j], victims)[p] = "delete" => p \notin Kept
  BY DEF Deletions, IInv, TypeOK, Job, Orders

LEMMA EnforceSizeCapKeeps ==
  ASSUME IInv, NEW victims \in SUBSET Partitions, EnforceSizeCap(victims)
  PROVE  IInv'
<1> DEFINE x == [active |-> TRUE, capping |-> TRUE, todo |-> Deletions(jobs["cap"], victims)]
<1>1. "cap" \in Jobs /\ phase = "open" /\ BecomeJob("cap", x) /\ victims \subseteq Listed \ Kept
  BY DEF EnforceSizeCap, Jobs
<1>2. x \in Job /\ x.active /\ \A p \in Partitions : x.todo[p] = "delete" => p \notin Kept
  BY <1>1, DeletionsFacts DEF Job
<1> HIDE DEF x
<1>. QED BY <1>1, <1>2, BecomeJobKeeps DEF Jobs

LEMMA CapToSizeKeeps ==
  ASSUME IInv, NEW victims \in SUBSET Partitions, CapToSize(victims)
  PROVE  IInv'
<1> DEFINE x == [jobs["sweep"] EXCEPT !.capping = TRUE, !.todo = Deletions(jobs["sweep"], victims)]
<1>1. /\ BecomeJob("sweep", x) /\ victims \subseteq Listed \ Kept
      /\ jobs["sweep"].active /\ "sweep" \in Jobs
  BY DEF CapToSize, Jobs
<1>2. x \in Job /\ x.active /\ \A p \in Partitions : x.todo[p] = "delete" => p \notin Kept
  BY <1>1, DeletionsFacts DEF Job, IInv, TypeOK
<1>3. phase = "open"
  BY <1>1 DEF IInv, Shifts
<1> HIDE DEF x
<1>. QED BY <1>1, <1>2, <1>3, BecomeJobKeeps

LEMMA JobEndsKeeps ==
  ASSUME IInv, NEW j \in Jobs, JobEnds(j)
  PROVE  IInv'
<1>1. BecomeJob(j, NoJob) /\ hold.by # j
  BY DEF JobEnds
<1>2. NoJob \in Job /\ ~NoJob.active /\ \A p \in Partitions : NoJob.todo[p] = "no"
  BY DEF NoJob, Job
<1>. QED BY <1>1, <1>2, BecomeJobKeeps

LEMMA WithExclusiveKeeps ==
  ASSUME IInv, NEW j \in Jobs, NEW p \in Partitions, WithExclusive(j, p)
  PROVE  IInv'
<1> USE FreeFacts DEF IInv
<1>1. /\ ~Held /\ jobs[j].active /\ jobs[j].todo[p] # "no"
      /\ hold' = [Free EXCEPT !.by = j, !.of = p, !.op = jobs[j].todo[p]]
      /\ jobs' = [jobs EXCEPT ![j].todo[p] = "no"]
      /\ UNCHANGED <<files, phase, index, queue, last, writer, rolls, copied, rollFailed, flush>>
  BY DEF WithExclusive, Held, line, chain
<1>2. jobs[j] \in Job /\ jobs[j].todo[p] \in {"delete", "rewrite"}
  BY <1>1 DEF TypeOK, Job
<1>3. /\ hold' \in Section /\ hold'.by = j /\ hold'.of = p /\ hold'.op = jobs[j].todo[p]
      /\ hold'.stage = "entered" /\ j # "nobody"
  BY <1>1, <1>2 DEF Free, Section, Jobs
<1> DEFINE x == [jobs[j] EXCEPT !.todo[p] = "no"]
<1>4. /\ x \in Job /\ x.active
      /\ \A q \in Partitions : x.todo[q] = IF q = p THEN "no" ELSE jobs[j].todo[q]
  BY <1>1, <1>2 DEF Job
<1>5. jobs' = [jobs EXCEPT ![j] = x]
  BY <1>1
<1> HIDE DEF x
<1>6. jobs' \in [Jobs -> Job] /\ jobs'[j] = x /\ \A k \in Jobs \ {j} : jobs'[k] = jobs[k]
  BY <1>4, <1>5 DEF TypeOK
<1>7. TypeOK'
  BY <1>1, <1>3, <1>6 DEF TypeOK, QueuedRows
<1>8. phase = "open" /\ hold.stage = "entered"
  BY <1>1 DEF Shifts
<1>9. Shifts'
  BY <1>1, <1>3, <1>4, <1>6, <1>8 DEF Shifts, Held, Idle, NoAppendInFlight
<1>10. TheRoll' /\ CopiedIsThere' /\ TornIsStaged'
  BY <1>1, <1>3, <1>8 DEF TheRoll, CopiedIsThere, TornIsStaged
<1>11. Sections'
  BY <1>1, <1>2, <1>3 DEF Sections, Held, Listed, Orders
<1>12. Orders'
  BY <1>1, <1>4, <1>6 DEF Orders, QueuedRows
<1>13. Indexed'
  BY <1>1, <1>3, <1>8 DEF Indexed, Listed
<1>. QED BY <1>7, <1>9, <1>10, <1>11, <1>12, <1>13
\* A step of the section.
LEMMA HoldBeginsKeeps ==
  ASSUME IInv, NEW kept \in SUBSET Rows, HoldBegins(kept)
  PROVE  IInv'
<1> USE FreeFacts DEF IInv
<1> DEFINE f == files[hold.of]
<1>1. /\ Held /\ hold.stage = "entered" /\ NoAppendInFlight
      /\ UNCHANGED <<files, phase, index, queue, last, writer, rolls, copied, rollFailed, jobs, flush>>
  BY DEF HoldBegins, BecomeHold, Held, line, chain
<1>2. phase = "open" /\ flush.of = None /\ rolls = <<>> /\ hold.of \in Partitions
  BY <1>1 DEF Shifts, NoAppendInFlight, TheRoll, Sections
<1>3. f \in File /\ Stored(f) \subseteq Rows
  BY <1>2, FileFacts DEF File, Stored
<1>4. \/ /\ hold.op = "delete" /\ hold' = AwaitsRolls(hold)
      \/ /\ hold.op # "delete" /\ Stored(f) = {}
         /\ hold' = AwaitsRolls([hold EXCEPT !.op = "delete"])
      \/ /\ hold.op # "delete" /\ Stored(f) # {}
         /\ hold' = AwaitsRolls([hold EXCEPT !.saw = Stored(f), !.kept = kept])
  BY DEF HoldBegins, BecomeHold
<1>5. \A x : AwaitsRolls(x) = [x EXCEPT !.stage = "over"] \/ AwaitsRolls(x) = [x EXCEPT !.stage = "ready"]
  BY <1>2 DEF AwaitsRolls
<1>6. /\ hold' \in Section /\ hold'.by = hold.by /\ hold'.of = hold.of
      /\ hold'.stage \in {"over", "ready"}
      /\ \/ hold'.op = "delete" /\ (hold.op = "delete" \/ Stored(f) = {})
         \/ hold'.op = "rewrite" /\ hold'.saw = Stored(f) /\ hold'.kept = kept /\ Stored(f) # {}
            /\ hold.op # "delete"
  <2>1. hold \in Section /\ Stored(f) \in SUBSET Rows
    BY <1>3 DEF TypeOK
  <2>2. CASE hold.op = "delete" /\ hold' = AwaitsRolls(hold)
    BY <1>5, <2>1, <2>2 DEF Section
  <2>3. CASE Stored(f) = {} /\ hold' = AwaitsRolls([hold EXCEPT !.op = "delete"])
    <3> DEFINE y == [hold EXCEPT !.op = "delete"]
    <3>1. y \in Section /\ y.by = hold.by /\ y.of = hold.of /\ y.op = "delete"
      BY <2>1 DEF Section
    <3>2. hold' = AwaitsRolls(y)
      BY <2>3
    <3> HIDE DEF y
    <3>3. hold' = [y EXCEPT !.stage = "over"] \/ hold' = [y EXCEPT !.stage = "ready"]
      BY <1>5, <3>2
    <3>. QED BY <2>3, <3>1, <3>3 DEF Section
  <2>4. CASE /\ hold.op # "delete" /\ Stored(f) # {}
             /\ hold' = AwaitsRolls([hold EXCEPT !.saw = Stored(f), !.kept = kept])
    <3> DEFINE y == [hold EXCEPT !.saw = Stored(f), !.kept = kept]
    <3>1. /\ y \in Section /\ y.by = hold.by /\ y.of = hold.of /\ y.op = "rewrite"
          /\ y.saw = Stored(f) /\ y.kept = kept
      BY <2>1, <2>4 DEF Section
    <3>2. hold' = AwaitsRolls(y)
      BY <2>4
    <3> HIDE DEF y
    <3>3. hold' = [y EXCEPT !.stage = "over"] \/ hold' = [y EXCEPT !.stage = "ready"]
      BY <1>5, <3>2
    <3>. QED BY <2>4, <3>1, <3>3 DEF Section
  <2>. QED BY <1>4, <2>2, <2>3, <2>4
<1>7. hold.op # "delete" /\ Stored(f) # {} =>
        StandFor(kept, Stored(f), hold.of)
  BY DEF HoldBegins, StandFor
<1>8. TypeOK'
  BY <1>1, <1>6 DEF TypeOK, QueuedRows
<1>9. Shifts'
  BY <1>1, <1>6 DEF Shifts, Held, Idle, NoAppendInFlight
<1>10. TheRoll' /\ CopiedIsThere' /\ TornIsStaged'
  BY <1>1, <1>2, <1>6 DEF TheRoll, CopiedIsThere, TornIsStaged, NoAppendInFlight
<1>11. Sections'
  BY <1>1, <1>2, <1>6, <1>7 DEF Sections, Held, Listed
<1>12. Orders'
  BY <1>1 DEF Orders, QueuedRows
<1>13. Indexed'
  BY <1>1, <1>6 DEF Indexed, Listed
<1>. QED BY <1>8, <1>9, <1>10, <1>11, <1>12, <1>13

\* Past its beginning, a section has the partitions to itself.
LEMMA Alone ==
  ASSUME IInv, hold.stage \in {"ready", "staged", "dropped", "over"}
  PROVE  /\ Held /\ hold.of \in Partitions /\ phase = "open" /\ flush = NoFlush /\ flush.of = None
         /\ rolls = <<>> /\ ~copied /\ NoAppendInFlight
  BY FreeFacts DEF IInv, Shifts, TheRoll, CopiedIsThere, Sections, NoAppendInFlight

\* The steps of a section alone with its partition.
LEMMA SectionKeeps ==
  ASSUME IInv, hold.stage \in {"ready", "staged", "dropped"},
         NEW x \in Section, BecomeHold(x), x.by = hold.by, x.of = hold.of, x.op = hold.op,
         x.stage \notin {"entered", "waits"},
         NEW f \in File, Put(f, hold.of), index' \in [Partitions -> Entry],
         x.op = "delete" => hold.of \notin Kept \/ Stored(f) = {},
         f.torn => f.staged # {},
         \A q \in Partitions \ {hold.of} : index'[q] = index[q],
         (x.stage = "dropped" \/ (index'[hold.of] # "none" <=> Stored(f) # {})),
         x.stage = "rolling" => rolls' = <<[of |-> hold.of, by |-> "hold"]>>,
         x.stage # "rolling" => rolls' = rolls,
         x.stage # "ready",
         UNCHANGED <<copied, rollFailed>>,
         x.stage = "staged" => /\ x.op = "rewrite" /\ f.staged # {}
                               /\ StandFor(f.staged, f.cur, hold.of),
         x.stage = "dropped" => /\ x.op = "delete" /\ f.cur = {} /\ ~f.torn
                                /\ f.staged # {} => index'[hold.of] # "none"
  PROVE  IInv'
<1> USE FreeFacts, Alone DEF IInv
<1>1. /\ hold' = x /\ UNCHANGED <<phase, queue, last, writer, jobs, flush>>
  BY DEF BecomeHold, line
<1>2. /\ files' \in [Partitions -> File] /\ files'[hold.of] = f
      /\ \A q \in Partitions \ {hold.of} : files'[q] = files[q]
  BY PutFacts
<1>3. rolls' \in Seq(Roll)
  <2>1. [of |-> hold.of, by |-> "hold"] \in Roll
    BY DEF Roll
  <2>2. <<[of |-> hold.of, by |-> "hold"]>> \in Seq(Roll)
    BY <2>1
  <2>. QED BY <2>2 DEF TypeOK
<1>4. TypeOK'
  BY <1>1, <1>2, <1>3 DEF TypeOK, QueuedRows
<1>5. Shifts'
  BY <1>1 DEF Shifts, Held, Idle, NoAppendInFlight
<1>6. TheRoll' /\ CopiedIsThere' /\ TornIsStaged'
  BY <1>1, <1>2 DEF TheRoll, CopiedIsThere, TornIsStaged, NoAppendInFlight
<1>7. Sections'
  BY <1>1, <1>2 DEF Sections, Held, Listed
<1>8. Orders'
  BY <1>1 DEF Orders, QueuedRows
<1>9. Indexed'
  BY <1>1, <1>2 DEF Indexed, Listed
<1>. QED BY <1>4, <1>5, <1>6, <1>7, <1>8, <1>9

LEMMA RewriteStagesKeeps ==
  ASSUME IInv, RewriteStages
  PROVE  IInv'
<1> USE Alone DEF IInv
<1> DEFINE x == [hold EXCEPT !.stage = "staged", !.saw = {}]
           f == [files[hold.of] EXCEPT !.staged = hold.kept]
<1>1. /\ hold.stage = "ready" /\ hold.op = "rewrite" /\ BecomeHold(x) /\ Put(f, hold.of)
      /\ UNCHANGED <<index, rolls, copied, rollFailed>>
  BY DEF RewriteStages, chain
<1>2. x \in Section /\ x.by = hold.by /\ x.of = hold.of /\ x.op = "rewrite" /\ x.stage = "staged"
  BY <1>1 DEF TypeOK, Section
<1>3. hold.of \in Partitions /\ hold.kept \in SUBSET Rows
  BY <1>1 DEF TypeOK, Section
<1>4. /\ f \in File /\ f.staged = hold.kept /\ f.cur = files[hold.of].cur
      /\ f.torn = files[hold.of].torn
  BY <1>3, FileFacts
<1> HIDE DEF f
<1>5. /\ hold.kept # {} /\ StandFor(hold.kept, f.cur, hold.of)
      /\ Stored(files[hold.of]) # {}
  <2>1. /\ Stored(files[hold.of]) = hold.saw /\ hold.saw # {}
        /\ StandFor(hold.kept, hold.saw, hold.of)
    BY <1>1 DEF Sections
  <2>2. f.cur \subseteq hold.saw
    BY <1>4, <2>1 DEF Stored
  <2>. QED BY <2>1, <2>2 DEF StandFor
<1>6. hold.of \in Listed
  BY <1>1, <1>3, <1>5 DEF Indexed
<1>7. Stored(f) # {}
  BY <1>4, <1>5 DEF Stored
<1> HIDE DEF x
<1>. QED BY <1>1, <1>2, <1>3, <1>4, <1>5, <1>6, <1>7, SectionKeeps DEF TypeOK, Listed

LEMMA RewriteDropsKeeps ==
  ASSUME IInv, RewriteDrops
  PROVE  IInv'
<1> USE Alone DEF IInv
<1> DEFINE x == [hold EXCEPT !.stage = "rolling", !.kept = {}]
           f == [files[hold.of] EXCEPT !.cur = {}, !.torn = FALSE]
<1>1. /\ hold.stage = "staged" /\ BecomeHold(x) /\ Put(f, hold.of) /\ List(hold.of, "done")
      /\ rolls' = Append(rolls, [of |-> hold.of, by |-> "hold"])
      /\ UNCHANGED <<copied, rollFailed>>
  BY DEF RewriteDrops
<1>2. x \in Section /\ x.by = hold.by /\ x.of = hold.of /\ x.op = "rewrite" /\ x.stage = "rolling"
  BY <1>1 DEF TypeOK, Section, Sections
<1>3. hold.of \in Partitions /\ rolls = <<>> /\ hold.op = "rewrite"
  BY <1>1 DEF Sections
<1>4. f \in File /\ f.staged # {}
  BY <1>1, <1>3, TornFacts DEF Sections
<1>5. Stored(f) # {}
  BY <1>4 DEF Stored
<1>6. /\ index' \in [Partitions -> Entry] /\ index'[hold.of] = "done"
      /\ \A q \in Partitions \ {hold.of} : index'[q] = index[q]
  BY <1>1, <1>3 DEF List, TypeOK, Entry
<1>7. rolls' = <<[of |-> hold.of, by |-> "hold"]>>
  BY <1>1, <1>3
<1> HIDE DEF x, f
<1>. QED BY <1>1, <1>2, <1>3, <1>4, <1>5, <1>6, <1>7, SectionKeeps

LEMMA DeleteDropsKeeps ==
  ASSUME IInv, DeleteDrops
  PROVE  IInv'
<1> USE Alone DEF IInv
<1> DEFINE x == [hold EXCEPT !.stage = "dropped"]
           f == [files[hold.of] EXCEPT !.cur = {}, !.torn = FALSE]
<1>1. /\ hold.stage = "ready" /\ hold.op = "delete" /\ BecomeHold(x) /\ Put(f, hold.of)
      /\ UNCHANGED <<index, rolls, copied, rollFailed>>
  BY DEF DeleteDrops, chain
<1>2. x \in Section /\ x.by = hold.by /\ x.of = hold.of /\ x.op = "delete" /\ x.stage = "dropped"
  BY <1>1 DEF TypeOK, Section
<1>3. f \in File /\ f.cur = {} /\ f.staged = files[hold.of].staged /\ ~f.torn
  BY <1>1, TornFacts
<1>4. hold.of \notin Kept \/ Stored(f) = {}
  BY <1>1, <1>3 DEF Sections, Stored
<1>5. f.staged # {} => index'[hold.of] # "none"
  BY <1>1, <1>3 DEF Indexed, Listed, Stored
<1> HIDE DEF x, f
<1>. QED BY <1>1, <1>2, <1>3, <1>4, <1>5, SectionKeeps DEF TypeOK

LEMMA DeleteEndsKeeps ==
  ASSUME IInv, DeleteEnds
  PROVE  IInv'
<1> USE Alone DEF IInv
<1> DEFINE x == [hold EXCEPT !.stage = "over"]
<1>1. /\ hold.stage = "dropped" /\ BecomeHold(x) /\ Put(NoFile, hold.of) /\ List(hold.of, "none")
      /\ UNCHANGED <<rolls, copied, rollFailed>>
  BY DEF DeleteEnds, chain
<1>2. x \in Section /\ x.by = hold.by /\ x.of = hold.of /\ x.op = hold.op /\ x.stage = "over"
  BY <1>1 DEF TypeOK, Section
<1>3. NoFile \in File /\ Stored(NoFile) = {} /\ ~NoFile.torn
  BY DEF NoFile, File, Stored
<1>4. /\ index' \in [Partitions -> Entry] /\ index'[hold.of] = "none"
      /\ \A q \in Partitions \ {hold.of} : index'[q] = index[q]
  BY <1>1 DEF List, TypeOK, Entry
<1> HIDE DEF x
<1>. QED BY <1>1, <1>2, <1>3, <1>4, SectionKeeps

LEMMA StepFailsKeeps ==
  ASSUME IInv, StepFails
  PROVE  /\ IInv'
         /\ hold.op # "delete" => \A p \in Partitions : Stored(files'[p]) = Stored(files[p])
         /\ \A p \in Partitions \ {hold.of} : files'[p] = files[p]
<1> USE Alone DEF IInv
<1> DEFINE x == [hold EXCEPT !.stage = "over"]
           g == files[hold.of]
<1>1. /\ hold.stage \in {"ready", "staged"} \/ (hold.stage = "dropped" /\ g.staged # {})
      /\ BecomeHold(x) /\ UNCHANGED <<index, rolls, copied, rollFailed>>
      /\ UNCHANGED files \/ (g.torn /\ hold.op = "delete" /\ Put([g EXCEPT !.cur = {}], hold.of))
  BY DEF StepFails, chain
<1>2. x \in Section /\ x.by = hold.by /\ x.of = hold.of /\ x.op = hold.op /\ x.stage = "over"
  BY <1>1 DEF TypeOK, Section
<1>3. hold.of \in Partitions /\ g \in File
  BY <1>1 DEF TypeOK
<1>4. PICK f \in File : /\ Put(f, hold.of) /\ f.staged = g.staged /\ f.torn = g.torn
                        /\ f = g \/ (f.cur = {} /\ g.torn /\ hold.op = "delete")
  <2>1. CASE UNCHANGED files
    <3>1. Put(g, hold.of)
      BY <1>3, <2>1 DEF Put, TypeOK
    <3>. QED BY <1>3, <3>1
  <2>2. CASE g.torn /\ hold.op = "delete" /\ Put([g EXCEPT !.cur = {}], hold.of)
    <3> DEFINE f == [g EXCEPT !.cur = {}]
    <3>1. f \in File /\ f.cur = {} /\ f.staged = g.staged /\ f.torn = g.torn
      BY <1>3 DEF File
    <3>2. Put(f, hold.of)
      BY <2>2
    <3> HIDE DEF f
    <3>. QED BY <2>2, <3>1, <3>2
  <2>. QED BY <1>1, <2>1, <2>2
<1>5. /\ f.torn => f.staged # {}
      /\ f.cur \subseteq g.cur
  BY <1>3, <1>4 DEF TornIsStaged
<1>6. Stored(f) # {} <=> Stored(g) # {}
  BY <1>3, <1>4 DEF Stored, TornIsStaged
<1>7. index[hold.of] # "none" <=> Stored(f) # {}
  <2>1. hold.stage # "dropped" => (index[hold.of] # "none" <=> Stored(g) # {})
    BY <1>1, <1>3 DEF Indexed, Listed
  <2>2. CASE hold.stage = "dropped"
    <3>1. index[hold.of] # "none"
      BY <1>1, <2>2 DEF Sections, Listed
    <3>2. g.staged # {}
      BY <1>1, <2>2
    <3>3. f.staged # {}
      BY <1>4, <3>2
    <3>. QED BY <3>1, <3>3 DEF Stored
  <2>. QED BY <1>6, <2>1, <2>2
<1>8. hold.op = "delete" => hold.of \notin Kept \/ Stored(f) = {}
  BY <1>1, <1>6 DEF Sections
<1> HIDE DEF x
<1>9. IInv'
  BY <1>1, <1>2, <1>3, <1>4, <1>5, <1>7, <1>8, SectionKeeps DEF TypeOK
<1>10. /\ files'[hold.of] = f
       /\ \A p \in Partitions \ {hold.of} : files'[p] = files[p]
  BY <1>3, <1>4, PutFacts
<1>. QED BY <1>3, <1>4, <1>9, <1>10

LEMMA RewriteSkippedKeeps ==
  ASSUME IInv, RewriteSkipped
  PROVE  IInv'
<1> USE FreeFacts DEF IInv
<1>1. /\ hold.stage = "entered" /\ hold.op = "rewrite" /\ NoAppendInFlight
      /\ hold' = [hold EXCEPT !.stage = "over"]
      /\ UNCHANGED <<files, phase, index, queue, last, writer, rolls, copied, rollFailed, jobs, flush>>
  BY DEF RewriteSkipped, BecomeHold, line, chain
<1>2. /\ Held /\ phase = "open" /\ flush.of = None /\ rolls = <<>>
      /\ hold' \in Section /\ hold'.by = hold.by /\ hold'.of = hold.of /\ hold'.op = hold.op
      /\ hold'.stage = "over"
  BY <1>1 DEF Shifts, Held, NoAppendInFlight, TheRoll, TypeOK, Section
<1>3. TypeOK'
  BY <1>1, <1>2 DEF TypeOK, QueuedRows
<1>4. Shifts'
  BY <1>1, <1>2 DEF Shifts, Held, Idle, NoAppendInFlight
<1>5. TheRoll' /\ CopiedIsThere' /\ TornIsStaged'
  BY <1>1, <1>2 DEF TheRoll, CopiedIsThere, TornIsStaged, NoAppendInFlight
<1>6. Sections' /\ Indexed'
  BY <1>1, <1>2 DEF Sections, Held, Indexed, Listed
<1>7. Orders'
  BY <1>1 DEF Orders, QueuedRows
<1>. QED BY <1>3, <1>4, <1>5, <1>6, <1>7

LEMMA ReleaseKeeps ==
  ASSUME IInv, Release
  PROVE  IInv'
<1> USE FreeFacts, Alone DEF IInv
<1>1. /\ hold.stage = "over" /\ hold' = Free
      /\ UNCHANGED <<files, phase, index, queue, last, writer, rolls, copied, rollFailed, jobs, flush>>
  BY DEF Release, Released, BecomeHold, line, chain
<1>2. TypeOK'
  BY <1>1 DEF TypeOK, QueuedRows
<1>3. Shifts'
  BY <1>1 DEF Shifts, Held, Idle, NoAppendInFlight
<1>4. TheRoll' /\ CopiedIsThere' /\ TornIsStaged'
  BY <1>1 DEF TheRoll, CopiedIsThere, TornIsStaged, NoAppendInFlight
<1>5. Sections' /\ Indexed'
  BY <1>1 DEF Sections, Held, Indexed, Listed
<1>6. Orders'
  BY <1>1 DEF Orders, QueuedRows
<1>. QED BY <1>2, <1>3, <1>4, <1>5, <1>6-----------------------------------------------------------------------------
(* Opening, closing and crashes.                                           *)

LEMMA ForgottenFacts ==
  ASSUME Forgotten
  PROVE  /\ queue' = <<>> /\ queue' \in Seq(Item) /\ last' \in [Objects -> Rows \union {None}]
         /\ writer' = NoItem /\ writer' \in Writing /\ rolls' = <<>> /\ rolls' \in Seq(Roll)
         /\ copied' = FALSE /\ rollFailed' = None /\ jobs' = [j \in Jobs |-> NoJob]
         /\ jobs' \in [Jobs -> Job] /\ hold' = Free /\ index' \in [Partitions -> Entry]
         /\ IsFiniteSet(QueuedRows') /\ Cardinality(QueuedRows') <= MaxQueued
<1>1. QueuedRows' = {}
  BY DEF Forgotten, QueuedRows
<1>. QED BY <1>1, EmptySeq, FS_EmptySet, HistoryAssumption
         DEF Forgotten, NoItem, Writing, NoJob, Job, Entry

LEMMA DownKeeps ==
  ASSUME IInv, Forgotten, phase' = "down", flush' = NoFlush,
         files' \in [Partitions -> File],
         \A p \in Partitions : files'[p].torn => files'[p].staged # {}
  PROVE  IInv'
<1> USE FreeFacts, ForgottenFacts DEF IInv
<1>1. TypeOK'
  BY DEF TypeOK, NoFlush, Flushing, QueuedRows
<1>2. Shifts'
  BY DEF Shifts, Held, Idle, NoAppendInFlight, NoJob
<1>3. TheRoll' /\ CopiedIsThere' /\ TornIsStaged' /\ Indexed'
  BY DEF TheRoll, CopiedIsThere, TornIsStaged, Indexed
<1>4. Sections'
  BY DEF Sections, Held, Listed
<1>5. Orders'
  BY DEF Orders, NoJob, QueuedRows
<1>. QED BY <1>1, <1>2, <1>3, <1>4, <1>5

\* Steps of the life of the store with no section open, and no roll but those of the flush.
LEMMA LifeKeeps ==
  ASSUME IInv, hold = Free, ~Held, flush.of = None,
         UNCHANGED <<files, queue, last, writer, copied, rollFailed, jobs, hold>>,
         phase' \in {"opening", "open", "closing", "flushing"},
         flush' \in Flushing, index' \in [Partitions -> Entry],
         rolls' = IF flush'.of = None THEN rolls ELSE <<[of |-> flush'.of, by |-> "flush"]>>,
         flush'.of # None => writer.stage # "rolling",
         phase' # "open" => \A j \in Jobs : ~jobs[j].active,
         phase' \in {"opening", "flushing"} => Idle,
         phase' \notin {"opening", "flushing"} => flush' = NoFlush,
         \A p \in Partitions : index'[p] # "none" <=> Stored(files[p]) # {}
  PROVE  IInv'
<1> USE FreeFacts DEF IInv
<1>1. rolls' \in Seq(Roll)
  <2>1. CASE flush'.of = None
    BY <2>1 DEF TypeOK
  <2>2. CASE flush'.of # None
    <3>1. [of |-> flush'.of, by |-> "flush"] \in Roll
      BY <2>2 DEF Flushing, Roll
    <3>2. <<[of |-> flush'.of, by |-> "flush"]>> \in Seq(Roll)
      BY <3>1
    <3>. QED BY <2>2, <3>2
  <2>. QED BY <2>1, <2>2
<1>2. TypeOK'
  BY <1>1 DEF TypeOK, QueuedRows
<1>3. Shifts'
  BY DEF Shifts, Held, Idle, NoAppendInFlight
<1>4. rolls = IF writer.stage = "rolling" THEN <<[of |-> writer.of, by |-> "writer"]>> ELSE <<>>
  BY DEF TheRoll
<1>5. TheRoll'
  BY <1>4 DEF TheRoll
<1>6. CopiedIsThere' /\ TornIsStaged'
  BY <1>4 DEF CopiedIsThere, TornIsStaged
<1>7. Sections' /\ Orders'
  BY DEF Sections, Held, Listed, Orders, QueuedRows
<1>8. Indexed'
  BY DEF Indexed, Listed
<1>. QED BY <1>2, <1>3, <1>5, <1>6, <1>7, <1>8
\* With the index right and no job under way, the store passes from one phase to the next.
LEMMA OpenKeeps ==
  ASSUME IInv, NEW saved \in [Partitions -> Entry], Open(saved)
  PROVE  IInv'
<1> USE FreeFacts DEF IInv
<1>1. /\ phase = "down" /\ phase' = "opening" /\ index' = Reconciled(saved)
      /\ flush' = [todo |-> {p \in Partitions : files[p].staged # {}}, of |-> None]
      /\ UNCHANGED <<files, queue, last, writer, rolls, copied, rollFailed, jobs, hold>>
  BY DEF Open, line, chain, upkeep
<1>2. index' \in [Partitions -> Entry] /\ \A p \in Partitions : index'[p] # "none" <=> Stored(files[p]) # {}
  BY <1>1 DEF Reconciled, Entry
<1>3. flush' \in Flushing /\ flush'.of = None
  BY <1>1 DEF Flushing
<1>4. hold = Free /\ ~Held /\ flush.of = None /\ Idle /\ \A j \in Jobs : ~jobs[j].active
  BY <1>1 DEF Shifts
<1>. QED BY <1>1, <1>2, <1>3, <1>4, LifeKeeps

\* Outside the store's being open nothing is held, and the index is right.
LEMMA NotOpenFacts ==
  ASSUME IInv, phase # "down", \A j \in Jobs : ~jobs[j].active
  PROVE  /\ hold = Free /\ ~Held
         /\ index \in [Partitions -> Entry] /\ flush \in Flushing
         /\ \A p \in Partitions : index[p] # "none" <=> Stored(files[p]) # {}
<1> USE FreeFacts DEF IInv
<1>1. hold = Free /\ ~Held
  BY DEF Shifts, Held, TypeOK, Section
<1>. QED BY <1>1 DEF Indexed, Listed, TypeOK

LEMMA FlushRollsKeeps ==
  ASSUME IInv, NEW p \in Partitions, FlushRolls(p)
  PROVE  IInv'
<1> USE FreeFacts DEF IInv
<1>1. /\ phase \in {"opening", "flushing"} /\ flush.of = None
      /\ flush' = [todo |-> flush.todo \ {p}, of |-> p]
      /\ rolls' = Append(rolls, [of |-> p, by |-> "flush"])
      /\ UNCHANGED <<files, phase, index, queue, last, writer, copied, rollFailed, jobs, hold>>
  BY DEF FlushRolls, line, upkeep
<1>2. Idle /\ \A j \in Jobs : ~jobs[j].active
  BY <1>1 DEF Shifts
<1>3. hold = Free /\ ~Held
  BY <1>1, <1>2, NotOpenFacts
<1>4. rolls = <<>> /\ writer.stage # "rolling"
  BY <1>1, <1>2, <1>3 DEF TheRoll, Idle
<1>5. flush' \in Flushing /\ flush'.of = p /\ p # None
  BY <1>1, HistoryAssumption DEF TypeOK, Flushing
<1>6. rolls' = <<[of |-> flush'.of, by |-> "flush"]>>
  BY <1>1, <1>4, <1>5
<1>. QED BY <1>1, <1>2, <1>3, <1>4, <1>5, <1>6, NotOpenFacts, LifeKeeps

LEMMA OpenedKeeps ==
  ASSUME IInv, Opened
  PROVE  IInv'
<1> USE FreeFacts DEF IInv
<1>1. /\ phase = "opening" /\ phase' = "open" /\ flush = NoFlush
      /\ UNCHANGED <<files, index, queue, last, writer, rolls, copied, rollFailed, jobs, hold, flush>>
  BY DEF Opened, FlushEnds, line, chain, upkeep
<1>2. \A j \in Jobs : ~jobs[j].active
  BY <1>1 DEF Shifts
<1>. QED BY <1>1, <1>2, NotOpenFacts, LifeKeeps

LEMMA CloseKeeps ==
  ASSUME IInv, NoCloseInSweep, Close
  PROVE  IInv'
<1> USE FreeFacts DEF IInv
<1>1. /\ phase = "open" /\ phase' = "closing" /\ \A j \in Jobs : ~jobs[j].active
      /\ UNCHANGED <<files, index, queue, last, writer, rolls, copied, rollFailed, jobs, hold, flush>>
  BY DEF Close, NoCloseInSweep, line, chain, upkeep
<1>2. flush = NoFlush
  BY <1>1 DEF Shifts
<1>. QED BY <1>1, <1>2, NotOpenFacts, LifeKeeps

LEMMA DrainedKeeps ==
  ASSUME IInv, NEW todo \in SUBSET Partitions, Drained(todo)
  PROVE  IInv'
<1> USE FreeFacts DEF IInv
<1>1. /\ phase = "closing" /\ phase' = "flushing" /\ Idle
      /\ flush' = [todo |-> todo, of |-> None]
      /\ UNCHANGED <<files, index, queue, last, writer, rolls, copied, rollFailed, jobs, hold>>
  BY DEF Drained, Idle, line, chain, upkeep
<1>2. flush' \in Flushing /\ flush'.of = None
  BY <1>1 DEF Flushing, Listed
<1>3. flush.of = None /\ \A j \in Jobs : ~jobs[j].active
  BY <1>1 DEF Shifts
<1>. QED BY <1>1, <1>2, <1>3, NotOpenFacts, LifeKeeps

LEMMA ClosedKeeps ==
  ASSUME IInv, Closed
  PROVE  IInv'
  BY DownKeeps DEF Closed, IInv, TypeOK, TornIsStaged

\* What an interrupted call leaves takes nothing away.
LEMMA InterruptedFacts ==
  ASSUME IInv, Interrupted
  PROVE  /\ files' \in [Partitions -> File]
         /\ \A p \in Partitions : Stored(files[p]) \subseteq Stored(files'[p])
         /\ \A p \in Partitions : files'[p].torn => files'[p].staged # {}
<1> USE DEF IInv
<1>1. CASE UNCHANGED files
  BY <1>1 DEF TypeOK, TornIsStaged
<1>2. ASSUME NEW p \in Partitions, NEW f \in File, Put(f, p),
             Stored(files[p]) \subseteq Stored(f), f.torn => f.staged # {}
      PROVE  /\ files' \in [Partitions -> File]
             /\ \A q \in Partitions : Stored(files[q]) \subseteq Stored(files'[q])
             /\ \A q \in Partitions : files'[q].torn => files'[q].staged # {}
  BY <1>2, PutFacts DEF TornIsStaged
<1>3. CASE /\ rolls # <<>> /\ ~copied /\ files[Head(rolls).of].staged # {}
           /\ Put([files[Head(rolls).of] EXCEPT !.torn = TRUE], Head(rolls).of)
  <2> DEFINE p == rolls[1].of
             f == [files[p] EXCEPT !.torn = TRUE]
  <2>1. p \in Partitions /\ Put(f, p) /\ files[p].staged # {}
    BY <1>3, RollFacts DEF Roll
  <2>2. f \in File /\ f.cur = files[p].cur /\ f.staged = files[p].staged
    BY <2>1, TornFacts
  <2> HIDE DEF f
  <2>. QED BY <1>2, <2>1, <2>2 DEF Stored
<1>4. CASE /\ writer.stage = "appending"
           /\ \E part \in SUBSET writer.rows :
                Put([files[writer.of] EXCEPT !.staged = @ \union part], writer.of)
  <2> DEFINE p == writer.of
  <2>1. PICK part \in SUBSET writer.rows : Put([files[p] EXCEPT !.staged = @ \union part], p)
    BY <1>4
  <2> DEFINE f == [files[p] EXCEPT !.staged = @ \union part]
  <2>2. p \in Partitions /\ part \subseteq Rows /\ Put(f, p)
    BY <1>4, <2>1 DEF Orders, TypeOK, Writing
  <2>3. /\ f \in File /\ f.cur = files[p].cur /\ f.staged = files[p].staged \union part
        /\ f.torn = files[p].torn
    BY <2>2 DEF TypeOK, File
  <2> HIDE DEF f
  <2>. QED BY <1>2, <2>2, <2>3 DEF Stored, TornIsStaged
<1>. QED BY <1>1, <1>3, <1>4 DEF Interrupted

LEMMA CrashKeeps ==
  ASSUME IInv, Crash
  PROVE  IInv'
  BY DownKeeps, InterruptedFacts DEF Crash
-----------------------------------------------------------------------------
LEMMA NextKeeps ==
  ASSUME NoCloseInSweep, IInv, [Next]_vars
  PROVE  IInv'
<1>1. CASE UNCHANGED vars
  BY <1>1 DEF vars, IInv, TypeOK, Shifts, TheRoll, CopiedIsThere, Sections, Orders, Indexed, Held,
     Idle, NoAppendInFlight, Listed, QueuedRows, TornIsStaged
<1>2. CASE DrainTakes \/ Writes
  BY <1>2, DrainTakesKeeps, AppendedKeeps, AppendFailsKeeps DEF Writes
<1>3. CASE Rolls
  BY <1>3, RollCopiesKeeps, RollEndsKeeps, RollFailsKeeps DEF Rolls
<1>4. CASE Holds
  BY <1>4, HoldBeginsKeeps, RewriteSkippedKeeps, RewriteStagesKeeps, RewriteDropsKeeps,
     DeleteDropsKeeps, DeleteEndsKeeps, StepFailsKeeps, ReleaseKeeps DEF Holds
<1>5. CASE Sweeps
  BY <1>5, JobEndsKeeps, WithExclusiveKeeps, CapToSizeKeeps DEF Sweeps
<1>6. CASE Flushes
  BY <1>6, DrainedKeeps, OpenedKeeps, ClosedKeeps, FlushRollsKeeps DEF Flushes
<1>7. CASE Outside
  BY <1>7, WriteBatchKeeps, SweepRetentionKeeps, EnforceSizeCapKeeps, OpenKeeps, CloseKeeps,
     CrashKeeps DEF Outside
<1>. QED BY <1>1, <1>2, <1>3, <1>4, <1>5, <1>6, <1>7 DEF Next

\* The invariant holds in every run in which the store is not closed during a sweep.
THEOREM IInvHolds ==
  ASSUME NoCloseInSweep
  PROVE  Spec => []IInv
<1>1. IInv /\ [Next]_vars => IInv'
  BY NextKeeps
<1>. QED BY <1>1, InitIInv, PTL DEF Spec

\* Every variable keeps its type.
THEOREM TypeOKHolds ==
  ASSUME NoCloseInSweep
  PROVE  Spec => []TypeOK
<1>1. IInv => TypeOK
  BY DEF IInv
<1>. QED BY <1>1, IInvHolds, PTL

\* Nothing lands in a partition between the read and the rewrite of withExclusive.
THEOREM NothingLandsBetweenHolds ==
  ASSUME NoCloseInSweep
  PROVE  Spec => []NothingLandsBetween
<1>1. IInv => NothingLandsBetween
  BY DEF IInv, Shifts, Sections, NothingLandsBetween
<1>. QED BY <1>1, IInvHolds, PTL

\* While the store is open, the index lists the partitions that have rows.
THEOREM IndexListsWhatIsThereHolds ==
  ASSUME NoCloseInSweep
  PROVE  Spec => []IndexListsWhatIsThere
<1>1. IInv => IndexListsWhatIsThere
  BY DEF IInv, Indexed, IndexListsWhatIsThere
<1>. QED BY <1>1, IInvHolds, PTL
-----------------------------------------------------------------------------
(* What no step takes away.                                                *)

\* What a step may take from the rows a partition can be read to have.
Stays ==
  \A p \in Partitions : LET gone == Stored(files[p]) \ Stored(files'[p]) IN
    gone # {} =>
      /\ hold.by # "nobody" /\ hold.of = p
      /\ \/ hold.op = "delete" /\ p \notin Kept
         \/ /\ hold.stage \in {"ready", "staged"} /\ p \in Tiered
            /\ \A r \in gone : \E s \in Stored(files'[p]) : ObjectOf[s] = ObjectOf[r]

LEMMA SameFilesStay == UNCHANGED files => Stays
  BY DEF Stays

LEMMA SectionStays ==
  ASSUME IInv, RewriteStages \/ RewriteDrops \/ DeleteDrops \/ DeleteEnds
  PROVE  Stays
<1> USE DEF IInv
<1> DEFINE p == hold.of
<1>1. hold.stage \in {"ready", "staged", "dropped"}
  BY DEF RewriteStages, RewriteDrops, DeleteDrops, DeleteEnds
<1>2. Held /\ p \in Partitions
  BY <1>1, Alone
<1>3. \E f \in File : Put(f, p)
  <2>1. hold.kept \in SUBSET Rows
    BY DEF TypeOK, Section
  <2>2. NoFile \in File
    BY DEF NoFile, File
  <2>. QED BY <1>2, <2>1, <2>2, FileFacts, TornFacts
         DEF RewriteStages, RewriteDrops, DeleteDrops, DeleteEnds
<1>4. \A q \in Partitions \ {p} : files'[q] = files[q]
  BY <1>2, <1>3, PutFacts
<1> DEFINE gone == Stored(files[p]) \ Stored(files'[p])
<1>5. SUFFICES gone # {} =>
        \/ hold.op = "delete" /\ p \notin Kept
        \/ /\ hold.stage \in {"ready", "staged"} /\ p \in Tiered
           /\ \A r \in gone : \E s \in Stored(files'[p]) : ObjectOf[s] = ObjectOf[r]
  BY <1>2, <1>4 DEF Stays, Held
<1>6. CASE DeleteDrops \/ DeleteEnds
  <2>1. hold.op = "delete"
    BY <1>6 DEF DeleteDrops, DeleteEnds, Sections
  <2>. QED BY <1>2, <2>1 DEF Sections
<1>7. CASE RewriteStages
  <2>1. hold.stage = "ready" /\ hold.op = "rewrite" /\ hold.kept \in SUBSET Rows
    BY <1>7 DEF RewriteStages, TypeOK, Section
  <2>2. files'[p].staged = hold.kept /\ files'[p].cur = files[p].cur
    <3> DEFINE f == [files[p] EXCEPT !.staged = hold.kept]
    <3>1. f \in File /\ f.staged = hold.kept /\ f.cur = files[p].cur
      BY <1>2, <2>1, FileFacts
    <3>2. Put(f, p)
      BY <1>7 DEF RewriteStages
    <3> HIDE DEF f
    <3>. QED BY <1>2, <3>1, <3>2, PutFacts
  <2>3. StandFor(hold.kept, Stored(files[p]), p)
    BY <2>1 DEF Sections
  <2>. QED BY <2>1, <2>2, <2>3 DEF StandFor, Stored
<1>8. CASE RewriteDrops
  <2>1. hold.stage = "staged"
    BY <1>8 DEF RewriteDrops
  <2>2. files'[p].staged = files[p].staged /\ files'[p].cur = {}
    <3> DEFINE f == [files[p] EXCEPT !.cur = {}, !.torn = FALSE]
    <3>1. f \in File /\ f.staged = files[p].staged /\ f.cur = {}
      BY ZenonT(30), <1>2, TornFacts
    <3>2. Put(f, p)
      BY <1>8 DEF RewriteDrops
    <3> HIDE DEF f
    <3>. QED BY <1>2, <3>1, <3>2, PutFacts
  <2>3. StandFor(files[p].staged, files[p].cur, p)
    BY <2>1 DEF Sections
  <2>. QED BY <2>1, <2>2, <2>3 DEF StandFor, Stored
<1>. QED BY <1>6, <1>7, <1>8

LEMMA GrowthStays ==
  ASSUME IInv, Appended \/ RollCopies
  PROVE  Stays
<1> USE DEF IInv
<1>1. CASE Appended
  <2> DEFINE p == writer.of
             f == [files[p] EXCEPT !.staged = @ \union writer.rows]
  <2>1. p \in Partitions /\ writer.rows \subseteq Rows /\ Put(f, p)
    BY <1>1 DEF Appended, Orders, TypeOK, Writing
  <2>2. f \in File /\ Stored(files[p]) \subseteq Stored(f)
    BY <2>1 DEF TypeOK, File, Stored
  <2> HIDE DEF f
  <2>3. files'[p] = f /\ \A q \in Partitions \ {p} : files'[q] = files[q]
    BY <2>1, <2>2, PutFacts
  <2>4. \A q \in Partitions : Stored(files[q]) \ Stored(files'[q]) = {}
    BY <2>2, <2>3
  <2>. QED BY <2>4 DEF Stays
<1>2. CASE RollCopies
  <2> DEFINE p == rolls[1].of
             f == Folded(files[p])
  <2>1. Put(f, p) /\ p \in Partitions
    BY <1>2, RollFacts DEF RollCopies, Roll
  <2>2. f \in File /\ Stored(files[p]) \subseteq Stored(f)
    BY <2>1 DEF TypeOK, File, Folded, Stored
  <2> HIDE DEF f
  <2>3. files'[p] = f /\ \A q \in Partitions \ {p} : files'[q] = files[q]
    BY <2>1, <2>2, PutFacts
  <2>4. \A q \in Partitions : Stored(files[q]) \ Stored(files'[q]) = {}
    BY <2>2, <2>3
  <2>. QED BY <2>4 DEF Stays
<1>. QED BY <1>1, <1>2

LEMMA StepStays ==
  ASSUME NoCloseInSweep, IInv, [Next]_vars
  PROVE  Stays
<1>1. CASE Appended \/ RollCopies
  BY <1>1, GrowthStays
<1>2. CASE RollEnds \/ RollFails
  BY <1>2, RollEndsKeeps, RollFailsKeeps DEF Stays
<1>3. CASE RewriteStages \/ RewriteDrops \/ DeleteDrops \/ DeleteEnds
  BY <1>3, SectionStays
<1>4. CASE UNCHANGED files
  BY <1>4, SameFilesStay
<1>5. CASE Crash
  BY <1>5, InterruptedFacts DEF Crash, Stays
<1>6. CASE StepFails
  <2>1. Held /\ hold.of \in Partitions
    BY <1>6, Alone DEF StepFails
  <2>2. hold.op = "delete" =>
          hold.of \notin Kept \/ Stored(files[hold.of]) = {}
    BY <1>6, <2>1 DEF StepFails, IInv, Sections
  <2>3. CASE hold.op = "delete"
    <3>1. \A p \in Partitions : Stored(files[p]) \ Stored(files'[p]) # {} => p = hold.of /\ p \notin Kept
      BY <1>6, <2>2, <2>3, StepFailsKeeps
    <3>. QED BY <2>1, <2>3, <3>1 DEF Stays, Held
  <2>4. CASE hold.op # "delete"
    BY <1>6, <2>4, StepFailsKeeps DEF Stays
  <2>. QED BY <2>3, <2>4
<1>7. \/ Appended \/ RollCopies \/ RollEnds \/ RollFails \/ UNCHANGED files \/ Crash
      \/ RewriteStages \/ RewriteDrops \/ DeleteDrops \/ DeleteEnds \/ StepFails
  BY DEF Next, vars, DrainTakes, Writes, AppendFails, Rolls, Holds, HoldBegins, RewriteSkipped,
     Release, Sweeps, BecomeJob, JobEnds, WithExclusive, CapToSize, Flushes, Drained, Opened, Closed,
     FlushRolls, Outside, WriteBatch, SweepRetention, EnforceSizeCap, Open, Close
<1>. QED BY <1>1, <1>2, <1>3, <1>4, <1>5, <1>6, <1>7

\* What is stored goes with its whole partition or by a thinning, and by nothing else.
THEOREM StoredRowsStayHolds ==
  ASSUME NoCloseInSweep
  PROVE  Spec => StoredRowsStay
<1>1. IInv /\ [Next]_vars => [Stays]_vars
  BY StepStays
<1>2. [][Stays]_vars <=> StoredRowsStay
  BY DEF Stays, StoredRowsStay
<1>. QED BY <1>1, <1>2, IInvHolds, PTL DEF Spec
=============================================================================

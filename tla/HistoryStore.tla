---------------------------- MODULE HistoryStore ----------------------------
(***************************************************************************)
(* The history store (packages/history-store/src): observations queued,    *)
(* appended to their partition's staging file, folded into its Parquet     *)
(* file, and thinned or deleted by the retention sweep and the size cap,   *)
(* with the crash and the restart in between (store.ts over                *)
(* duckdb-backend.ts, the desktop's backend, and partition.ts).            *)
(*                                                                         *)
(* A step is what runs between two awaits.  What is on disk:               *)
(*   files     each partition's newest whole Parquet generation, its       *)
(*             staging file, and whether a generation that is not whole    *)
(*             (torn) lies above the whole one, under a newer name         *)
(* and in the process:                                                     *)
(*   index     the partition index        queue   batches not yet handed   *)
(*   last      the observation each object was last built from             *)
(*   writer    the drain loop and the append it awaits                     *)
(*   rolls     the chain of rolls; the first one runs, and has copied      *)
(*   rollFailed   the partition whose roll rejected the chain's tail       *)
(*   jobs      the sweep and the cap, and what each still has to do        *)
(*   hold      the withExclusive section: who is in it, for which          *)
(*             partition, and how far it has got                           *)
(*   flush     the partitions that open and close roll                     *)
(*                                                                         *)
(* Left out: sizes (a cap may find any partitions too many, and a rewrite  *)
(* any of them too large), durations (a sweep may find any partition old,  *)
(* and an append rolls or does not), row counts and repeats (a file is the *)
(* set of its rows), data policies, and queries.  Types have one           *)
(* downsampling tier or none.                                              *)
(***************************************************************************)
EXTENDS Naturals, Sequences, FiniteSets

CONSTANTS
  Rows,         \* observations, as rows
  Objects, ObjectOf,
  Partitions, PartitionOf,
  Tiered,       \* partitions of types with downsampling tiers; the others are deduped
  Kept,         \* partitions kept indefinitely
  None,         \* no row, no partition
  Inputs,       \* what an instance explores of AllInputs
  MaxQueued     \* maxQueuedRows

AllInputs ==
  {"startsOver", "appendFails", "copyFails", "stepFails", "cap", "crash", "close", "closeInSweep"}

ASSUME HistoryAssumption ==
  /\ ObjectOf \in [Rows -> Objects]
  /\ PartitionOf \in [Rows -> Partitions]
  /\ None \notin Partitions /\ None \notin Rows
  /\ MaxQueued \in Nat

VARIABLES files, phase, index, queue, last, writer, rolls, copied, rollFailed,
          jobs, hold, flush

line == <<queue, last, writer>>
chain == <<rolls, copied, rollFailed>>
upkeep == <<jobs, hold>>
vars == <<files, phase, index, queue, last, writer, rolls, copied, rollFailed,
          jobs, hold, flush>>

File == [cur : SUBSET Rows, staged : SUBSET Rows, torn : BOOLEAN]
NoFile == [cur |-> {}, staged |-> {}, torn |-> FALSE]

\* "done": thinned (downsampleTier, rawStripped) or deduped (dedupedAt).
Entry == {"none", "plain", "done"}

\* What is on disk of a partition.  A query finds it there, or an error if there is a torn
\* generation above it.
Stored(f) == f.cur \union f.staged

NoItem == [stage |-> "idle", of |-> None, rows |-> {}]
Free == [by |-> "nobody", of |-> None, op |-> "delete", stage |-> "entered",
         saw |-> {}, kept |-> {}, ahead |-> 0]
NoJob == [active |-> FALSE, capping |-> FALSE, todo |-> [p \in Partitions |-> "no"]]
NoFlush == [todo |-> {}, of |-> None]
Jobs == {"sweep", "cap"}

\* Everything the process holds in memory, as it is before open().
Forgotten ==
  /\ queue' = <<>> /\ last' = [o \in Objects |-> None] /\ writer' = NoItem
  /\ rolls' = <<>> /\ copied' = FALSE /\ rollFailed' = None
  /\ index' = [p \in Partitions |-> "none"]
  /\ jobs' = [j \in Jobs |-> NoJob] /\ hold' = Free

Init ==
  /\ files = [p \in Partitions |-> NoFile]
  /\ phase = "down"
  /\ index = [p \in Partitions |-> "none"]
  /\ queue = <<>> /\ last = [o \in Objects |-> None] /\ writer = NoItem
  /\ rolls = <<>> /\ copied = FALSE /\ rollFailed = None
  /\ jobs = [j \in Jobs |-> NoJob] /\ hold = Free
  /\ flush = NoFlush

-----------------------------------------------------------------------------
(* Writing: writeBatch, kick and drain.                                    *)

Put(f, p) == files' = [files EXCEPT ![p] = f]
List(p, entry) == index' = [index EXCEPT ![p] = entry]

QueuedRows == UNION {queue[n].rows : n \in DOMAIN queue}

Enqueued(r) ==
  LET p == PartitionOf[r]
      at == {n \in DOMAIN queue : queue[n].of = p}
  IN  IF at = {} THEN Append(queue, [of |-> p, rows |-> {r}])
      ELSE [queue EXCEPT ![CHOOSE n \in at : TRUE].rows = @ \union {r}]

Kicked == IF writer.stage = "idle" THEN [writer EXCEPT !.stage = "waiting"] ELSE writer

\* Faulty variant: the limit is looked at when the row is in.
RoomForOneMore == Cardinality(QueuedRows) <= MaxQueued

HasRoom == Cardinality(QueuedRows) < MaxQueued

\* An observation other than its object's last one; remembered whether or not there is room
\* for it.  The memory starts over when it is full.
WriteBatch(r, startsOver) ==
  LET known == IF startsOver THEN [o \in Objects |-> None] ELSE last IN
  /\ phase = "open" /\ (startsOver => "startsOver" \in Inputs)
  /\ last[ObjectOf[r]] # r
  /\ last' = [known EXCEPT ![ObjectOf[r]] = r]
  /\ IF HasRoom
     THEN queue' = Enqueued(r) /\ writer' = Kicked
     ELSE UNCHANGED <<queue, writer>>
  /\ UNCHANGED <<files, phase, index, chain, upkeep, flush>>

\* Faulty variant: an append starts whoever is at the partitions.
DrainsAnyway == TRUE

MayDrain == hold.by = "nobody"

DrainTakes ==
  /\ writer.stage = "waiting" /\ queue # <<>> /\ MayDrain
  /\ writer' = [stage |-> "appending", of |-> Head(queue).of, rows |-> Head(queue).rows]
  /\ queue' = Tail(queue)
  /\ UNCHANGED <<files, phase, index, last, chain, upkeep, flush>>

\* The append is over, written or failed: the next one, if any.
NextItem == IF queue = <<>> THEN NoItem ELSE [NoItem EXCEPT !.stage = "waiting"]

\* New rows make a deduped partition a candidate again.
Appended ==
  LET p == writer.of
      f == [files[p] EXCEPT !.staged = @ \union writer.rows]
  IN
  /\ writer.stage = "appending"
  /\ Put(f, p)
  /\ List(p, IF index[p] = "done" /\ p \in Tiered THEN "done" ELSE "plain")
  /\ \/ writer' = NextItem /\ UNCHANGED rolls
     \/ /\ writer' = [writer EXCEPT !.stage = "rolling", !.rows = {}]
        /\ rolls' = Append(rolls, [of |-> p, by |-> "writer"])
  /\ UNCHANGED <<phase, queue, last, copied, rollFailed, upkeep, flush>>

AppendFails ==
  /\ "appendFails" \in Inputs
  /\ writer.stage = "appending"
  /\ writer' = NextItem
  /\ UNCHANGED <<files, phase, index, queue, last, chain, upkeep, flush>>

-----------------------------------------------------------------------------
(* roll: the chain's first roll copies the newest generation and the       *)
(* staging file into the next one, written under the name a reader takes   *)
(* for the newest, then removes the staging file and the older ones.       *)

\* Faulty variant: the rows already in Parquet are not read.
StagedOnly(f) == [f EXCEPT !.cur = f.staged]

Folded(f) == [f EXCEPT !.cur = @ \union f.staged]

RollCopies ==
  LET p == Head(rolls).of IN
  /\ rolls # <<>> /\ ~copied /\ files[p].staged # {} /\ ~files[p].torn
  /\ Put(Folded(files[p]), p)
  /\ copied' = TRUE
  /\ UNCHANGED <<phase, index, line, rolls, rollFailed, upkeep, flush>>

\* Whoever awaits the chain's tail goes on when the last roll it found there is over, or
\* throws with it.
Resumed(by, failed) ==
  IF by = "hold" THEN [hold EXCEPT !.stage = "over"]
  ELSE IF hold.stage = "waits"
  THEN [hold EXCEPT !.ahead = @ - 1,
                    !.stage = IF hold.ahead > 1 THEN @ ELSE IF failed THEN "over" ELSE "ready"]
  ELSE hold

LeavesChain(failed) ==
  LET by == Head(rolls).by IN
  /\ rolls' = Tail(rolls) /\ copied' = FALSE
  /\ rollFailed' = IF failed THEN Head(rolls).of ELSE None
  /\ writer' = IF by = "writer" THEN NextItem ELSE writer
  /\ flush' = IF by = "flush" THEN [flush EXCEPT !.of = None] ELSE flush
  /\ hold' = Resumed(by, failed)
  /\ UNCHANGED <<phase, queue, last, jobs>>

RollEnds ==
  /\ rolls # <<>>
  /\ LET p == Head(rolls).of IN
     /\ copied \/ files[p].staged = {}
     /\ Put([files[p] EXCEPT !.staged = {}], p)
  /\ UNCHANGED index
  /\ LeavesChain(FALSE)

\* The copy cannot be read, as always above a torn generation, or not be written, which may
\* leave it torn; or a file it stands for cannot be removed.
RollFails ==
  LET p == Head(rolls).of IN
  /\ rolls # <<>> /\ files[p].staged # {}
  /\ "copyFails" \in Inputs \/ files[p].torn
  /\ \/ ~copied /\ \E torn \in {files[p].torn, TRUE} : Put([files[p] EXCEPT !.torn = torn], p)
     \/ copied /\ \E staged \in {files[p].staged, {}} : Put([files[p] EXCEPT !.staged = staged], p)
  /\ UNCHANGED index
  /\ LeavesChain(TRUE)

-----------------------------------------------------------------------------
(* The retention sweep and the size cap.  Each lists the partitions once,  *)
(* decides, and enters withExclusive for one partition after another.      *)

Listed == {p \in Partitions : index[p] # "none"}

\* Past its retention, past a tier's boundary, or never deduped.
Decision(p, old, aged) ==
  IF p \notin Listed THEN "no"
  ELSE IF p \in old \ Kept THEN "delete"
  ELSE IF index[p] = "plain" /\ (p \in Tiered => p \in aged) THEN "rewrite"
  ELSE "no"

Deletions(x, victims) == [p \in Partitions |-> IF p \in victims THEN "delete" ELSE x.todo[p]]

BecomeJob(j, x) ==
  /\ jobs' = [jobs EXCEPT ![j] = x]
  /\ UNCHANGED <<files, phase, index, line, chain, hold, flush>>

SweepRetention(old, aged) ==
  /\ phase = "open" /\ ~jobs["sweep"].active
  /\ BecomeJob("sweep", [active |-> TRUE, capping |-> FALSE,
                         todo |-> [p \in Partitions |-> Decision(p, old, aged)]])

\* Over the cap: what is not kept indefinitely may go, unless a sweep will see to it itself.
\* A cap still under way goes on, with what this one adds.
EnforceSizeCap(victims) ==
  /\ "cap" \in Inputs
  /\ phase = "open" /\ ~jobs["sweep"].active
  /\ victims # {} /\ victims \subseteq Listed \ Kept
  /\ BecomeJob("cap", [active |-> TRUE, capping |-> TRUE, todo |-> Deletions(jobs["cap"], victims)])

Over(x) == \A p \in Partitions : x.todo[p] = "no"

\* The sweep ends with the cap.
CapToSize(victims) ==
  LET x == jobs["sweep"] IN
  /\ x.active /\ ~x.capping /\ Over(x) /\ hold.by # "sweep"
  /\ victims \subseteq (IF "cap" \in Inputs THEN Listed \ Kept ELSE {})
  /\ BecomeJob("sweep", [x EXCEPT !.capping = TRUE, !.todo = Deletions(x, victims)])

JobEnds(j) ==
  /\ jobs[j].active /\ jobs[j].capping /\ Over(jobs[j]) /\ hold.by # j
  /\ BecomeJob(j, NoJob)

\* withExclusive: one section at a time.
WithExclusive(j, p) ==
  /\ hold.by = "nobody"
  /\ jobs[j].active /\ jobs[j].todo[p] # "no"
  /\ hold' = [Free EXCEPT !.by = j, !.of = p, !.op = jobs[j].todo[p]]
  /\ jobs' = [jobs EXCEPT ![j].todo[p] = "no"]
  /\ UNCHANGED <<files, phase, index, line, chain, flush>>

BecomeHold(x) ==
  /\ hold' = x
  /\ UNCHANGED <<phase, line, jobs, flush>>

\* await this.rolling: the tail of the chain as it is now.
AwaitsRolls(x) ==
  IF rolls # <<>> THEN [x EXCEPT !.stage = "waits", !.ahead = Len(rolls)]
  ELSE IF rollFailed # None THEN [x EXCEPT !.stage = "over"]
  ELSE [x EXCEPT !.stage = "ready"]

NoAppendInFlight == writer.stage \notin {"appending", "rolling"}

\* deletePartition up to the chain; rewritePartition reads the rows first, and thinning keeps
\* at least the first and the last row of an object.  Without rows it is a deletion.
HoldBegins(kept) ==
  LET f == files[hold.of]
      rewrite == [hold EXCEPT !.saw = Stored(f), !.kept = kept]
  IN
  /\ hold.stage = "entered" /\ hold.by # "nobody" /\ NoAppendInFlight
  /\ hold.op = "delete" \/ ~f.torn
  /\ BecomeHold(
       IF hold.op = "delete" THEN AwaitsRolls(hold)
       ELSE IF Stored(f) = {} THEN AwaitsRolls([hold EXCEPT !.op = "delete"])
       ELSE AwaitsRolls(rewrite))
  /\ IF hold.op = "delete" \/ hold.of \notin Tiered
     THEN kept = Stored(f)
     ELSE /\ kept \subseteq Stored(f)
          /\ \A r \in Stored(f) : \E s \in kept : ObjectOf[s] = ObjectOf[r]
  /\ UNCHANGED <<files, index, chain>>

\* Too large to be rewritten in memory; or its rows cannot be read.
RewriteSkipped ==
  /\ hold.stage = "entered" /\ hold.op = "rewrite" /\ NoAppendInFlight
  /\ BecomeHold([hold EXCEPT !.stage = "over"])
  /\ UNCHANGED <<files, index, chain>>

\* rewritePartition: staging becomes the single source of truth, every generation is dropped,
\* and the partition rolled again.
RewriteStages ==
  /\ hold.stage = "ready" /\ hold.op = "rewrite"
  /\ Put([files[hold.of] EXCEPT !.staged = hold.kept], hold.of)
  /\ BecomeHold([hold EXCEPT !.stage = "staged", !.saw = {}])
  /\ UNCHANGED <<index, chain>>

RewriteDrops ==
  /\ hold.stage = "staged"
  /\ Put([files[hold.of] EXCEPT !.cur = {}, !.torn = FALSE], hold.of)
  /\ List(hold.of, "done")
  /\ rolls' = Append(rolls, [of |-> hold.of, by |-> "hold"])
  /\ BecomeHold([hold EXCEPT !.stage = "rolling", !.kept = {}])
  /\ UNCHANGED <<copied, rollFailed>>

DeleteDrops ==
  /\ hold.stage = "ready" /\ hold.op = "delete"
  /\ Put([files[hold.of] EXCEPT !.cur = {}, !.torn = FALSE], hold.of)
  /\ BecomeHold([hold EXCEPT !.stage = "dropped"])
  /\ UNCHANGED <<index, chain>>

DeleteEnds ==
  /\ hold.stage = "dropped"
  /\ Put(NoFile, hold.of)
  /\ List(hold.of, "none")
  /\ BecomeHold([hold EXCEPT !.stage = "over"])
  /\ UNCHANGED <<chain>>

\* A file cannot be replaced or removed; the older generations go first, the torn one last.
StepFails ==
  LET f == files[hold.of] IN
  /\ "stepFails" \in Inputs
  /\ hold.stage \in {"ready", "staged"} \/ (hold.stage = "dropped" /\ f.staged # {})
  /\ \/ UNCHANGED files
     \/ f.torn /\ hold.op = "delete" /\ Put([f EXCEPT !.cur = {}], hold.of)
  /\ BecomeHold([hold EXCEPT !.stage = "over"])
  /\ UNCHANGED <<index, chain>>

\* Faulty variant: the section is left by its success only.
StaysHeld == IF rollFailed = None THEN Free ELSE hold

\* The section is over, done or thrown out of: its error is the report's.
Released == Free

Release ==
  /\ hold.stage = "over"
  /\ BecomeHold(Released)
  /\ UNCHANGED <<files, index, chain>>

-----------------------------------------------------------------------------
(* Opening, closing, the index file and crashes.                           *)

\* Faulty variant: index.json is taken at its word.
AsSaved(saved) == saved

\* reconcile: partitions with files are listed, those without are not.
Reconciled(saved) ==
  [p \in Partitions |->
    IF Stored(files[p]) = {} THEN "none" ELSE IF saved[p] = "none" THEN "plain" ELSE saved[p]]

\* open(): index.json is written some time after each change, and may be lost: it says anything.
\* A partition whose size it does not have is read, and open throws if it cannot be.
Open(saved) ==
  /\ phase = "down"
  /\ \A p \in Partitions : files[p].torn => saved[p] # "none"
  /\ phase' = "opening"
  /\ index' = Reconciled(saved)
  /\ flush' = [todo |-> {p \in Partitions : files[p].staged # {}}, of |-> None]
  /\ UNCHANGED <<files, line, chain, upkeep>>

\* rollAll: one partition after another; a failure is logged.
FlushRolls(p) ==
  /\ phase \in {"opening", "flushing"}
  /\ flush.of = None /\ p \in flush.todo
  /\ flush' = [todo |-> flush.todo \ {p}, of |-> p]
  /\ rolls' = Append(rolls, [of |-> p, by |-> "flush"])
  /\ UNCHANGED <<files, phase, index, line, copied, rollFailed, upkeep>>

FlushEnds == flush = NoFlush

Opened ==
  /\ phase = "opening" /\ FlushEnds
  /\ phase' = "open"
  /\ UNCHANGED <<files, index, line, chain, upkeep, flush>>

\* close: the sources have been stopped, a sweep may still be under way.
Close ==
  /\ phase = "open"
  /\ \/ "closeInSweep" \in Inputs
     \/ "close" \in Inputs /\ \A j \in Jobs : ~jobs[j].active
  /\ phase' = "closing"
  /\ UNCHANGED <<files, index, line, chain, upkeep, flush>>

\* The partitions this process has appended to since their last roll.
Drained(todo) ==
  /\ phase = "closing" /\ writer = NoItem
  /\ todo \subseteq {p \in Listed : files[p].staged # {}}
  /\ phase' = "flushing"
  /\ flush' = [todo |-> todo, of |-> None]
  /\ UNCHANGED <<files, index, line, chain, upkeep>>

Closed ==
  /\ phase = "flushing" /\ FlushEnds /\ rolls = <<>>
  /\ phase' = "down"
  /\ flush' = NoFlush
  /\ Forgotten
  /\ UNCHANGED files

\* A copy under way may leave a torn generation, an append some of its rows.
Interrupted ==
  \/ UNCHANGED files
  \/ /\ rolls # <<>> /\ ~copied /\ files[Head(rolls).of].staged # {}
     /\ Put([files[Head(rolls).of] EXCEPT !.torn = TRUE], Head(rolls).of)
  \/ /\ writer.stage = "appending"
     /\ \E part \in SUBSET writer.rows :
          Put([files[writer.of] EXCEPT !.staged = @ \union part], writer.of)

Crash ==
  /\ "crash" \in Inputs /\ phase # "down"
  /\ phase' = "down" /\ flush' = NoFlush
  /\ Interrupted
  /\ Forgotten

-----------------------------------------------------------------------------
Writes == Appended \/ AppendFails
Rolls == RollCopies \/ RollEnds \/ RollFails
Holds ==
  \/ \E kept \in SUBSET Rows : HoldBegins(kept)
  \/ RewriteSkipped \/ RewriteStages \/ RewriteDrops \/ DeleteDrops \/ DeleteEnds
  \/ StepFails \/ Release
Sweeps ==
  \/ \E j \in Jobs : JobEnds(j) \/ \E p \in Partitions : WithExclusive(j, p)
  \/ \E victims \in SUBSET Partitions : CapToSize(victims)
Flushes ==
  \/ \E todo \in SUBSET Partitions : Drained(todo)
  \/ Opened \/ Closed \/ \E p \in Partitions : FlushRolls(p)
Outside ==
  \/ \E r \in Rows, startsOver \in BOOLEAN : WriteBatch(r, startsOver)
  \/ \E old, aged \in SUBSET Partitions : SweepRetention(old, aged)
  \/ \E victims \in SUBSET Partitions : EnforceSizeCap(victims)
  \/ \E saved \in [Partitions -> Entry] : Open(saved)
  \/ Close \/ Crash

Next == DrainTakes \/ Writes \/ Rolls \/ Holds \/ Sweeps \/ Flushes \/ Outside

Spec == Init /\ [][Next]_vars

\* Every awaited call is answered.  Who waits for a section to be over is resumed by its end,
\* before the next one begins: the drain loop has its turn between two sections, and so has
\* every job.
FairSpec ==
  /\ Spec
  /\ SF_vars(DrainTakes) /\ WF_vars(Writes) /\ WF_vars(Rolls) /\ WF_vars(Holds)
  /\ WF_vars(Flushes)
  /\ \A j \in Jobs : SF_vars(\E p \in Partitions : WithExclusive(j, p)) /\ WF_vars(JobEnds(j))
  /\ WF_vars(\E victims \in SUBSET Partitions : CapToSize(victims))

-----------------------------------------------------------------------------
Item == [of : Partitions, rows : SUBSET Rows]
Writing == [stage : {"idle", "waiting", "appending", "rolling"}, of : Partitions \union {None},
            rows : SUBSET Rows]
Roll == [of : Partitions, by : {"writer", "hold", "flush"}]
Job == [active : BOOLEAN, capping : BOOLEAN, todo : [Partitions -> {"no", "delete", "rewrite"}]]
Section ==
  [by : Jobs \union {"nobody"}, of : Partitions \union {None}, op : {"delete", "rewrite"},
   stage : {"entered", "waits", "ready", "staged", "dropped", "rolling", "over"},
   saw : SUBSET Rows, kept : SUBSET Rows, ahead : Nat]
Flushing == [todo : SUBSET Partitions, of : Partitions \union {None}]

\* The type of every variable; the queue stays within its limit.
TypeOK ==
  /\ files \in [Partitions -> File]
  /\ phase \in {"down", "opening", "open", "closing", "flushing"}
  /\ index \in [Partitions -> Entry]
  /\ queue \in Seq(Item) /\ Cardinality(QueuedRows) <= MaxQueued
  /\ last \in [Objects -> Rows \union {None}]
  /\ writer \in Writing
  /\ rolls \in Seq(Roll)
  /\ copied \in BOOLEAN
  /\ rollFailed \in Partitions \union {None}
  /\ jobs \in [Jobs -> Job]
  /\ hold \in Section
  /\ flush \in Flushing

\* What is stored stays on disk through appends, rolls, rewrites, their failures, crashes and
\* restarts: a row goes only with its whole partition, deleted and not kept for good, or by the
\* two steps of a thinning that replace its files, which leaves its object another row of the
\* partition.  In the staging file or in a whole generation: a torn one holds nothing.
StoredRowsStay ==
  [][\A p \in Partitions : LET gone == Stored(files[p]) \ Stored(files'[p]) IN
       gone # {} =>
         /\ hold.by # "nobody" /\ hold.of = p
         /\ \/ hold.op = "delete" /\ p \notin Kept
            \/ /\ hold.stage \in {"ready", "staged"} /\ p \in Tiered
               /\ \A r \in gone : \E s \in Stored(files'[p]) : ObjectOf[s] = ObjectOf[r]]_vars

\* Between the read of a partition and its rewrite no append lands: what the rewrite is about
\* to replace is what it has read.
NothingLandsBetween ==
  hold.by # "nobody" /\ hold.op = "rewrite" /\ hold.stage \in {"waits", "ready"} =>
    Stored(files[hold.of]) = hold.saw

\* While the store is open the index lists exactly the partitions that have rows on disk, but
\* for the one being deleted: none is orphaned, none is claimed.
IndexListsWhatIsThere ==
  phase = "open" => \A p \in Partitions :
    (hold.stage = "dropped" /\ hold.of = p) \/ (p \in Listed <=> Stored(files[p]) # {})

\* Whatever sweeps are under way, the first of the queued batches is handed to the backend in
\* the end.
QueueMoves == writer.stage = "waiting" ~> writer.stage # "waiting"

\* A sweep ends: it, the cap, the writer and the chain of rolls never wait for each other in a
\* circle, and none of them holds the partitions for ever.
SweepsEnd == jobs["sweep"].active ~> ~jobs["sweep"].active

=============================================================================

-------------------------- MODULE WorldStateProofs --------------------------
(***************************************************************************)
(* Proofs about the live world, for any identifiers, providers and times.  *)
(* The invariant: objects and what a listener has seen of them are well    *)
(* shaped (only Absent is nobody's), the indexes agree with the objects,   *)
(* the pending change is exact, and those who gave what is shown are       *)
(* named.  Nothing there depends on what references are.  What filter and  *)
(* slice leave of them is proved last, with the invariant that they are    *)
(* capped and never name an observation twice, and what it is needed for:  *)
(* the types, and that a provider that leaves leaves nothing behind.       *)
(***************************************************************************)
EXTENDS WorldState, FiniteSetTheorems, SequenceTheorems, TLAPS

Whole(o) ==
  o = [by |-> o.by, at |-> o.at, until |-> o.until, live |-> o.live, placed |-> o.placed,
       refs |-> o.refs]

Given(o) ==
  /\ Whole(o)
  /\ o.by \in Providers /\ o.at \in Times /\ o.until \in Until
  /\ o.live \in BOOLEAN /\ o.placed \in BOOLEAN

Shaped ==
  /\ objects = [i \in Ids |-> objects[i]]
  /\ \A i \in Ids : objects[i] = Absent \/ Given(objects[i])

SideShaped ==
  /\ byProvider = [p \in Providers |-> byProvider[p]]
  /\ contributors = [i \in Ids |-> contributors[i]]
  /\ pending \in ChangeType
  /\ batch \in BatchType
  /\ view \in [Ids -> Things]

IInv == Shaped /\ SideShaped /\ IndexesAgree /\ NewsIsExact /\ GiversAreNamed

-----------------------------------------------------------------------------
(* Objects.                                                                *)

LEMMA AbsentFacts ==
  /\ Sources(Absent) = {} /\ Absent.placed = FALSE /\ Absent.by = NoProvider
  /\ Whole(Absent) /\ Shown(Absent) \in Things
  BY DEF Absent, Sources, Whole, Things, Shown

\* An object is there if and only if it is somebody's.
LEMMA WorldIsGiven ==
  ASSUME Shaped
  PROVE  /\ \A i \in World : Given(objects[i])
         /\ \A i \in Ids \ World : objects[i] = Absent
         /\ \A i \in Ids : Shown(objects[i]) \in Things
         /\ \A i \in Ids : Given(objects[i]) => i \in World
<1>1. \A i \in Ids : Given(objects[i]) => objects[i].by # NoProvider
  BY WorldAssumption DEF Given
<1>2. \A i \in Ids : Given(objects[i]) => Shown(objects[i]) \in Things
  BY DEF Given, Shown, Things
<1>. QED BY <1>1, <1>2, AbsentFacts DEF Shaped, World

\* Replacing, inserting or deleting objects keeps the objects shaped and the indexes right.
LEMMA PutKeeps ==
  ASSUME Shaped, SideShaped, IndexesAgree, NEW changed \in SUBSET Ids, NEW next,
         \A i \in changed : next[i] = Absent \/ Given(next[i]),
         Put(changed, next)
  PROVE  /\ Shaped' /\ IndexesAgree'
         /\ byProvider' = [p \in Providers |-> byProvider'[p]]
         /\ \A i \in Ids : objects'[i] = IF i \in changed THEN next[i] ELSE objects[i]
<1>1. \A i \in Ids : objects'[i] = IF i \in changed THEN next[i] ELSE objects[i]
  BY DEF Put
<1>2. Shaped'
  BY <1>1 DEF Put, Shaped
<1>3. \A p \in Providers :
        byProvider'[p] =
          (byProvider[p] \ {i \in changed : p \in Sources(objects[i]) /\ p \notin Sources(next[i])})
            \union {i \in changed : p \in Sources(next[i])}
  BY DEF Put, Reindexed
<1>4. \A i \in Ids : i \in World' <=> objects'[i].by # NoProvider
  BY DEF World
<1>5. \A i \in Ids \ World : objects[i] = Absent
  BY WorldIsGiven
<1>6. \A i \in Ids : i \notin World' => objects'[i] = Absent
  BY <1>1, <1>2, <1>4, WorldAssumption DEF Shaped, Given
<1>7. ASSUME NEW p \in Providers
      PROVE  byProvider'[p] = {i \in World' : p \in Sources(objects'[i])}
  <2>1. \A i \in Ids : i \in byProvider[p] <=> p \in Sources(objects[i])
    BY <1>5, AbsentFacts DEF IndexesAgree, World
  <2>2. \A i \in Ids : i \in byProvider'[p] <=> p \in Sources(objects'[i])
    BY <1>1, <1>3, <2>1
  <2>3. byProvider'[p] \subseteq Ids
    BY <1>3 DEF IndexesAgree, World
  <2>. QED BY <1>6, <2>2, <2>3, AbsentFacts DEF World
<1>8. spatial' = {i \in World' : objects'[i].placed}
  <2>1. spatial' = (spatial \ changed) \union {i \in changed : next[i].placed}
    BY DEF Put
  <2>2. spatial = {i \in World : objects[i].placed}
    BY DEF IndexesAgree
  <2>. QED BY <1>1, <1>5, <1>6, <2>1, <2>2, AbsentFacts DEF World
<1>9. byProvider' = [p \in Providers |-> byProvider'[p]]
  BY DEF Put, Reindexed
<1>. QED BY <1>1, <1>2, <1>7, <1>8, <1>9, Zenon DEF IndexesAgree
-----------------------------------------------------------------------------
(* What is pending.                                                        *)

\* Deleting what is there, and changing what listeners see of some of the rest, is announced.
LEMMA DeletedNews ==
  ASSUME NewsIsExact, UNCHANGED view,
         NEW gone \in SUBSET World, NEW changed \in SUBSET (World \ gone),
         World' = World \ gone,
         \A i \in (World \ gone) \ changed : Shown(objects'[i]) = Shown(objects[i]),
         pending'.added = pending.added \ gone,
         pending'.removed = pending.removed \union (gone \ pending.added),
         pending'.updated = pending.updated \ gone,
         pending'.refreshed = (pending.refreshed \ gone) \union changed,
         pending'.withdrawn \subseteq pending'.removed
  PROVE  NewsIsExact'
<1>1. Known' = Known
  BY DEF Known
<1>2. pending'.added = World' \ Known' /\ pending'.removed = Known' \ World'
  BY <1>1 DEF NewsIsExact
<1>3. /\ pending'.updated \subseteq World' \intersect Known'
      /\ pending'.refreshed \subseteq World'
  BY <1>1 DEF NewsIsExact
<1>4. \A i \in World' \intersect Known' :
        view'[i] # Shown(objects'[i]) => i \in pending'.updated \union pending'.refreshed
  BY <1>1 DEF NewsIsExact
<1>. QED BY <1>2, <1>3, <1>4, Zenon DEF NewsIsExact

\* So is an object that comes, comes back or is changed.
LEMMA TakenNews ==
  ASSUME NewsIsExact, UNCHANGED view, NEW i \in Ids,
         World' = World \union {i},
         \A j \in World \ {i} : objects'[j] = objects[j],
         pending' \in ChangeType,
         i \in Known => i \in pending'.updated,
         i \notin Known => pending'.updated \subseteq pending.updated,
         pending'.added = IF i \in Known THEN pending.added ELSE pending.added \union {i},
         pending'.removed = pending.removed \ {i},
         pending.updated \subseteq pending'.updated,
         pending'.updated \subseteq pending.updated \union {i},
         pending'.refreshed = pending.refreshed,
         pending'.withdrawn \subseteq pending.withdrawn,
         i \notin pending'.withdrawn
  PROVE  NewsIsExact'
<1>1. Known' = Known
  BY DEF Known
<1>2. pending'.added = World' \ Known' /\ pending'.removed = Known' \ World'
  BY <1>1 DEF NewsIsExact
<1>3. /\ pending'.updated \subseteq World' \intersect Known'
      /\ pending'.refreshed \subseteq World'
      /\ pending'.withdrawn \subseteq pending'.removed
  BY <1>1 DEF NewsIsExact
<1>4. \A j \in World' \intersect Known' :
        view'[j] # Shown(objects'[j]) => j \in pending'.updated \union pending'.refreshed
  BY <1>1 DEF NewsIsExact
<1>. QED BY <1>2, <1>3, <1>4, Zenon DEF NewsIsExact

\* Nothing changes but the batch and the timer.
LEMMA BatchKeeps ==
  ASSUME IInv, UNCHANGED <<objects, byProvider, contributors, spatial, pending, view>>,
         batch' \in BatchType
  PROVE  IInv'
<1>1. World' = World /\ Known' = Known
  BY DEF World, Known
<1>2. Shaped' /\ SideShaped'
  BY DEF IInv, Shaped, SideShaped
<1>3. IndexesAgree' /\ NewsIsExact' /\ GiversAreNamed'
  BY <1>1 DEF IInv, IndexesAgree, NewsIsExact, GiversAreNamed
<1>. QED BY <1>2, <1>3 DEF IInv

-----------------------------------------------------------------------------
(* One lemma per action that changes the world.                            *)

LEMMA InsertKeeps ==
  ASSUME IInv, NEW i \in Ids, NEW t \in Times, NEW live \in BOOLEAN,
         ~Idle, See(i), Insert(i, t, live), Fed(i, batch.provider), UNCHANGED <<timer, view>>
  PROVE  IInv'
<1> DEFINE p == batch.provider
           new == [by |-> p, at |-> t, until |-> [by |-> p, from |-> t], live |-> live,
                   placed |-> p \in Placing, refs |-> <<[provider |-> p, at |-> t]>>]
           next == [objects EXCEPT ![i] = new]
<1>1. p \in Providers
  BY DEF IInv, SideShaped, Idle, BatchType
<1>2. Given(new) /\ new.by = p /\ new.until.by = p
  BY <1>1 DEF Given, Whole, Until
<1>. HIDE DEF new
<1>3. i \notin World /\ Put({i}, next) /\ pending' = Returned(i)
  BY Zenon DEF Insert, new
<1>4. next[i] = new
  BY DEF IInv, Shaped
<1>. HIDE DEF next
<1>5. /\ Shaped' /\ IndexesAgree'
      /\ byProvider' = [q \in Providers |-> byProvider'[q]]
      /\ \A j \in Ids : objects'[j] = IF j = i THEN new ELSE objects[j]
  BY <1>2, <1>3, <1>4, PutKeeps DEF IInv
<1>6. World' = World \union {i}
  BY <1>1, <1>2, <1>5, WorldAssumption DEF World
<1>7. /\ contributors' = [j \in Ids |-> contributors'[j]]
      /\ \A j \in Ids : contributors'[j] = IF j = i THEN contributors[i] \union {p}
                                            ELSE contributors[j]
  BY DEF Fed, IInv, SideShaped
<1>8. pending' \in ChangeType
  BY <1>3 DEF Returned, IInv, SideShaped, ChangeType
<1>9. SideShaped'
  BY <1>5, <1>7, <1>8 DEF SideShaped, IInv, See, BatchType
<1>10. NewsIsExact'
  <2>1. i \in Known <=> i \in pending.removed
    BY <1>3 DEF IInv, NewsIsExact, Known
  <2>2. \A j \in World \ {i} : objects'[j] = objects[j]
    BY <1>5 DEF World
  <2>3. CASE i \in pending.removed
    <3>1. /\ pending'.added = pending.added /\ pending'.removed = pending.removed \ {i}
          /\ pending'.updated = pending.updated \union {i}
          /\ pending'.refreshed = pending.refreshed
          /\ pending'.withdrawn = pending.withdrawn \ {i}
      BY <1>3, <2>3 DEF Returned, IInv, SideShaped, ChangeType
    <3>. QED BY <1>6, <1>8, <2>1, <2>2, <2>3, <3>1, TakenNews DEF IInv
  <2>4. CASE i \notin pending.removed
    <3>1. /\ pending'.added = pending.added \union {i} /\ pending'.removed = pending.removed
          /\ pending'.updated = pending.updated
          /\ pending'.refreshed = pending.refreshed
          /\ pending'.withdrawn = pending.withdrawn
      BY <1>3, <2>4 DEF Returned, IInv, SideShaped, ChangeType
    <3>2. i \notin pending'.withdrawn /\ pending'.removed = pending.removed \ {i}
      BY <2>4, <3>1 DEF IInv, NewsIsExact
    <3>. QED BY <1>6, <1>8, <2>1, <2>2, <2>4, <3>1, <3>2, TakenNews DEF IInv
  <2>. QED BY <2>3, <2>4
<1>11. GiversAreNamed'
  BY <1>2, <1>3, <1>5, <1>6, <1>7 DEF IInv, GiversAreNamed
<1>. QED BY <1>5, <1>9, <1>10, <1>11 DEF IInv
LEMMA MergeKeeps ==
  ASSUME IInv, NEW i \in Ids, NEW t \in Times, NEW ends \in BOOLEAN, NEW live \in BOOLEAN,
         ~Idle, See(i), Merge(i, t, ends, live), Fed(i, batch.provider),
         UNCHANGED <<timer, view>>
  PROVE  IInv'
<1> DEFINE p == batch.provider
           o == objects[i]
           latest == IF Newer(o, t) THEN t ELSE o.at
           merged == [by |-> IF Newer(o, t) THEN p ELSE o.by,
                      at |-> latest,
                      until |-> [by |-> p, from |-> IF ends THEN t ELSE latest],
                      live |-> live,
                      placed |-> o.placed \/ (Newer(o, t) /\ p \in Placing),
                      refs |-> NewRefs(o.refs, [provider |-> p, at |-> t])]
           next == [objects EXCEPT ![i] = merged]
<1>1. p \in Providers
  BY DEF IInv, SideShaped, Idle, BatchType
<1>2. i \in World /\ Given(o)
  BY WorldIsGiven DEF Merge, IInv
<1>3. Given(merged) /\ merged.by \in {p, o.by} /\ merged.until.by = p
  BY <1>1, <1>2 DEF Given, Whole, Until
<1>. HIDE DEF merged
<1>4. Put({i}, next) /\ pending' = IF i \in pending.added THEN pending
                                   ELSE [pending EXCEPT !.updated = @ \union {i}]
  BY Zenon DEF Merge, merged
<1>5. next[i] = merged
  BY DEF IInv, Shaped
<1>. HIDE DEF next
<1>6. /\ Shaped' /\ IndexesAgree'
      /\ byProvider' = [q \in Providers |-> byProvider'[q]]
      /\ \A j \in Ids : objects'[j] = IF j = i THEN merged ELSE objects[j]
  BY <1>3, <1>4, <1>5, PutKeeps DEF IInv
<1>7. World' = World
  BY <1>2, <1>3, <1>6, WorldAssumption DEF World, Given
<1>8. /\ contributors' = [j \in Ids |-> contributors'[j]]
      /\ \A j \in Ids : contributors'[j] = IF j = i THEN contributors[i] \union {p}
                                            ELSE contributors[j]
  BY DEF Fed, IInv, SideShaped
<1>9. pending' \in ChangeType
  BY <1>4 DEF IInv, SideShaped, ChangeType
<1>10. SideShaped'
  BY <1>6, <1>8, <1>9 DEF SideShaped, IInv, See, BatchType
<1>11. NewsIsExact'
  <2>1. i \notin Known <=> i \in pending.added
    BY <1>2 DEF IInv, NewsIsExact, Known
  <2>2. /\ World' = World \union {i}
        /\ \A j \in World \ {i} : objects'[j] = objects[j]
    BY <1>2, <1>6, <1>7 DEF World
  <2>3. /\ pending'.added = pending.added /\ pending'.removed = pending.removed
        /\ pending'.refreshed = pending.refreshed /\ pending'.withdrawn = pending.withdrawn
        /\ pending'.updated = IF i \in pending.added THEN pending.updated
                              ELSE pending.updated \union {i}
    BY <1>4 DEF IInv, SideShaped, ChangeType
  <2>4. i \notin pending.removed /\ i \notin pending.withdrawn
    BY <1>2 DEF IInv, NewsIsExact
  <2>. QED BY <1>9, <2>1, <2>2, <2>3, <2>4, TakenNews DEF IInv
<1>12. GiversAreNamed'
  BY <1>2, <1>3, <1>6, <1>7, <1>8 DEF IInv, GiversAreNamed
<1>. QED BY <1>6, <1>10, <1>11, <1>12 DEF IInv

\* What leaves with a provider: whatever has no other source.
LEMMA LeaveKeeps ==
  ASSUME IInv, NEW p \in Providers, NEW left \in SUBSET byProvider[p],
         NEW withdraws \in BOOLEAN, Leave(p, left, withdraws), UNCHANGED view,
         batch' \in BatchType
  PROVE  IInv'
<1> DEFINE others(i) == NotOf(p, objects[i].refs)
           gone == {i \in left : others(i) = <<>>}
           next == [i \in Ids |-> IF i \in gone THEN Absent
                                  ELSE [objects[i] EXCEPT !.refs = others(i)]]
           after == Deleted(gone)
<1>1. left \subseteq World /\ World \subseteq Ids /\ gone \subseteq left
  BY DEF IInv, IndexesAgree, World
<1>2. \A i \in left : Given(objects[i])
  BY <1>1, WorldIsGiven DEF IInv
<1>3. \A i \in left \ gone : Given(next[i]) /\ Shown(next[i]) = Shown(objects[i])
                             /\ next[i].by = objects[i].by /\ next[i].until = objects[i].until
  <2>. SUFFICES ASSUME NEW i \in left \ gone
                PROVE  /\ Given(next[i]) /\ Shown(next[i]) = Shown(objects[i])
                       /\ next[i].by = objects[i].by /\ next[i].until = objects[i].until
    OBVIOUS
  <2> DEFINE rest == others(i)
  <2>1. next[i] = [objects[i] EXCEPT !.refs = rest]
    BY <1>1
  <2>. HIDE DEF rest, next
  <2>. QED BY <1>2, <2>1 DEF Given, Whole, Shown
<1>4. \A i \in gone : next[i] = Absent
  BY <1>1
<1>5. /\ Put(left, next) /\ Forgotten(gone)
      /\ pending' = IF ~withdraws THEN after
                    ELSE [after EXCEPT !.withdrawn = @ \union (gone \intersect after.removed)]
  BY Zenon DEF Leave
<1>. HIDE DEF next, gone
<1>6. /\ Shaped' /\ IndexesAgree'
      /\ byProvider' = [q \in Providers |-> byProvider'[q]]
      /\ \A i \in Ids : objects'[i] = IF i \in left THEN next[i] ELSE objects[i]
  BY <1>1, <1>3, <1>4, <1>5, PutKeeps DEF IInv
<1>7. World' = World \ gone
  BY <1>1, <1>2, <1>3, <1>4, <1>6, AbsentFacts, WorldAssumption DEF World, Given
<1>8. /\ contributors' = [i \in Ids |-> contributors'[i]]
      /\ \A i \in Ids : contributors'[i] = IF i \in gone THEN {} ELSE contributors[i]
  BY <1>5 DEF Forgotten
<1>9. /\ after \in ChangeType
      /\ after.added = pending.added \ gone
      /\ after.removed = pending.removed \union (gone \ pending.added)
      /\ after.updated = pending.updated \ gone
      /\ after.refreshed = pending.refreshed \ gone
      /\ after.withdrawn = pending.withdrawn
  BY <1>1 DEF Deleted, IInv, SideShaped, ChangeType
<1>. HIDE DEF after
<1>10. /\ pending' \in ChangeType
       /\ pending'.added = pending.added \ gone
       /\ pending'.removed = pending.removed \union (gone \ pending.added)
       /\ pending'.updated = pending.updated \ gone
       /\ pending'.refreshed = pending.refreshed \ gone
       /\ pending'.withdrawn \subseteq pending.withdrawn \union pending'.removed
  BY <1>5, <1>9 DEF ChangeType
<1>11. SideShaped'
  BY <1>6, <1>8, <1>10 DEF SideShaped, IInv
<1>12. NewsIsExact'
  <2>1. pending'.withdrawn \subseteq pending'.removed
    BY <1>10 DEF IInv, NewsIsExact
  <2>2. \A i \in World \ gone : Shown(objects'[i]) = Shown(objects[i])
    BY <1>1, <1>3, <1>6
  <2>3. gone \in SUBSET World
    BY <1>1
  <2>4. pending'.refreshed = (pending.refreshed \ gone) \union {}
    BY <1>10
  <2>5. {} \in SUBSET (World \ gone) /\ (World \ gone) \ {} = World \ gone
    OBVIOUS
  <2>. QED BY <1>7, <1>10, <2>1, <2>2, <2>3, <2>4, <2>5, DeletedNews DEF IInv
<1>13. GiversAreNamed'
  BY <1>1, <1>3, <1>6, <1>7, <1>8 DEF IInv, GiversAreNamed, World
<1>. QED BY <1>6, <1>11, <1>12, <1>13 DEF IInv
LEMMA SweepKeeps ==
  ASSUME IInv, NEW expired \in SUBSET World, NEW refreshed \in SUBSET (World \ expired),
         Sweep(expired, refreshed)
  PROVE  IInv'
<1> DEFINE turned(i) == [objects[i] EXCEPT !.live = ~@]
<1>1. World \subseteq Ids
  BY DEF World
<1>2. \A i \in Ids : objects'[i] = IF i \in expired THEN Absent
                                  ELSE IF i \in refreshed THEN turned(i) ELSE objects[i]
  BY DEF Sweep
<1>3. \A i \in refreshed : /\ Given(turned(i)) /\ turned(i).by = objects[i].by
                           /\ turned(i).until = objects[i].until
                           /\ turned(i).placed = objects[i].placed
                           /\ turned(i).refs = objects[i].refs
  <2>. SUFFICES ASSUME NEW i \in refreshed
                PROVE  /\ Given(turned(i)) /\ turned(i).by = objects[i].by
                       /\ turned(i).until = objects[i].until
                       /\ turned(i).placed = objects[i].placed
                       /\ turned(i).refs = objects[i].refs
    OBVIOUS
  <2>1. Given(objects[i])
    BY WorldIsGiven DEF IInv
  <2>2. turned(i) = [by |-> objects[i].by, at |-> objects[i].at, until |-> objects[i].until,
                     live |-> ~objects[i].live, placed |-> objects[i].placed,
                     refs |-> objects[i].refs]
    BY <2>1 DEF Given, Whole
  <2>. HIDE DEF turned
  <2>. QED BY <2>1, <2>2 DEF Given, Whole
<1>. HIDE DEF turned
<1>4. Shaped'
  <2>1. objects' = [i \in Ids |-> objects'[i]]
    BY DEF Sweep
  <2>. QED BY <1>2, <1>3, <2>1 DEF IInv, Shaped
<1>5. World' = World \ expired
  BY <1>1, <1>2, <1>3, AbsentFacts, WorldAssumption DEF World, Given
<1>6. \A i \in World' : /\ objects'[i].by = objects[i].by
                       /\ objects'[i].until = objects[i].until
                       /\ objects'[i].placed = objects[i].placed
                       /\ Sources(objects'[i]) = Sources(objects[i])
  BY <1>1, <1>2, <1>3, <1>5 DEF Sources
<1>7. IndexesAgree'
  <2>1. \A p \in Providers : byProvider'[p] = byProvider[p] \ {i \in expired : p \in Sources(objects[i])}
    BY DEF Sweep
  <2>2. ASSUME NEW p \in Providers
        PROVE  byProvider'[p] = {i \in World' : p \in Sources(objects'[i])}
    BY <1>5, <1>6, <2>1 DEF IInv, IndexesAgree
  <2>3. spatial' = {i \in World' : objects'[i].placed}
    BY <1>5, <1>6 DEF IInv, IndexesAgree, Sweep
  <2>. QED BY <2>2, <2>3, Zenon DEF IndexesAgree
<1>8. /\ contributors' = [i \in Ids |-> contributors'[i]]
      /\ \A i \in Ids : contributors'[i] = IF i \in expired THEN {} ELSE contributors[i]
  BY DEF Sweep, Forgotten
<1>9. /\ pending' \in ChangeType
      /\ pending'.added = pending.added \ expired
      /\ pending'.removed = pending.removed \union (expired \ pending.added)
      /\ pending'.updated = pending.updated \ expired
      /\ pending'.refreshed = (pending.refreshed \ expired) \union refreshed
      /\ pending'.withdrawn = pending.withdrawn
  BY <1>1 DEF Sweep, Deleted, IInv, SideShaped, ChangeType
<1>10. SideShaped'
  <2>1. byProvider' = [p \in Providers |-> byProvider'[p]] /\ UNCHANGED <<batch, view>>
    BY DEF Sweep
  <2>. QED BY <1>8, <1>9, <2>1 DEF SideShaped, IInv
<1>11. NewsIsExact'
  <2>1. pending'.withdrawn \subseteq pending'.removed
    BY <1>9 DEF IInv, NewsIsExact
  <2>2. \A i \in (World \ expired) \ refreshed : Shown(objects'[i]) = Shown(objects[i])
    BY <1>1, <1>2
  <2>3. UNCHANGED view
    BY DEF Sweep
  <2>. QED BY <1>5, <1>9, <2>1, <2>2, <2>3, DeletedNews DEF IInv
<1>12. GiversAreNamed'
  BY <1>1, <1>5, <1>6, <1>8 DEF IInv, GiversAreNamed
<1>. QED BY <1>4, <1>7, <1>10, <1>11, <1>12 DEF IInv

\* After a flush the listener has seen the whole world.
LEMMA FlushTells ==
  ASSUME IInv, Flush
  PROVE  view' = [i \in Ids |-> Shown(objects[i])]
<1>1. /\ Change.removed = Known \ World
      /\ Read(Change) \subseteq World
      /\ World \ Known \subseteq Read(Change)
      /\ \A i \in World \intersect Known : view[i] # Shown(objects[i]) => i \in Read(Change)
  BY DEF IInv, NewsIsExact, Change, Read
<1>2. ASSUME NEW i \in Ids
      PROVE  view'[i] = Shown(objects[i])
  <2>1. view'[i] = IF i \in Read(Change) THEN Shown(objects[i])
                   ELSE IF i \in Change.removed THEN Shown(Absent) ELSE view[i]
    BY DEF Flush
  <2>2. CASE i \in World
    BY <1>1, <2>1, <2>2
  <2>3. CASE i \notin World
    <3>1. objects[i] = Absent
      BY <2>3, WorldIsGiven DEF IInv
    <3>2. i \notin Known => view[i] = Shown(Absent)
      BY WorldAssumption DEF IInv, SideShaped, Known, Things
    <3>. QED BY <1>1, <2>1, <2>3, <3>1, <3>2
  <2>. QED BY <2>2, <2>3
<1>3. view' = [i \in Ids |-> view'[i]]
  BY DEF Flush
<1>. QED BY <1>2, <1>3

LEMMA FlushKeeps ==
  ASSUME IInv, Flush
  PROVE  IInv'
<1>1. view' = [i \in Ids |-> Shown(objects[i])]
  BY FlushTells
<1>2. UNCHANGED <<objects, byProvider, contributors, spatial, batch>> /\ pending' = NoChange
  BY DEF Flush
<1>3. World' = World /\ Known' = World
  BY <1>1, <1>2 DEF World, Known, Shown
<1>4. Shaped' /\ IndexesAgree' /\ GiversAreNamed'
  BY <1>2, <1>3 DEF IInv, Shaped, IndexesAgree, GiversAreNamed
<1>5. SideShaped'
  BY <1>1, <1>2, WorldIsGiven DEF IInv, SideShaped, NoChange, ChangeType
<1>6. NewsIsExact'
  BY <1>1, <1>2, <1>3 DEF NewsIsExact, NoChange, World
<1>. QED BY <1>4, <1>5, <1>6 DEF IInv

-----------------------------------------------------------------------------
LEMMA InitIInv == Init => IInv
<1> SUFFICES ASSUME Init PROVE IInv
  OBVIOUS
<1>1. \A i \in Ids : objects[i] = Absent /\ view[i] = Shown(Absent)
  BY DEF Init
<1>2. World = {} /\ Known = {}
  BY <1>1, AbsentFacts DEF World, Known, Shown
<1>3. Shaped
  BY <1>1 DEF Init, Shaped
<1>4. SideShaped
  <2>1. view \in [Ids -> Things]
    BY AbsentFacts DEF Init
  <2>. QED BY <2>1 DEF Init, SideShaped, NoChange, ChangeType, NoBatch, BatchType
<1>5. IndexesAgree /\ NewsIsExact /\ GiversAreNamed
  BY <1>2 DEF Init, IndexesAgree, NewsIsExact, GiversAreNamed, NoChange
<1>. QED BY <1>3, <1>4, <1>5 DEF IInv

LEMMA NextIInv == IInv /\ [Next]_vars => IInv'
<1> SUFFICES ASSUME IInv, [Next]_vars PROVE IInv'
  OBVIOUS
<1>1. ASSUME NEW p \in Providers, NEW kind \in {"delta", "snapshot", "complete"},
             BeginBatch(p, kind)
      PROVE  IInv'
  BY <1>1, BatchKeeps DEF BeginBatch, BatchType
<1>2. ASSUME NEW i \in Ids, Refuse(i) \/ Again(i) PROVE IInv'
  <2>1. batch' \in BatchType
    BY <1>2 DEF Refuse, Again, See, IInv, SideShaped, BatchType
  <2>. QED BY <1>2, <2>1, BatchKeeps DEF Refuse, Again
<1>3. ASSUME NEW i \in Ids, NEW t \in Times, NEW ends \in BOOLEAN, NEW live \in BOOLEAN,
             TakeIn(i, t, ends, live)
      PROVE  IInv'
  BY <1>3, InsertKeeps, MergeKeeps DEF TakeIn
<1>4. CASE EndBatch
  <2>1. batch' \in BatchType /\ UNCHANGED view
    BY <1>4 DEF EndBatch, NoBatch, BatchType
  <2>2. CASE batch.kind = "delta"
    BY <1>4, <2>1, <2>2, BatchKeeps DEF EndBatch
  <2>3. CASE batch.kind # "delta"
    <3>1. batch.provider \in Providers
      BY <1>4 DEF EndBatch, Idle, IInv, SideShaped, BatchType
    <3>2. Leave(batch.provider, byProvider[batch.provider] \ batch.seen, batch.kind = "complete")
      BY <1>4, <2>3 DEF EndBatch
    <3>. QED BY <2>1, <3>1, <3>2, LeaveKeeps
  <2>. QED BY <2>2, <2>3
<1>5. ASSUME NEW p \in Providers, RemoveProvider(p) PROVE IInv'
  BY <1>5, LeaveKeeps DEF RemoveProvider, IInv, SideShaped
<1>6. ASSUME NEW expired \in SUBSET World, NEW refreshed \in SUBSET (World \ expired),
             Sweep(expired, refreshed)
      PROVE  IInv'
  BY <1>6, SweepKeeps
<1>7. CASE Flush
  BY <1>7, FlushKeeps
<1>8. CASE UNCHANGED vars
  BY <1>8, BatchKeeps DEF vars, IInv, SideShaped
<1>. QED BY <1>1, <1>2, <1>3, <1>4, <1>5, <1>6, <1>7, <1>8 DEF Next

\* The invariant holds in every state of the live world.
THEOREM IInvHolds == Spec => []IInv
  BY InitIInv, NextIInv, PTL DEF Spec

\* The index by provider and the spatial index agree with the objects, whatever was merged,
\* capped, trimmed, expired or removed in between.
THEOREM IndexesAgreeHolds == Spec => []IndexesAgree
<1>1. IInv => IndexesAgree
  BY DEF IInv
<1>. QED BY <1>1, IInvHolds, PTL

\* The pending change says exactly what the listener does not know.
THEOREM NewsIsExactHolds == Spec => []NewsIsExact
<1>1. IInv => NewsIsExact
  BY DEF IInv
<1>. QED BY <1>1, IInvHolds, PTL

\* Who gave what an object shows is among its contributors.
THEOREM GiversAreNamedHolds == Spec => []GiversAreNamed
<1>1. IInv => GiversAreNamed
  BY DEF IInv
<1>. QED BY <1>1, IInvHolds, PTL
-----------------------------------------------------------------------------
(* The world implements LiveView.                                          *)

LEMMA StepIsChangeOrTell ==
  ASSUME IInv, IInv', [Next]_vars
  PROVE  [LV!Next]_(LV!lvars)
<1> DEFINE shown == [i \in Ids |-> Shown(objects[i])]
<1>1. shown' \in [Ids -> Things]
  <2>1. \A i \in Ids : Shown(objects'[i]) \in Things
    <3>1. \A i \in Ids : objects'[i] = Absent \/ Given(objects'[i])
      BY DEF IInv, Shaped
    <3>2. \A i \in Ids : Given(objects'[i]) => Shown(objects'[i]) \in Things
      BY DEF Given, Shown, Things
    <3>. QED BY <3>1, <3>2, AbsentFacts
  <2>. QED BY <2>1
<1>2. CASE Flush
  <2>1. view' = shown
    BY <1>2, FlushTells
  <2>2. shown' = shown
    BY <1>2 DEF Flush
  <2>. QED BY <2>1, <2>2 DEF LV!Next, LV!Tell
<1>3. CASE ~Flush
  <2>1. UNCHANGED view
    BY <1>3 DEF Next, BeginBatch, Refuse, Again, TakeIn, EndBatch, RemoveProvider, Sweep, vars
  <2>. QED BY <1>1, <2>1 DEF LV!Next, LV!Change
<1>. QED BY <1>2, <1>3

\* Whatever a listener sees is the world as it was at the last flush, whole: every step of the
\* live world is one of LiveView, for any identifiers, providers and times. That it is told
\* again in the end is left to the runs.
THEOREM WorldImplementsLiveView == Spec => LV!Init /\ [][LV!Next]_(LV!lvars)
<1>1. Init => LV!Init
  BY AbsentFacts DEF Init, LV!Init
<1>2. IInv /\ IInv' /\ [Next]_vars => [LV!Next]_(LV!lvars)
  BY StepIsChangeOrTell
<1>. QED BY <1>1, <1>2, IInvHolds, PTL DEF Spec
-----------------------------------------------------------------------------
(* What no step does to an object that stays.                              *)

Onward ==
  \A i \in World : i \in World' =>
    /\ objects'[i].at >= objects[i].at
    /\ contributors[i] \subseteq contributors'[i]
    /\ objects[i].placed => objects'[i].placed

\* It is enough that the objects that stay keep the time and the position of their newest
\* observation, and their contributors.
LEMMA SameIsOnward ==
  ASSUME IInv,
         \A i \in World : i \in World' =>
           /\ objects'[i].at = objects[i].at /\ objects'[i].placed = objects[i].placed
           /\ contributors'[i] = contributors[i]
  PROVE  Onward
<1>1. \A i \in World : objects[i].at \in Nat
  BY WorldIsGiven, WorldAssumption DEF IInv, Given
<1>2. \A i \in World : objects[i].at >= objects[i].at
  BY <1>1
<1>. QED BY <1>2 DEF Onward

LEMMA TakeInIsOnward ==
  ASSUME IInv, NEW i \in Ids, NEW t \in Times, NEW ends \in BOOLEAN, NEW live \in BOOLEAN,
         TakeIn(i, t, ends, live)
  PROVE  Onward
<1> DEFINE o == objects[i]
<1>1. \A j \in World : objects[j].at \in Nat
  BY WorldIsGiven, WorldAssumption DEF IInv, Given
<1>2. \A j \in Ids \ {i} : objects'[j] = objects[j]
  BY DEF TakeIn, Insert, Merge, Put
<1>3. \A j \in Ids : contributors[j] \subseteq contributors'[j]
  BY DEF TakeIn, Fed, IInv, SideShaped
<1>4. ASSUME i \in World
      PROVE  objects'[i].at >= o.at /\ (o.placed => objects'[i].placed)
  <2> DEFINE p == batch.provider
             latest == IF Newer(o, t) THEN t ELSE o.at
             merged == [by |-> IF Newer(o, t) THEN p ELSE o.by,
                        at |-> latest,
                        until |-> [by |-> p, from |-> IF ends THEN t ELSE latest],
                        live |-> live,
                        placed |-> o.placed \/ (Newer(o, t) /\ p \in Placing),
                        refs |-> NewRefs(o.refs, [provider |-> p, at |-> t])]
             next == [objects EXCEPT ![i] = merged]
  <2>1. Merge(i, t, ends, live)
    BY <1>4 DEF TakeIn, Insert
  <2>2. Put({i}, next)
    BY <2>1, Zenon DEF Merge
  <2>3. merged.at = latest /\ merged.placed = (o.placed \/ (Newer(o, t) /\ p \in Placing))
    OBVIOUS
  <2>. HIDE DEF merged
  <2>4. objects'[i] = merged
    BY <2>2 DEF Put, IInv, Shaped
  <2>5. latest >= o.at
    BY <1>1, <1>4, WorldAssumption DEF Newer
  <2>. QED BY <2>3, <2>4, <2>5
<1>5. \A j \in World : objects[j].at >= objects[j].at
  BY <1>1
<1>. QED BY <1>2, <1>3, <1>4, <1>5 DEF Onward, World

LEMMA LeaveIsOnward ==
  ASSUME IInv, NEW p \in Providers, NEW left \in SUBSET byProvider[p], NEW withdraws,
         Leave(p, left, withdraws)
  PROVE  Onward
<1> DEFINE others(i) == NotOf(p, objects[i].refs)
           gone == {i \in left : others(i) = <<>>}
           next == [i \in Ids |-> IF i \in gone THEN Absent
                                  ELSE [objects[i] EXCEPT !.refs = others(i)]]
<1>1. left \subseteq World /\ World \subseteq Ids /\ gone \subseteq left
  BY DEF IInv, IndexesAgree, World
<1>2. Put(left, next) /\ Forgotten(gone)
  BY Zenon DEF Leave
<1>3. \A i \in Ids : objects'[i] = IF i \in left THEN next[i] ELSE objects[i]
  BY <1>2 DEF Put
<1>4. \A i \in gone : objects'[i] = Absent
  BY <1>1, <1>3
<1>5. ASSUME NEW i \in World \ gone
      PROVE  /\ objects'[i].at = objects[i].at /\ objects'[i].placed = objects[i].placed
             /\ contributors'[i] = contributors[i]
  <2>1. CASE i \in left
    <3> DEFINE rest == others(i)
    <3>1. objects'[i] = [objects[i] EXCEPT !.refs = rest]
      BY <1>1, <1>3, <2>1
    <3>. HIDE DEF rest
    <3>2. Whole(objects[i])
      BY WorldIsGiven DEF IInv, Given
    <3>3. contributors'[i] = contributors[i]
      BY <1>1, <1>2 DEF Forgotten
    <3>. QED BY <3>1, <3>2, <3>3 DEF Whole
  <2>2. CASE i \notin left
    BY <1>1, <1>2, <1>3, <2>2 DEF Forgotten
  <2>. QED BY <2>1, <2>2
<1>6. \A i \in World : i \in World' => i \notin gone
  BY <1>4, AbsentFacts DEF World
<1>. HIDE DEF gone
<1>. QED BY <1>5, <1>6, SameIsOnward

LEMMA SweepIsOnward ==
  ASSUME IInv, NEW expired \in SUBSET World, NEW refreshed \in SUBSET (World \ expired),
         Sweep(expired, refreshed)
  PROVE  Onward
<1>1. World \subseteq Ids
  BY DEF World
<1>2. \A i \in Ids : objects'[i] = IF i \in expired THEN Absent
                                  ELSE IF i \in refreshed THEN [objects[i] EXCEPT !.live = ~@]
                                  ELSE objects[i]
  BY DEF Sweep
<1>3. \A i \in World \ expired : /\ objects'[i].at = objects[i].at
                                /\ objects'[i].placed = objects[i].placed
                                /\ contributors'[i] = contributors[i]
  BY <1>1, <1>2, WorldIsGiven DEF IInv, Given, Whole, Sweep, Forgotten
<1>4. \A i \in World : i \in World' => i \notin expired
  BY <1>2, AbsentFacts DEF World
<1>. QED BY <1>3, <1>4, SameIsOnward

LEMMA StepIsOnward == IInv /\ [Next]_vars => [Onward]_vars
<1> SUFFICES ASSUME IInv, Next PROVE Onward
  OBVIOUS
<1>1. ASSUME UNCHANGED <<objects, contributors>> PROVE Onward
  BY <1>1, SameIsOnward
<1>2. CASE \E p \in Providers, kind \in {"delta", "snapshot", "complete"} : BeginBatch(p, kind)
  BY <1>1, <1>2 DEF BeginBatch
<1>3. CASE \E i \in Ids : Refuse(i) \/ Again(i)
  BY <1>1, <1>3 DEF Refuse, Again
<1>4. CASE EndBatch
  <2>1. CASE batch.kind = "delta"
    BY <1>1, <1>4, <2>1 DEF EndBatch
  <2>2. CASE batch.kind # "delta"
    <3>1. batch.provider \in Providers
      BY <1>4 DEF EndBatch, Idle, IInv, SideShaped, BatchType
    <3>2. Leave(batch.provider, byProvider[batch.provider] \ batch.seen, batch.kind = "complete")
      BY <1>4, <2>2 DEF EndBatch
    <3>. QED BY <3>1, <3>2, LeaveIsOnward
  <2>. QED BY <2>1, <2>2
<1>5. ASSUME NEW p \in Providers, RemoveProvider(p) PROVE Onward
  BY <1>5, LeaveIsOnward DEF RemoveProvider
<1>6. CASE Flush
  BY <1>1, <1>6 DEF Flush
<1>. QED BY <1>2, <1>3, <1>4, <1>5, <1>6, TakeInIsOnward, SweepIsOnward DEF Next

\* No observation older than an object's newest takes its place, and while an object is there
\* nobody who fed it is forgotten and its position is not lost.
THEOREM NewestWinsHolds == Spec => NewestWins
<1>1. IInv /\ [Next]_vars => [Onward]_vars
  BY StepIsOnward
<1>2. [][Onward]_vars <=> NewestWins
  BY DEF Onward, NewestWins
<1>. QED BY <1>1, <1>2, IInvHolds, PTL DEF Spec
-----------------------------------------------------------------------------
(* References: what filter and slice leave of a sequence.                  *)

\* The positions kept are ranked 1, 2, ... in their order.
LEMMA RankFacts ==
  ASSUME NEW n \in Nat, NEW keep \in SUBSET (1..n)
  PROVE  /\ Cardinality(keep) \in 0..n
         /\ \A p \in keep : Rank(p, keep) \in 1..Cardinality(keep)
         /\ \A p, q \in keep : p < q => Rank(p, keep) < Rank(q, keep)
         /\ \A k \in 1..Cardinality(keep) : \E p \in keep : Rank(p, keep) = k
<1> DEFINE c == Cardinality(keep)
           low(p) == {m \in keep : m <= p}
           f == [p \in keep |-> Rank(p, keep)]
<1>0. keep \subseteq Int
  OBVIOUS
<1>1. IsFiniteSet(keep) /\ c \in 0..n
  <2>1. IsFiniteSet(1..n) /\ Cardinality(1..n) = n
    BY FS_Interval
  <2>2. IsFiniteSet(keep) /\ Cardinality(keep) <= Cardinality(1..n)
    BY <2>1, FS_Subset, Zenon
  <2>3. Cardinality(keep) \in Nat
    BY <2>2, FS_CardinalityType, Zenon
  <2>. QED BY <2>1, <2>2, <2>3
<1>2. ASSUME NEW p \in keep
      PROVE  IsFiniteSet(low(p)) /\ Rank(p, keep) = Cardinality(low(p)) /\ Rank(p, keep) \in 1..c
  <2>1. p \in low(p) /\ low(p) \in SUBSET keep
    OBVIOUS
  <2>2. IsFiniteSet(low(p)) /\ Cardinality(low(p)) <= c
    BY <1>1, <2>1, FS_Subset, Zenon
  <2>3. Cardinality(low(p)) \in Nat
    BY <2>2, FS_CardinalityType, Zenon
  <2>4. Cardinality(low(p)) # 0
    BY <2>1, <2>2, FS_EmptySet, Zenon
  <2>. QED BY <1>1, <2>2, <2>3, <2>4 DEF Rank
<1>3. \A p \in keep : Rank(p, keep) \in 1..c
  BY <1>2, Zenon
<1>4. \A p \in keep : Rank(p, keep) \in Int
  <2>. HIDE DEF c
  <2>. QED BY <1>3
<1>5. ASSUME NEW p \in keep, NEW q \in keep, p < q
      PROVE  Rank(p, keep) < Rank(q, keep)
  <2>1. low(p) \in SUBSET low(q) /\ q \in low(q) /\ q \notin low(p)
    <3>1. p \in Int /\ q \in Int /\ ~(q <= p) /\ q <= q
      BY <1>0, <1>5
    <3>2. \A m \in keep : m <= p => m <= q
      BY <1>0, <1>5, <3>1
    <3>. QED BY <3>1, <3>2, Zenon
  <2>2. /\ Cardinality(low(p)) <= Cardinality(low(q))
        /\ Cardinality(low(q)) = Cardinality(low(p)) => low(q) = low(p)
    BY <1>2, <2>1, FS_Subset, Zenon
  <2>3. Rank(p, keep) <= Rank(q, keep) /\ Rank(p, keep) # Rank(q, keep)
    <3>1. low(q) # low(p)
      BY <2>1, Zenon
    <3>2. Rank(p, keep) = Cardinality(low(p)) /\ Rank(q, keep) = Cardinality(low(q))
      BY <1>2
    <3>. HIDE DEF low
    <3>. QED BY <2>2, <3>1, <3>2
  <2>. QED BY <2>3, <1>4
<1>. HIDE DEF low, c
<1>6. f \in Injection(keep, 1..c)
  <2>1. f \in [keep -> 1..c]
    BY <1>3
  <2>2. ASSUME NEW p \in keep, NEW q \in keep, Rank(p, keep) = Rank(q, keep)
        PROVE  p = q
    <3>1. p \in Int /\ q \in Int /\ Rank(q, keep) \in Int
      BY <1>0, <1>4
    <3>2. ~(p < q) /\ ~(q < p)
      BY <1>5, <2>2, <3>1
    <3>. QED BY <3>1, <3>2
  <2>. QED BY <2>1, <2>2 DEF Injection, IsInjective
<1>. HIDE DEF f
<1>7. IsFiniteSet(1..c) /\ Cardinality(1..c) = c
  BY <1>1, FS_Interval
<1>8. c = Cardinality(keep)
  BY DEF c
<1>9. f \in Surjection(keep, 1..c)
  BY <1>6, <1>7, <1>8, FS_Injection
<1>10. \A k \in 1..c : \E p \in keep : Rank(p, keep) = k
  BY <1>9 DEF Surjection, f
<1>. QED BY <1>1, <1>3, <1>5, <1>8, <1>10

\* f takes the places of t to the places of s that are kept, all of them and in order.
Picks(f, t, s, keep) ==
  /\ f \in [1..Len(t) -> keep]
  /\ \A k \in 1..Len(t) : t[k] = s[f[k]]
  /\ \A k, l \in 1..Len(t) : k < l => f[k] < f[l]
  /\ \A p \in keep : \E k \in 1..Len(t) : f[k] = p

\* What is kept: those entries and no other, each once, in the order they had.
LEMMA KeptFacts ==
  ASSUME NEW S, NEW s \in Seq(S), NEW keep \in SUBSET DOMAIN s
  PROVE  /\ Kept(s, keep) \in Seq(S) /\ Len(Kept(s, keep)) = Cardinality(keep)
         /\ Len(Kept(s, keep)) \in 0..Len(s)
         /\ \E f : Picks(f, Kept(s, keep), s, keep)
<1> DEFINE c == Cardinality(keep)
           t == Kept(s, keep)
           f == [k \in 1..c |-> CHOOSE p \in keep : Rank(p, keep) = k]
<1>1. Len(s) \in Nat /\ DOMAIN s = 1..Len(s) /\ s \in [1..Len(s) -> S]
  BY LenProperties
<1>2. /\ c \in 0..Len(s)
      /\ \A p \in keep : Rank(p, keep) \in 1..c
      /\ \A p, q \in keep : p < q => Rank(p, keep) < Rank(q, keep)
      /\ \A k \in 1..c : \E p \in keep : Rank(p, keep) = k
  BY <1>1, RankFacts
<1>3. \A k \in 1..c : f[k] \in keep /\ Rank(f[k], keep) = k
  BY <1>2
<1>4. t = [k \in 1..c |-> s[f[k]]]
  BY DEF Kept
<1>. HIDE DEF f, t, c
<1>5. f \in [1..c -> keep]
  BY <1>3 DEF f
<1>6. t \in [1..c -> S]
  BY <1>1, <1>3, <1>4
<1>7. t \in Seq(S) /\ Len(t) = c
  <2>1. c \in Nat
    BY <1>2, <1>1
  <2>. QED BY <1>6, <2>1, SeqDef
<1>8. \A k, l \in 1..c : k < l => f[k] < f[l]
  <2>. SUFFICES ASSUME NEW k \in 1..c, NEW l \in 1..c, k < l, ~(f[k] < f[l])
                PROVE  FALSE
    OBVIOUS
  <2>1. f[k] \in Nat /\ f[l] \in Nat
    BY <1>1, <1>3
  <2>2. f[l] < f[k] \/ f[l] = f[k]
    BY <2>1
  <2>. QED BY <1>2, <1>3, <2>2
<1>9. \A p \in keep : \E k \in 1..c : f[k] = p
  <2>. SUFFICES ASSUME NEW p \in keep
                PROVE  f[Rank(p, keep)] = p
    BY <1>2
  <2> DEFINE k == Rank(p, keep)
  <2>1. k \in 1..c /\ f[k] \in keep /\ Rank(f[k], keep) = k
    BY <1>2, <1>3
  <2>2. p \in Nat /\ f[k] \in Nat
    BY <1>1, <2>1
  <2>3. ~(p < f[k]) /\ ~(f[k] < p)
    BY <1>1, <1>2, <2>1
  <2>. QED BY <2>2, <2>3
<1>10. Picks(f, t, s, keep)
  BY <1>3, <1>4, <1>5, <1>7, <1>8, <1>9 DEF Picks
<1>. QED BY <1>2, <1>7, <1>10 DEF t, c

Distinct(s) == \A m, n \in DOMAIN s : s[m] = s[n] => m = n

\* An object has references, no more than the cap, and none twice.
Referenced(o) ==
  /\ o.refs \in Seq(Ref) /\ Len(o.refs) \in 1..MaxSourceRefs
  /\ Distinct(o.refs)

\* Entries that are kept are those of the sequence, and stay distinct.
LEMMA KeptEntries ==
  ASSUME NEW S, NEW s \in Seq(S), NEW keep \in SUBSET DOMAIN s
  PROVE  LET t == Kept(s, keep) IN
         /\ t \in Seq(S) /\ Len(t) \in 0..Len(s) /\ DOMAIN t = 1..Len(t)
         /\ \A k \in DOMAIN t : \E n \in keep : t[k] = s[n]
         /\ \A n \in keep : \E k \in DOMAIN t : t[k] = s[n]
         /\ Distinct(s) => Distinct(t)
<1> DEFINE t == Kept(s, keep)
<1>1. /\ t \in Seq(S) /\ Len(t) \in 0..Len(s)
      /\ \E f : Picks(f, t, s, keep)
  BY KeptFacts
<1>. HIDE DEF t
<1>2. DOMAIN t = 1..Len(t) /\ DOMAIN s = 1..Len(s)
  BY <1>1, LenProperties
<1>3. PICK f : Picks(f, t, s, keep)
  BY <1>1
<1>4. /\ \A k \in DOMAIN t : \E n \in keep : t[k] = s[n]
      /\ \A n \in keep : \E k \in DOMAIN t : t[k] = s[n]
  BY <1>2, <1>3 DEF Picks
<1>5. ASSUME Distinct(s), NEW k \in DOMAIN t, NEW l \in DOMAIN t, t[k] = t[l]
      PROVE  k = l
  <2>1. f[k] \in keep /\ f[l] \in keep /\ s[f[k]] = s[f[l]]
    BY <1>2, <1>3, <1>5 DEF Picks
  <2>2. f[k] = f[l]
    BY <1>5, <2>1 DEF Distinct
  <2>3. k \in Int /\ l \in Int /\ f[k] \in Int
    BY <1>2, <2>1
  <2>4. ~(k < l) /\ ~(l < k)
    BY <1>2, <1>3, <2>2, <2>3 DEF Picks
  <2>. QED BY <2>3, <2>4
<1>. QED BY <1>1, <1>2, <1>4, <1>5 DEF t, Distinct

LEMMA NewRefsFacts ==
  ASSUME NEW refs \in Seq(Ref), Distinct(refs), NEW r \in Ref
  PROVE  LET new == NewRefs(refs, r) IN
         new \in Seq(Ref) /\ Len(new) \in 1..MaxSourceRefs /\ Distinct(new)
<1> DEFINE keep == {n \in DOMAIN refs : refs[n] # r}
           t == Kept(refs, keep)
           all == <<r>> \o t
           m == IF Len(all) < MaxSourceRefs THEN Len(all) ELSE MaxSourceRefs
           new == SubSeq(all, 1, m)
<1>1. /\ t \in Seq(Ref) /\ Len(t) \in Nat /\ DOMAIN t = 1..Len(t) /\ Distinct(t)
      /\ \A k \in DOMAIN t : \E n \in keep : t[k] = refs[n]
  <2>1. keep \in SUBSET DOMAIN refs
    OBVIOUS
  <2>. HIDE DEF keep
  <2>. QED BY <2>1, KeptEntries, LenProperties
<1>2. \A k \in 1..Len(t) : t[k] # r
  BY <1>1
<1>3. NewRefs(refs, r) = new
  BY DEF NewRefs, Others
<1>. HIDE DEF t
<1>4. <<r>> \in Seq(Ref) /\ Len(<<r>>) = 1 /\ <<r>>[1] = r
  OBVIOUS
<1>5. /\ all \in Seq(Ref) /\ Len(all) = 1 + Len(t)
      /\ \A k \in 1..Len(all) : all[k] = IF k = 1 THEN r ELSE t[k - 1]
  BY <1>1, <1>4, ConcatProperties
<1>. HIDE DEF all
<1>6. \A k \in 1..Len(all) : k # 1 => k - 1 \in DOMAIN t /\ all[k] = t[k - 1]
  BY <1>1, <1>5
<1>7. m \in 1..MaxSourceRefs /\ m <= Len(all)
  BY <1>1, <1>5, WorldAssumption
<1>. HIDE DEF m
<1>8. \A k \in 1..m : all[k] \in Ref
  BY <1>5, <1>7, ElementOfSeq
<1>9. new \in Seq(Ref) /\ Len(new) = m /\ \A k \in 1..m : new[k] = all[k]
  BY <1>7, <1>8, WorldAssumption, SubSeqProperties
<1>. HIDE DEF new
<1>10. ASSUME NEW k \in 1..m, NEW l \in 1..m, new[k] = new[l]
      PROVE  k = l
  <2>1. k \in 1..Len(all) /\ l \in 1..Len(all) /\ all[k] = all[l]
    BY <1>5, <1>7, <1>9, <1>10
  <2>2. CASE k = 1 \/ l = 1
    <3>1. \A j \in 1..Len(all) : all[j] = r => j = 1
      BY <1>1, <1>2, <1>6
    <3>. QED BY <1>5, <2>1, <2>2, <3>1
  <2>3. CASE k # 1 /\ l # 1
    <3>1. /\ k - 1 \in DOMAIN t /\ l - 1 \in DOMAIN t
          /\ t[k - 1] = t[l - 1]
      BY <1>6, <2>1, <2>3
    <3>2. k - 1 = l - 1
      BY <1>1, <3>1 DEF Distinct
    <3>. QED BY <3>2
  <2>. QED BY <2>2, <2>3
<1>11. DOMAIN new = 1..m
  BY <1>9, LenProperties
<1>. QED BY <1>3, <1>7, <1>9, <1>10, <1>11 DEF Distinct
\* The providers whose observations are referenced.
Givers(refs) == {refs[n].provider : n \in DOMAIN refs}

\* Without those of one provider: no more than there were, none twice, of all the others and
\* not of that one.
LEMMA NotOfFacts ==
  ASSUME NEW refs \in Seq(Ref), Distinct(refs), NEW p \in Providers,
         NEW rest, rest = NotOf(p, refs)
  PROVE  /\ rest \in Seq(Ref) /\ Len(rest) \in 0..Len(refs) /\ Distinct(rest)
         /\ Givers(rest) = Givers(refs) \ {p}
<1> DEFINE keep == {n \in DOMAIN refs : refs[n].provider # p}
<1>1. keep \in SUBSET DOMAIN refs
  OBVIOUS
<1>2. \A n \in DOMAIN refs : n \in keep <=> refs[n].provider # p
  OBVIOUS
<1>3. rest = Kept(refs, keep)
  BY DEF NotOf
<1>. HIDE DEF keep
<1>4. /\ rest \in Seq(Ref) /\ Len(rest) \in 0..Len(refs) /\ Distinct(rest)
      /\ \A k \in DOMAIN rest : \E n \in keep : rest[k] = refs[n]
      /\ \A n \in keep : \E k \in DOMAIN rest : rest[k] = refs[n]
  BY <1>1, <1>3, KeptEntries
<1>5. \A q : (\E n \in DOMAIN rest : rest[n].provider = q)
               <=> q # p /\ \E n \in DOMAIN refs : refs[n].provider = q
  BY <1>1, <1>2, <1>4
<1>6. Givers(rest) = Givers(refs) \ {p}
  BY <1>5 DEF Givers
<1>. QED BY <1>4, <1>6

-----------------------------------------------------------------------------
(* The references of every object, and the types.                          *)

\* Every object that is there has references, no more than the cap and none twice.
AllReferenced == \A i \in World : Referenced(objects[i])

\* Who fed an object is a provider, and the timer is set or not.
SideTyped == contributors \in [Ids -> SUBSET Providers] /\ timer \in BOOLEAN

LEMMA TakeInIsReferenced ==
  ASSUME IInv, AllReferenced,
         NEW i \in Ids, NEW t \in Times, NEW ends \in BOOLEAN, NEW live \in BOOLEAN,
         TakeIn(i, t, ends, live)
  PROVE  AllReferenced'
<1> DEFINE r == [provider |-> batch.provider, at |-> t]
<1>1. r \in Ref
  BY DEF TakeIn, Idle, IInv, SideShaped, BatchType, Ref
<1>2. \A j \in Ids \ {i} : objects'[j] = objects[j]
  BY DEF TakeIn, Insert, Merge, Put
<1>3. Referenced(objects'[i])
  <2>1. CASE Insert(i, t, live)
    <3> DEFINE p == batch.provider
               one == <<r>>
               new == [by |-> p, at |-> t, until |-> [by |-> p, from |-> t], live |-> live,
                       placed |-> p \in Placing, refs |-> one]
               next == [objects EXCEPT ![i] = new]
    <3>1. Put({i}, next)
      BY <2>1, Zenon DEF Insert
    <3>2. new.refs = one
      OBVIOUS
    <3>3. one \in Seq(Ref) /\ Len(one) = 1 /\ Distinct(one)
      BY <1>1 DEF Distinct
    <3>4. 1 \in 1..MaxSourceRefs
      BY WorldAssumption
    <3>. HIDE DEF new
    <3>5. objects'[i] = new
      BY <3>1 DEF Put, IInv, Shaped
    <3>. HIDE DEF one
    <3>. QED BY <3>2, <3>3, <3>4, <3>5 DEF Referenced
  <2>2. CASE Merge(i, t, ends, live)
    <3> DEFINE p == batch.provider
               o == objects[i]
               latest == IF Newer(o, t) THEN t ELSE o.at
               all == NewRefs(o.refs, r)
               merged == [by |-> IF Newer(o, t) THEN p ELSE o.by,
                          at |-> latest,
                          until |-> [by |-> p, from |-> IF ends THEN t ELSE latest],
                          live |-> live,
                          placed |-> o.placed \/ (Newer(o, t) /\ p \in Placing),
                          refs |-> all]
               next == [objects EXCEPT ![i] = merged]
    <3>1. i \in World /\ Put({i}, next)
      BY <2>2, Zenon DEF Merge
    <3>2. merged.refs = all
      OBVIOUS
    <3>3. all \in Seq(Ref) /\ Len(all) \in 1..MaxSourceRefs /\ Distinct(all)
      BY <1>1, <3>1, NewRefsFacts DEF AllReferenced, Referenced
    <3>. HIDE DEF merged
    <3>4. objects'[i] = merged
      BY <3>1 DEF Put, IInv, Shaped
    <3>. HIDE DEF all
    <3>. QED BY <3>2, <3>3, <3>4 DEF Referenced
  <2>. QED BY <2>1, <2>2 DEF TakeIn
<1>4. \A j \in World' : j # i => j \in World
  BY <1>2 DEF World
<1>. HIDE DEF r
<1>. QED BY <1>2, <1>3, <1>4 DEF AllReferenced, World

LEMMA LeaveIsReferenced ==
  ASSUME IInv, AllReferenced, NEW p \in Providers, NEW left \in SUBSET byProvider[p],
         NEW withdraws, Leave(p, left, withdraws)
  PROVE  AllReferenced'
<1> DEFINE others(i) == NotOf(p, objects[i].refs)
           gone == {i \in left : others(i) = <<>>}
           next == [i \in Ids |-> IF i \in gone THEN Absent
                                  ELSE [objects[i] EXCEPT !.refs = others(i)]]
<1>1. left \subseteq World /\ World \subseteq Ids /\ gone \subseteq left
  BY DEF IInv, IndexesAgree, World
<1>2. Put(left, next) /\ Forgotten(gone)
  BY Zenon DEF Leave
<1>3. \A i \in Ids : objects'[i] = IF i \in left THEN next[i] ELSE objects[i]
  BY <1>2 DEF Put
<1>4. \A i \in Ids : i \in gone => objects'[i] = Absent
  BY <1>1, <1>3
<1>5. ASSUME NEW i \in Ids, i \in left, i \notin gone
      PROVE  Referenced(objects'[i])
  <2> DEFINE rest == others(i)
  <2>1. objects'[i] = [objects[i] EXCEPT !.refs = rest]
    BY <1>1, <1>3, <1>5
  <2>2. Whole(objects[i])
    BY <1>1, <1>5, WorldIsGiven DEF IInv, Given
  <2>3. rest # <<>>
    BY <1>5
  <2>4. rest \in Seq(Ref) /\ Len(rest) \in 0..Len(objects[i].refs) /\ Distinct(rest)
    BY <1>1, <1>5, NotOfFacts DEF AllReferenced, Referenced
  <2>5. Len(objects[i].refs) \in 1..MaxSourceRefs
    BY <1>1, <1>5 DEF AllReferenced, Referenced
  <2>. HIDE DEF rest
  <2>6. objects'[i].refs = rest
    BY <2>1, <2>2 DEF Whole
  <2>7. Len(rest) # 0
    BY <2>3, <2>4, EmptySeq
  <2>. QED BY <2>4, <2>5, <2>6, <2>7, WorldAssumption DEF Referenced
<1>. HIDE DEF gone, next
<1>6. ASSUME NEW i \in World'
      PROVE  Referenced(objects'[i])
  <2>1. i \in Ids /\ i \notin gone
    BY <1>4, AbsentFacts DEF World
  <2>2. CASE i \in left
    BY <1>5, <2>1, <2>2
  <2>3. CASE i \notin left
    BY <1>3, <2>1, <2>3 DEF AllReferenced, World
  <2>. QED BY <2>2, <2>3
<1>. QED BY <1>6 DEF AllReferenced

LEMMA SweepIsReferenced ==
  ASSUME IInv, AllReferenced,
         NEW expired \in SUBSET World, NEW refreshed \in SUBSET (World \ expired),
         Sweep(expired, refreshed)
  PROVE  AllReferenced'
<1>1. World \subseteq Ids
  BY DEF World
<1>2. \A i \in Ids : objects'[i] = IF i \in expired THEN Absent
                                  ELSE IF i \in refreshed THEN [objects[i] EXCEPT !.live = ~@]
                                  ELSE objects[i]
  BY DEF Sweep
<1>3. \A i \in World \ expired : objects'[i].refs = objects[i].refs
  BY <1>1, <1>2, WorldIsGiven DEF IInv, Given, Whole
<1>4. \A i \in World' : i \in World \ expired
  BY <1>1, <1>2, AbsentFacts DEF World
<1>. QED BY <1>3, <1>4 DEF AllReferenced, Referenced

LEMMA StepIsReferenced ==
  ASSUME IInv, AllReferenced, SideTyped, [Next]_vars
  PROVE  AllReferenced' /\ SideTyped'
<1>1. UNCHANGED objects => AllReferenced'
  BY DEF AllReferenced, World
<1>2. ASSUME NEW gone, Forgotten(gone)
      PROVE  contributors' \in [Ids -> SUBSET Providers]
  BY <1>2 DEF Forgotten, SideTyped
<1>3. CASE \E p \in Providers, kind \in {"delta", "snapshot", "complete"} : BeginBatch(p, kind)
  BY <1>1, <1>3 DEF BeginBatch, SideTyped
<1>4. CASE \E i \in Ids : Refuse(i) \/ Again(i)
  BY <1>1, <1>4 DEF Refuse, Again, SideTyped
<1>5. ASSUME NEW i \in Ids, NEW t \in Times, NEW ends \in BOOLEAN, NEW live \in BOOLEAN,
             TakeIn(i, t, ends, live)
      PROVE  AllReferenced' /\ SideTyped'
  <2>1. batch.provider \in Providers
    BY <1>5 DEF TakeIn, Idle, IInv, SideShaped, BatchType
  <2>2. SideTyped'
    BY <1>5, <2>1 DEF TakeIn, Fed, SideTyped
  <2>. QED BY <1>5, <2>2, TakeInIsReferenced
<1>6. CASE EndBatch
  <2>1. CASE batch.kind = "delta"
    BY <1>1, <1>6, <2>1 DEF EndBatch, SideTyped
  <2>2. CASE batch.kind # "delta"
    <3>1. batch.provider \in Providers
      BY <1>6 DEF EndBatch, Idle, IInv, SideShaped, BatchType
    <3>2. Leave(batch.provider, byProvider[batch.provider] \ batch.seen, batch.kind = "complete")
      BY <1>6, <2>2 DEF EndBatch
    <3>3. SideTyped'
      BY <1>2, <1>6, <3>2 DEF EndBatch, Leave, SideTyped
    <3>. QED BY <3>1, <3>2, <3>3, LeaveIsReferenced
  <2>. QED BY <2>1, <2>2
<1>7. ASSUME NEW p \in Providers, RemoveProvider(p)
      PROVE  AllReferenced' /\ SideTyped'
  <2>1. SideTyped'
    BY <1>2, <1>7 DEF RemoveProvider, Leave, SideTyped
  <2>. QED BY <1>7, <2>1, LeaveIsReferenced DEF RemoveProvider
<1>8. ASSUME NEW expired \in SUBSET World, NEW refreshed \in SUBSET (World \ expired),
             Sweep(expired, refreshed)
      PROVE  AllReferenced' /\ SideTyped'
  <2>1. SideTyped'
    BY <1>2, <1>8 DEF Sweep, SideTyped
  <2>. QED BY <1>8, <2>1, SweepIsReferenced
<1>9. CASE Flush
  BY <1>1, <1>9 DEF Flush, SideTyped
<1>10. CASE UNCHANGED vars
  BY <1>1, <1>10 DEF vars, SideTyped
<1>. QED BY <1>3, <1>4, <1>5, <1>6, <1>7, <1>8, <1>9, <1>10 DEF Next

\* Every object that is there names the observations it was built from: at least one, no more
\* than the cap, and no observation twice, however often one is merged again, cut off or trimmed.
THEOREM AllReferencedHolds == Spec => [](AllReferenced /\ SideTyped)
<1>1. Init => AllReferenced /\ SideTyped
  <2>1. Init => World = {}
    BY AbsentFacts DEF Init, World
  <2>. QED BY <2>1 DEF Init, AllReferenced, SideTyped
<1>2. IInv /\ AllReferenced /\ SideTyped /\ [Next]_vars => AllReferenced' /\ SideTyped'
  BY StepIsReferenced
<1>. QED BY <1>1, <1>2, IInvHolds, PTL DEF Spec

\* Every variable has its type, and the references of an object never exceed their cap.
THEOREM TypeOKHolds == Spec => []TypeOK
<1>1. ASSUME IInv, AllReferenced, SideTyped
      PROVE  TypeOK
  <2>1. ASSUME NEW i \in Ids, objects[i] # Absent
        PROVE  objects[i] \in Object /\ Len(objects[i].refs) \in 1..MaxSourceRefs
    <3>1. Given(objects[i]) /\ i \in World
      BY <1>1, <2>1, WorldIsGiven DEF IInv, Shaped
    <3>2. objects[i].refs \in Seq(Ref) /\ Len(objects[i].refs) \in 1..MaxSourceRefs
      BY <1>1, <3>1 DEF AllReferenced, Referenced
    <3>. QED BY <3>1, <3>2 DEF Given, Whole, Object
  <2>2. /\ byProvider \in [Providers -> SUBSET Ids]
        /\ spatial \subseteq Ids
    BY <1>1 DEF IInv, SideShaped, IndexesAgree, World
  <2>. QED BY <1>1, <2>1, <2>2 DEF TypeOK, IInv, SideShaped, SideTyped
<1>. QED BY <1>1, IInvHolds, AllReferencedHolds, PTL
-----------------------------------------------------------------------------
(* What a provider leaves behind.                                          *)

\* Provider p is no longer a source of the objects in left, nor of any other object less than it
\* was; what had no other source is gone, and nothing else; no other provider loses anything.
LetGo(p, left) ==
  /\ byProvider'[p] = byProvider[p] \ left
  /\ \A q \in Providers \ {p} : byProvider'[q] = byProvider[q]
  /\ World' = World \ {i \in left : Sources(objects[i]) = {p}}

LetGoOf ==
  /\ \A p \in Providers : RemoveProvider(p) => LetGo(p, byProvider[p])
  /\ EndBatch /\ batch.kind # "delta" =>
       LetGo(batch.provider, byProvider[batch.provider] \ batch.seen)

\* A provider that is removed is a source of nothing any more, and one whose snapshot has been
\* taken in only of what that snapshot listed: what nobody else reports is gone, everything else
\* stays, with all its other sources.
DeparturesAreClean == [][LetGoOf]_vars

LEMMA LeaveIsClean ==
  ASSUME IInv, AllReferenced, NEW p \in Providers, NEW left \in SUBSET byProvider[p],
         NEW withdraws, Leave(p, left, withdraws)
  PROVE  LetGo(p, left)
<1> DEFINE others(i) == NotOf(p, objects[i].refs)
           gone == {i \in left : others(i) = <<>>}
           next == [i \in Ids |-> IF i \in gone THEN Absent
                                  ELSE [objects[i] EXCEPT !.refs = others(i)]]
           from(i) == {q \in Sources(objects[i]) : q # p}
<1>1. left \subseteq World /\ World \subseteq Ids /\ gone \subseteq left
  BY DEF IInv, IndexesAgree, World
<1>2. Put(left, next)
  BY Zenon DEF Leave
<1>3. \A i \in left : p \in Sources(objects[i])
  BY DEF IInv, IndexesAgree
<1>4. ASSUME NEW i \in left
      PROVE  /\ i \in gone <=> Sources(objects[i]) = {p}
             /\ Sources(next[i]) = from(i)
             /\ i \notin gone => next[i].by = objects[i].by
  <2> DEFINE refs == objects[i].refs
             rest == others(i)
  <2>1. refs \in Seq(Ref) /\ Distinct(refs) /\ Whole(objects[i])
    BY <1>1, <1>4, WorldIsGiven DEF IInv, AllReferenced, Referenced, Given
  <2>2. rest = NotOf(p, refs)
    OBVIOUS
  <2>3. i \in gone <=> rest = <<>>
    BY <1>4
  <2>4. next[i] = IF i \in gone THEN Absent ELSE [objects[i] EXCEPT !.refs = rest]
    BY <1>1, <1>4
  <2>5. Sources(objects[i]) = Givers(refs)
    BY DEF Sources, Givers
  <2>. HIDE DEF refs, rest, gone, next
  <2>6. rest \in Seq(Ref) /\ Givers(rest) = Givers(refs) \ {p}
    BY <2>1, <2>2, NotOfFacts
  <2>7. DOMAIN rest = {} <=> rest = <<>>
    <3>1. DOMAIN rest = 1..Len(rest) /\ Len(rest) \in Nat
      BY <2>6, LenProperties
    <3>2. Len(rest) = 0 <=> rest = <<>>
      BY <2>6, EmptySeq
    <3>3. Len(rest) # 0 => 1 \in DOMAIN rest
      BY <3>1
    <3>4. Len(rest) = 0 => DOMAIN rest = {}
      BY <3>1
    <3>. QED BY <3>2, <3>3, <3>4
  <2>8. i \notin gone => next[i].refs = rest /\ next[i].by = objects[i].by
    BY <2>1, <2>4 DEF Whole
  <2>9. from(i) = Givers(rest)
    BY <2>5, <2>6
  <2>10. i \in gone <=> from(i) = {}
    <3>1. from(i) = {} <=> DOMAIN rest = {}
      BY <2>9 DEF Givers
    <3>. QED BY <2>3, <2>7, <3>1
  <2>11. Sources(next[i]) = from(i)
    <3>1. CASE i \in gone
      BY <2>4, <2>10, <3>1, AbsentFacts
    <3>2. CASE i \notin gone
      BY <2>8, <2>9, <3>2 DEF Sources, Givers
    <3>. QED BY <3>1, <3>2
  <2>12. from(i) = {} <=> Sources(objects[i]) = {p}
    BY <1>3, <1>4
  <2>. QED BY <2>8, <2>10, <2>11, <2>12
<1>5. \A i \in gone : next[i] = Absent
  BY <1>1
<1>. HIDE DEF gone, next
<1>6. \A i \in Ids : objects'[i] = IF i \in left THEN next[i] ELSE objects[i]
  BY <1>2 DEF Put
<1>7. \A q \in Providers :
        byProvider'[q] =
          (byProvider[q] \ {i \in left : q \in Sources(objects[i]) /\ q \notin Sources(next[i])})
            \union {i \in left : q \in Sources(next[i])}
  BY <1>2 DEF Put, Reindexed
<1>8. byProvider'[p] = byProvider[p] \ left
  BY <1>3, <1>4, <1>7
<1>9. ASSUME NEW q \in Providers \ {p}
      PROVE  byProvider'[q] = byProvider[q]
  <2>1. \A i \in left : q \in Sources(next[i]) <=> q \in Sources(objects[i])
    BY <1>4
  <2>2. \A i \in left : q \in Sources(objects[i]) => i \in byProvider[q]
    BY <1>1 DEF IInv, IndexesAgree
  <2>. QED BY <1>7, <2>1, <2>2
<1>10. World' = World \ {i \in left : Sources(objects[i]) = {p}}
  <2>1. \A i \in left : i \in World' <=> i \notin gone
    BY <1>1, <1>4, <1>5, <1>6, AbsentFacts DEF World
  <2>2. \A i \in Ids \ left : i \in World' <=> i \in World
    BY <1>6 DEF World
  <2>3. World' \subseteq Ids
    BY DEF World
  <2>. QED BY <1>1, <1>4, <2>1, <2>2, <2>3
<1>. QED BY <1>8, <1>9, <1>10 DEF LetGo

\* No provider leaves anything behind, and none takes what others report.
THEOREM DeparturesAreCleanHolds == Spec => DeparturesAreClean
<1>1. ASSUME IInv, AllReferenced
      PROVE  LetGoOf
  <2>1. ASSUME NEW p \in Providers, RemoveProvider(p)
        PROVE  LetGo(p, byProvider[p])
    BY <1>1, <2>1, LeaveIsClean DEF RemoveProvider
  <2>2. ASSUME EndBatch, batch.kind # "delta"
        PROVE  LetGo(batch.provider, byProvider[batch.provider] \ batch.seen)
    <3>1. batch.provider \in Providers
      BY <1>1, <2>2 DEF EndBatch, Idle, IInv, SideShaped, BatchType
    <3>2. Leave(batch.provider, byProvider[batch.provider] \ batch.seen, batch.kind = "complete")
      BY <2>2 DEF EndBatch
    <3>. QED BY <1>1, <3>1, <3>2, LeaveIsClean
  <2>. QED BY <2>1, <2>2 DEF LetGoOf
<1>2. IInv /\ AllReferenced /\ [Next]_vars => [LetGoOf]_vars
  BY <1>1
<1>. QED BY <1>2, IInvHolds, AllReferencedHolds, PTL DEF Spec, DeparturesAreClean
=============================================================================

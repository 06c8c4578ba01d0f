----------------------------- MODULE WorldState -----------------------------
(***************************************************************************)
(* The live world (packages/state-engine/src/index.ts): observations of    *)
(* several providers merged into objects, the indexes kept beside them,    *)
(* and the changes collected for the next flush.                           *)
(*                                                                         *)
(* ingest() runs to its end without an await.  It is modelled one          *)
(* observation a step: BeginBatch, then TakeIn, Refuse or Again for each,  *)
(* then EndBatch with the removals of a snapshot; until EndBatch no other  *)
(* action is enabled.  Every other method is one action.                   *)
(*                                                                         *)
(* Durations are left out: an observation may be too old to be taken in,   *)
(* and a sweep may find any object expired or of another freshness.  The   *)
(* payload is left out but for whose it is (by).  Objects have one type.   *)
(* clear() and unsubscribing have no caller while the application runs.    *)
(*                                                                         *)
(*   objects       each identifier's object, Absent if it is not there     *)
(*   byProvider    the identifiers each provider is a source of            *)
(*   contributors  every provider that has fed the object                  *)
(*   spatial       the identifiers in the spatial index                    *)
(*   pending       what the next flush announces                           *)
(*   timer         a flush is scheduled                                    *)
(*   batch         the batch being taken in: how far it has got            *)
(*   view          what a listener that reads what it is told of has seen  *)
(***************************************************************************)
EXTENDS Integers, Sequences, FiniteSets

CONSTANTS
  Ids,            \* identifiers, as the identity rules resolve them
  Providers, NoProvider,
  Times,          \* when observations were made
  Placing,        \* providers whose observations have a position
  MaxSourceRefs

ASSUME WorldAssumption ==
  /\ NoProvider \notin Providers
  /\ Times \subseteq Nat
  /\ Placing \subseteq Providers
  /\ MaxSourceRefs \in Nat \ {0}

VARIABLES objects, byProvider, contributors, spatial, pending, timer, batch, view

vars == <<objects, byProvider, contributors, spatial, pending, timer, batch, view>>

\* An observation's id: its provider, its object (whose reference it becomes) and its time.
Ref == [provider : Providers, at : Times]

\* Whose word an object's validUntil is, and for an observation of when.
Until == [by : Providers, from : Times]

(***************************************************************************)
(*   by      the provider of the newest observation (provenance)           *)
(*   at      observedAt            until    validUntil                     *)
(*   live    the freshness class   placed   there is a position            *)
(***************************************************************************)
Object ==
  [by : Providers, at : Times, until : Until, live : BOOLEAN, placed : BOOLEAN, refs : Seq(Ref)]

Absent == [by |-> NoProvider, at |-> 0, until |-> [by |-> NoProvider, from |-> 0],
           live |-> FALSE, placed |-> FALSE, refs |-> <<>>]

World == {i \in Ids : objects[i].by # NoProvider}

\* What a listener reads of an object.
Shown(o) == [by |-> o.by, at |-> o.at, until |-> o.until, live |-> o.live, placed |-> o.placed]

Known == {i \in Ids : view[i].by # NoProvider}

NoChange == [added |-> {}, updated |-> {}, removed |-> {}, refreshed |-> {}, withdrawn |-> {}]

NoBatch == [provider |-> NoProvider, kind |-> "delta", seen |-> {}]

Idle == batch.provider = NoProvider

Init ==
  /\ objects = [i \in Ids |-> Absent]
  /\ byProvider = [p \in Providers |-> {}]
  /\ contributors = [i \in Ids |-> {}]
  /\ spatial = {}
  /\ pending = NoChange
  /\ timer = FALSE
  /\ batch = NoBatch
  /\ view = [i \in Ids |-> Shown(Absent)]

-----------------------------------------------------------------------------
(* insert, replace and delete: the objects in changed become those of      *)
(* next, and the indexes follow.                                           *)

Sources(o) == {o.refs[n].provider : n \in DOMAIN o.refs}

\* Faulty variant: a source whose last reference has gone stays in the index.
OnlyAdds(changed, next) ==
  [p \in Providers |-> byProvider[p] \union {i \in changed : p \in Sources(next[i])}]

Reindexed(changed, next) ==
  [p \in Providers |->
    (byProvider[p] \ {i \in changed : p \in Sources(objects[i]) /\ p \notin Sources(next[i])})
      \union {i \in changed : p \in Sources(next[i])}]

Put(changed, next) ==
  /\ objects' = [i \in Ids |-> IF i \in changed THEN next[i] ELSE objects[i]]
  /\ byProvider' = Reindexed(changed, next)
  /\ spatial' = (spatial \ changed) \union {i \in changed : next[i].placed}

\* What is pending once the objects in gone are deleted: what was added since is not announced.
Deleted(gone) ==
  [pending EXCEPT !.added = @ \ gone, !.removed = @ \union (gone \ pending.added),
                  !.updated = @ \ gone, !.refreshed = @ \ gone]

\* Faulty variant: contributors are those the references still name.
Listed(i, p) == contributors' = [contributors EXCEPT ![i] = Sources(objects'[i])]

Fed(i, p) == contributors' = [contributors EXCEPT ![i] = @ \union {p}]

Forgotten(gone) == contributors' = [i \in Ids |-> IF i \in gone THEN {} ELSE contributors[i]]

-----------------------------------------------------------------------------
(* ingest                                                                  *)

BeginBatch(p, kind) ==
  /\ Idle
  /\ batch' = [provider |-> p, kind |-> kind, seen |-> {}]
  /\ UNCHANGED <<objects, byProvider, contributors, spatial, pending, timer, view>>

See(i) == batch' = [batch EXCEPT !.seen = @ \union {i}]

\* An observation that is not taken in still counts as listed.
Refuse(i) ==
  /\ ~Idle /\ See(i)
  /\ UNCHANGED <<objects, byProvider, contributors, spatial, pending, timer, view>>

\* The very observation an object was last built from, handed in again.
Again(i) ==
  /\ ~Idle /\ i \in World
  /\ objects[i].refs[1].provider = batch.provider
  /\ See(i)
  /\ UNCHANGED <<objects, byProvider, contributors, spatial, pending, timer, view>>

\* Faulty variant: one who knew the object is told that it is new.
Announced(i) == [pending EXCEPT !.removed = @ \ {i}, !.added = @ \union {i}]

\* Removed since the last flush and back now: a change of it.
Returned(i) ==
  IF i \in pending.removed
  THEN [pending EXCEPT !.removed = @ \ {i}, !.withdrawn = @ \ {i}, !.updated = @ \union {i}]
  ELSE [pending EXCEPT !.added = @ \union {i}]

Insert(i, t, live) ==
  LET p == batch.provider
      new == [by |-> p, at |-> t, until |-> [by |-> p, from |-> t], live |-> live,
              placed |-> p \in Placing, refs |-> <<[provider |-> p, at |-> t]>>]
  IN  /\ i \notin World
      /\ Put({i}, [objects EXCEPT ![i] = new])
      /\ pending' = Returned(i)

Rank(n, keep) == Cardinality({m \in keep : m <= n})

\* Array.filter: the entries of s at the positions in keep, in their order.
Kept(s, keep) ==
  [k \in 1..Cardinality(keep) |-> s[CHOOSE n \in keep : Rank(n, keep) = k]]

Others(refs, r) == Kept(refs, {n \in DOMAIN refs : refs[n] # r})

\* Faulty variant: references pile up.
AllRefs(refs, r) == <<r>> \o Others(refs, r)

NewRefs(refs, r) ==
  LET all == <<r>> \o Others(refs, r)
  IN  SubSeq(all, 1, IF Len(all) < MaxSourceRefs THEN Len(all) ELSE MaxSourceRefs)

\* Faulty variant: whoever reports last wins.
LastWins(o, t) == TRUE

Newer(o, t) == t >= o.at

\* An observation that ends by its own word says so itself (effectiveUntil); otherwise the
\* policy of its provider counts from the newest observation.
Merge(i, t, ends, live) ==
  LET p == batch.provider
      o == objects[i]
      latest == IF Newer(o, t) THEN t ELSE o.at
      merged == [by |-> IF Newer(o, t) THEN p ELSE o.by,
                 at |-> latest,
                 until |-> [by |-> p, from |-> IF ends THEN t ELSE latest],
                 live |-> live,
                 placed |-> o.placed \/ (Newer(o, t) /\ p \in Placing),
                 refs |-> NewRefs(o.refs, [provider |-> p, at |-> t])]
  IN  /\ i \in World
      /\ Put({i}, [objects EXCEPT ![i] = merged])
      /\ pending' = IF i \in pending.added THEN pending
                    ELSE [pending EXCEPT !.updated = @ \union {i}]

TakeIn(i, t, ends, live) ==
  /\ ~Idle /\ See(i)
  /\ Insert(i, t, live) \/ Merge(i, t, ends, live)
  /\ Fed(i, batch.provider)
  /\ UNCHANGED <<timer, view>>

NotOf(p, refs) == Kept(refs, {n \in DOMAIN refs : refs[n].provider # p})

\* The objects in left lose their references to p; without any other they go.
Leave(p, left, withdraws) ==
  LET others(i) == NotOf(p, objects[i].refs)
      gone == {i \in left : others(i) = <<>>}
  IN  /\ Put(left, [i \in Ids |-> IF i \in gone THEN Absent
                                  ELSE [objects[i] EXCEPT !.refs = others(i)]])
      /\ Forgotten(gone)
      /\ LET after == Deleted(gone) IN
         pending' = IF ~withdraws THEN after
                    ELSE [after EXCEPT !.withdrawn = @ \union (gone \intersect after.removed)]

\* A snapshot takes what it leaves out from its provider; a complete one withdraws it.
EndBatch ==
  /\ ~Idle
  /\ IF batch.kind = "delta"
     THEN UNCHANGED <<objects, byProvider, contributors, spatial, pending>>
     ELSE Leave(batch.provider, byProvider[batch.provider] \ batch.seen,
                batch.kind = "complete")
  /\ timer' = TRUE
  /\ batch' = NoBatch
  /\ UNCHANGED view

-----------------------------------------------------------------------------
\* A provider was disabled, or is no more.
RemoveProvider(p) ==
  /\ Idle
  /\ Leave(p, byProvider[p], FALSE)
  /\ timer' = TRUE
  /\ UNCHANGED <<batch, view>>

\* Objects expire, and the freshness of others changes.
Sweep(expired, refreshed) ==
  /\ Idle /\ expired \union refreshed # {}
  /\ objects' = [i \in Ids |-> IF i \in expired THEN Absent
                               ELSE IF i \in refreshed THEN [objects[i] EXCEPT !.live = ~@]
                               ELSE objects[i]]
  /\ byProvider' = [p \in Providers |-> byProvider[p] \ {i \in expired : p \in Sources(objects[i])}]
  /\ spatial' = spatial \ expired
  /\ Forgotten(expired)
  /\ pending' = [Deleted(expired) EXCEPT !.refreshed = @ \union refreshed]
  /\ timer' = TRUE
  /\ UNCHANGED <<batch, view>>

-----------------------------------------------------------------------------
\* Faulty variant: an object's new freshness is not announced.
OnlyUpdates(c) == c.added \union c.updated

\* The listener reads what is new, changed or of another freshness.
Read(c) == c.added \union c.updated \union c.refreshed

\* What is announced: of several things that happened to an object, the first of these.
Change ==
  LET added == pending.added \ pending.removed
      updated == (pending.updated \ pending.removed) \ added
  IN  [added |-> added, updated |-> updated, removed |-> pending.removed,
       refreshed |-> ((pending.refreshed \ pending.removed) \ added) \ updated,
       withdrawn |-> pending.withdrawn]

\* flush(), by the timer or by a caller who does not wait for it.
Flush ==
  /\ Idle
  /\ view' = [i \in Ids |-> IF i \in Read(Change) THEN Shown(objects[i])
                            ELSE IF i \in Change.removed THEN Shown(Absent) ELSE view[i]]
  /\ pending' = NoChange
  /\ timer' = FALSE
  /\ UNCHANGED <<objects, byProvider, contributors, spatial, batch>>

TimerFires == timer /\ Flush

Next ==
  \/ \E p \in Providers, kind \in {"delta", "snapshot", "complete"} : BeginBatch(p, kind)
  \/ \E i \in Ids : Refuse(i) \/ Again(i)
  \/ \E i \in Ids, t \in Times, ends \in BOOLEAN, live \in BOOLEAN : TakeIn(i, t, ends, live)
  \/ EndBatch
  \/ \E p \in Providers : RemoveProvider(p)
  \/ \E expired \in SUBSET World : \E refreshed \in SUBSET (World \ expired) :
       Sweep(expired, refreshed)
  \/ Flush

Spec == Init /\ [][Next]_vars

\* A batch is finite.  A timer that is due has its turn between two batches.
FairSpec == Spec /\ WF_vars(EndBatch) /\ SF_vars(TimerFires)

-----------------------------------------------------------------------------
ChangeType == [added : SUBSET Ids, updated : SUBSET Ids, removed : SUBSET Ids,
               refreshed : SUBSET Ids, withdrawn : SUBSET Ids]

BatchType == [provider : Providers \union {NoProvider},
              kind : {"delta", "snapshot", "complete"}, seen : SUBSET Ids]

\* The type of every variable; references are capped.
TypeOK ==
  /\ \A i \in Ids : objects[i] # Absent =>
       objects[i] \in Object /\ Len(objects[i].refs) \in 1..MaxSourceRefs
  /\ byProvider \in [Providers -> SUBSET Ids]
  /\ contributors \in [Ids -> SUBSET Providers]
  /\ spatial \subseteq Ids
  /\ pending \in ChangeType
  /\ timer \in BOOLEAN
  /\ batch \in BatchType

\* The indexes agree with the objects: a provider's snapshot or departure finds everything it
\* is a source of and nothing else, and the map finds every object that has a position.
IndexesAgree ==
  /\ \A p \in Providers : byProvider[p] = {i \in World : p \in Sources(objects[i])}
  /\ spatial = {i \in World : objects[i].placed}

\* The next change says exactly what a listener does not know: what came and what went since
\* the last flush, however often in between, every change of what it has seen, and as withdrawn
\* only what is gone.
NewsIsExact ==
  /\ pending.added = World \ Known
  /\ pending.removed = Known \ World
  /\ pending.updated \subseteq World \intersect Known
  /\ pending.refreshed \subseteq World
  /\ pending.withdrawn \subseteq pending.removed
  /\ \A i \in World \intersect Known :
       view[i] # Shown(objects[i]) => i \in pending.updated \union pending.refreshed

\* Whoever gave what an object shows is named among those who fed it, whether or not its
\* references have been capped or trimmed since, until the object is gone.
GiversAreNamed ==
  \A i \in Ids :
    IF i \in World
    THEN {objects[i].by, objects[i].until.by} \subseteq contributors[i]
    ELSE contributors[i] = {}

\* As long as an object is there, no observation older than the newest takes its place, nobody
\* who fed it is forgotten, and it does not lose its position.
NewestWins ==
  [][\A i \in World : i \in World' =>
       /\ objects'[i].at >= objects[i].at
       /\ contributors[i] \subseteq contributors'[i]
       /\ objects[i].placed => objects'[i].placed]_vars

-----------------------------------------------------------------------------
Things ==
  [by : Providers, at : Times, until : Until, live : BOOLEAN, placed : BOOLEAN]
    \union {Shown(Absent)}

LV == INSTANCE LiveView WITH world <- [i \in Ids |-> Shown(objects[i])]

\* A listener has seen the whole world as it was at its last flush, and is told of every change
\* in the end: the world implements LiveView.
ListenersSeeTheWorld == LV!Spec
=============================================================================

--------------------------- MODULE SettingsProofs ---------------------------
(***************************************************************************)
(* Proofs about Settings.  Standing holds whatever the inputs; Switched,   *)
(* Kept and Once are built on it, each without the inputs that break the   *)
(* property it is for.                                                     *)
(***************************************************************************)
EXTENDS Settings, FiniteSetTheorems, SequenceTheorems, TLAPS

-----------------------------------------------------------------------------
(* What holds of every state.                                              *)

\* A queued document is complete, and is about a setting the schema knows.
QueuedWell ==
    \A i \in 1 .. Len(chain) :
        /\ chain[i].of \in Known(build)
        /\ chain[i].asks => chain[i].of \in Source
        /\ \A s \in Known(build) : chain[i].is.set[s] # Missing

\* Only an open store has anything under way.
AtRest == phase # "open" => chain = <<>> /\ ~refused /\ switching = {}

\* The phase says what the file may be.
InPhase ==
    /\ phase = "down" => backup = Nothing /\ ~failed
    /\ phase = "migrating" => ~failed /\ ToBeMigrated
    /\ phase = "resetting" => file = Nothing /\ current = Defaults(build)

Standing ==
    /\ TypeOK
    /\ QueuedWell
    /\ AtRest
    /\ InPhase
    /\ \A s \in Setting \ Known(build) : current.set[s] = Missing
    /\ \A w \in switching : w.of \in Known(build)
    /\ IsFiniteSet(switching) /\ choices + Cardinality(switching) <= MaxChoices
    /\ chain # <<>> => chain[Len(chain)].is = current
    /\ Settled

\* The last write that asks the host to switch its source shows what is in force.
LastAsking(i) ==
    /\ chain[i].asks
    /\ \A j \in i + 1 .. Len(chain) : chain[j].asks => chain[j].of # chain[i].of

LastAskingIsInForce ==
    \A i \in 1 .. Len(chain) :
        LastAsking(i) => chain[i].is.set[chain[i].of] = current.set[chain[i].of]

\* A source with nothing under way is as saved; one with a switch is as last switched, and one
\* whose switch waits to be saved will be.
Switched ==
    /\ \A w, x \in switching : w.of = x.of => w = x
    /\ LastAskingIsInForce
    /\ phase = "open" =>
        /\ \A w \in switching : host[w.of] = w.on /\ ~Asked(w.of)
        /\ \A s \in Source \ unapplied : ~UnderWay(s) /\ ~Asked(s) => host[s] = Switches(current)[s]

\* The choice a setting shows.
Nr(c, s) == IF c.set[s] = Missing THEN 0 ELSE c.set[s].nr

Keeps(c) == \A s \in Setting : promised[s] <= Nr(c, s)
Counted(c) == \A s \in Setting : Nr(c, s) <= choices
Below(c, d) == \A s \in Setting : Nr(c, s) <= Nr(d, s)

SomethingPromised == \E s \in Setting : promised[s] > 0

\* What is promised is in every document that may become the file.
Kept ==
    /\ file \in Doc => Counted(file.is) /\ file.version <= build
    /\ backup \in Doc => Counted(backup.is) /\ backup.version <= build
    /\ Counted(current)
    /\ SomethingPromised =>
        /\ file \in Doc /\ Keeps(file.is)
        /\ \A s \in Known(file.version) : file.is.set[s] # Missing
        /\ phase = "migrating" => backup \in Doc /\ Keeps(backup.is)
        /\ phase = "loading" => Valid(file)
    /\ \A s \in Setting : promised[s] > 0 => s \in Known(build)
    /\ phase = "open" => Keeps(current)
    /\ \A i \in 1 .. Len(chain) :
        /\ Keeps(chain[i].is) /\ Below(chain[i].is, current)
        /\ \A j \in i .. Len(chain) : Below(chain[i].is, chain[j].is)

\* These settings are what the migrations up to v made.
Exact(c, v) == \A n \in Version : c.ran[n] = IF n <= v THEN 1 ELSE 0

\* The migrations a document has had are those its version says, or will say.
Once ==
    /\ file \in Doc => Exact(file.is, file.version) /\ file.version <= build
    /\ backup \in Doc => Exact(backup.is, backup.version) /\ backup.version <= build
    /\ phase = "loading" /\ ~failed /\ file \in Doc => file.version = build
    /\ failed => chain = <<>> /\ switching = {}
    /\ phase = "open" /\ ~failed => Exact(current, build)
    /\ \A i \in 1 .. Len(chain) : Exact(chain[i].is, build)
-----------------------------------------------------------------------------
(* Documents.                                                              *)

LEMMA KnownLemma ==
  ASSUME NEW v \in Version
  PROVE  Known(v) \subseteq Setting /\ v \in 0 .. Newest /\ v \in Int
BY SettingsAssumption DEF Known, Version

\* The defaults are a value for what the schema knows, and nothing else.
LEMMA DefaultsLemma ==
  ASSUME NEW v \in Version
  PROVE  /\ Defaults(v) \in Content
         /\ \A s \in Known(v) : Defaults(v).set[s] = Given(s)
         /\ \A s \in Known(v) : Defaults(v).set[s] # Missing
         /\ \A s \in Setting \ Known(v) : Defaults(v).set[s] = Missing
<1>1. \A s \in Setting : Given(s) \in Choice
  BY SettingsAssumption DEF Given, Choice
<1>2. Known(v) \subseteq Setting
  BY KnownLemma
<1> QED
  BY <1>1, <1>2, SettingsAssumption DEF Defaults, Content

LEMMA BlankLemma == Blank \in Doc /\ Blank.version = 0
BY SettingsAssumption DEF Blank, Doc, Content

\* A migration makes settings of settings.
LEMMA MigratedLemma ==
  ASSUME NEW c \in Content, NEW n \in Version, build \in Version
  PROVE  /\ Migrated(c, n) \in Content
         /\ \A s \in Setting : c.set[s] # Missing => Migrated(c, n).set[s] # Missing
         /\ \A s \in Brought(n) : Migrated(c, n).set[s] # Missing
<1>1. \A s \in Setting : Given(s) \in Choice
  BY SettingsAssumption DEF Given, Choice
<1>2. Brought(n) \subseteq Setting
  BY DEF Brought, Known
<1> QED
  BY <1>1, <1>2, SettingsAssumption DEF Migrated, Content

\* What is loaded has what the schema knows, and nothing else.
LEMMA LoadedLemma ==
  ASSUME NEW f \in Doc \cup {Nothing}, build \in Version, f # Nothing => Valid(f)
  PROVE  /\ Loaded(f) \in Content
         /\ \A s \in Known(build) : Loaded(f).set[s] # Missing
         /\ \A s \in Setting \ Known(build) : Loaded(f).set[s] = Missing
         /\ f # Nothing => /\ Loaded(f).ran = f.is.ran
                           /\ \A s \in Known(build) : Loaded(f).set[s] = f.is.set[s]
<1>1. CASE f = Nothing
  BY <1>1, DefaultsLemma DEF Loaded
<1>2. CASE f # Nothing
  BY <1>2, KnownLemma DEF Loaded, Doc, Content, Valid
<1> QED
  BY <1>1, <1>2

\* What the store writes comes back as it was.
LEMMA SavedLemma ==
  ASSUME NEW c \in Content, build \in Version,
         \A s \in Setting \ Known(build) : c.set[s] = Missing
  PROVE  Saved(c) \in Doc /\ Loaded(Saved(c)) = c
<1>1. Saved(c) \in Doc
  BY KnownLemma DEF Saved, Doc
<1>2. Saved(c) # Nothing /\ Saved(c).is = c
  BY <1>1, FilesAssumption DEF Saved
<1>3. [s \in Setting |-> IF s \in Known(build) THEN c.set[s] ELSE Missing] = c.set
  BY DEF Content
<1>4. [c EXCEPT !.set = c.set] = c
  BY DEF Content
<1> QED
  BY <1>1, <1>2, <1>3, <1>4 DEF Loaded

-----------------------------------------------------------------------------
(* Standing: the start.                                                    *)

LEMMA NoWrites == <<>> \in Seq(Write)
OBVIOUS

LEMMA StandingInit == Init => Standing
<1> SUFFICES ASSUME Init PROVE Standing
  OBVIOUS
<1>1. /\ build \in Version /\ switching = {} /\ Cardinality(switching) = 0 /\ IsFiniteSet(switching)
      /\ unapplied = {}
  BY FS_EmptySet DEF Init
<1>2. file \in Doc \cup {Nothing, Broken}
  <2>1. ASSUME NEW n \in 0 .. build,
               NEW set \in [Setting -> [nr : {0}, on : BOOLEAN] \cup {Missing}]
        PROVE  [version |-> n,
                is |-> [set |-> set, ran |-> [m \in Version |-> IF m <= n THEN 1 ELSE 0]]] \in Doc
    <3>1. n \in 0 .. Newest
      BY <1>1, SettingsAssumption DEF Version
    <3>2. [nr : {0}, on : BOOLEAN] \subseteq Choice
      BY SettingsAssumption DEF Choice
    <3>3. set \in [Setting -> Choice \cup {Missing}]
      BY <3>2
    <3> QED
      BY <3>1, <3>3 DEF Doc, Content
  <2> QED
    BY <2>1 DEF Init
<1>3. TypeOK
  <2>1. promised \in [Setting -> 0 .. MaxChoices] /\ choices \in 0 .. MaxChoices
    BY SettingsAssumption DEF Init
  <2>2. host \in [Source -> BOOLEAN]
    BY SettingsAssumption DEF Init, ByDefault
  <2>3. /\ phase = "down" /\ backup = Nothing /\ failed = FALSE /\ chain = <<>> /\ refused = FALSE
        /\ current = Defaults(build) /\ told = Defaults(build)
    BY DEF Init
  <2> QED
    BY <1>1, <1>2, <2>1, <2>2, <2>3, NoWrites, DefaultsLemma DEF TypeOK
<1>4. /\ phase = "down" /\ backup = Nothing /\ failed = FALSE /\ chain = <<>> /\ refused = FALSE
      /\ current = Defaults(build) /\ choices = 0
  BY DEF Init
<1>6. QueuedWell /\ AtRest /\ InPhase /\ Settled
  BY <1>1, <1>4 DEF QueuedWell, AtRest, InPhase, Settled
<1>5. choices + Cardinality(switching) <= MaxChoices
  BY <1>1, <1>4, SettingsAssumption
<1> QED
  BY <1>1, <1>3, <1>4, <1>5, <1>6, DefaultsLemma DEF Standing

\* Types of a state where only the start has moved.
LEMMA StandingStart == Standing /\ Start => Standing'
<1> SUFFICES ASSUME Standing, Start PROVE Standing'
  OBVIOUS
<1> USE DEF disk, store, sources
<1>1. TypeOK'
  BY FilesAssumption DEF Standing, TypeOK, Start, ToBeMigrated, Known
<1> QED
  BY <1>1 DEF Standing, QueuedWell, AtRest, InPhase, Settled, Start, ToBeMigrated, Known

LEMMA DocumentLemma == Standing /\ phase = "migrating" => Document \in Doc /\ Document.version < build
BY BlankLemma DEF Standing, InPhase, TypeOK, ToBeMigrated, Document, Version

LEMMA StandingMigrate == Standing /\ Migrate => Standing'
<1> SUFFICES ASSUME Standing, Migrate PROVE Standing'
  OBVIOUS
<1> USE DEF store, sources
<1> DEFINE n == Document.version + 1
<1>0. build \in Version /\ promised \in [Setting -> 0 .. MaxChoices]
  BY DEF Standing, TypeOK
<1>1. Document \in Doc /\ n \in Version /\ n \in 0 .. Newest /\ n <= build
  BY <1>0, DocumentLemma, SettingsAssumption DEF Migrate, Doc, Version
<1>2. file' = [version |-> n, is |-> Migrated(Document.is, n)]
  BY DEF Migrate
<1> HIDE DEF n
<1>3. file' \in Doc /\ file'.version = n
  BY <1>0, <1>1, <1>2, MigratedLemma DEF Doc
<1>4. promised' \in [Setting -> 0 .. MaxChoices]
  BY <1>0, SettingsAssumption DEF Migrate
<1>5. phase' = IF n = build THEN "loading" ELSE "migrating"
  BY DEF Migrate, n
<1>6. TypeOK'
  BY <1>3, <1>4, <1>5 DEF Standing, TypeOK, Migrate, Known
<1>7. InPhase'
  <2>1. file' # Broken
    BY <1>3, FilesAssumption
  <2>2. n # build => n < build
    BY <1>0, <1>1 DEF Version
  <2> QED
    BY <1>3, <1>5, <2>1, <2>2 DEF InPhase, ToBeMigrated, Migrate, Standing
<1> QED
  BY <1>5, <1>6, <1>7 DEF Standing, QueuedWell, AtRest, Settled, Migrate, Known

LEMMA StandingMigrationFails == Standing /\ MigrationFails => Standing'
<1> SUFFICES ASSUME Standing, MigrationFails PROVE Standing'
  OBVIOUS
<1> USE DEF store, sources
<1>1. TypeOK'
  BY DEF Standing, TypeOK, MigrationFails, Known
<1> QED
  BY <1>1 DEF Standing, QueuedWell, AtRest, InPhase, Settled, MigrationFails, Known

LEMMA RegisteredLemma ==
  ASSUME NEW c \in Content PROVE Registered(c) \in [Source -> BOOLEAN]
BY SettingsAssumption DEF Registered, Switches, Content, Choice

LEMMA StandingLoad == Standing /\ Load => Standing'
<1> SUFFICES ASSUME Standing, Load PROVE Standing'
  OBVIOUS
<1> USE DEF disk
<1>1. file \in Doc \cup {Nothing} /\ (file # Nothing => Valid(file)) /\ build \in Version
  BY DEF Standing, TypeOK, Load
<1>2. /\ Loaded(file) \in Content
      /\ \A s \in Known(build) : Loaded(file).set[s] # Missing
      /\ \A s \in Setting \ Known(build) : Loaded(file).set[s] = Missing
  BY <1>1, LoadedLemma
<1>3. /\ current' = Loaded(file) /\ told' = Loaded(file) /\ host' = Registered(Loaded(file))
      /\ phase' = "open" /\ file' = file /\ build' = build /\ chain' = chain
      /\ Known(build)' = Known(build) /\ Loaded(file)' = Loaded(file)
  BY DEF Load, Known, Loaded, Defaults
<1>4. TypeOK'
  BY <1>2, <1>3, RegisteredLemma DEF Standing, TypeOK, Load
<1>5. chain = <<>> /\ ~refused /\ refused' = refused
  BY DEF Standing, AtRest, Load
<1>6. Settled'
  BY <1>3, <1>5, FilesAssumption DEF Settled, Load
<1>7. QueuedWell'
  BY <1>3, <1>5 DEF QueuedWell
<1> QED
  BY <1>2, <1>3, <1>4, <1>5, <1>6, <1>7 DEF Standing, AtRest, InPhase, Load

LEMMA StandingQuarantine == Standing /\ Quarantine => Standing'
<1> SUFFICES ASSUME Standing, Quarantine PROVE Standing'
  OBVIOUS
<1> USE DEF sources
<1>1. build \in Version /\ build' = build /\ Known(build)' = Known(build) /\ Defaults(build)' = Defaults(build)
  BY DEF Standing, TypeOK, Quarantine, Known, Defaults
<1>2. TypeOK'
  BY <1>1, DefaultsLemma DEF Standing, TypeOK, Quarantine
<1> QED
  BY <1>1, <1>2, DefaultsLemma DEF Standing, QueuedWell, AtRest, InPhase, Settled, Quarantine

LEMMA StandingReset == Standing /\ Reset => Standing'
<1> SUFFICES ASSUME Standing, Reset PROVE Standing'
  OBVIOUS
<1>1. /\ build \in Version /\ current \in Content
      /\ \A s \in Setting \ Known(build) : current.set[s] = Missing
  BY DEF Standing, TypeOK
<1>2. Saved(current) \in Doc /\ Loaded(Saved(current)) = current
  BY <1>1, SavedLemma
<1>3. /\ file' = Saved(current) /\ build' = build /\ current' = current /\ told' = current
      /\ host' = Registered(current) /\ chain' = chain /\ refused' = refused
      /\ Known(build)' = Known(build) /\ Loaded(file)' = Loaded(file')
  BY DEF Reset, Known, Loaded, Defaults
<1>4. TypeOK'
  BY <1>1, <1>2, <1>3, RegisteredLemma DEF Standing, TypeOK, Reset
<1>5. chain = <<>>
  BY DEF Standing, AtRest, Reset
<1>6. Settled'
  BY <1>2, <1>3, FilesAssumption DEF Settled, Reset
<1> QED
  BY <1>3, <1>4, <1>5, <1>6 DEF Standing, QueuedWell, AtRest, InPhase, Reset
-----------------------------------------------------------------------------
(* Standing: the open store and the sources.                               *)

LEMMA AppendLemma ==
  ASSUME NEW S, NEW q \in Seq(S), NEW x \in S
  PROVE  /\ Append(q, x) \in Seq(S) /\ Append(q, x) # <<>>
         /\ Len(Append(q, x)) = Len(q) + 1 /\ Append(q, x)[Len(q) + 1] = x
         /\ \A i \in 1 .. Len(q) : Append(q, x)[i] = q[i]
OBVIOUS

LEMMA TailLemma ==
  ASSUME NEW S, NEW q \in Seq(S), q # <<>>
  PROVE  /\ Head(q) \in S /\ Head(q) = q[1] /\ Len(q) \in Nat \ {0}
         /\ Tail(q) \in Seq(S) /\ Len(Tail(q)) = Len(q) - 1
         /\ \A i \in 1 .. Len(Tail(q)) : i + 1 \in 1 .. Len(q) /\ Tail(q)[i] = q[i + 1]
         /\ Tail(q) = <<>> => Len(q) = 1
<1>1. Len(q) \in Nat \ {0} /\ Head(q) \in S /\ Head(q) = q[1]
  OBVIOUS
<1>2. Tail(q) \in Seq(S) /\ Len(Tail(q)) = Len(q) - 1
  OBVIOUS
<1>3. \A i \in 1 .. Len(Tail(q)) : i + 1 \in 1 .. Len(q) /\ Tail(q)[i] = q[i + 1]
  BY <1>1, <1>2
<1>4. Tail(q) = <<>> => Len(Tail(q)) = 0
  BY <1>2, EmptySeq
<1> QED
  BY <1>1, <1>2, <1>3, <1>4

\* A patch of a known setting, with one choice left that no switch under way has taken.
LEMMA StandingPatch ==
  ASSUME Standing, phase = "open",
         NEW s \in Known(build), NEW on \in BOOLEAN, NEW asks \in BOOLEAN, Patch(s, on, asks),
         asks => s \in Source, unapplied' \subseteq Source,
         host' \in [Source -> BOOLEAN], switching' \subseteq switching,
         IsFiniteSet(switching'), choices + 1 + Cardinality(switching') <= MaxChoices
  PROVE  Standing'
<1> USE DEF disk, start
<1> DEFINE c == [current EXCEPT !.set[s] = [nr |-> choices + 1, on |-> on]]
<1>0. /\ TypeOK /\ QueuedWell /\ build \in Version
      /\ \A t \in Setting \ Known(build) : current.set[t] = Missing
      /\ \A t \in Known(build) : current.set[t] # Missing
  BY DEF Standing, TypeOK
<1>1. s \in Setting
  BY <1>0, KnownLemma
<1>2. choices + 1 \in 0 .. MaxChoices
  BY <1>0, FS_CardinalityType, SettingsAssumption DEF TypeOK
<1>3. c \in Content
  BY <1>0, <1>1, <1>2 DEF TypeOK, Content, Choice
<1>4. /\ \A t \in Known(build) : c.set[t] # Missing
      /\ \A t \in Setting \ Known(build) : c.set[t] = Missing
  <2>1. c.set[s] = [nr |-> choices + 1, on |-> on] /\ c.set[s] \in Choice
    BY <1>0, <1>1, <1>2 DEF TypeOK, Content, Choice
  <2>2. \A t \in Setting : t # s => c.set[t] = current.set[t]
    BY <1>0, <1>1 DEF TypeOK, Content
  <2> QED
    BY <1>0, <1>1, <2>1, <2>2, SettingsAssumption, KnownLemma
<1>5. /\ choices' = choices + 1 /\ current' = c /\ chain' = Append(chain, [of |-> s, is |-> c, asks |-> asks])
      /\ file' = file /\ build' = build /\ phase' = phase /\ refused' = refused
      /\ Known(build)' = Known(build)
  BY DEF Patch, Queued, Known
<1> HIDE DEF c
<1>6. /\ [of |-> s, is |-> c, asks |-> asks] \in Write
      /\ Len(chain') = Len(chain) + 1
      /\ chain'[Len(chain')] = [of |-> s, is |-> c, asks |-> asks]
      /\ \A i \in 1 .. Len(chain) : chain'[i] = chain[i]
      /\ chain' \in Seq(Write) /\ chain' # <<>>
  <2>1. [of |-> s, is |-> c, asks |-> asks] \in Write /\ chain \in Seq(Write)
    BY <1>0, <1>1, <1>3 DEF TypeOK, Write
  <2> QED
    BY <1>5, <2>1, AppendLemma
<1>7. TypeOK'
  BY <1>2, <1>3, <1>4, <1>5, <1>6, <1>0 DEF TypeOK, Patch
<1>8. QueuedWell'
  <2> SUFFICES ASSUME NEW i \in 1 .. Len(chain')
               PROVE  /\ chain'[i].of \in Known(build)
                      /\ chain'[i].asks => chain'[i].of \in Source
                      /\ \A t \in Known(build) : chain'[i].is.set[t] # Missing
    BY <1>5 DEF QueuedWell
  <2>1. CASE i = Len(chain')
    BY <2>1, <1>4, <1>6
  <2>2. CASE i # Len(chain')
    <3>1. i \in 1 .. Len(chain)
      BY <2>2, <1>6, <1>0 DEF TypeOK
    <3> QED
      BY <3>1, <1>0, <1>6 DEF QueuedWell
  <2> QED
    BY <2>1, <2>2
<1>9. Settled' /\ AtRest' /\ InPhase'
  BY <1>5, <1>6 DEF Settled, AtRest, InPhase
<1> QED
  BY <1>4, <1>5, <1>6, <1>7, <1>8, <1>9 DEF Standing

\* A choice asks the host when it is of a source, and only then.
LEMMA ChooseLemma ==
  ASSUME NEW s \in Setting, NEW on \in BOOLEAN, Choose(s, on)
  PROVE  \E asks \in BOOLEAN : (asks <=> s \in Source) /\ Patch(s, on, asks)
<1>1. CASE s \in Source
  <2>1. (s \in Source) = TRUE
    BY <1>1
  <2>2. Patch(s, on, TRUE)
    BY <2>1 DEF Choose
  <2> QED
    BY <1>1, <2>2
<1>2. CASE s \notin Source
  <2>1. (s \in Source) = FALSE
    BY <1>2
  <2>2. Patch(s, on, FALSE)
    BY <2>1 DEF Choose
  <2> QED
    BY <1>2, <2>2
<1> QED
  BY <1>1, <1>2

LEMMA StandingChoose ==
  ASSUME Standing, NEW s \in Setting, NEW on \in BOOLEAN, Choose(s, on)
  PROVE  Standing'
<1>0. PICK asks \in BOOLEAN : (asks <=> s \in Source) /\ Patch(s, on, asks)
  BY ChooseLemma
<1>1. phase = "open" /\ s \in Known(build)
      /\ host' = host /\ switching' = switching /\ unapplied' = unapplied
  BY DEF Choose, MayChange, sources
<1>2. Cardinality(switching) \in Nat /\ IsFiniteSet(switching) /\ choices \in Nat
  BY FS_CardinalityType DEF Standing, TypeOK
<1>3. choices + 1 + Cardinality(switching') <= MaxChoices
  BY <1>1, <1>2, SettingsAssumption DEF Choose
<1>4. host' \in [Source -> BOOLEAN] /\ unapplied' \subseteq Source
  BY <1>1 DEF Standing, TypeOK
<1> QED
  BY <1>0, <1>1, <1>2, <1>3, <1>4, StandingPatch

LEMMA StandingHostAnswers ==
  ASSUME Standing, NEW w \in switching, HostAnswers(w)
  PROVE  Standing'
<1>0. w.on \in BOOLEAN /\ w.of \in Source
  BY DEF Standing, TypeOK
<1>1. phase = "open" /\ Patch(w.of, w.on, FALSE) /\ host' = host /\ switching' = switching \ {w}
      /\ unapplied' = unapplied \ {w.of}
  BY DEF HostAnswers
<1>2. Cardinality(switching) \in Nat /\ IsFiniteSet(switching) /\ choices \in Nat
  BY FS_CardinalityType DEF Standing, TypeOK
<1>3. IsFiniteSet(switching') /\ Cardinality(switching') = Cardinality(switching) - 1
  BY <1>1, <1>2, FS_RemoveElement
<1>4. choices + 1 + Cardinality(switching') <= MaxChoices
  BY <1>2, <1>3, SettingsAssumption DEF Standing
<1>5. host' \in [Source -> BOOLEAN] /\ switching' \subseteq switching
      /\ unapplied' \subseteq Source
  BY <1>1 DEF Standing, TypeOK
<1>6. w.of \in Known(build)
  BY DEF Standing
<1> QED
  BY <1>0, <1>1, <1>3, <1>4, <1>5, <1>6, StandingPatch

LEMMA StandingSwitch ==
  ASSUME Standing, NEW s \in Setting, NEW on \in BOOLEAN, Switch(s, on)
  PROVE  Standing'
<1> USE DEF disk, start, store
<1>1. Cardinality(switching) \in Nat /\ IsFiniteSet(switching) /\ choices \in Nat
  BY FS_CardinalityType DEF Standing, TypeOK
<1>2. switching' = switching \cup {[of |-> s, on |-> on]} /\ [of |-> s, on |-> on] \notin switching
  BY DEF Switch
<1>3. IsFiniteSet(switching') /\ Cardinality(switching') = Cardinality(switching) + 1
  BY <1>1, <1>2, FS_AddElement
<1>4. choices' + Cardinality(switching') <= MaxChoices
  BY <1>1, <1>3, SettingsAssumption DEF Switch
<1>5. TypeOK'
  BY DEF Standing, TypeOK, Switch, Known
<1>6. phase = "open"
  BY DEF Switch, MayChange
<1> QED
  BY <1>3, <1>4, <1>5, <1>6 DEF Standing, QueuedWell, AtRest, InPhase, Settled, Switch, Known, Loaded, Defaults

LEMMA StandingWriteLands == Standing /\ WriteLands => Standing'
<1> SUFFICES ASSUME Standing, WriteLands PROVE Standing'
  OBVIOUS
<1> USE DEF start
<1> DEFINE write == Head(chain)
<1>0. /\ TypeOK /\ QueuedWell /\ build \in Version /\ chain \in Seq(Write) /\ chain # <<>>
      /\ \A t \in Setting \ Known(build) : current.set[t] = Missing
      /\ phase = "open" /\ current \in Content
  BY DEF Standing, TypeOK, WriteLands
<1>1. /\ write \in Write /\ write = chain[1] /\ 1 \in 1 .. Len(chain) /\ Len(chain) \in Nat
      /\ Tail(chain) \in Seq(Write) /\ Len(Tail(chain)) = Len(chain) - 1
      /\ \A i \in 1 .. Len(Tail(chain)) : i + 1 \in 1 .. Len(chain) /\ Tail(chain)[i] = chain[i + 1]
      /\ Tail(chain) = <<>> => Len(chain) = 1
  BY <1>0, TailLemma
<1>2. /\ file' = Saved(write.is) /\ chain' = Tail(chain) /\ told' = current /\ current' = current
      /\ promised' = [promised EXCEPT ![write.of] = write.is.set[write.of].nr]
      /\ build' = build /\ phase' = "open" /\ Known(build)' = Known(build)
      /\ Loaded(file)' = Loaded(file') /\ switching' = switching
      /\ unapplied' = IF write.asks THEN unapplied \ {write.of} ELSE unapplied
      /\ host' = IF write.asks THEN [host EXCEPT ![write.of] = write.is.set[write.of].on] ELSE host
  BY <1>0 DEF WriteLands, Applied, Known, Loaded, Defaults
<1>3. /\ write.is.set[write.of] \in Choice /\ write.is \in Content
      /\ write.asks => write.of \in Source
  BY <1>0, <1>1 DEF QueuedWell, Write, Content
<1> HIDE DEF write
<1>10. host' \in [Source -> BOOLEAN] /\ unapplied' \subseteq Source
  <2>1. host \in [Source -> BOOLEAN] /\ unapplied \subseteq Source
    BY <1>0 DEF TypeOK
  <2>2. write.is.set[write.of].on \in BOOLEAN
    BY <1>3 DEF Choice
  <2> QED
    BY <1>2, <1>3, <2>1, <2>2
<1>4. promised' \in [Setting -> 0 .. MaxChoices]
  BY <1>0, <1>2, <1>3 DEF TypeOK, Choice
<1>5. file' \in Doc
  BY <1>0, <1>2, <1>3, KnownLemma DEF Saved, Doc
<1>6. TypeOK'
  BY <1>0, <1>1, <1>2, <1>4, <1>5, <1>10 DEF TypeOK, WriteLands
<1>7. QueuedWell'
  BY <1>0, <1>1, <1>2 DEF QueuedWell
<1>8. chain' # <<>> => chain'[Len(chain')].is = current
  BY <1>0, <1>1, <1>2 DEF Standing
<1>9. Settled'
  <2>1. CASE chain' = <<>>
    <3>1. write.is = current
      BY <1>0, <1>1, <1>2, <2>1 DEF Standing
    <3>2. Loaded(file') = current
      BY <1>0, <1>2, <3>1, SavedLemma
    <3> QED
      BY <1>2, <1>5, <3>2, FilesAssumption DEF Settled
  <2>2. CASE chain' # <<>>
    BY <2>2 DEF Settled
  <2> QED
    BY <2>1, <2>2
<1> QED
  BY <1>0, <1>2, <1>6, <1>7, <1>8, <1>9 DEF Standing, AtRest, InPhase, WriteLands

LEMMA StandingWriteFails == Standing /\ WriteFails => Standing'
<1> SUFFICES ASSUME Standing, WriteFails PROVE Standing'
  OBVIOUS
<1> USE DEF disk, start
<1>0. TypeOK /\ QueuedWell /\ chain \in Seq(Write) /\ chain # <<>> /\ phase = "open"
  BY DEF Standing, TypeOK, WriteFails
<1>1. /\ Len(chain) \in Nat /\ Tail(chain) \in Seq(Write) /\ Len(Tail(chain)) = Len(chain) - 1
      /\ \A i \in 1 .. Len(Tail(chain)) : i + 1 \in 1 .. Len(chain) /\ Tail(chain)[i] = chain[i + 1]
      /\ Tail(chain) = <<>> => Len(chain) = 1
      /\ Head(chain) = chain[1] /\ 1 \in 1 .. Len(chain)
  BY <1>0, TailLemma
<1>2. /\ chain' = Tail(chain) /\ current' = current /\ phase' = phase /\ refused' = TRUE
      /\ Known(build)' = Known(build)
      /\ unapplied' = IF chain[1].asks THEN unapplied \cup {chain[1].of} ELSE unapplied
  BY <1>1 DEF WriteFails, Known
<1>6. unapplied' \subseteq Source
  BY <1>0, <1>1, <1>2 DEF TypeOK, QueuedWell
<1>3. TypeOK'
  BY <1>0, <1>1, <1>2, <1>6 DEF TypeOK, WriteFails
<1>4. QueuedWell'
  BY <1>0, <1>1, <1>2 DEF QueuedWell
<1>5. chain' # <<>> => chain'[Len(chain')].is = current
  BY <1>0, <1>1, <1>2 DEF Standing
<1> QED
  BY <1>0, <1>2, <1>3, <1>4, <1>5 DEF Standing, AtRest, InPhase, Settled, WriteFails

-----------------------------------------------------------------------------
(* Standing: sessions and versions.                                        *)

LEMMA StandingQuit == Standing /\ Quit => Standing'
<1> SUFFICES ASSUME Standing, Quit PROVE Standing'
  OBVIOUS
<1> USE DEF disk
<1>1. /\ build \in Version /\ Known(build)' = Known(build) /\ current' = Defaults(build)
      /\ told' = Defaults(build) /\ chain' = <<>> /\ refused' = FALSE /\ switching' = {}
      /\ phase' = "down" /\ backup' = Nothing /\ failed' = FALSE /\ choices' = choices
  BY DEF Standing, TypeOK, Quit, Known
<1>2. IsFiniteSet(switching') /\ Cardinality(switching') = 0
  BY <1>1, FS_EmptySet
<1>3. choices + Cardinality(switching') <= MaxChoices
  BY <1>2, SettingsAssumption DEF Standing, TypeOK
<1>4. TypeOK'
  <2>1. /\ host' \in [Source -> BOOLEAN] /\ file' = file /\ promised' = promised /\ build' = build
        /\ unapplied' = {}
    BY SettingsAssumption DEF Quit, ByDefault
  <2> QED
    BY <1>1, <2>1, NoWrites, DefaultsLemma DEF Standing, TypeOK
<1>5. QueuedWell' /\ AtRest' /\ InPhase' /\ Settled'
  BY <1>1 DEF QueuedWell, AtRest, InPhase, Settled
<1> QED
  BY <1>1, <1>2, <1>3, <1>4, <1>5, DefaultsLemma DEF Standing

LEMMA StandingInstall ==
  ASSUME Standing, NEW v \in Version, Install(v)
  PROVE  Standing'
<1> USE DEF start, sources
<1>1. /\ build' = v /\ Known(build)' = Known(v) /\ current' = Defaults(v) /\ told' = Defaults(v)
      /\ phase = "down" /\ phase' = "down" /\ chain' = <<>> /\ switching' = {} /\ switching = {}
      /\ choices' = choices /\ refused' = refused /\ ~refused
  BY DEF Standing, AtRest, Install, Known
<1>2. TypeOK'
  BY <1>1, DefaultsLemma DEF Standing, TypeOK, Install
<1>3. QueuedWell' /\ AtRest' /\ InPhase' /\ Settled'
  BY <1>1 DEF Standing, QueuedWell, AtRest, InPhase, Settled, Install
<1> QED
  BY <1>1, <1>2, <1>3, DefaultsLemma DEF Standing

LEMMA StandingStutter == Standing /\ UNCHANGED vars => Standing'
BY DEF Standing, TypeOK, QueuedWell, AtRest, InPhase, Settled, Loaded, Defaults, Known,
       ToBeMigrated, vars, disk, start, store, sources

LEMMA StandingStep == Standing /\ [Next]_vars => Standing'
BY StandingStart, StandingMigrate, StandingMigrationFails, StandingLoad, StandingQuarantine,
   StandingReset, StandingChoose, StandingSwitch, StandingInstall, StandingWriteLands,
   StandingWriteFails, StandingHostAnswers, StandingQuit, StandingStutter
DEF Next, Starting, Operator

\* What holds of every state, whatever the inputs.
THEOREM StandingHolds == Spec => []Standing
BY StandingInit, StandingStep, PTL DEF Spec

\* The type invariant, for any settings, versions and migrations.
THEOREM TypeOKHolds == Spec => []TypeOK
<1>1. Standing => TypeOK
  BY DEF Standing
<1> QED
  BY <1>1, StandingHolds, PTL

\* With nothing under way a new start comes up with what is in force, whatever failed before.
THEOREM SettledHolds == Spec => []Settled
<1>1. Standing => Settled
  BY DEF Standing
<1> QED
  BY <1>1, StandingHolds, PTL

-----------------------------------------------------------------------------
(* Patches.                                                                *)

\* A patch changes one setting, and queues what is then in force.
LEMMA PatchLemma ==
  ASSUME Standing, Standing', NEW s \in Known(build), NEW on \in BOOLEAN,
         NEW asks \in BOOLEAN, Patch(s, on, asks)
  PROVE  /\ s \in Setting
         /\ current'.ran = current.ran
         /\ current'.set[s] = [nr |-> choices + 1, on |-> on]
         /\ current'.set[s] # Missing
         /\ \A t \in Setting : t # s => current'.set[t] = current.set[t]
         /\ Len(chain') = Len(chain) + 1 /\ Len(chain) \in Nat
         /\ chain'[Len(chain) + 1] = [of |-> s, is |-> current', asks |-> asks]
         /\ chain'[Len(chain) + 1].is = current'
         /\ \A i \in 1 .. Len(chain) : chain'[i] = chain[i]
<1>1. /\ current' = [current EXCEPT !.set[s] = [nr |-> choices + 1, on |-> on]]
      /\ chain' = Append(chain, [of |-> s, is |-> current', asks |-> asks])
  BY DEF Patch, Queued
<1>2. current \in Content /\ current' \in Content /\ s \in Setting /\ chain \in Seq(Write)
  BY KnownLemma DEF Standing, TypeOK
<1>3. [of |-> s, is |-> current', asks |-> asks] \in Write
  BY <1>2 DEF Write
<1>4. /\ current'.set[s] = [nr |-> choices + 1, on |-> on]
      /\ \A t \in Setting : t # s => current'.set[t] = current.set[t]
      /\ current'.ran = current.ran
  BY <1>1, <1>2 DEF Content
<1>5. current'.set[s] # Missing
  BY DEF Standing, TypeOK, Patch, disk, Known
<1>6. Len(chain) \in Nat
  BY <1>2
<1> QED
  BY <1>1, <1>2, <1>3, <1>4, <1>5, <1>6, AppendLemma

-----------------------------------------------------------------------------
(* The switches of the sources.                                            *)

NoOverlap == "overlap" \notin Inputs

\* What is asked is asked by an entry of the chain.
LEMMA AskedLemma ==
  ASSUME Standing, NEW s
  PROVE  Asked(s) <=> \E i \in 1 .. Len(chain) : chain[i].asks /\ chain[i].of = s
<1>1. DOMAIN chain = 1 .. Len(chain)
  BY DEF Standing, TypeOK
<1> QED
  BY <1>1 DEF Asked

LEMMA AskedNextLemma ==
  ASSUME Standing', NEW s
  PROVE  Asked(s)' <=> \E i \in 1 .. Len(chain') : chain'[i].asks /\ chain'[i].of = s
<1>1. DOMAIN chain' = 1 .. Len(chain')
  BY DEF Standing, TypeOK
<1> QED
  BY <1>1 DEF Asked

\* With no writes there is nothing to be asked.
LEMMA SwitchedAtRest ==
  ASSUME chain = <<>>, switching = {}, phase = "open" => host = Switches(current)
  PROVE  Switched
<1>1. Len(chain) = 0
  BY EmptySeq
<1>2. LastAskingIsInForce
  BY <1>1 DEF LastAskingIsInForce
<1>3. \A s \in Source : phase = "open" => host[s] = Switches(current)[s]
  OBVIOUS
<1> QED
  BY <1>2, <1>3 DEF Switched

LEMMA SwitchedInit == Init => Switched
BY SwitchedAtRest DEF Init

\* Coming up, the sources are what is in force says they are.
LEMMA SwitchedComesUp ==
  ASSUME Standing, phase # "open", phase' # "open" \/ host' = Registered(current'),
         chain' = chain, switching' = switching
  PROVE  Switched'
<1>1. switching' = {} /\ chain' = <<>>
  BY DEF Standing, AtRest
<1>2. phase' = "open" => host' = Switches(current)'
  BY DEF Registered, Switches
<1>3. Len(chain') = 0
  BY <1>1, EmptySeq
<1>4. LastAskingIsInForce'
  BY <1>3 DEF LastAskingIsInForce
<1>5. \A s \in Source : phase' = "open" => host'[s] = Switches(current)'[s]
  BY <1>2
<1> QED
  BY <1>1, <1>4, <1>5 DEF Switched

\* A patch shows in the switches as what it is of.
LEMMA SwitchesOfPatch ==
  ASSUME Standing, Standing', NEW s \in Known(build), NEW on \in BOOLEAN,
         NEW asks \in BOOLEAN, Patch(s, on, asks)
  PROVE  /\ s \in Source => Switches(current)'[s] = on
         /\ \A t \in Source : t # s => Switches(current)'[t] = Switches(current)[t]
<1>1. /\ current'.set[s] = [nr |-> choices + 1, on |-> on] /\ current'.set[s] # Missing
      /\ \A t \in Setting : t # s => current'.set[t] = current.set[t]
  BY PatchLemma
<1> QED
  BY <1>1, SettingsAssumption DEF Switches

\* A choice of a source waits to be saved, and the host to be asked.
LEMMA SwitchedChoose ==
  ASSUME NoOverlap, Standing, Standing', Switched,
         NEW s \in Setting, NEW on \in BOOLEAN, Choose(s, on)
  PROVE  Switched'
<1>0. PICK asks \in BOOLEAN : (asks <=> s \in Source) /\ Patch(s, on, asks)
  BY ChooseLemma
<1>1. /\ s \in Known(build) /\ phase = "open" /\ phase' = phase
      /\ host' = host /\ switching' = switching /\ unapplied' = unapplied /\ ~UnderWay(s)
  BY DEF Choose, Patch, MayChange, sources, start, NoOverlap
<1>2. /\ Len(chain') = Len(chain) + 1 /\ Len(chain) \in Nat
      /\ chain'[Len(chain) + 1] = [of |-> s, is |-> current', asks |-> asks]
      /\ \A i \in 1 .. Len(chain) : chain'[i] = chain[i]
      /\ \A t \in Setting : t # s => current'.set[t] = current.set[t]
  BY <1>0, <1>1, PatchLemma
<1>7. /\ chain'[Len(chain) + 1].of = s /\ chain'[Len(chain) + 1].is = current'
      /\ chain'[Len(chain) + 1].asks <=> s \in Source
      /\ 1 .. Len(chain') = (1 .. Len(chain)) \cup {Len(chain) + 1}
  BY <1>0, <1>2
<1>3. \A t \in Source : t # s => Switches(current)'[t] = Switches(current)[t]
  BY <1>0, <1>1, SwitchesOfPatch
<1>4. \A t \in Source : Asked(t)' <=> Asked(t) \/ t = s
  BY <1>2, <1>7, AskedLemma, AskedNextLemma
<1>5. LastAskingIsInForce'
  <2> SUFFICES ASSUME NEW i \in 1 .. Len(chain'), LastAsking(i)'
               PROVE  chain'[i].is.set[chain'[i].of] = current'.set[chain'[i].of]
    BY DEF LastAskingIsInForce
  <2>1. CASE i = Len(chain) + 1
    BY <1>7, <2>1
  <2>2. CASE i \in 1 .. Len(chain)
    <3>1. chain[i].asks /\ chain'[i] = chain[i]
      BY <1>2, <2>2 DEF LastAsking
    <3>2. \A j \in i + 1 .. Len(chain) : chain[j].asks => chain[j].of # chain[i].of
      <4>1. \A j \in i + 1 .. Len(chain) : chain'[j] = chain[j] /\ j \in i + 1 .. Len(chain')
        BY <1>2, <2>2
      <4> QED
        BY <3>1, <4>1 DEF LastAsking
    <3>3. LastAsking(i)
      BY <3>1, <3>2 DEF LastAsking
    <3>4. chain[i].of \in Source
      BY <2>2, <3>1 DEF Standing, QueuedWell
    <3>5. chain[i].of # s
      <4>1. CASE s \notin Source
        BY <3>4, <4>1
      <4>2. CASE s \in Source
        <5>1. Len(chain) + 1 \in i + 1 .. Len(chain')
          BY <1>2, <2>2
        <5> QED
          BY <1>7, <3>1, <4>2, <5>1 DEF LastAsking
      <4> QED
        BY <4>1, <4>2
    <3>6. chain[i].is.set[chain[i].of] = current.set[chain[i].of]
      BY <2>2, <3>3 DEF Switched, LastAskingIsInForce
    <3> QED
      BY <1>2, <3>1, <3>4, <3>5, <3>6, SettingsAssumption
  <2> QED
    BY <1>7, <2>1, <2>2
<1>6. \A w \in switching : w.of \in Source /\ w.of # s
  BY <1>1 DEF UnderWay, Standing, TypeOK
<1> QED
  BY <1>1, <1>3, <1>4, <1>5, <1>6 DEF Switched, UnderWay

\* The host has a switch that is not in the settings yet.
LEMMA SwitchedSwitch ==
  ASSUME NoOverlap, Standing, Switched, NEW s \in Setting, NEW on \in BOOLEAN, Switch(s, on)
  PROVE  Switched'
<1> DEFINE w == [of |-> s, on |-> on]
<1>1. /\ s \in Source /\ phase = "open" /\ phase' = phase /\ current' = current /\ chain' = chain
      /\ host' = [host EXCEPT ![s] = on] /\ switching' = switching \cup {w}
      /\ unapplied' = unapplied /\ ~UnderWay(s) /\ ~Asked(s)
  BY DEF Switch, MayChange, store, start, NoOverlap
<1>2. host \in [Source -> BOOLEAN]
  BY DEF Standing, TypeOK
<1>3. w.of = s /\ w.on = on
  OBVIOUS
<1> HIDE DEF w
<1>4. Switches(current)' = Switches(current) /\ LastAskingIsInForce'
  BY <1>1 DEF Switches, Switched, LastAskingIsInForce, LastAsking
<1>5. \A t : Asked(t)' <=> Asked(t)
  BY <1>1 DEF Asked
<1>6. \A x \in switching : x.of \in Source /\ x.of # s
  BY <1>1 DEF UnderWay, Standing, TypeOK
<1> QED
  BY <1>1, <1>2, <1>3, <1>4, <1>5, <1>6 DEF Switched, UnderWay

\* What the host has is in the settings.
LEMMA SwitchedHostAnswers ==
  ASSUME Standing, Standing', Switched, NEW w \in switching, HostAnswers(w)
  PROVE  Switched'
<1>1. /\ phase = "open" /\ phase' = phase /\ switching' = switching \ {w}
      /\ Patch(w.of, w.on, FALSE) /\ host' = host /\ unapplied' = unapplied \ {w.of}
  BY DEF HostAnswers, Patch, start
<1>2. w.of \in Known(build) /\ w.on \in BOOLEAN /\ w.of \in Source
  BY DEF Standing, TypeOK
<1>3. /\ Switches(current)'[w.of] = w.on
      /\ \A t \in Source : t # w.of => Switches(current)'[t] = Switches(current)[t]
  BY <1>1, <1>2, SwitchesOfPatch
<1>8. /\ Len(chain') = Len(chain) + 1 /\ Len(chain) \in Nat
      /\ chain'[Len(chain) + 1] = [of |-> w.of, is |-> current', asks |-> FALSE]
      /\ \A i \in 1 .. Len(chain) : chain'[i] = chain[i]
      /\ \A t \in Setting : t # w.of => current'.set[t] = current.set[t]
  BY <1>1, <1>2, PatchLemma
<1>4. /\ Len(chain') = Len(chain) + 1 /\ Len(chain) \in Nat
      /\ ~chain'[Len(chain) + 1].asks
      /\ \A i \in 1 .. Len(chain) : chain'[i] = chain[i]
      /\ \A t \in Setting : t # w.of => current'.set[t] = current.set[t]
      /\ 1 .. Len(chain') = (1 .. Len(chain)) \cup {Len(chain) + 1}
  BY <1>8
<1>5. \A t \in Source : Asked(t)' <=> Asked(t)
  BY <1>4, AskedLemma, AskedNextLemma
<1>6. LastAskingIsInForce'
  <2> SUFFICES ASSUME NEW i \in 1 .. Len(chain'), LastAsking(i)'
               PROVE  chain'[i].is.set[chain'[i].of] = current'.set[chain'[i].of]
    BY DEF LastAskingIsInForce
  <2>1. i \in 1 .. Len(chain)
    BY <1>4 DEF LastAsking
  <2>4. chain[i].asks /\ chain'[i] = chain[i]
    BY <1>4, <2>1 DEF LastAsking
  <2>5. \A j \in i + 1 .. Len(chain) : chain'[j] = chain[j] /\ j \in i + 1 .. Len(chain')
    BY <1>4, <2>1
  <2>6. LastAsking(i)
    BY <2>4, <2>5 DEF LastAsking
  <2>2. LastAsking(i) /\ chain[i].of \in Source /\ Asked(chain[i].of)
    BY <2>1, <2>4, <2>6, AskedLemma DEF Standing, QueuedWell
  <2>3. chain[i].of # w.of
    BY <1>1, <2>2 DEF Switched
  <2> QED
    BY <1>4, <2>1, <2>2, <2>3, SettingsAssumption DEF Switched, LastAskingIsInForce
<1>7. \A x \in switching : x.of \in Source
  BY DEF Standing, TypeOK
<1> QED
  BY <1>1, <1>2, <1>3, <1>5, <1>6, <1>7 DEF Switched, UnderWay

\* When the first write has ended, its source is still to be asked of if a later one asks.
LEMMA WriteEnds ==
  ASSUME Standing, LastAskingIsInForce, chain # <<>>, chain' = Tail(chain), current' = current,
         NEW s, s = chain[1].of
  PROVE  /\ Head(chain) = chain[1] /\ LastAskingIsInForce'
         /\ chain[1].asks => s \in Source /\ Asked(s)
         /\ \A t : Asked(t)' => Asked(t)
         /\ \A t : Asked(t) /\ ~(chain[1].asks /\ t = s) => Asked(t)'
         /\ chain[1].asks /\ ~Asked(s)'
              => current.set[s] = chain[1].is.set[s] /\ current.set[s] # Missing
<1>1. /\ Head(chain) = chain[1] /\ Len(chain) \in Nat \ {0} /\ Len(chain') = Len(chain) - 1
      /\ \A i \in 1 .. Len(chain') : i + 1 \in 1 .. Len(chain) /\ chain'[i] = chain[i + 1]
      /\ 1 \in 1 .. Len(chain) /\ DOMAIN chain' = 1 .. Len(chain')
  BY TailLemma DEF Standing, TypeOK
<1>2. \A t : Asked(t)' <=> \E i \in 1 .. Len(chain') : chain'[i].asks /\ chain'[i].of = t
  BY <1>1 DEF Asked
<1>3. \A j \in 2 .. Len(chain) : j - 1 \in 1 .. Len(chain') /\ chain'[j - 1] = chain[j]
  BY <1>1
<1>4. \A t : Asked(t)' => Asked(t)
  BY <1>1, <1>2, AskedLemma
<1>5. ASSUME NEW t, Asked(t), ~(chain[1].asks /\ t = s) PROVE Asked(t)'
  <2>1. PICK i \in 1 .. Len(chain) : chain[i].asks /\ chain[i].of = t
    BY <1>5, AskedLemma
  <2>2. i \in 2 .. Len(chain)
    BY <1>1, <1>5, <2>1
  <2> QED
    BY <1>2, <1>3, <2>1, <2>2
<1>6. ASSUME chain[1].asks PROVE s \in Source /\ Asked(s)
  <2>1. chain[1].of \in Source
    BY <1>1, <1>6 DEF Standing, QueuedWell
  <2> QED
    BY <1>1, <1>6, <2>1, AskedLemma
<1>7. ASSUME chain[1].asks, ~Asked(s)'
      PROVE  current.set[s] = chain[1].is.set[s] /\ current.set[s] # Missing
  <2>1. \A j \in 2 .. Len(chain) : chain[j].asks => chain[j].of # s
    BY <1>2, <1>3, <1>7
  <2>2. LastAsking(1)
    BY <1>7, <2>1 DEF LastAsking
  <2>3. chain[1].of \in Known(build) /\ chain[1].is.set[chain[1].of] # Missing
    BY <1>1 DEF Standing, QueuedWell
  <2> QED
    BY <1>1, <2>2, <2>3 DEF LastAskingIsInForce
<1>8. LastAskingIsInForce'
  <2> SUFFICES ASSUME NEW i \in 1 .. Len(chain'), LastAsking(i)'
               PROVE  chain'[i].is.set[chain'[i].of] = current'.set[chain'[i].of]
    BY DEF LastAskingIsInForce
  <2>1. i + 1 \in 1 .. Len(chain) /\ chain'[i] = chain[i + 1]
    BY <1>1
  <2>2. ASSUME NEW j \in (i + 1) + 1 .. Len(chain), chain[j].asks PROVE chain[j].of # chain[i + 1].of
    <3>1. j \in 2 .. Len(chain) /\ j - 1 \in i + 1 .. Len(chain')
      BY <1>1
    <3> QED
      BY <1>3, <2>1, <2>2, <3>1 DEF LastAsking
  <2>3. LastAsking(i + 1)
    BY <2>1, <2>2 DEF LastAsking
  <2> QED
    BY <2>1, <2>3 DEF LastAskingIsInForce
<1> QED
  BY <1>1, <1>4, <1>5, <1>6, <1>7, <1>8

LEMMA SwitchedWriteLands == Standing /\ Switched /\ WriteLands => Switched'
<1> SUFFICES ASSUME Standing, Switched, WriteLands PROVE Switched'
  OBVIOUS
<1>1. /\ chain # <<>> /\ chain' = Tail(chain) /\ current' = current /\ switching' = switching
      /\ phase = "open" /\ LastAskingIsInForce
  BY DEF WriteLands, Switched
<1>0. PICK s : s = chain[1].of
  OBVIOUS
<1>2. /\ Head(chain) = chain[1] /\ LastAskingIsInForce'
      /\ chain[1].asks => s \in Source /\ Asked(s)
      /\ \A t : Asked(t)' => Asked(t)
      /\ \A t : Asked(t) /\ ~(chain[1].asks /\ s = t) => Asked(t)'
      /\ chain[1].asks /\ ~Asked(s)'
           => current.set[s] = chain[1].is.set[s] /\ current.set[s] # Missing
  BY <1>0, <1>1, WriteEnds
<1>3. Switches(current)' = Switches(current)
  BY <1>1 DEF Switches
<1>4. host \in [Source -> BOOLEAN] /\ \A w \in switching : w.of \in Source
  BY DEF Standing, TypeOK
<1>5. CASE ~chain[1].asks
  <2>1. host' = host /\ unapplied' = unapplied
    BY <1>0, <1>2, <1>5 DEF WriteLands, Applied
  <2> QED
    BY <1>1, <1>2, <1>3, <1>5, <2>1 DEF Switched, UnderWay
<1>6. CASE chain[1].asks
  <2>1. host' = [host EXCEPT ![s] = chain[1].is.set[s].on] /\ unapplied' = unapplied \ {s}
    BY <1>0, <1>2, <1>6 DEF WriteLands, Applied
  <2>2. \A w \in switching : w.of # s
    BY <1>1, <1>2, <1>6 DEF Switched
  <2>3. ~Asked(s)' => host'[s] = Switches(current)[s]
    BY <1>2, <1>4, <1>6, <2>1 DEF Switches
  <2>4. \A t \in Source : t # s => host'[t] = host[t]
    BY <1>4, <2>1
  <2>5. \A w \in switching : host'[w.of] = w.on /\ ~Asked(w.of)'
    BY <1>1, <1>2, <1>4, <2>2, <2>4 DEF Switched
  <2>6. ASSUME NEW t \in Source \ unapplied', ~UnderWay(t)', ~Asked(t)'
        PROVE  host'[t] = Switches(current)[t]
    <3>1. CASE t = s
      BY <2>3, <2>6, <3>1
    <3>2. CASE t # s
      <4>1. t \in Source \ unapplied /\ ~Asked(t)
        BY <1>2, <2>1, <2>6, <3>2
      <4>2. ~UnderWay(t)
        BY <1>1, <2>6 DEF UnderWay
      <4> QED
        BY <1>1, <2>4, <3>2, <4>1, <4>2 DEF Switched
    <3> QED
      BY <3>1, <3>2
  <2> QED
    BY <1>1, <1>2, <1>3, <2>5, <2>6 DEF Switched
<1> QED
  BY <1>5, <1>6

LEMMA SwitchedWriteFails == Standing /\ Switched /\ WriteFails => Switched'
<1> SUFFICES ASSUME Standing, Switched, WriteFails PROVE Switched'
  OBVIOUS
<1>1. /\ chain # <<>> /\ chain' = Tail(chain) /\ current' = current /\ switching' = switching
      /\ phase = "open" /\ host' = host /\ LastAskingIsInForce
  BY DEF WriteFails, Switched
<1>2. /\ Head(chain) = chain[1] /\ LastAskingIsInForce'
      /\ \A t : Asked(t)' => Asked(t)
      /\ \A t : Asked(t) /\ ~(chain[1].asks /\ chain[1].of = t) => Asked(t)'
  BY <1>1, WriteEnds
<1>3. unapplied' = IF chain[1].asks THEN unapplied \cup {chain[1].of} ELSE unapplied
  BY <1>2 DEF WriteFails
<1>4. Switches(current)' = Switches(current)
  BY <1>1 DEF Switches
<1>5. ASSUME NEW t \in Source \ unapplied', ~UnderWay(t)', ~Asked(t)'
      PROVE  host[t] = Switches(current)[t]
  <2>1. t \notin unapplied /\ ~Asked(t) /\ ~UnderWay(t)
    BY <1>1, <1>2, <1>3, <1>5 DEF UnderWay
  <2> QED
    BY <1>1, <2>1 DEF Switched
<1> QED
  BY <1>1, <1>2, <1>4, <1>5 DEF Switched

LEMMA SwitchedStep ==
  ASSUME NoOverlap, Standing, Standing', Switched, [Next]_vars
  PROVE  Switched'
<1>1. CASE Start \/ Migrate \/ MigrationFails \/ Quarantine
  BY <1>1, SwitchedComesUp DEF Start, Migrate, MigrationFails, Quarantine, sources, store
<1>2. CASE Load
  BY <1>2, SwitchedComesUp DEF Load
<1>3. CASE Reset
  BY <1>3, SwitchedComesUp DEF Reset
<1>4. ASSUME NEW s \in Setting, NEW on \in BOOLEAN, Choose(s, on) PROVE Switched'
  BY <1>4, SwitchedChoose
<1>5. ASSUME NEW s \in Setting, NEW on \in BOOLEAN, Switch(s, on) PROVE Switched'
  BY <1>5, SwitchedSwitch
<1>6. ASSUME NEW w \in switching, HostAnswers(w) PROVE Switched'
  BY <1>6, SwitchedHostAnswers
<1>7. ASSUME NEW v \in Version, Install(v) PROVE Switched'
  BY <1>7, SwitchedComesUp DEF Install, start, sources
<1>8. CASE WriteLands \/ WriteFails
  BY <1>8, SwitchedWriteLands, SwitchedWriteFails
<1>9. CASE Quit
  <2>1. chain' = <<>> /\ switching' = {} /\ phase' = "down"
    BY <1>9 DEF Quit
  <2>2. Len(chain') = 0
    BY <2>1, EmptySeq
  <2> QED
    BY <2>1, <2>2 DEF Switched, LastAskingIsInForce
<1>10. CASE UNCHANGED vars
  BY <1>10 DEF Switched, LastAskingIsInForce, LastAsking, Asked, UnderWay, Switches,
     vars, disk, start, store, sources
<1> QED
  BY <1>1, <1>2, <1>3, <1>4, <1>5, <1>6, <1>7, <1>8, <1>9, <1>10 DEF Next, Starting, Operator

\* When no switch is under way and none waits to be saved, the sources that are enabled are those
\* the settings in force say, in whichever way they were switched, if none is switched again while
\* its last switch is under way; but for those whose last settings.set could not be saved.
THEOREM SwitchIsRememberedHolds ==
  ASSUME NoOverlap
  PROVE  Spec => []SwitchIsRemembered
<1>1. Switched => SwitchIsRemembered
  BY DEF SwitchIsRemembered, Switched, UnderWay
<1>2. Standing /\ Switched /\ [Next]_vars => Standing' /\ Switched'
  BY StandingStep, SwitchedStep
<1>3. Init => Standing /\ Switched
  BY StandingInit, SwitchedInit
<1> QED
  BY <1>1, <1>2, <1>3, PTL DEF Spec

-----------------------------------------------------------------------------
(* The migrations a document has had.                                      *)

ByVersion == "afterFailure" \notin Inputs /\ "downgrade" \notin Inputs

LEMMA VersionsOfInit ==
  ASSUME Init
  PROVE  file \in Doc => Exact(file.is, file.version) /\ file.version <= build
<1>1. ASSUME NEW n \in 0 .. build,
             file.version = n, file.is.ran = [m \in Version |-> IF m <= n THEN 1 ELSE 0]
      PROVE  Exact(file.is, file.version) /\ file.version <= build
  BY <1>1 DEF Init, Version, Exact
<1>2. CASE file \in {Nothing, Broken}
  BY <1>2, FilesAssumption
<1>3. CASE \E n \in 0 .. build, set \in [Setting -> [nr : {0}, on : BOOLEAN] \cup {Missing}] :
             file = [version |-> n,
                     is |-> [set |-> set, ran |-> [m \in Version |-> IF m <= n THEN 1 ELSE 0]]]
  BY <1>3, <1>1
<1> QED
  BY <1>2, <1>3 DEF Init

LEMMA OnceInit == Init => Once
<1> SUFFICES ASSUME Init PROVE Once
  OBVIOUS
<1>1. backup = Nothing /\ failed = FALSE /\ phase = "down" /\ chain = <<>>
  BY DEF Init
<1> QED
  BY <1>1, VersionsOfInit, FilesAssumption DEF Once

LEMMA ExactDefaults == ASSUME NEW v \in Version PROVE Exact(Defaults(v), v)
BY DEF Exact, Defaults

\* A migration that follows the version of a document makes it one of the next version.
LEMMA ExactMigrated ==
  ASSUME NEW c \in Content, NEW v \in 0 .. Newest, v + 1 \in Version, Exact(c, v)
  PROVE  Exact(Migrated(c, v + 1), v + 1)
<1>1. Migrated(c, v + 1).ran = [c.ran EXCEPT ![v + 1] = @ + 1]
  BY DEF Migrated
<1>2. c.ran \in [Version -> Nat] /\ Version \subseteq Int /\ v \in Int
  BY SettingsAssumption DEF Content, Version
<1>3. SUFFICES ASSUME NEW n \in Version
               PROVE  Migrated(c, v + 1).ran[n] = IF n <= v + 1 THEN 1 ELSE 0
  BY DEF Exact
<1>4. CASE n = v + 1
  BY <1>1, <1>2, <1>4 DEF Exact
<1>5. CASE n # v + 1
  BY <1>1, <1>2, <1>5 DEF Exact
<1> QED
  BY <1>4, <1>5

LEMMA OnceStep ==
  ASSUME ByVersion, Standing, Standing', Once, [Next]_vars
  PROVE  Once'
<1> USE FilesAssumption
<1>0. build \in Version /\ build \in Int
  BY KnownLemma DEF Standing, TypeOK
<1>1. CASE Start
  <2>1. /\ file' = file /\ build' = build /\ chain' = chain /\ failed' = FALSE
        /\ phase' # "open" /\ backup' \in {file, Nothing}
    BY <1>1 DEF Start, disk, store
  <2>2. phase' = "loading" /\ file \in Doc => file.version = build
    <3>1. file \in Doc => file.version \in Int /\ file.version <= build
      BY SettingsAssumption DEF Once, Doc
    <3> QED
      BY <1>0, <1>1, <3>1 DEF Start, ToBeMigrated
  <2> QED
    BY <2>1, <2>2 DEF Once
<1>2. CASE Migrate
  <2> DEFINE n == Document.version + 1
  <2>1. /\ phase = "migrating" /\ file' = [version |-> n, is |-> Migrated(Document.is, n)]
        /\ phase' = (IF n = build THEN "loading" ELSE "migrating")
        /\ build' = build /\ backup' = backup /\ chain' = chain /\ failed' = failed
        /\ switching' = switching
    BY <1>2 DEF Migrate, store, sources
  <2>2. Document \in Doc /\ Document.version < build
    BY <2>1, DocumentLemma
  <2>3. Document.version \in 0 .. Newest /\ Document.is \in Content /\ n \in Version /\ n <= build
    BY <1>0, <2>2, SettingsAssumption DEF Doc, Version
  <2>4. Exact(Document.is, Document.version)
    BY <2>2 DEF Document, Blank, Once, Exact, Version
  <2>5. Exact(Migrated(Document.is, n), n)
    BY <2>3, <2>4, ExactMigrated
  <2> HIDE DEF n
  <2> QED
    BY <2>1, <2>3, <2>5 DEF Once
<1>3. CASE MigrationFails
  BY <1>3 DEF MigrationFails, Once, store, sources, Standing, AtRest
<1>4. CASE Load
  <2>1. /\ file' = file /\ build' = build /\ backup' = backup /\ chain' = chain /\ failed' = failed
        /\ switching' = switching /\ current' = Loaded(file) /\ phase = "loading" /\ phase' = "open"
    BY <1>4 DEF Load, disk
  <2>2. file \in Doc \cup {Nothing} /\ (file # Nothing => Valid(file))
    BY <1>4 DEF Load, Standing, TypeOK
  <2>3. ~failed => Exact(current', build)
    <3>1. CASE file = Nothing
      BY <1>0, <2>1, <3>1, ExactDefaults DEF Loaded
    <3>2. CASE file # Nothing
      <4>1. Loaded(file).ran = file.is.ran
        BY <1>0, <2>2, <3>2, LoadedLemma
      <4> QED
        BY <2>1, <2>2, <3>2, <4>1 DEF Once, Exact
    <3> QED
      BY <3>1, <3>2
  <2> QED
    BY <2>1, <2>3 DEF Once
<1>5. CASE Quarantine
  BY <1>5 DEF Quarantine, Once, sources
<1>6. CASE Reset
  <2>1. /\ file' = [version |-> build, is |-> Defaults(build)] /\ current' = Defaults(build)
        /\ build' = build /\ backup' = backup /\ chain' = chain /\ failed' = failed
        /\ switching' = switching /\ phase' = "open"
    BY <1>6 DEF Reset, Saved, Standing, InPhase
  <2>2. Exact(Defaults(build), build)
    BY <1>0, ExactDefaults
  <2> QED
    BY <1>0, <2>1, <2>2 DEF Once
<1>7. ASSUME ~failed, phase = "open", switching' \subseteq switching,
             NEW s \in Known(build), NEW on \in BOOLEAN, NEW asks \in BOOLEAN, Patch(s, on, asks)
      PROVE  Once'
  <2>1. /\ current'.ran = current.ran
        /\ Len(chain') = Len(chain) + 1 /\ Len(chain) \in Nat
        /\ chain'[Len(chain) + 1].is = current'
        /\ \A i \in 1 .. Len(chain) : chain'[i] = chain[i]
    BY <1>7, PatchLemma
  <2>2. /\ file' = file /\ build' = build /\ backup' = backup /\ failed' = failed /\ phase' = phase
    BY <1>7 DEF Patch, disk, start
  <2>3. Exact(current', build)
    BY <1>7, <2>1 DEF Once, Exact
  <2>4. ASSUME NEW i \in 1 .. Len(chain') PROVE Exact(chain'[i].is, build)
    <3>1. i = Len(chain) + 1 \/ i \in 1 .. Len(chain)
      BY <2>1
    <3> QED
      BY <2>1, <2>3, <3>1 DEF Once
  <2> QED
    BY <1>7, <2>2, <2>3, <2>4 DEF Once
<1>8. ASSUME NEW s \in Setting, NEW on \in BOOLEAN, Choose(s, on) PROVE Once'
  <2>1. ~failed /\ phase = "open" /\ switching' \subseteq switching /\ s \in Known(build)
    BY <1>8 DEF Choose, MayChange, ByVersion, sources
  <2>2. PICK asks \in BOOLEAN : Patch(s, on, asks)
    BY <1>8, ChooseLemma
  <2> QED
    BY <1>7, <2>1, <2>2
<1>9. ASSUME NEW w \in switching, HostAnswers(w) PROVE Once'
  <2>1. phase = "open" /\ switching' \subseteq switching /\ Patch(w.of, w.on, FALSE)
    BY <1>9 DEF HostAnswers
  <2>2. w.of \in Known(build) /\ w.on \in BOOLEAN
    BY DEF Standing, TypeOK
  <2>3. ~failed
    BY DEF Once
  <2> QED
    BY <1>7, <2>1, <2>2, <2>3
<1>10. ASSUME NEW s \in Setting, NEW on \in BOOLEAN, Switch(s, on) PROVE Once'
  BY <1>10 DEF Switch, MayChange, ByVersion, Once, disk, start, store
<1>11. CASE WriteLands
  <2>1. /\ file' = [version |-> build, is |-> chain[1].is] /\ chain' = Tail(chain)
        /\ build' = build /\ backup' = backup /\ failed' = failed /\ current' = current
        /\ switching' = switching /\ phase' = phase /\ chain # <<>> /\ phase = "open"
    BY <1>11 DEF WriteLands, Saved, start, sources, Standing, TypeOK
  <2>2. /\ Len(chain) \in Nat \ {0}
        /\ \A i \in 1 .. Len(Tail(chain)) : i + 1 \in 1 .. Len(chain) /\ Tail(chain)[i] = chain[i + 1]
    BY <2>1, TailLemma DEF Standing, TypeOK
  <2> QED
    BY <1>0, <2>1, <2>2 DEF Once
<1>12. CASE WriteFails
  <2>1. /\ file' = file /\ chain' = Tail(chain) /\ chain # <<>>
        /\ build' = build /\ backup' = backup /\ failed' = failed /\ current' = current
        /\ switching' = switching /\ phase' = phase /\ phase = "open"
    BY <1>12 DEF WriteFails, disk, start, sources
  <2>2. \A i \in 1 .. Len(Tail(chain)) : i + 1 \in 1 .. Len(chain) /\ Tail(chain)[i] = chain[i + 1]
    BY <2>1, TailLemma DEF Standing, TypeOK
  <2> QED
    BY <2>1, <2>2 DEF Once
<1>13. CASE Quit
  BY <1>13 DEF Quit, Once, disk
<1>14. ASSUME NEW v \in Version, Install(v) PROVE Once'
  <2>1. v \in Int /\ v > build
    BY <1>14, KnownLemma DEF Install, ByVersion
  <2>2. /\ file' = file /\ backup' = backup /\ build' = v /\ phase' = "down" /\ chain' = <<>>
        /\ failed' = failed /\ switching' = switching /\ chain = <<>>
    BY <1>14 DEF Install, start, sources, Standing, AtRest
  <2>3. \A d \in Doc : d.version \in Int
    BY SettingsAssumption DEF Doc
  <2> QED
    BY <1>0, <2>1, <2>2, <2>3 DEF Once
<1>15. CASE UNCHANGED vars
  BY <1>15 DEF Once, vars, disk, start, store, sources
<1> QED
  BY <1>1, <1>2, <1>3, <1>4, <1>5, <1>6, <1>8, <1>9, <1>10, <1>11, <1>12, <1>13, <1>14, <1>15
  DEF Next, Starting, Operator

\* Each migration up to the file's version has been applied to what it holds, once, if no
\* settings are changed after a failed migration and no older version is installed.
THEOREM MigratedOnceHolds ==
  ASSUME ByVersion
  PROVE  Spec => []MigratedOnce
<1>1. Once => MigratedOnce
  BY DEF Once, MigratedOnce, Exact
<1>2. Standing /\ Once /\ [Next]_vars => Standing' /\ Once'
  BY StandingStep, OnceStep
<1>3. Init => Standing /\ Once
  BY StandingInit, OnceInit
<1> QED
  BY <1>1, <1>2, <1>3, PTL DEF Spec

-----------------------------------------------------------------------------
(* What was answered as saved.                                             *)

WholeAndUpward ==
  "newRequired" \notin Inputs /\ "restoreCut" \notin Inputs /\ "downgrade" \notin Inputs

LEMMA NrLemma ==
  ASSUME NEW c \in Content, NEW s \in Setting
  PROVE  /\ Nr(c, s) \in Nat
         /\ c.set[s] # Missing => Nr(c, s) = c.set[s].nr
BY SettingsAssumption DEF Nr, Content, Choice

LEMMA NrDefaults ==
  ASSUME NEW v \in Version, NEW s \in Setting
  PROVE  Nr(Defaults(v), s) = 0
BY DEF Nr, Defaults, Given

\* A migration leaves every choice, or takes it back for everyone.
LEMMA NrMigrated ==
  ASSUME NEW c \in Content, NEW n \in Version, NEW s \in Setting
  PROVE  Nr(Migrated(c, n), s) = IF s \in Turns[n] THEN 0 ELSE Nr(c, s)
<1>1. Migrated(c, n).set[s] = IF s \in Turns[n] \/ (s \in Brought(n) /\ c.set[s] = Missing)
                              THEN Given(s) ELSE c.set[s]
  BY DEF Migrated
<1>2. Given(s) # Missing /\ Given(s).nr = 0
  BY SettingsAssumption DEF Given, Choice
<1> QED
  BY <1>1, <1>2 DEF Nr

LEMMA NrLoaded ==
  ASSUME NEW f \in Doc, build \in Version, Valid(f), NEW s \in Setting
  PROVE  Nr(Loaded(f), s) = IF s \in Known(build) THEN Nr(f.is, s) ELSE 0
<1>1. f # Nothing
  BY FilesAssumption
<1> QED
  BY <1>1, LoadedLemma DEF Nr

LEMMA KnownGrows ==
  ASSUME NEW v \in Int, NEW w \in Int, v <= w
  PROVE  Known(v) \subseteq Known(w)
BY SettingsAssumption DEF Known, Version

LEMMA KeptInit == Init => Kept
<1> SUFFICES ASSUME Init PROVE Kept
  OBVIOUS
<1>1. /\ build \in Version /\ choices = 0 /\ backup = Nothing /\ chain = <<>> /\ phase = "down"
      /\ current = Defaults(build) /\ \A s \in Setting : promised[s] = 0
  BY DEF Init
<1>2. file \in Doc => Counted(file.is)
  <2>1. CASE file \in {Nothing, Broken}
    BY <2>1, FilesAssumption
  <2>2. CASE \E n \in 0 .. build, set \in [Setting -> [nr : {0}, on : BOOLEAN] \cup {Missing}] :
               file = [version |-> n,
                       is |-> [set |-> set, ran |-> [m \in Version |-> IF m <= n THEN 1 ELSE 0]]]
    <3>1. PICK set \in [Setting -> [nr : {0}, on : BOOLEAN] \cup {Missing}] : file.is.set = set
      BY <2>2
    <3>2. \A s \in Setting : Nr(file.is, s) = 0
      BY <3>1 DEF Nr
    <3> QED
      BY <1>1, <3>2 DEF Counted
  <2> QED
    BY <2>1, <2>2 DEF Init
<1>3. Counted(current)
  BY <1>1, NrDefaults DEF Counted
<1>4. ~SomethingPromised
  BY <1>1 DEF SomethingPromised
<1> QED
  BY <1>1, <1>2, <1>3, <1>4, VersionsOfInit, FilesAssumption DEF Kept

LEMMA KeptTypes ==
  ASSUME Standing
  PROVE  /\ build \in Version /\ build \in Int
         /\ \A s \in Setting : promised[s] \in Nat
         /\ choices \in Nat
         /\ file \in Doc \cup {Nothing, Broken} /\ backup \in Doc \cup {Nothing}
         /\ current \in Content /\ chain \in Seq(Write) /\ Len(chain) \in Nat
         /\ \A i \in 1 .. Len(chain) : chain[i].is \in Content
<1>1. TypeOK
  BY DEF Standing
<1>2. \A i \in 1 .. Len(chain) : chain[i] \in Write
  BY <1>1 DEF TypeOK
<1> QED
  BY <1>1, <1>2, KnownLemma, SettingsAssumption DEF TypeOK, Write

LEMMA DocTypes ==
  ASSUME NEW d \in Doc
  PROVE  d.version \in Int /\ d.is \in Content /\ d # Nothing /\ d # Broken
BY SettingsAssumption, FilesAssumption DEF Doc

LEMMA KeptStart == ASSUME WholeAndUpward, Standing, Kept, Start PROVE Kept'
<1>1. /\ phase' = (IF ToBeMigrated THEN "migrating" ELSE "loading")
      /\ backup' = (IF ToBeMigrated THEN file ELSE Nothing)
      /\ file' = file /\ build' = build /\ promised' = promised /\ choices' = choices
      /\ chain' = chain /\ current' = current /\ phase = "down"
  BY DEF Start, disk, store
<1>2. ASSUME SomethingPromised, ~ToBeMigrated PROVE Valid(file)
  <2>1. file \in Doc /\ file.version <= build /\ \A s \in Known(file.version) : file.is.set[s] # Missing
    BY <1>2 DEF Kept
  <2>2. file.version = build
    BY <1>2, <2>1, DocTypes, KeptTypes DEF ToBeMigrated
  <2> QED
    BY <2>1, <2>2 DEF Valid
<1>3. backup' \in Doc => backup' = file /\ ToBeMigrated
  BY <1>1, FilesAssumption
<1>4. chain = <<>>
  BY <1>1 DEF Standing, AtRest
<1>5. SomethingPromised' <=> SomethingPromised
  BY <1>1 DEF SomethingPromised
<1>6. Valid(file)' <=> Valid(file)
  BY <1>1 DEF Valid, Known
<1> QED
  BY <1>1, <1>2, <1>3, <1>4, <1>5, <1>6 DEF Kept, Keeps, Counted, Known

LEMMA KeptMigrate == ASSUME WholeAndUpward, Standing, Kept, Migrate PROVE Kept'
<1> DEFINE n == Document.version + 1
<1>1. /\ phase = "migrating" /\ file' = [version |-> n, is |-> Migrated(Document.is, n)]
      /\ promised' = [s \in Setting |-> IF s \in Turns[n] THEN 0 ELSE promised[s]]
      /\ phase' = (IF n = build THEN "loading" ELSE "migrating")
      /\ build' = build /\ backup' = backup /\ chain' = chain /\ current' = current /\ choices' = choices
  BY DEF Migrate, store
<1>2. Document \in Doc /\ Document.version < build
  BY <1>1, DocumentLemma
<1>3. Document.version \in 0 .. Newest /\ Document.is \in Content /\ n \in Version /\ n \in Int /\ n <= build
  BY <1>2, KeptTypes, SettingsAssumption DEF Doc, Version
<1>4. \A s \in Setting : Nr(Migrated(Document.is, n), s) = IF s \in Turns[n] THEN 0 ELSE Nr(Document.is, s)
  BY <1>3, NrMigrated
<1>5. \A s \in Setting : Nr(Document.is, s) <= choices
  <2>1. CASE file = Nothing
    BY <2>1, KeptTypes DEF Document, Blank, Nr
  <2>2. CASE file # Nothing
    BY <1>2, <2>2 DEF Document, Kept, Counted
  <2> QED
    BY <2>1, <2>2
<1>6. /\ \A s \in Setting : promised'[s] <= promised[s] /\ (promised'[s] > 0 => promised[s] > 0)
      /\ \A s \in Turns[n] \cap Setting : promised'[s] = 0
  BY <1>1, KeptTypes
<1>7. ASSUME SomethingPromised'
      PROVE  /\ file \in Doc /\ Document = file
             /\ \A s \in Known(Document.version) : Document.is.set[s] # Missing
             /\ Keeps(Document.is) /\ backup \in Doc /\ Keeps(backup.is)
  BY <1>1, <1>6, <1>7, DocTypes DEF SomethingPromised, Kept, Document
<1>8. ASSUME SomethingPromised', NEW s \in Known(n) PROVE Migrated(Document.is, n).set[s] # Missing
  <2>1. CASE s \in Known(Document.version)
    <3>1. s \in Setting /\ Document.is.set[s] # Missing
      BY <1>7, <1>8, <2>1 DEF Known
    <3> QED
      BY <1>3, <3>1, KeptTypes, MigratedLemma
  <2>2. CASE s \notin Known(Document.version)
    <3>1. s \in Setting /\ Since[s] = n /\ Since[s] \in Int
      BY <1>3, <1>8, <2>2, SettingsAssumption DEF Known, Version
    <3>2. s \in Brought(n)
      BY <1>3, <3>1 DEF Brought, Known
    <3> QED
      BY <1>3, <3>2, KeptTypes, MigratedLemma
  <2> QED
    BY <2>1, <2>2
<1>9. \A s \in Setting : Nr(Migrated(Document.is, n), s) \in Nat /\ Nr(Migrated(Document.is, n), s) <= choices
  BY <1>3, <1>4, <1>5, NrLemma, KeptTypes
<1> HIDE DEF n
<1>10. SomethingPromised' => \A s \in Setting : promised'[s] <= Nr(Migrated(Document.is, n), s)
  BY <1>1, <1>4, <1>7 DEF Keeps
<1>11. SomethingPromised' => \A s \in Setting : promised'[s] <= Nr(backup.is, s)
  <2> SUFFICES ASSUME SomethingPromised', NEW s \in Setting PROVE promised'[s] <= Nr(backup.is, s)
    OBVIOUS
  <2>1. backup \in Doc /\ promised[s] <= Nr(backup.is, s)
    BY <1>7 DEF Keeps
  <2>2. Nr(backup.is, s) \in Nat
    BY <2>1, DocTypes, NrLemma
  <2> QED
    BY <1>1, <2>1, <2>2
<1>12. SomethingPromised' /\ n = build => Valid(file)'
  BY <1>1, <1>8 DEF Valid, Known
<1>13. chain = <<>> /\ phase' # "open"
  BY <1>1 DEF Standing, AtRest
<1>14. SomethingPromised' => backup' \in Doc /\ Keeps(backup.is)' /\ Keeps(file.is)'
  BY <1>1, <1>7, <1>10, <1>11 DEF Keeps
<1>15. Counted(file.is)' /\ (backup' \in Doc => Counted(backup.is)' /\ backup'.version <= build') /\ Counted(current)'
  BY <1>1, <1>9 DEF Counted, Kept
<1>16. file' \in Doc
  BY <1>1, <1>3, KeptTypes, MigratedLemma DEF Doc, Version
<1>17. \A s \in Setting : promised'[s] > 0 => s \in Known(build)'
  BY <1>1, <1>6 DEF Kept, Known
<1>18. SomethingPromised' => \A s \in Known(file.version)' : file'.is.set[s] # Missing
  BY <1>1, <1>8 DEF Known
<1>19. phase' = "loading" => n = build
  BY <1>1
<1> QED
  BY <1>1, <1>3, <1>12, <1>13, <1>14, <1>15, <1>16, <1>17, <1>18, <1>19 DEF Kept

LEMMA KeptMigrationFails == ASSUME WholeAndUpward, Standing, Kept, MigrationFails PROVE Kept'
<1>1. /\ phase = "migrating" /\ phase' = "loading" /\ file' = backup /\ backup' = backup
      /\ backup # Nothing => Valid(backup)
      /\ build' = build /\ promised' = promised /\ chain' = chain /\ current' = current /\ choices' = choices
  BY DEF MigrationFails, WholeAndUpward, store
<1>2. chain = <<>>
  BY <1>1 DEF Standing, AtRest
<1>3. ASSUME SomethingPromised
      PROVE  /\ backup \in Doc /\ Keeps(backup.is) /\ Valid(backup)
             /\ \A s \in Known(backup.version) : backup.is.set[s] # Missing
  <2>1. backup \in Doc /\ Keeps(backup.is) /\ backup.version <= build
    BY <1>1, <1>3 DEF Kept
  <2>2. Valid(backup) /\ Known(backup.version) \subseteq Known(build)
    BY <1>1, <2>1, DocTypes, KeptTypes, KnownGrows
  <2> QED
    BY <2>1, <2>2 DEF Valid
<1>4. SomethingPromised' <=> SomethingPromised
  BY <1>1 DEF SomethingPromised
<1>5. Valid(backup) => Valid(file)'
  BY <1>1 DEF Valid, Known
<1> QED
  BY <1>1, <1>2, <1>3, <1>4, <1>5 DEF Kept, Keeps, Counted, Known

LEMMA KeptLoad == ASSUME WholeAndUpward, Standing, Kept, Load PROVE Kept'
<1>1. /\ phase = "loading" /\ phase' = "open" /\ file' = file /\ current' = Loaded(file)
      /\ backup' = backup /\ build' = build /\ promised' = promised /\ chain' = chain /\ choices' = choices
  BY DEF Load, disk
<1>2. file \in Doc \cup {Nothing} /\ (file # Nothing => Valid(file))
  BY KeptTypes DEF Load
<1>3. \A s \in Setting :
        Nr(Loaded(file), s) = IF file = Nothing \/ s \notin Known(build) THEN 0 ELSE Nr(file.is, s)
  <2>1. CASE file = Nothing
    BY <2>1, NrDefaults, KeptTypes DEF Loaded
  <2>2. CASE file # Nothing
    BY <1>2, <2>2, NrLoaded, KeptTypes
  <2> QED
    BY <2>1, <2>2
<1>4. Counted(current)'
  BY <1>1, <1>2, <1>3, KeptTypes DEF Counted, Kept
<1>5. Keeps(current)'
  <2> SUFFICES ASSUME NEW s \in Setting PROVE promised[s] <= Nr(Loaded(file), s)
    BY <1>1 DEF Keeps
  <2>1. CASE promised[s] = 0
    <3>1. Nr(Loaded(file), s) \in Nat
      BY <1>2, LoadedLemma, KeptTypes, NrLemma
    <3> QED
      BY <2>1, <3>1
  <2>2. CASE promised[s] # 0
    <3>1. promised[s] > 0 /\ SomethingPromised
      BY <2>2, KeptTypes DEF SomethingPromised
    <3> QED
      BY <1>3, <3>1, DocTypes DEF Kept, Keeps
  <2> QED
    BY <2>1, <2>2
<1>6. chain = <<>>
  BY <1>1 DEF Standing, AtRest
<1>7. SomethingPromised' <=> SomethingPromised
  BY <1>1 DEF SomethingPromised
<1>8. /\ file' \in Doc => Counted(file.is)' /\ file'.version <= build'
      /\ backup' \in Doc => Counted(backup.is)' /\ backup'.version <= build'
      /\ \A s \in Setting : promised'[s] > 0 => s \in Known(build)'
  BY <1>1 DEF Kept, Counted, Known
<1>9. SomethingPromised => /\ file' \in Doc /\ Keeps(file.is)'
                           /\ \A s \in Known(file.version)' : file'.is.set[s] # Missing
  BY <1>1 DEF Kept, Keeps, Known
<1> QED
  BY <1>1, <1>4, <1>5, <1>6, <1>7, <1>8, <1>9 DEF Kept

\* With nothing in force but the defaults, and nothing promised, there is nothing to keep.
LEMMA KeptOfDefaults ==
  ASSUME Standing, Kept, ~SomethingPromised, promised' = promised, build' = build,
         current' = Defaults(build), file' = Nothing \/ file' = Saved(Defaults(build)),
         backup' = backup, chain' = <<>>, choices' = choices
  PROVE  Kept'
<1>1. \A s \in Setting : promised[s] = 0
  BY KeptTypes DEF SomethingPromised
<1>2. \A s \in Setting : Nr(Defaults(build), s) = 0
  BY NrDefaults, KeptTypes
<1>3. Counted(current)' /\ Keeps(current)'
  BY <1>1, <1>2, KeptTypes DEF Counted, Keeps
<1>4. file' \in Doc => Counted(file.is)' /\ file'.version <= build'
  BY <1>2, KeptTypes, FilesAssumption DEF Counted, Saved
<1>5. backup' \in Doc => Counted(backup.is)' /\ backup'.version <= build'
  BY DEF Kept, Counted
<1>6. ~SomethingPromised' /\ \A s \in Setting : ~(promised'[s] > 0)
  BY <1>1 DEF SomethingPromised
<1> QED
  BY <1>3, <1>4, <1>5, <1>6 DEF Kept

LEMMA KeptQuarantine == ASSUME WholeAndUpward, Standing, Kept, Quarantine PROVE Kept'
<1>1. ~SomethingPromised
  BY DocTypes DEF Kept, Quarantine
<1>2. chain = <<>>
  BY DEF Standing, AtRest, Quarantine
<1> QED
  BY <1>1, <1>2, KeptOfDefaults DEF Quarantine

LEMMA KeptReset == ASSUME WholeAndUpward, Standing, Kept, Reset PROVE Kept'
<1>1. file = Nothing /\ current = Defaults(build) /\ chain = <<>>
  BY DEF Standing, InPhase, AtRest, Reset
<1>2. ~SomethingPromised
  BY <1>1, FilesAssumption DEF Kept
<1> QED
  BY <1>1, <1>2, KeptOfDefaults DEF Reset

LEMMA KeptPatch ==
  ASSUME Standing, Standing', Kept, phase = "open",
         NEW s \in Known(build), NEW on \in BOOLEAN, NEW asks \in BOOLEAN, Patch(s, on, asks)
  PROVE  Kept'
<1>1. /\ s \in Setting
      /\ current'.set[s] = [nr |-> choices + 1, on |-> on] /\ current'.set[s] # Missing
      /\ \A t \in Setting : t # s => current'.set[t] = current.set[t]
      /\ Len(chain') = Len(chain) + 1 /\ Len(chain) \in Nat
      /\ chain'[Len(chain) + 1].is = current'
      /\ \A i \in 1 .. Len(chain) : chain'[i] = chain[i]
  BY PatchLemma
<1>2. /\ file' = file /\ build' = build /\ promised' = promised /\ backup' = backup
      /\ phase' = "open" /\ choices' = choices + 1
  BY DEF Patch, disk, start
<1>3. Nr(current', s) = choices + 1 /\ \A t \in Setting : t # s => Nr(current', t) = Nr(current, t)
  BY <1>1 DEF Nr
<1>4. \A t \in Setting : Nr(current, t) \in Nat /\ Nr(current, t) <= choices /\ promised[t] <= Nr(current, t)
  BY KeptTypes, NrLemma DEF Kept, Counted, Keeps
<1>5. \A t \in Setting : /\ Nr(current, t) <= Nr(current', t) /\ Nr(current', t) <= choices + 1
                         /\ promised[t] <= Nr(current', t) /\ promised[t] \in Nat
  BY <1>1, <1>3, <1>4, KeptTypes
<1>6. ASSUME NEW d \in Content, Counted(d) PROVE \A t \in Setting : Nr(d, t) <= choices + 1
  BY <1>6, NrLemma, KeptTypes DEF Counted
<1>7. /\ file' \in Doc => Counted(file.is)' /\ file'.version <= build'
      /\ backup' \in Doc => Counted(backup.is)' /\ backup'.version <= build'
      /\ Counted(current)' /\ Keeps(current)'
  BY <1>2, <1>5, <1>6, DocTypes DEF Kept, Counted, Keeps
<1>8. SomethingPromised' => /\ file' \in Doc /\ Keeps(file.is)'
                            /\ \A t \in Known(file.version)' : file'.is.set[t] # Missing
  BY <1>2 DEF SomethingPromised, Kept, Keeps, Known
<1>9. \A t \in Setting : promised'[t] > 0 => t \in Known(build)'
  BY <1>2 DEF Kept, Known
<1>10. ASSUME NEW i \in 1 .. Len(chain')
       PROVE  /\ Keeps(chain[i].is)' /\ Below(chain'[i].is, current')
              /\ \A j \in i .. Len(chain') : Below(chain'[i].is, chain'[j].is)
  <2>1. CASE i = Len(chain) + 1
    <3>1. \A t \in Setting : Nr(current', t) <= Nr(current', t) /\ promised'[t] <= Nr(current', t)
      BY <1>2, <1>5, NrLemma DEF Standing, TypeOK
    <3>2. \A j \in i .. Len(chain') : j = i
      BY <1>1, <2>1
    <3> QED
      BY <1>1, <2>1, <3>1, <3>2 DEF Keeps, Below
  <2>2. CASE i # Len(chain) + 1
    <3>1. i \in 1 .. Len(chain) /\ chain'[i] = chain[i] /\ chain[i].is \in Content
      BY <1>1, <2>2, KeptTypes
    <3>2. /\ Keeps(chain[i].is) /\ Below(chain[i].is, current)
          /\ \A j \in i .. Len(chain) : Below(chain[i].is, chain[j].is)
      BY <3>1 DEF Kept
    <3>3. \A t \in Setting : Nr(chain[i].is, t) <= Nr(current', t)
      <4> SUFFICES ASSUME NEW t \in Setting PROVE Nr(chain[i].is, t) <= Nr(current', t)
        OBVIOUS
      <4>1. Nr(chain[i].is, t) \in Nat /\ Nr(chain[i].is, t) <= Nr(current, t)
        BY <3>1, <3>2, NrLemma DEF Below
      <4>2. Nr(current, t) \in Nat /\ Nr(current, t) <= Nr(current', t)
        BY <1>4, <1>5
      <4>3. Nr(current', t) \in Nat
        BY NrLemma DEF Standing, TypeOK
      <4> QED
        BY <4>1, <4>2, <4>3
    <3>4. ASSUME NEW j \in i .. Len(chain') PROVE Below(chain'[i].is, chain'[j].is)
      <4>1. CASE j = Len(chain) + 1
        BY <1>1, <3>1, <3>3, <4>1 DEF Below
      <4>2. CASE j # Len(chain) + 1
        <5>1. j \in i .. Len(chain) /\ j \in 1 .. Len(chain)
          BY <1>1, <3>1, <4>2
        <5> QED
          BY <1>1, <3>1, <3>2, <5>1
      <4> QED
        BY <4>1, <4>2
    <3> QED
      BY <1>2, <3>1, <3>2, <3>3, <3>4 DEF Keeps, Below
  <2> QED
    BY <2>1, <2>2
<1> QED
  BY <1>2, <1>7, <1>8, <1>9, <1>10 DEF Kept

\* The document that is written is no lower than the file, and no higher than the others.
LEMMA KeptWriteLands == ASSUME WholeAndUpward, Standing, Kept, WriteLands PROVE Kept'
<1> DEFINE w == Head(chain)
<1>1. /\ chain \in Seq(Write) /\ chain # <<>> /\ phase = "open" /\ phase' = "open"
      /\ file' = [version |-> build, is |-> w.is] /\ chain' = Tail(chain)
      /\ promised' = [promised EXCEPT ![w.of] = w.is.set[w.of].nr]
      /\ build' = build /\ backup' = backup /\ current' = current /\ choices' = choices
  BY KeptTypes DEF WriteLands, Saved, start
<1>2. /\ w \in Write /\ w = chain[1] /\ 1 \in 1 .. Len(chain) /\ Len(chain) \in Nat
      /\ Len(Tail(chain)) = Len(chain) - 1
      /\ \A i \in 1 .. Len(Tail(chain)) : i + 1 \in 1 .. Len(chain) /\ Tail(chain)[i] = chain[i + 1]
  BY <1>1, TailLemma
<1> HIDE DEF w
<1>3. /\ w.is \in Content /\ w.of \in Setting /\ w.of \in Known(build)
      /\ \A s \in Known(build) : w.is.set[s] # Missing
      /\ Keeps(w.is) /\ Below(w.is, current)
      /\ \A j \in 1 .. Len(chain) : Below(w.is, chain[j].is)
  BY <1>2 DEF Standing, QueuedWell, Write, Kept
<1>4. \A s \in Setting : promised'[s] = IF s = w.of THEN Nr(w.is, s) ELSE promised[s]
  <2>1. Nr(w.is, w.of) = w.is.set[w.of].nr
    BY <1>3, NrLemma
  <2>2. promised \in [Setting -> 0 .. MaxChoices]
    BY DEF Standing, TypeOK
  <2> QED
    BY <1>1, <1>3, <2>1, <2>2
<1>5. ASSUME NEW d \in Content, Keeps(d), Below(w.is, d)
      PROVE  \A s \in Setting : promised'[s] <= Nr(d, s)
  BY <1>4, <1>5 DEF Keeps, Below
<1>6. /\ Keeps(file.is)' /\ Keeps(current)'
      /\ \A i \in 1 .. Len(chain') : Keeps(chain[i].is)'
  <2>1. Below(w.is, w.is) /\ Keeps(current) /\ current \in Content
    BY <1>1, <1>3, NrLemma, KeptTypes DEF Below, Kept
  <2>2. \A i \in 1 .. Len(chain) : Keeps(chain[i].is) /\ chain[i].is \in Content
    BY KeptTypes DEF Kept
  <2>3. \A s \in Setting : promised'[s] <= Nr(w.is, s) /\ promised'[s] <= Nr(current, s)
    BY <1>3, <1>5, <2>1
  <2>4. \A i \in 1 .. Len(chain) : \A s \in Setting : promised'[s] <= Nr(chain[i].is, s)
    BY <1>3, <1>5, <2>2
  <2> QED
    BY <1>1, <1>2, <2>3, <2>4 DEF Keeps
<1>7. Counted(w.is)
  <2> SUFFICES ASSUME NEW s \in Setting PROVE Nr(w.is, s) <= choices
    BY DEF Counted
  <2>1. Nr(w.is, s) <= Nr(current, s) /\ Nr(current, s) <= choices
    BY <1>3 DEF Below, Kept, Counted
  <2> QED
    BY <1>3, <2>1, KeptTypes, NrLemma
<1>8. /\ Counted(file.is)' /\ file'.version <= build'
      /\ backup' \in Doc => Counted(backup.is)' /\ backup'.version <= build'
      /\ Counted(current)'
  BY <1>1, <1>7, KeptTypes DEF Kept, Counted
<1>9. \A s \in Setting : promised'[s] > 0 => s \in Known(build)'
  BY <1>1, <1>3, <1>4 DEF Kept, Known
<1>10. \A s \in Known(file.version)' : file'.is.set[s] # Missing
  BY <1>1, <1>3 DEF Known
<1>11. file' \in Doc
  BY <1>1, <1>3, KeptTypes, KnownLemma DEF Doc
<1>12. \A i \in 1 .. Len(chain') : /\ Below(chain'[i].is, current')
                                   /\ \A j \in i .. Len(chain') : Below(chain'[i].is, chain'[j].is)
  <2> SUFFICES ASSUME NEW i \in 1 .. Len(chain')
               PROVE  /\ Below(chain'[i].is, current')
                      /\ \A j \in i .. Len(chain') : Below(chain'[i].is, chain'[j].is)
    OBVIOUS
  <2>1. i + 1 \in 1 .. Len(chain) /\ chain'[i] = chain[i + 1]
    BY <1>1, <1>2
  <2>2. \A j \in i .. Len(chain') : j + 1 \in i + 1 .. Len(chain) /\ chain'[j] = chain[j + 1]
    BY <1>1, <1>2
  <2> QED
    BY <1>1, <2>1, <2>2 DEF Kept
<1> QED
  BY <1>1, <1>6, <1>8, <1>9, <1>10, <1>11, <1>12 DEF Kept

LEMMA KeptWriteFails == ASSUME WholeAndUpward, Standing, Kept, WriteFails PROVE Kept'
<1>1. /\ chain \in Seq(Write) /\ chain # <<>> /\ phase = "open" /\ phase' = "open" /\ chain' = Tail(chain)
      /\ file' = file /\ promised' = promised
      /\ build' = build /\ backup' = backup /\ current' = current /\ choices' = choices
  BY KeptTypes DEF WriteFails, disk, start
<1>2. /\ Len(chain) \in Nat /\ Len(Tail(chain)) = Len(chain) - 1
      /\ \A i \in 1 .. Len(Tail(chain)) : i + 1 \in 1 .. Len(chain) /\ Tail(chain)[i] = chain[i + 1]
  BY <1>1, TailLemma
<1>3. ASSUME NEW i \in 1 .. Len(chain')
      PROVE  /\ Keeps(chain'[i].is) /\ Below(chain'[i].is, current)
             /\ \A j \in i .. Len(chain') : Below(chain'[i].is, chain'[j].is)
  <2>1. i + 1 \in 1 .. Len(chain) /\ chain'[i] = chain[i + 1]
    BY <1>1, <1>2
  <2>2. \A j \in i .. Len(chain') : j + 1 \in i + 1 .. Len(chain) /\ chain'[j] = chain[j + 1]
    BY <1>1, <1>2
  <2> QED
    BY <2>1, <2>2 DEF Kept
<1>4. SomethingPromised' <=> SomethingPromised
  BY <1>1 DEF SomethingPromised
<1>5. /\ file' \in Doc => Counted(file.is)' /\ file'.version <= build'
      /\ backup' \in Doc => Counted(backup.is)' /\ backup'.version <= build'
      /\ Counted(current)' /\ Keeps(current)'
      /\ \A s \in Setting : promised'[s] > 0 => s \in Known(build)'
  BY <1>1 DEF Kept, Counted, Keeps, Known
<1>6. SomethingPromised => /\ file' \in Doc /\ Keeps(file.is)'
                           /\ \A s \in Known(file.version)' : file'.is.set[s] # Missing
  BY <1>1 DEF Kept, Keeps, Known
<1>7. \A i \in 1 .. Len(chain') : Keeps(chain[i].is)'
  BY <1>1, <1>3 DEF Keeps
<1> QED
  BY <1>1, <1>3, <1>4, <1>5, <1>6, <1>7 DEF Kept

\* A step that ends the session, or comes while there is none.
LEMMA KeptDown ==
  ASSUME Standing, Kept, phase' = "down", chain' = <<>>, file' = file, promised' = promised,
         choices' = choices, build' \in Version, build <= build', current' = Defaults(build'),
         backup' = backup \/ backup' = Nothing
  PROVE  Kept'
<1>1. Counted(current)'
  BY NrDefaults, KeptTypes DEF Counted
<1>2. /\ file' \in Doc => Counted(file.is)' /\ file'.version <= build'
      /\ backup' \in Doc => Counted(backup.is)' /\ backup'.version <= build'
  BY KeptTypes, KnownLemma, DocTypes DEF Kept, Counted
<1>3. Known(build) \subseteq Known(build')
  BY KeptTypes, KnownLemma, KnownGrows
<1>4. \A s \in Setting : promised'[s] > 0 => s \in Known(build)'
  BY <1>3 DEF Kept, Known
<1>5. SomethingPromised' => /\ file' \in Doc /\ Keeps(file.is)'
                            /\ \A s \in Known(file.version)' : file'.is.set[s] # Missing
  BY DEF SomethingPromised, Kept, Keeps, Known
<1> QED
  BY <1>1, <1>2, <1>4, <1>5 DEF Kept

LEMMA KeptStep ==
  ASSUME WholeAndUpward, Standing, Standing', Kept, [Next]_vars
  PROVE  Kept'
<1>1. CASE Starting
  BY <1>1, KeptStart, KeptMigrate, KeptMigrationFails, KeptLoad, KeptQuarantine, KeptReset DEF Starting
<1>2. ASSUME NEW s \in Setting, NEW on \in BOOLEAN, Choose(s, on) PROVE Kept'
  <2>1. phase = "open" /\ s \in Known(build)
    BY <1>2 DEF Choose, MayChange
  <2>2. PICK asks \in BOOLEAN : Patch(s, on, asks)
    BY <1>2, ChooseLemma
  <2> QED
    BY <2>1, <2>2, KeptPatch
<1>3. ASSUME NEW w \in switching, HostAnswers(w) PROVE Kept'
  <2>1. phase = "open" /\ Patch(w.of, w.on, FALSE) /\ w.of \in Known(build) /\ w.on \in BOOLEAN
    BY <1>3 DEF HostAnswers, Standing, TypeOK
  <2> QED
    BY <2>1, KeptPatch
<1>4. ASSUME UNCHANGED <<disk, start, store, choices>> PROVE Kept'
  BY <1>4 DEF disk, start, store, Kept, SomethingPromised, Counted, Keeps, Known, Valid
<1>5. ASSUME NEW s \in Setting, NEW on \in BOOLEAN, Switch(s, on) PROVE Kept'
  BY <1>4, <1>5 DEF Switch
<1>6. CASE Quit
  BY <1>6, KeptTypes, KeptDown DEF Quit, disk
<1>7. ASSUME NEW v \in Version, Install(v) PROVE Kept'
  <2>1. v > build /\ v \in Int
    BY <1>7, KnownLemma DEF Install, WholeAndUpward
  <2>2. chain = <<>> /\ phase = "down"
    BY <1>7 DEF Install, Standing, AtRest
  <2> QED
    BY <1>7, <2>1, <2>2, KeptTypes, KeptDown DEF Install, start
<1>8. CASE UNCHANGED vars
  BY <1>4, <1>8 DEF vars
<1> QED
  BY <1>1, <1>2, <1>3, <1>5, <1>6, <1>7, <1>8, KeptWriteLands, KeptWriteFails DEF Next, Operator

\* What was answered as saved stays saved, through failed writes, ends of sessions, failed
\* migrations and new versions: if the backup is put back whole, no migration that brings a
\* setting fails, and no older version is installed.
THEOREM AcknowledgedStaysHolds ==
  ASSUME WholeAndUpward
  PROVE  Spec => []AcknowledgedStays
<1>1. Standing /\ Kept => AcknowledgedStays
  <2> SUFFICES ASSUME Standing, Kept, NEW s \in Setting, promised[s] > 0
               PROVE  file \in Doc /\ file.is.set[s] # Missing /\ file.is.set[s].nr >= promised[s]
    BY DEF AcknowledgedStays
  <2>1. file \in Doc /\ promised[s] <= Nr(file.is, s)
    BY DEF SomethingPromised, Kept, Keeps
  <2> QED
    BY <2>1, KeptTypes, DocTypes, NrLemma DEF Nr
<1>2. Standing /\ Kept /\ [Next]_vars => Standing' /\ Kept'
  BY StandingStep, KeptStep
<1>3. Init => Standing /\ Kept
  BY StandingInit, KeptInit
<1> QED
  BY <1>1, <1>2, <1>3, PTL DEF Spec
=============================================================================

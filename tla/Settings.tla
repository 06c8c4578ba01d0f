------------------------------ MODULE Settings ------------------------------
(***************************************************************************)
(* The settings of the application: the file settings.json, its migrations *)
(* and their backup (packages/config/src/migrations/runner.ts), the store  *)
(* that is its only writer while the application runs (settings-store.ts), *)
(* and the switch of a source, which is made in two ways (runtime/src/     *)
(* handlers.ts): sources.setEnabled applies it to the provider host and    *)
(* then saves it, settings.set saves it and then applies it.               *)
(*                                                                         *)
(* Every setting is a switch.  What a setting is worth here is which of    *)
(* the operator's choices it shows: choices are numbered as they reach the *)
(* store, 0 is a default or a choice of earlier days.  A step is what runs *)
(* between two awaits; a file is replaced in one step, as it is written    *)
(* beside its place and renamed (writeFileAtomic).                         *)
(*                                                                         *)
(* Not modelled: temporary files, the names of preserved copies, settings  *)
(* that may be absent, patches the schema refuses (they change nothing).   *)
(***************************************************************************)
EXTENDS Integers, Sequences, FiniteSets

CONSTANTS
    Setting,
    Source,       \* the settings that are the switches of sources
    Default,      \* the defaults
    Newest,       \* the newest schema version there is
    Since,        \* the version that brought a setting, and gives it to older documents
    Turns,        \* the settings a version sets for everyone, whatever was chosen
    Missing,      \* in place of a value
    Nothing,      \* no file, no backup
    Broken,       \* a file that is not JSON
    MaxChoices,   \* how many choices the operator makes
    Inputs        \* what an instance explores of AllInputs

\* "refusals"     a file cannot be written
\* "newRequired"  a migration that brings a setting may be the one to fail
\* "restoreCut"   the backup is not copied back whole
\* "afterFailure" settings are changed in a session whose migration failed
\* "downgrade"    an older version of the application is installed again
\* "overlap"      a source is switched while its last switch is under way, in either way
AllInputs == {"refusals", "newRequired", "restoreCut", "afterFailure", "downgrade", "overlap"}

Version == 1 .. Newest
Choice == [nr : 0 .. MaxChoices, on : BOOLEAN]

ASSUME SettingsAssumption ==
    /\ Source \subseteq Setting
    /\ Default \in [Setting -> BOOLEAN]
    /\ Newest \in Nat \ {0}
    /\ Since \in [Setting -> Version]
    /\ Turns \in [Version -> SUBSET Setting]
    /\ MaxChoices \in Nat
    /\ Inputs \subseteq AllInputs
    /\ Missing \notin Choice

\* What settings are: a value for each, and which migrations made them so (which the
\* code can tell of a document by its version only).
Content == [set : [Setting -> Choice \cup {Missing}], ran : [Version -> Nat]]
Doc == [version : 0 .. Newest, is : Content]

ASSUME FilesAssumption == Nothing \notin Doc /\ Broken \notin Doc /\ Nothing # Broken

VARIABLES
    file,         \* settings.json
    build,        \* the version of the application installed
    promised,     \* the last choice of each setting that was answered as saved
    phase,        \* how far the start has got
    backup,       \* what was copied before the first migration of this start
    failed,       \* a migration of this start failed
    current,      \* the store's settings
    chain,        \* the writes that are under way or wait, in order
    refused,      \* the last write failed
    told,         \* what the store's listeners were last told
    host,         \* which sources the provider host has enabled
    switching,    \* switches the host has not answered yet
    unapplied,    \* sources whose last settings.set could not be saved: a record of what
                  \* happened, which the code does not keep
    choices       \* how many choices have reached the store

disk == <<file, build, promised>>
start == <<phase, backup, failed>>
store == <<current, chain, refused, told>>
sources == <<host, switching, unapplied>>
vars == <<disk, start, store, sources, choices>>

-----------------------------------------------------------------------------
(* Documents.                                                              *)

\* Nobody's choice; also a source the document does not name, which is as its manifest says.
Given(s) == [nr |-> 0, on |-> Default[s]]

\* The settings a version of the application knows; its schema asks for each of them.
Known(v) == {s \in Setting : Since[s] <= v}

Defaults(v) ==
    [set |-> [s \in Setting |-> IF s \in Known(v) THEN Given(s) ELSE Missing],
     ran |-> [n \in Version |-> IF n <= v THEN 1 ELSE 0]]

\* What the migrations start from when there is no file.
Blank == [version |-> 0, is |-> [set |-> [s \in Setting |-> Missing],
                                 ran |-> [n \in Version |-> 0]]]

\* The settings migration n gives to a document without them: the first one gives all.
Brought(n) == IF n = 1 THEN Known(build) ELSE {s \in Setting : Since[s] = n}

\* Migration n: it sets what it turns for everyone, and brings what is not there.
Migrated(c, n) ==
    [set |-> [s \in Setting |->
                IF s \in Turns[n] \/ (s \in Brought(n) /\ c.set[s] = Missing)
                THEN Given(s) ELSE c.set[s]],
     ran |-> [c.ran EXCEPT ![n] = @ + 1]]

\* Faulty variant: a document is taken as it is.
AnyDocument(doc) == TRUE

\* Faulty variant: the schema asks for a setting that no migration brings.
AsksForMore(doc) == \A s \in Setting : doc.is.set[s] # Missing

Valid(doc) == \A s \in Known(build) : doc.is.set[s] # Missing

\* What the store has in force with such a file: what the schema does not know is dropped.
Loaded(f) ==
    IF f = Nothing THEN Defaults(build)
    ELSE [f.is EXCEPT !.set = [s \in Setting |-> IF s \in Known(build) THEN @[s] ELSE Missing]]

\* Faulty variant: the version is a literal.
SavedAsFirst(c) == [version |-> 1, is |-> c]

\* A document the store writes is one of this version.
Saved(c) == [version |-> build, is |-> c]

-----------------------------------------------------------------------------
(* The start: migrations, then the store is opened.                        *)

ToBeMigrated == file # Broken /\ (file # Nothing => file.version < build)
Document == IF file = Nothing THEN Blank ELSE file

\* The document is read and, when migrations are pending, copied.
Start ==
    /\ phase = "down"
    /\ phase' = IF ToBeMigrated THEN "migrating" ELSE "loading"
    /\ backup' = IF ToBeMigrated THEN file ELSE Nothing
    /\ failed' = FALSE
    /\ UNCHANGED <<disk, store, sources, choices>>

\* One migration, and the document is written.
Migrate ==
    LET n == Document.version + 1 IN
    /\ phase = "migrating"
    /\ file' = [version |-> n, is |-> Migrated(Document.is, n)]
    /\ promised' = [s \in Setting |-> IF s \in Turns[n] THEN 0 ELSE promised[s]]
    /\ phase' = IF n = build THEN "loading" ELSE "migrating"
    /\ UNCHANGED <<build, backup, failed, store, sources, choices>>

\* A migration or its write fails, and what there was is put back: by copying, which is not
\* one step, so it may fail in its turn or the application may die in it.
MigrationFails ==
    /\ "refusals" \in Inputs
    /\ phase = "migrating"
    /\ backup # Nothing /\ "newRequired" \notin Inputs => Valid(backup)
    /\ \/ file' = backup
       \/ "restoreCut" \in Inputs /\ backup # Nothing /\ file' \in {Nothing, Broken}
    /\ phase' = "loading" /\ failed' = TRUE
    /\ UNCHANGED <<build, promised, backup, store, sources, choices>>

ByDefault == [s \in Source |-> Default[s]]

\* What the switches of the sources say, or else their manifests.
Switches(c) == [s \in Source |-> IF c.set[s] = Missing THEN Default[s] ELSE c.set[s].on]

\* The providers are registered with the operator's switches.
Registered(c) == Switches(c)

Load ==
    /\ phase = "loading"
    /\ file # Broken /\ (file # Nothing => Valid(file))
    /\ phase' = "open"
    /\ current' = Loaded(file) /\ told' = Loaded(file)
    /\ host' = Registered(Loaded(file))
    /\ UNCHANGED <<disk, backup, failed, chain, refused, switching, unapplied, choices>>

\* A file that is no valid document is renamed; the defaults are taken and written.
Quarantine ==
    /\ phase = "loading"
    /\ file # Nothing /\ (file # Broken => ~Valid(file))
    /\ file' = Nothing
    /\ current' = Defaults(build)
    /\ phase' = "resetting"
    /\ UNCHANGED <<build, promised, backup, failed, chain, refused, told, sources, choices>>

\* If this write fails the application does not start.
Reset ==
    /\ phase = "resetting"
    /\ file' = Saved(current)
    /\ phase' = "open"
    /\ told' = current /\ host' = Registered(current)
    /\ UNCHANGED <<build, promised, backup, failed, current, chain, refused, switching,
                   unapplied, choices>>

-----------------------------------------------------------------------------
(* The store.                                                              *)

MayChange == phase = "open" /\ (failed => "afterFailure" \in Inputs)

\* Faulty variant: the settings are written before the choice is made.
BeforeTheChoice(s, c, asks) == Append(chain, [of |-> s, is |-> current, asks |-> asks])

\* The host is asked to switch a source when the write is done, or is not.
Queued(s, c, asks) == Append(chain, [of |-> s, is |-> c, asks |-> asks])

\* patch: the choice is in force at once, and its document waits for the writes before it.
Patch(s, on, asks) ==
    LET c == [current EXCEPT !.set[s] = [nr |-> choices + 1, on |-> on]] IN
    /\ choices' = choices + 1
    /\ current' = c
    /\ chain' = Queued(s, c, asks)
    /\ UNCHANGED <<disk, start, refused, told>>

\* A source whose switch waits to be saved before the host is asked.
Asked(s) == \E i \in DOMAIN chain : chain[i].asks /\ chain[i].of = s
UnderWay(s) == \E w \in switching : w.of = s

\* settings.set, one setting of its patch.
Choose(s, on) ==
    /\ MayChange /\ choices + Cardinality(switching) < MaxChoices
    /\ s \in Known(build)
    /\ UnderWay(s) => "overlap" \in Inputs
    /\ Patch(s, on, s \in Source)
    /\ UNCHANGED sources

\* Faulty variant: a switch is persisted and not applied to the live host.
NotApplied(write) == host

\* What the host has enabled once it was asked for what was written.
Applied(write) ==
    IF write.asks THEN [host EXCEPT ![write.of] = write.is.set[write.of].on] ELSE host

\* The write of the first is done: the listeners are told of the settings as they are by
\* now, the host is asked, and takes the switch at once, and the caller is answered.
WriteLands ==
    LET write == Head(chain) IN
    /\ phase = "open" /\ chain # <<>>
    /\ file' = Saved(write.is)
    /\ chain' = Tail(chain)
    /\ told' = current /\ refused' = FALSE
    /\ promised' = [promised EXCEPT ![write.of] = write.is.set[write.of].nr]
    /\ host' = Applied(write)
    /\ unapplied' = IF write.asks THEN unapplied \ {write.of} ELSE unapplied
    /\ UNCHANGED <<build, start, current, switching, choices>>

\* The caller is told so; the settings stay as they are, the host is not asked, and the
\* next write has its turn.
WriteFails ==
    LET write == Head(chain) IN
    /\ "refusals" \in Inputs
    /\ phase = "open" /\ chain # <<>>
    /\ chain' = Tail(chain)
    /\ refused' = TRUE
    /\ unapplied' = IF write.asks THEN unapplied \cup {write.of} ELSE unapplied
    /\ UNCHANGED <<disk, start, current, told, host, switching, choices>>

-----------------------------------------------------------------------------
(* The switch of a source.                                                 *)

\* sources.setEnabled: the host is asked first; it takes the switch at once, and answers
\* when the source has started or stopped.
Switch(s, on) ==
    /\ MayChange /\ choices + Cardinality(switching) < MaxChoices
    /\ s \in Source \cap Known(build)
    /\ [of |-> s, on |-> on] \notin switching
    /\ UnderWay(s) \/ Asked(s) => "overlap" \in Inputs
    /\ host' = [host EXCEPT ![s] = on]
    /\ switching' = switching \cup {[of |-> s, on |-> on]}
    /\ UNCHANGED <<disk, start, store, unapplied, choices>>

\* Then the switch is saved, with those of the other sources as they are now.
HostAnswers(w) ==
    /\ phase = "open" /\ w \in switching
    /\ switching' = switching \ {w}
    /\ unapplied' = unapplied \ {w.of}
    /\ Patch(w.of, w.on, FALSE)
    /\ UNCHANGED host

-----------------------------------------------------------------------------
(* The end of a session, wanted or not: nothing waits for the writes.      *)

Quit ==
    /\ phase # "down"
    /\ phase' = "down"
    /\ backup' = Nothing /\ failed' = FALSE
    /\ current' = Defaults(build) /\ told' = Defaults(build)
    /\ chain' = <<>> /\ refused' = FALSE
    /\ host' = ByDefault /\ switching' = {} /\ unapplied' = {}
    /\ UNCHANGED <<disk, choices>>

\* Another version of the application is installed.
Install(v) ==
    /\ phase = "down" /\ v # build
    /\ v > build \/ "downgrade" \in Inputs
    /\ build' = v
    /\ current' = Defaults(v) /\ told' = Defaults(v)
    /\ UNCHANGED <<file, promised, start, chain, refused, sources, choices>>

-----------------------------------------------------------------------------
\* A file of an earlier day, which may have been edited or damaged, or none.
Init ==
    /\ build \in Version
    /\ \/ file \in {Nothing, Broken}
       \/ \E n \in 0 .. build, set \in [Setting -> [nr : {0}, on : BOOLEAN] \cup {Missing}] :
            file = [version |-> n,
                    is |-> [set |-> set, ran |-> [m \in Version |-> IF m <= n THEN 1 ELSE 0]]]
    /\ promised = [s \in Setting |-> 0]
    /\ phase = "down" /\ backup = Nothing /\ failed = FALSE
    /\ current = Defaults(build) /\ told = Defaults(build)
    /\ chain = <<>> /\ refused = FALSE
    /\ host = ByDefault /\ switching = {} /\ unapplied = {}
    /\ choices = 0

Starting == Start \/ Migrate \/ MigrationFails \/ Load \/ Quarantine \/ Reset

Operator ==
    \/ \E s \in Setting, on \in BOOLEAN : Choose(s, on) \/ Switch(s, on)
    \/ \E v \in Version : Install(v)

Next ==
    \/ Starting \/ Operator
    \/ WriteLands \/ WriteFails
    \/ \E w \in switching : HostAnswers(w)
    \/ Quit

Spec == Init /\ [][Next]_vars

-----------------------------------------------------------------------------
(* Properties.                                                             *)

Write == [of : Setting, is : Content, asks : BOOLEAN]

\* The type of every variable; what is in force is complete by the schema, whatever the
\* file was.
TypeOK ==
    /\ file \in Doc \cup {Nothing, Broken}
    /\ build \in Version
    /\ promised \in [Setting -> 0 .. MaxChoices]
    /\ phase \in {"down", "migrating", "loading", "resetting", "open"}
    /\ backup \in Doc \cup {Nothing}
    /\ failed \in BOOLEAN
    /\ current \in Content /\ told \in Content
    /\ chain \in Seq(Write)
    /\ refused \in BOOLEAN
    /\ host \in [Source -> BOOLEAN]
    /\ switching \subseteq [of : Source, on : BOOLEAN]
    /\ unapplied \subseteq Source
    /\ choices \in 0 .. MaxChoices
    /\ \A s \in Known(build) : current.set[s] # Missing

\* A choice that was answered as saved is in the file, or a later one of the same setting is:
\* through failed writes, the end of a session at any moment, migrations that fail, and new
\* versions of the application, but for a version that sets it for everyone.
AcknowledgedStays ==
    \A s \in Setting : promised[s] > 0 =>
        /\ file \in Doc
        /\ file.is.set[s] # Missing
        /\ file.is.set[s].nr >= promised[s]

\* The version of the file is the truth about it: each migration up to it has been applied
\* to what it holds, once, and none beyond.  What is turned for everyone is turned once and
\* left to the operator after.
MigratedOnce ==
    file \in Doc =>
        \A n \in Version : file.is.ran[n] = IF n <= file.version THEN 1 ELSE 0

\* When nothing is being written and the last write went well, a new start would come up with
\* exactly what is in force, and it is what the listeners were told.
Settled ==
    phase = "open" /\ chain = <<>> /\ ~refused =>
        /\ file # Broken
        /\ Loaded(file) = current
        /\ told = current

\* When no switch is under way and the host need not be asked any more, it has enabled the
\* sources that the settings in force say, which a start would register (Settled ties them to
\* the file): all but those whose last settings.set could not be saved, which are in force and
\* were not applied.
SwitchIsRemembered ==
    phase = "open" /\ switching = {} /\ (\A s \in Source : ~Asked(s)) =>
        \A s \in Source \ unapplied : host[s] = Switches(current)[s]
=============================================================================

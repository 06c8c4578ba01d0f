----------------------------- MODULE WorldPacks -----------------------------
(***************************************************************************)
(* The world pack registry (packages/offline/src/registry.ts) with the     *)
(* drives it reads packs from (vault.ts) and the runtime that joins the    *)
(* two (runtime/src/core.ts).                                              *)
(*                                                                         *)
(* A pack is a folder: in the application's own packs folder, Local, or on *)
(* a vault, a drive the operator may pull at any moment and plug in again, *)
(* perhaps altered on another computer.  What the operator chose about it  *)
(* (switched off, where it was last seen) is in state.json, whose publish- *)
(* ers and policy are in trust.json.  Scans, installs, removals and        *)
(* switches run one at a time in a queue; changes of trust, the monitor of *)
(* the drives and the drives themselves do not wait for it.                *)
(*                                                                         *)
(* Not modelled: place indexes, manifests beyond their date, signer and    *)
(* whether the pack is as they say, update packs, staging folders (cleared *)
(* by the next use), the list's entries for a second copy of a pack, and   *)
(* device numbers.                                                         *)
(***************************************************************************)
EXTENDS Integers, Sequences

CONSTANTS
    Pack,         \* pack identifiers, which are their folders' names
    Vault,        \* the drives
    Local,        \* the application's own packs folder
    Key,          \* publishers' keys
    Unsigned,     \* in place of a key: no signature
    Nothing,      \* no folder
    Broken,       \* a folder without a readable manifest
    FirstVaults,  \* the vaults of the settings at the start, in order
    None,         \* no entry, no listing, no job, no scan
    MaxMade,      \* how many dates of creation a pack can have
    MaxAsks,      \* how many commands the operator gives
    MaxUpsets,    \* how often a drive is pulled or the application dies
    MaxQueue,     \* how many jobs wait in the queue
    Awkward       \* the awkward moments at which a drive may go or come back:
                  \* see Pull, Plug and VaultDropped

ASSUME PacksAssumption ==
    /\ Local \notin Vault
    /\ Unsigned \notin Key
    /\ MaxMade \in Nat \ {0} /\ MaxAsks \in Nat /\ MaxUpsets \in Nat /\ MaxQueue \in Nat
    /\ FirstVaults \in Seq(Vault)
    /\ Awkward \subseteq {"listing", "unseen", "install"}

VARIABLES
    disk,         \* the folders: for every place and pack a copy, Broken or Nothing
    drive,        \* how every drive is: away, ready, read-only, or locked (its
                  \* packs folder is a link or cannot be listed)
    configured,   \* the vaults of the settings, in order
    saved,        \* state.json
    trustFile,    \* trust.json
    health,       \* what the monitor found at its last pass
    due,          \* a pass that is followed by a refresh was asked for
    trust,        \* the registry's trust
    listed,       \* the registry's packs
    loaded,       \* a scan has ended since the start
    queue,        \* jobs not yet begun
    running,      \* the job under way
    step,         \* where that job is
    scan,         \* the scan under way
    changes,      \* changes of trust that have read trust.json and not written it
    asks, upsets

files == <<disk, drive, configured, saved, trustFile>>
jobs == <<queue, running, step, scan>>
bounds == <<asks, upsets>>
vars == <<files, health, due, trust, listed, loaded, jobs, changes, bounds>>

Place == Vault \cup {Local}
\* A pack: when it was made, who signed it, and whether it is whole: a file of it may be missing
\* or cut short, its manifest may be another pack's or ask for a newer application, its signature
\* may not be the manifest's.
Copy == [made : 1 .. MaxMade, key : Key \cup {Unsigned}, whole : BOOLEAN]
Folder == Copy \cup {Broken, Nothing}
Entry == [enabled : BOOLEAN, at : Place]
Listing == [at : Place, copy : Folder, enabled : BOOLEAN,
            status : {"active", "disabled", "invalid"}]
Trust == [required : BOOLEAN, publishers : SUBSET Key]
Health == {"away", "ready", "read-only"}
Job == [do : {"refresh"}]
         \cup [do : {"install"}, pack : Pack, file : Copy, to : Place, trust : Trust]
         \cup [do : {"adopt"}, pack : Pack, file : Copy, to : Place]
         \cup [do : {"remove"}, pack : Pack]
         \cup [do : {"switch"}, pack : Pack, on : BOOLEAN]
Scan == [then : {"stage", "done"}, entries : [Pack -> Entry \cup {None}],
         trust : Trust, vaults : SUBSET Vault, said : [Vault -> Health],
         ask : Seq(Vault),
         read : Seq(Place), away : SUBSET Vault,
         found : [Pack -> Listing \cup {None}]]

ASSUME SentinelsAssumption ==
    /\ None \notin Entry \cup Listing \cup Job \cup Scan
    /\ Nothing \notin Copy /\ Broken \notin Copy /\ Nothing # Broken

NoTrust == [required |-> FALSE, publishers |-> {}]
Members(seq) == {seq[i] : i \in DOMAIN seq}

-----------------------------------------------------------------------------
(* Helpers.                                                                *)

Readable(state) == state \in {"ready", "read-only"}
Writable(state) == state = "ready"

\* Faulty variant: a drive whose packs folder is not usable is a state of its own.
ProbeOfFolder(v) == drive[v]

\* What a health check says of a drive: it does not look at the packs folder.
Probe(v) == IF drive[v] = "locked" THEN "ready" ELSE drive[v]

\* A place a pack can be written to now: a vault only when it proves so.
Accepts(place) == place = Local \/ Writable(drive[place])

Trusted(copy, t) == copy.key \in t.publishers

\* What loadPack says of a folder.
Status(copy, on, t) ==
    IF copy = Broken \/ ~copy.whole \/ (t.required /\ ~Trusted(copy, t)) THEN "invalid"
    ELSE IF on THEN "active" ELSE "disabled"

Enabled(entry) == entry # None => entry.enabled

\* Whose pack the registry takes it for: of one that is not whole it keeps the
\* manifest, and no signer.
Signer(copy) == IF copy.whole THEN copy.key ELSE Unsigned

\* replacementProblem: never an older pack, and over a signed one only the
\* same key or one of the operator's publishers.
MayReplace(old, new, t) ==
    /\ new.made >= old.made
    /\ Signer(old) = Unsigned \/ new.key = Signer(old) \/ Trusted(new, t)

Enqueue(job) == Len(queue) < MaxQueue /\ queue' = Append(queue, job)

\* Where a job begins: an install looks first at what is there now.
FirstStep(job) ==
    CASE job.do = "refresh" -> "open"
      [] job.do = "install" -> "check"
      [] OTHER              -> "act"

-----------------------------------------------------------------------------
(* The queue.                                                              *)

TakeJob ==
    /\ running = None /\ queue # <<>>
    /\ running' = Head(queue) /\ queue' = Tail(queue)
    /\ step' = FirstStep(Head(queue))
    /\ UNCHANGED <<files, health, due, trust, listed, loaded, scan, changes, bounds>>

\* A job that ends early has changed nothing since its last write.
GiveUp ==
    /\ running' = None /\ step' = "idle"
    /\ UNCHANGED <<queue, scan>>

Proceed(to) ==
    /\ step' = to
    /\ UNCHANGED <<queue, running, scan>>

-----------------------------------------------------------------------------
(* A scan, in the steps between which other things happen.                 *)

\* state.json and trust.json are read.
ScanOpens ==
    /\ step \in {"check", "open"} /\ scan = None
    /\ scan' = [then |-> IF step = "check" THEN "stage" ELSE "done",
                entries |-> saved, trust |-> trustFile, vaults |-> {},
                said |-> [v \in Vault |-> "away"], ask |-> <<>>, read |-> <<>>, away |-> {},
                found |-> [p \in Pack |-> None]]
    /\ step' = "trust"
    /\ UNCHANGED <<files, health, due, trust, listed, loaded, queue, running,
                   changes, bounds>>

\* The trust that was read takes effect, and the vaults are asked for with
\* what the monitor last said of them.
ScanTrusts ==
    /\ step = "trust"
    /\ trust' = scan.trust
    /\ scan' = [scan EXCEPT
                  !.vaults = Members(configured),
                  !.said = health,
                  !.ask = configured,
                  !.read = <<Local>>]
    /\ step' = "look"
    /\ UNCHANGED <<files, health, due, listed, loaded, queue, running, changes,
                   bounds>>

\* One vault: its marker is read again, as what the monitor said of it may be
\* 30 s old.
ScanBelieves ==
    /\ step = "look" /\ scan.ask # <<>>
    /\ LET v == Head(scan.ask)
       IN  scan' = IF ~Readable(scan.said[v]) \/ drive[v] = "away"
                   THEN [scan EXCEPT !.ask = Tail(@), !.away = @ \cup {v}]
                   ELSE [scan EXCEPT !.ask = Tail(@), !.read = Append(@, v)]
    /\ UNCHANGED <<files, health, due, trust, listed, loaded, queue, running,
                   step, changes, bounds>>

\* The packs of one place not found in an earlier one.  A vault that is gone by
\* now has no packs folder, which is read as an empty one.
Found(place) ==
    {p \in Pack : /\ place # Local => drive[place] # "away"
                  /\ disk[place][p] # Nothing
                  /\ scan.found[p] = None}

Load(p, place) ==
    [at |-> place, copy |-> disk[place][p],
     enabled |-> Enabled(scan.entries[p]),
     status |-> Status(disk[place][p], Enabled(scan.entries[p]), trust)]

\* Faulty variant: only what the operator or an install wrote is remembered.
NotRemembered(p, place) == scan.entries[p]

\* Where a pack on a vault was seen is remembered; one that has moved into the
\* application's folder is no longer on a vault.
Remembered(p, place) ==
    IF place = Local /\ scan.entries[p] = None THEN None
    ELSE [enabled |-> Enabled(scan.entries[p]), at |-> place]

\* One place is listed and its packs are loaded.
ScanLists ==
    /\ step = "look" /\ scan.ask = <<>> /\ scan.read # <<>>
    /\ LET place == Head(scan.read)
           here == Found(place)
       IN  scan' =
             IF place # Local /\ drive[place] = "locked"
             THEN [scan EXCEPT !.read = Tail(@), !.away = @ \cup {place}]
             ELSE [scan EXCEPT
                     !.read = Tail(@),
                     !.found = [p \in Pack |-> IF p \in here THEN Load(p, place)
                                               ELSE @[p]],
                     !.entries = [p \in Pack |->
                                    IF p \in here THEN Remembered(p, place)
                                    ELSE @[p]]]
    /\ UNCHANGED <<files, health, due, trust, listed, loaded, queue, running,
                   step, changes, bounds>>

\* A pack remembered on a vault and not found.
Missing(p) ==
    scan.found[p] = None /\ scan.entries[p] # None /\ scan.entries[p].at # Local

\* Faulty variant: what the monitor last said decides, not what was read.
KeptByHealth(p) ==
    scan.entries[p].at \in scan.vaults /\ ~Readable(health[scan.entries[p].at])

\* It is kept only while its vault is configured and was not read.
Kept(p) == scan.entries[p].at \in scan.vaults \cap scan.away

\* The packs of vaults that were not read are listed, those of vaults that were
\* read or are not configured any more are forgotten, and state.json is written.
ScanCloses ==
    /\ step = "look" /\ scan.ask = <<>> /\ scan.read = <<>>
    /\ saved' = [p \in Pack |-> IF Missing(p) /\ ~Kept(p) THEN None
                                ELSE scan.entries[p]]
    /\ listed' = [p \in Pack |->
                    IF Missing(p) /\ Kept(p)
                    THEN [at |-> scan.entries[p].at, copy |-> Nothing,
                          enabled |-> scan.entries[p].enabled,
                          status |-> "invalid"]
                    ELSE scan.found[p]]
    /\ loaded' = TRUE
    /\ scan' = None
    /\ IF scan.then = "stage"
       THEN step' = "stage" /\ UNCHANGED running
       ELSE step' = "idle" /\ running' = None
    /\ UNCHANGED <<disk, drive, configured, trustFile, health, due, trust, queue,
                   changes, bounds>>

-----------------------------------------------------------------------------
(* Installing a pack file, and making a downloaded one live.               *)

\* installNow up to the extraction: the target is checked, staging is made, and
\* the file will be judged by the trust of this moment.
InstallStages ==
    /\ step = "stage"
    /\ IF Accepts(running.to)
       THEN /\ running' = [running EXCEPT !.trust = trust] /\ step' = "verify"
            /\ UNCHANGED <<queue, scan>>
       ELSE GiveUp
    /\ UNCHANGED <<files, health, due, trust, listed, loaded, changes, bounds>>

\* Faulty variant: only a pack in use is compared with the new one.
RefusedByActive(p) ==
    /\ listed[p] # None
    /\ \/ listed[p].at # Local /\ listed[p].copy \notin Copy
       \/ listed[p].at # running.to
       \/ /\ listed[p].status = "active"
          /\ ~MayReplace(listed[p].copy, running.file, running.trust)

\* The pack as the last scan listed it stands in the way of the new one.
Refused(p) ==
    /\ listed[p] # None
    /\ \/ listed[p].at # Local /\ listed[p].copy \notin Copy
       \/ listed[p].at # running.to
       \/ /\ listed[p].copy \in Copy
          /\ ~MayReplace(listed[p].copy, running.file, running.trust)

\* The file is extracted and verified, compared with the installed pack, and
\* the target is checked again.
InstallVerifies ==
    /\ step = "verify"
    /\ IF /\ running.trust.required => Trusted(running.file, running.trust)
          /\ ~Refused(running.pack)
          /\ Accepts(running.to)
       THEN Proceed("clear")
       ELSE GiveUp
    /\ UNCHANGED <<files, health, due, trust, listed, loaded, changes, bounds>>

\* adoptDownload: the same target and place checks, no comparison with the
\* installed pack, and no scan first.
AdoptChecks ==
    /\ step = "act" /\ running.do = "adopt"
    /\ IF /\ trust.required => Trusted(running.file, trust)
          /\ Accepts(running.to)
          /\ listed[running.pack] # None => listed[running.pack].at = running.to
       THEN Proceed("clear")
       ELSE GiveUp
    /\ UNCHANGED <<files, health, due, trust, listed, loaded, changes, bounds>>

\* The installed folder makes way: deleted by an install, set aside by a
\* download.  On a drive that has just gone there is none.
ActivationClears ==
    /\ step = "clear"
    /\ disk' = IF Accepts(running.to)
               THEN [disk EXCEPT ![running.to][running.pack] = Nothing]
               ELSE disk
    /\ Proceed("move")
    /\ UNCHANGED <<drive, configured, saved, trustFile, health, due, trust,
                   listed, loaded, changes, bounds>>

\* The new folder is renamed into place.
ActivationMoves ==
    /\ step = "move"
    /\ IF Accepts(running.to)
       THEN /\ disk' = [disk EXCEPT ![running.to][running.pack] = running.file]
            /\ Proceed("note")
       ELSE UNCHANGED disk /\ GiveUp
    /\ UNCHANGED <<drive, configured, saved, trustFile, health, due, trust,
                   listed, loaded, changes, bounds>>

\* An installed pack stays switched off; a downloaded one is switched on.
NewEntry(job) ==
    [enabled |-> job.do = "adopt" \/ Enabled(saved[job.pack]), at |-> job.to]

ActivationNotes ==
    /\ step = "note"
    /\ saved' = [saved EXCEPT ![running.pack] = NewEntry(running)]
    /\ Proceed("open")
    /\ UNCHANGED <<disk, drive, configured, trustFile, health, due, trust,
                   listed, loaded, changes, bounds>>

-----------------------------------------------------------------------------
(* Removing and switching.                                                 *)

\* removeNow: nothing is deleted on a vault.
RemoveDeletes ==
    /\ step = "act" /\ running.do = "remove"
    /\ LET p == running.pack
       IN  IF listed[p] # None /\ listed[p].at = Local
           THEN /\ disk' = [disk EXCEPT ![Local][p] = Nothing]
                /\ Proceed("forget")
           ELSE UNCHANGED disk /\ GiveUp
    /\ UNCHANGED <<drive, configured, saved, trustFile, health, due, trust,
                   listed, loaded, changes, bounds>>

RemoveForgets ==
    /\ step = "forget"
    /\ saved' = [saved EXCEPT ![running.pack] = None]
    /\ Proceed("open")
    /\ UNCHANGED <<disk, drive, configured, trustFile, health, due, trust,
                   listed, loaded, changes, bounds>>

\* setEnabledNow: where the pack lives stays remembered.
SwitchSaves ==
    /\ step = "act" /\ running.do = "switch"
    /\ LET p == running.pack
           old == saved[p]
       IN  IF listed[p] # None
           THEN /\ saved' = [saved EXCEPT ![p] =
                              [enabled |-> running.on,
                               at |-> IF old = None THEN Local ELSE old.at]]
                /\ Proceed("open")
           ELSE UNCHANGED saved /\ GiveUp
    /\ UNCHANGED <<disk, drive, configured, trustFile, health, due, trust,
                   listed, loaded, changes, bounds>>

-----------------------------------------------------------------------------
(* Trust.  These changes are not in the queue.                             *)

Change == [set : {"required"}, to : BOOLEAN] \cup [set : {"add", "drop"}, key : Key]

Changed(c, t) ==
    CASE c.set = "required" -> [t EXCEPT !.required = c.to]
      [] c.set = "add"      -> [t EXCEPT !.publishers = @ \cup {c.key}]
      [] OTHER              -> [t EXCEPT !.publishers = @ \ {c.key}]

\* trust.json is read; what is written back is this copy, changed.
TrustAsked ==
    /\ loaded /\ asks < MaxAsks
    /\ \E c \in Change : changes' = changes \cup {[change |-> c, had |-> trustFile]}
    /\ asks' = asks + 1
    /\ UNCHANGED <<files, health, due, trust, listed, loaded, jobs, upsets>>

\* Faulty variant: the list is left to the next scan.
TrustWritesOnly ==
    \E c \in changes :
        /\ changes' = changes \ {c}
        /\ trustFile' = Changed(c.change, c.had)
        /\ trust' = trustFile'
        /\ UNCHANGED <<disk, drive, configured, saved, health, due, listed,
                       loaded, jobs, bounds>>

\* The refresh that follows lists the packs by the new trust.
TrustWrites ==
    \E c \in changes :
        /\ changes' = changes \ {c}
        /\ trustFile' = Changed(c.change, c.had)
        /\ trust' = trustFile'
        /\ Enqueue([do |-> "refresh"])
        /\ UNCHANGED <<disk, drive, configured, saved, health, due, listed,
                       loaded, running, step, scan, bounds>>

-----------------------------------------------------------------------------
(* The operator's other commands.                                          *)

Command(job) ==
    /\ loaded /\ asks < MaxAsks /\ Enqueue(job)
    /\ asks' = asks + 1
    /\ UNCHANGED <<files, health, due, trust, listed, loaded, running, step,
                   scan, changes, upsets>>

\* The target is a vault that was writable when it was last checked; any other
\* ends in a refusal after a scan, as a refresh does, and so does a file that is
\* not whole.
InstallAsked ==
    \E p \in Pack, file \in Copy, to \in Place :
        /\ file.whole
        /\ to # Local => to \in Members(configured) /\ Writable(health[to])
        /\ Command([do |-> "install", pack |-> p, file |-> file, to |-> to, trust |-> NoTrust])

\* A map download is this application's own, newly made and unsigned.
AdoptAsked ==
    \E p \in Pack, to \in Place :
        /\ to # Local => to \in Members(configured) /\ Writable(health[to])
        /\ Command([do |-> "adopt", pack |-> p, to |-> to,
                    file |-> [made |-> MaxMade, key |-> Unsigned, whole |-> TRUE]])

RemoveAsked == \E p \in Pack : Command([do |-> "remove", pack |-> p])

\* Faulty variant: the switch does not wait for the scan under way.
SwitchedAtOnce ==
    \E p \in Pack, on \in BOOLEAN :
        /\ loaded /\ asks < MaxAsks /\ listed[p] # None /\ saved[p] # None
        /\ saved' = [saved EXCEPT ![p].enabled = on]
        /\ asks' = asks + 1
        /\ UNCHANGED <<disk, drive, configured, trustFile, health, due, trust,
                       listed, loaded, jobs, changes, upsets>>

SwitchAsked ==
    \E p \in Pack, on \in BOOLEAN :
        Command([do |-> "switch", pack |-> p, on |-> on])

\* The jobs that write to a vault.
Targets(v) ==
    {job \in {running} \cup Members(queue) :
        job # None /\ job.do \in {"install", "adopt"} /\ job.to = v}

Without(seq, i) ==
    [j \in 1 .. Len(seq) - 1 |-> IF j < i THEN seq[j] ELSE seq[j + 1]]

\* addVault and removeVault: the settings, then a pass and a refresh.
VaultAdded ==
    /\ loaded /\ asks < MaxAsks
    /\ \E v \in Vault \ Members(configured) :
         Writable(drive[v]) /\ configured' = Append(configured, v)
    /\ asks' = asks + 1 /\ due' = TRUE
    /\ UNCHANGED <<disk, drive, saved, trustFile, health, trust, listed, loaded,
                   jobs, changes, upsets>>

VaultDropped ==
    /\ loaded /\ asks < MaxAsks
    /\ \E i \in DOMAIN configured :
         /\ "install" \in Awkward \/ Targets(configured[i]) = {}
         /\ configured' = Without(configured, i)
    /\ asks' = asks + 1 /\ due' = TRUE
    /\ UNCHANGED <<disk, drive, saved, trustFile, health, trust, listed, loaded,
                   jobs, changes, upsets>>

-----------------------------------------------------------------------------
(* The monitor.                                                            *)

Checked ==
    [v \in Vault |-> IF v \in Members(configured) THEN Probe(v) ELSE "away"]

\* Faulty variant: only a drive that comes is followed by a refresh.
RefreshWhenReady ==
    /\ due \/ health # Checked
    /\ health' = Checked /\ due' = FALSE
    /\ IF due \/ \E v \in Vault : Readable(Checked[v])
       THEN Enqueue([do |-> "refresh"]) ELSE UNCHANGED queue
    /\ UNCHANGED <<files, trust, listed, loaded, running, step, scan, changes,
                   bounds>>

\* One pass over the configured vaults.  A refresh follows when a state changed,
\* and when the pass was asked for.
MonitorPasses ==
    /\ due \/ health # Checked
    /\ health' = Checked /\ due' = FALSE
    /\ Enqueue([do |-> "refresh"])
    /\ UNCHANGED <<files, trust, listed, loaded, running, step, scan, changes,
                   bounds>>

-----------------------------------------------------------------------------
(* The drives, and the end of the application.                             *)

\* "listing": between a scan's look at the marker and its listing.
Pull ==
    \E v \in Vault :
        /\ drive[v] # "away" /\ upsets < MaxUpsets
        /\ ("listing" \notin Awkward /\ scan # None) => v \notin Members(scan.read)
        /\ drive' = [drive EXCEPT ![v] = "away"]
        /\ upsets' = upsets + 1
        /\ UNCHANGED <<disk, configured, saved, trustFile, health, due, trust,
                       listed, loaded, jobs, changes, asks>>

\* A drive comes back, altered on another computer or not.
\* "unseen": before a pass has seen that it was away.
\* "install": while a pack is being installed on it, or is about to be.
\* A drive is not away, altered and back within one scan.
Plug ==
    \E v \in Vault, state \in {"ready", "read-only", "locked"},
       folders \in [Pack -> Folder] :
        /\ drive[v] = "away"
        /\ "unseen" \in Awkward \/ ~Readable(health[v])
        /\ "install" \in Awkward \/ Targets(v) = {}
        /\ scan # None => folders = disk[v]
        /\ drive' = [drive EXCEPT ![v] = state]
        /\ disk' = [disk EXCEPT ![v] = folders]
        /\ UNCHANGED <<configured, saved, trustFile, health, due, trust, listed,
                       loaded, jobs, changes, bounds>>

\* The application dies and starts again: what is in memory is gone, the vaults
\* are checked and the packs scanned.
Crash ==
    /\ upsets < MaxUpsets
    /\ upsets' = upsets + 1
    /\ health' = [v \in Vault |-> "away"] /\ due' = TRUE
    /\ trust' = NoTrust
    /\ listed' = [p \in Pack |-> None] /\ loaded' = FALSE
    /\ queue' = <<>> /\ running' = None /\ step' = "idle" /\ scan' = None
    /\ changes' = {}
    /\ UNCHANGED <<files, asks>>

-----------------------------------------------------------------------------
\* The application starts with the drives of earlier days, in any state.
Init ==
    /\ \E folders \in [Vault -> [Pack -> Folder]] :
         disk = [place \in Place |-> IF place = Local
                                     THEN [p \in Pack |-> Nothing]
                                     ELSE folders[place]]
    /\ drive \in [Vault -> {"away", "ready"}]
    /\ configured = FirstVaults
    /\ saved = [p \in Pack |-> None]
    /\ trustFile = NoTrust
    /\ health = [v \in Vault |-> "away"] /\ due = TRUE
    /\ trust = NoTrust
    /\ listed = [p \in Pack |-> None] /\ loaded = FALSE
    /\ queue = <<>> /\ running = None /\ step = "idle" /\ scan = None
    /\ changes = {}
    /\ asks = 0 /\ upsets = 0

ScanStep == ScanOpens \/ ScanTrusts \/ ScanBelieves \/ ScanLists \/ ScanCloses

JobStep ==
    \/ TakeJob \/ ScanStep
    \/ InstallStages \/ InstallVerifies \/ AdoptChecks
    \/ ActivationClears \/ ActivationMoves \/ ActivationNotes
    \/ RemoveDeletes \/ RemoveForgets \/ SwitchSaves

Asked ==
    \/ InstallAsked \/ AdoptAsked \/ RemoveAsked \/ SwitchAsked
    \/ TrustAsked \/ VaultAdded \/ VaultDropped

Next ==
    \/ JobStep \/ TrustWrites \/ Asked
    \/ MonitorPasses \/ Pull \/ Plug \/ Crash

Spec == Init /\ [][Next]_vars

\* The program goes on as long as it has something to do: the jobs' and the trust
\* changes' awaits end, and the monitor's timer runs.  Nothing is assumed of the
\* order of these, nor of the operator or the drives.
FairSpec == Spec /\ WF_vars(JobStep \/ TrustWrites \/ MonitorPasses)

-----------------------------------------------------------------------------
(* Properties.                                                             *)

TypeOK ==
    /\ disk \in [Place -> [Pack -> Folder]]
    /\ drive \in [Vault -> {"away", "ready", "read-only", "locked"}]
    /\ configured \in Seq(Vault)
    /\ saved \in [Pack -> Entry \cup {None}]
    /\ trustFile \in Trust
    /\ health \in [Vault -> Health]
    /\ due \in BOOLEAN
    /\ trust \in Trust
    /\ listed \in [Pack -> Listing \cup {None}]
    /\ loaded \in BOOLEAN
    /\ queue \in Seq(Job)
    /\ running \in Job \cup {None}
    /\ step \in {"idle", "check", "open", "trust", "look", "stage", "verify",
                 "act", "clear", "move", "note", "forget"}
    /\ scan \in Scan \cup {None}
    /\ changes \subseteq [change : Change, had : Trust]
    /\ asks \in 0 .. MaxAsks /\ upsets \in 0 .. MaxUpsets

\* What the registry lists of a pack on a vault, its switch and its place, is
\* what state.json holds whenever no job is under way: it is all that is left
\* of the pack when the drive goes.
ListedIsRemembered ==
    running = None =>
        \A p \in Pack :
            listed[p] # None /\ listed[p].at # Local =>
                saved[p] = [enabled |-> listed[p].enabled, at |-> listed[p].at]

\* When nothing is left to do, no pack is used that the operator's policy, as it
\* is in trust.json, does not allow: changes of trust do not wait for the queue,
\* so a scan or an install under way may have begun under the old one.
OnlyTrustedPacksAreUsed ==
    running = None /\ queue = <<>> =>
        \A p \in Pack :
            /\ listed[p] # None
            /\ listed[p].status = "active"
            /\ trustFile.required
            => Trusted(listed[p].copy, trustFile)

\* The choices made about a pack on a vault are forgotten only by a scan that
\* found the vault no longer configured, or the pack no longer on the drive:
\* never because the drive was away.
ForgottenOnlyWhenGone ==
    [][\A p \in Pack :
        /\ scan # None
        /\ saved[p] # None /\ saved[p].at # Local
        /\ saved'[p] = None
        => \/ saved[p].at \notin scan.vaults
           \/ disk[saved[p].at][p] = Nothing]_vars

\* An install goes on to replace a pack only by one that may replace what is
\* really in its folder then, whatever the list said: never an older one, and for
\* a whole signed one only the same signer's, or that of a publisher who was
\* trusted when the file was unpacked.  Who signed a pack that is not whole the
\* registry does not know.
NeverOlderOrAnothers ==
    [][/\ step = "verify" /\ step' = "clear"
       /\ disk[running.to][running.pack] \in Copy
       => MayReplace(disk[running.to][running.pack], running.file, running.trust)]_vars

\* A pack that is switched off is switched on only by the operator, or by the
\* operator's download of it: no scan writes back an older state.json.
SwitchedOffStaysOff ==
    [][\A p \in Pack :
        /\ saved[p] # None /\ ~saved[p].enabled
        /\ saved'[p] # None /\ saved'[p].enabled
        => running # None /\ running.do \in {"switch", "adopt"}]_vars

\* What a scan of what is there now would list.
Order == <<Local>> \o configured
Holders(p) ==
    {i \in DOMAIN Order : /\ Order[i] # Local => Readable(drive[Order[i]])
                          /\ disk[Order[i]][p] # Nothing}
First(p) == CHOOSE i \in Holders(p) : \A j \in Holders(p) : i <= j

AsItIs(p) ==
    IF Holders(p) # {}
    THEN LET place == Order[First(p)]
         IN  [at |-> place, copy |-> disk[place][p], enabled |-> Enabled(saved[p]),
              status |-> Status(disk[place][p], Enabled(saved[p]), trustFile)]
    ELSE IF saved[p] # None /\ saved[p].at \in Members(configured)
    THEN [at |-> saved[p].at, copy |-> Nothing, enabled |-> saved[p].enabled,
          status |-> "invalid"]
    ELSE None

\* Once the drives stay as they are and the operator asks for nothing more, the
\* list becomes what there is and stays so: packs of a drive that came back are
\* used again as they were, those of a drive that went are shown as away, and
\* each pack is used from the first place that has it.
ListCatchesUp == <>[](\A p \in Pack : listed[p] = AsItIs(p))
=============================================================================

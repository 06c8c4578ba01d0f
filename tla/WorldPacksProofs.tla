-------------------------- MODULE WorldPacksProofs --------------------------
(***************************************************************************)
(* Proofs about the world pack registry.  The inductive invariant says     *)
(* what a scan under way may rely on although drives, trust and settings   *)
(* change between its steps: its copy of state.json agrees with the file,  *)
(* what it found is on the drives, and each place it has done with was     *)
(* read or is known not to have been.  Two of its parts hold only while    *)
(* the drives spare the scan and the install, and are stated under those   *)
(* assumptions on Awkward.                                                 *)
(***************************************************************************)
EXTENDS WorldPacks, SequenceTheorems, TLAPS

-----------------------------------------------------------------------------
(* The parts of the inductive invariant.                                   *)

NoPullMidListing == "listing" \notin Awkward
NoBlinkMidInstall == "install" \notin Awkward

\* Which job is at which step.
Shape ==
    /\ running = None <=> step = "idle"
    /\ scan # None <=> step \in {"trust", "look"}
    /\ step \in {"check", "stage", "verify"} => running.do = "install"
    /\ step \in {"clear", "move", "note"} => running.do \in {"install", "adopt"}
    /\ step = "act" => running.do \in {"remove", "switch", "adopt"}
    /\ step = "forget" => running.do = "remove"
    /\ scan # None => (scan.then = "stage" => running.do = "install")
    /\ step = "trust" => scan.away = {} /\ \A p \in Pack : scan.found[p] = None

\* A scan's copy of state.json: what it holds of the packs not found yet is in
\* the file, and no switch was changed on either side.
CopyIsTrue ==
    scan # None =>
        \A p \in Pack :
            /\ scan.found[p] = None => scan.entries[p] = saved[p]
            /\ saved[p] # None =>
                 scan.entries[p] # None /\ scan.entries[p].enabled = saved[p].enabled

\* What a scan has found is in its folder, and on a vault it is remembered.
FoundIsThere ==
    scan # None =>
        \A p \in Pack :
            scan.found[p] # None =>
                /\ scan.found[p].copy = disk[scan.found[p].at][p]
                /\ scan.found[p].at # Local =>
                     scan.entries[p] = [enabled |-> scan.found[p].enabled,
                                        at |-> scan.found[p].at]

\* A place the scan has done with was read, or is known not to be.
Seen(place) == \A p \in Pack : scan.found[p] # None \/ disk[place][p] = Nothing

DoneIsSeen ==
    NoPullMidListing /\ step = "look" =>
        \A place \in scan.vaults \cup {Local} :
            \/ place \in Members(scan.ask) \cup Members(scan.read) \cup scan.away
            \/ Seen(place)

\* A vault that was believed and is not read yet is still there.
BelievedIsThere ==
    NoPullMidListing /\ scan # None =>
        \A place \in Members(scan.read) : place # Local => drive[place] # "away"

\* What is listed of packs on vaults is in state.json, until it is written.
ListedAgrees ==
    step \notin {"open", "trust", "look"} =>
        \A p \in Pack :
            listed[p] # None /\ listed[p].at # Local =>
                saved[p] = [enabled |-> listed[p].enabled, at |-> listed[p].at]

\* The list is by the trust of trust.json, or a refresh is to come.
Lawful(l) ==
    \A p \in Pack :
        /\ l[p] # None /\ l[p].status = "active"
        /\ trustFile.required
        => Trusted(l[p].copy, trustFile)

RefreshToCome ==
    \/ \E job \in Members(queue) : job.do = "refresh"
    \/ step \in {"check", "open"}

ListIsLawful ==
    \/ RefreshToCome
    \/ step = "trust" /\ scan.trust = trustFile
    \/ step = "look" /\ trust = trustFile /\ Lawful(scan.found)
    \/ step \notin {"trust", "look"} /\ Lawful(listed)

\* A vault that a job is to write to is configured, and the monitor knows it
\* unless it is away, in which case it stays away until the job is over.
Steady(v) == v \in Members(configured) /\ (drive[v] = "ready" => Readable(health[v]))

TargetsAreSteady ==
    NoBlinkMidInstall => \A v \in Vault : Targets(v) # {} => Steady(v)

\* An install's scan passes its vault by only when the vault cannot be written.
PassedByIsNotReady ==
    /\ NoBlinkMidInstall /\ step = "look"
    /\ running.do = "install" /\ running.to # Local
    =>  /\ running.to \in scan.vaults
        /\ drive[running.to] = "ready" => /\ Readable(scan.said[running.to])
                                          /\ running.to \notin scan.away

\* Before an install decides, the list shows what is in its target folder.
Shown(p, place) ==
    disk[place][p] \in Copy =>
        /\ listed[p] # None
        /\ listed[p].at = place => listed[p].copy = disk[place][p]

TargetIsShown ==
    /\ NoPullMidListing /\ NoBlinkMidInstall
    /\ step \in {"stage", "verify"}
    /\ Accepts(running.to)
    => Shown(running.pack, running.to)

IInv ==
    /\ TypeOK /\ Shape /\ CopyIsTrue /\ FoundIsThere /\ DoneIsSeen
    /\ BelievedIsThere /\ ListedAgrees /\ ListIsLawful
    /\ TargetsAreSteady /\ PassedByIsNotReady /\ TargetIsShown

-----------------------------------------------------------------------------
(* Sequences and what is in them.                                          *)

LEMMA TailMembers ==
    ASSUME NEW S, NEW s \in Seq(S), s # <<>>
    PROVE  /\ Tail(s) \in Seq(S)
           /\ Head(s) \in S
           /\ Members(s) = {Head(s)} \cup Members(Tail(s))
<1>1. /\ Tail(s) \in Seq(S) /\ Len(s) \in Nat /\ Len(s) > 0
      /\ Len(Tail(s)) = Len(s) - 1
      /\ \A i \in 1 .. Len(s) - 1 : Tail(s)[i] = s[i + 1]
      /\ Head(s) = s[1] /\ Head(s) \in S
    OBVIOUS
<1>2. DOMAIN s = 1 .. Len(s) /\ DOMAIN Tail(s) = 1 .. Len(s) - 1
    BY <1>1
<1>3. ASSUME NEW i \in DOMAIN s
      PROVE  s[i] = Head(s) \/ \E j \in DOMAIN Tail(s) : Tail(s)[j] = s[i]
    <2>1. CASE i = 1
        BY <2>1, <1>1
    <2>2. CASE i # 1
        <3>1. i - 1 \in DOMAIN Tail(s) /\ Tail(s)[i - 1] = s[i]
            BY <2>2, <1>1, <1>2
        <3> QED BY <3>1
    <2> QED BY <2>1, <2>2
<1>4. ASSUME NEW j \in DOMAIN Tail(s) PROVE \E i \in DOMAIN s : s[i] = Tail(s)[j]
    <2>1. j + 1 \in DOMAIN s /\ s[j + 1] = Tail(s)[j]
        BY <1>1, <1>2
    <2> QED BY <2>1
<1>5. \E i \in DOMAIN s : s[i] = Head(s)
    BY <1>1, <1>2
<1> QED BY <1>1, <1>3, <1>4, <1>5 DEF Members

LEMMA AppendMembers ==
    ASSUME NEW S, NEW s \in Seq(S), NEW x \in S
    PROVE  /\ Append(s, x) \in Seq(S)
           /\ Members(Append(s, x)) = Members(s) \cup {x}
           /\ DOMAIN s \subseteq DOMAIN Append(s, x)
           /\ \A i \in DOMAIN s : Append(s, x)[i] = s[i]
           /\ Len(s) + 1 \in DOMAIN Append(s, x) /\ Append(s, x)[Len(s) + 1] = x
<1>1. /\ Append(s, x) \in Seq(S) /\ Len(s) \in Nat
      /\ Len(Append(s, x)) = Len(s) + 1
      /\ \A i \in 1 .. Len(s) : Append(s, x)[i] = s[i]
      /\ Append(s, x)[Len(s) + 1] = x
    OBVIOUS
<1>2. DOMAIN s = 1 .. Len(s) /\ DOMAIN Append(s, x) = 1 .. Len(s) + 1
    BY <1>1
<1>3. \A i \in DOMAIN Append(s, x) : i \in DOMAIN s \/ i = Len(s) + 1
    BY <1>1, <1>2
<1> QED BY <1>1, <1>2, <1>3 DEF Members

LEMMA WithoutMembers ==
    ASSUME NEW S, NEW s \in Seq(S), NEW k \in DOMAIN s
    PROVE  /\ Without(s, k) \in Seq(S)
           /\ Members(s) \subseteq Members(Without(s, k)) \cup {s[k]}
<1>1. Len(s) \in Nat /\ DOMAIN s = 1 .. Len(s) /\ k \in 1 .. Len(s) /\ Len(s) - 1 \in Nat
    OBVIOUS
<1>2. Without(s, k) \in [1 .. Len(s) - 1 -> S]
    BY <1>1 DEF Without
<1>3. ASSUME NEW i \in DOMAIN s, i # k
      PROVE  \E j \in 1 .. Len(s) - 1 : Without(s, k)[j] = s[i]
    <2>1. CASE i < k
        <3>1. i \in 1 .. Len(s) - 1 /\ Without(s, k)[i] = s[i]
            BY <2>1, <1>1 DEF Without
        <3> QED BY <3>1
    <2>2. CASE i > k
        <3>1. i - 1 \in 1 .. Len(s) - 1 /\ Without(s, k)[i - 1] = s[i]
            BY <2>2, <1>1 DEF Without
        <3> QED BY <3>1
    <2> QED BY <1>1, <1>3, <2>1, <2>2
<1>4. Without(s, k) \in Seq(S)
    BY <1>1, <1>2, SeqDef
<1>5. DOMAIN Without(s, k) = 1 .. Len(s) - 1
    BY <1>2
<1> QED BY <1>3, <1>4, <1>5 DEF Members

-----------------------------------------------------------------------------
(* Facts about the fields of jobs and scans, and about the queue.          *)

LEMMA JobFacts ==
    ASSUME NEW j \in Job
    PROVE  /\ j.do \in {"refresh", "install", "adopt", "remove", "switch"}
           /\ j.do \in {"install", "adopt"} =>
                /\ j.pack \in Pack /\ j.file \in Copy /\ j.to \in Place
           /\ j.do = "install" => j.trust \in Trust
           /\ j.do = "remove" => j.pack \in Pack
           /\ j.do = "switch" => j.pack \in Pack /\ j.on \in BOOLEAN
    BY DEF Job

LEMMA EnqueueFacts ==
    ASSUME TypeOK, NEW j \in Job, Enqueue(j), UNCHANGED running
    PROVE  /\ queue' \in Seq(Job)
           /\ Members(queue') = Members(queue) \cup {j}
           /\ \A v \in Vault : \A job \in Targets(v)' :
                job \in Targets(v) \/ (job = j /\ j.do \in {"install", "adopt"} /\ j.to = v)
<1>1. queue \in Seq(Job) /\ queue' = Append(queue, j)
    BY DEF TypeOK, Enqueue
<1>2. queue' \in Seq(Job) /\ Members(queue') = Members(queue) \cup {j}
    BY <1>1, AppendMembers
<1> QED BY <1>2 DEF Targets

LEMMA DroppedFacts ==
    ASSUME TypeOK, VaultDropped
    PROVE  /\ configured' \in Seq(Vault)
           /\ \E v \in Vault : /\ NoBlinkMidInstall => Targets(v) = {}
                             /\ Members(configured) \subseteq Members(configured') \cup {v}
<1>1. PICK i \in DOMAIN configured :
        /\ "install" \in Awkward \/ Targets(configured[i]) = {}
        /\ configured' = Without(configured, i)
    BY DEF VaultDropped
<1>2. configured \in Seq(Vault) /\ configured[i] \in Vault
    BY DEF TypeOK
<1>3. Without(configured, i) \in Seq(Vault)
    BY <1>2, WithoutMembers
<1>4. Members(configured) \subseteq Members(Without(configured, i)) \cup {configured[i]}
    BY <1>2, WithoutMembers
<1> QED BY <1>1, <1>2, <1>3, <1>4 DEF NoBlinkMidInstall

LEMMA ChangedType ==
    ASSUME NEW c \in Change, NEW t \in Trust
    PROVE  Changed(c, t) \in Trust
    BY DEF Change, Changed, Trust

LEMMA ScanFields ==
    ASSUME NEW s \in Scan
    PROVE  /\ s.then \in {"stage", "done"} /\ s.entries \in [Pack -> Entry \cup {None}]
           /\ s.trust \in Trust /\ s.vaults \subseteq Vault /\ s.said \in [Vault -> Health]
           /\ s.ask \in Seq(Vault) /\ s.read \in Seq(Place) /\ s.away \subseteq Vault
           /\ s.found \in [Pack -> Listing \cup {None}]
    BY DEF Scan

LEMMA EnabledType ==
    ASSUME NEW e \in Entry \cup {None}
    PROVE  Enabled(e) \in BOOLEAN
    BY DEF Enabled, Entry

LEMMA SameScan ==
    ASSUME DoneIsSeen, scan' = scan, step' = step, scan # None => disk' = disk, Shape
    PROVE  DoneIsSeen'
    BY DEF DoneIsSeen, Seen, Shape

LEMMA ScanListsType ==
    ASSUME IInv, ScanLists
    PROVE  scan' \in Scan
<1> USE PacksAssumption, SentinelsAssumption DEF IInv, ScanLists
<1> DEFINE place == Head(scan.read)
           here == Found(place)
           locked == place # Local /\ drive[place] = "locked"
<1>1. /\ scan \in Scan /\ scan # None
      /\ place \in Place /\ Tail(scan.read) \in Seq(Place)
      /\ Members(scan.read) = {place} \cup Members(Tail(scan.read))
    <2>1. scan \in Scan /\ scan # None
        BY DEF TypeOK, Shape
    <2> QED BY <2>1, ScanFields, TailMembers
<1>2. /\ scan'.then = scan.then /\ scan'.trust = scan.trust /\ scan'.said = scan.said
      /\ scan'.vaults = scan.vaults /\ scan'.ask = scan.ask
      /\ scan'.read = Tail(scan.read)
      /\ scan'.away = IF locked THEN scan.away \cup {place} ELSE scan.away
      /\ scan'.found = [p \in Pack |-> IF ~locked /\ p \in here THEN Load(p, place)
                                       ELSE scan.found[p]]
      /\ scan'.entries = [p \in Pack |-> IF ~locked /\ p \in here
                                         THEN Remembered(p, place)
                                         ELSE scan.entries[p]]
    BY <1>1 DEF Scan
<1>3. ASSUME NEW p \in Pack
      PROVE  /\ p \in here => Load(p, place) \in Listing
             /\ Remembered(p, place) \in Entry \cup {None}
    <2>1. /\ scan.entries[p] \in Entry \cup {None} /\ disk[place][p] \in Folder
          /\ Enabled(scan.entries[p]) \in BOOLEAN
        BY <1>1, ScanFields, EnabledType DEF TypeOK
    <2>2. Status(disk[place][p], Enabled(scan.entries[p]), trust)
            \in {"active", "disabled", "invalid"}
        BY DEF Status
    <2>3. Load(p, place) \in Listing
        BY <1>1, <2>1, <2>2 DEF Load, Listing
    <2>4. Remembered(p, place) \in Entry \cup {None}
        BY <1>1, <2>1 DEF Remembered, Entry
    <2> QED BY <2>3, <2>4
<1>4. scan'.found \in [Pack -> Listing \cup {None}]
    BY <1>1, <1>2, <1>3, ScanFields
<1>5. scan'.entries \in [Pack -> Entry \cup {None}]
    BY <1>1, <1>2, <1>3, ScanFields
<1>6. scan'.away \subseteq Vault
    BY <1>1, <1>2, ScanFields DEF Place
<1>7. CASE locked
    <2>1. scan' = [scan EXCEPT !.read = Tail(@), !.away = @ \cup {place}]
        BY <1>7
    <2> QED BY ZenonT(30), <1>1, <1>2, <1>6, <2>1 DEF Scan
<1>8. CASE ~locked
    <2>1. scan' = [scan EXCEPT !.read = Tail(scan.read), !.found = scan'.found,
                               !.entries = scan'.entries]
        BY <1>1, <1>8 DEF Scan
    <2> QED BY <1>1, <1>2, <1>4, <1>5, <2>1 DEF Scan
<1> QED BY <1>7, <1>8

-----------------------------------------------------------------------------
(* One lemma per action: it keeps the invariant, part by part.             *)

LEMMA TakeJobKeeps ==
    ASSUME IInv, TakeJob PROVE IInv'
<1> USE PacksAssumption, SentinelsAssumption
    DEF IInv, TakeJob, files, bounds, FirstStep
<1>1. TypeOK'
    BY DEF TypeOK, Shape
<1>2. Shape'
    BY DEF Shape, TypeOK, Job
<1>3. CopyIsTrue'
    BY DEF CopyIsTrue, TypeOK, Shape
<1>4. FoundIsThere'
    BY DEF FoundIsThere, TypeOK, Shape
<1>5. DoneIsSeen'
    BY DEF DoneIsSeen, Seen, Shape, Members
<1>6. BelievedIsThere'
    BY DEF BelievedIsThere, TypeOK, Shape, Members
<1>7. ListedAgrees'
    BY DEF ListedAgrees, TypeOK, Shape
<1>8. ListIsLawful'
    <2>1. /\ Members(queue) = {Head(queue)} \cup Members(queue')
          /\ Head(queue) \in Job
        BY TailMembers DEF TypeOK
    <2>2. CASE Head(queue).do = "refresh"
        BY <2>2 DEF ListIsLawful, RefreshToCome
    <2>3. CASE Head(queue).do # "refresh"
        BY <2>1, <2>3 DEF ListIsLawful, RefreshToCome, Lawful, Shape
    <2> QED BY <2>2, <2>3
<1>9. TargetsAreSteady'
    BY DEF TargetsAreSteady, Targets, Steady, Members, TypeOK, Shape, Place, Job
<1>10. PassedByIsNotReady'
    BY DEF PassedByIsNotReady, Shape, TypeOK
<1>11. TargetIsShown'
    BY DEF TargetIsShown, Shown, Accepts, Writable, Shape, TypeOK
<1> QED BY <1>1, <1>2, <1>3, <1>4, <1>5, <1>6, <1>7, <1>8, <1>9, <1>10, <1>11
    DEF IInv

LEMMA ScanOpensKeeps ==
    ASSUME IInv, ScanOpens PROVE IInv'
<1> USE PacksAssumption, SentinelsAssumption
    DEF IInv, ScanOpens, files, bounds
<1>1. TypeOK'
    <2>1. scan' \in Scan
        BY DEF TypeOK, Scan, Health
    <2> QED BY <2>1 DEF TypeOK
<1>2. Shape'
    <2>1. scan' # None /\ scan'.then = (IF step = "check" THEN "stage" ELSE "done")
          /\ scan'.away = {} /\ scan'.found = [p \in Pack |-> None]
        <3>1. scan' \in Scan
            BY DEF TypeOK, Scan, Health
        <3> QED BY <3>1
    <2> QED BY <2>1 DEF Shape
<1>3. CopyIsTrue'
    BY DEF CopyIsTrue, TypeOK, Shape
<1>4. FoundIsThere'
    BY DEF FoundIsThere, TypeOK, Shape
<1>5. DoneIsSeen'
    BY DEF DoneIsSeen, Seen, Shape, Members
<1>6. BelievedIsThere'
    BY DEF BelievedIsThere, TypeOK, Shape, Members
<1>7. ListedAgrees'
    BY DEF ListedAgrees, TypeOK, Shape
<1>8. ListIsLawful'
    BY DEF ListIsLawful, RefreshToCome, Lawful, Shape, Members
<1>9. TargetsAreSteady'
    BY DEF TargetsAreSteady, Targets, Steady
<1>10. PassedByIsNotReady'
    BY DEF PassedByIsNotReady, Shape, TypeOK
<1>11. TargetIsShown'
    BY DEF TargetIsShown, Shown, Accepts, Writable, Shape, TypeOK
<1> QED BY <1>1, <1>2, <1>3, <1>4, <1>5, <1>6, <1>7, <1>8, <1>9, <1>10, <1>11
    DEF IInv

LEMMA ScanTrustsKeeps ==
    ASSUME IInv, ScanTrusts PROVE IInv'
<1> USE PacksAssumption, SentinelsAssumption
    DEF IInv, ScanTrusts, files, bounds
<1>1. TypeOK'
    <2>1. scan \in Scan /\ scan # None
        BY DEF TypeOK, Shape
    <2>2. scan' \in Scan /\ scan'.then = scan.then
        <3>1. /\ Members(configured) \subseteq Vault /\ configured \in Seq(Vault)
              /\ health \in [Vault -> Health]
            BY DEF TypeOK, Members
        <3>2. <<Local>> \in Seq(Place)
            BY DEF Place
        <3> QED BY <2>1, <3>1, <3>2 DEF Scan
    <2> QED BY <2>1, <2>2, ScanFields DEF TypeOK
<1>2. Shape'
    <2>1. scan \in Scan /\ scan # None
        BY DEF TypeOK, Shape
    <2>2. scan' \in Scan /\ scan'.then = scan.then
        <3>1. /\ Members(configured) \subseteq Vault /\ configured \in Seq(Vault)
              /\ health \in [Vault -> Health]
            BY DEF TypeOK, Members
        <3>2. <<Local>> \in Seq(Place)
            BY DEF Place
        <3> QED BY <2>1, <3>1, <3>2 DEF Scan
    <2> QED BY <2>1, <2>2 DEF Shape
<1>3. CopyIsTrue'
    BY DEF CopyIsTrue, TypeOK, Shape
<1>4. FoundIsThere'
    BY DEF FoundIsThere, TypeOK, Shape
<1>5. DoneIsSeen'
    BY DEF DoneIsSeen, Seen, Shape, Members
<1>6. BelievedIsThere'
    BY DEF BelievedIsThere, TypeOK, Shape, Members
<1>7. ListedAgrees'
    BY DEF ListedAgrees, TypeOK, Shape
<1>8. ListIsLawful'
    <2>1. scan \in Scan /\ scan # None
        BY DEF TypeOK, Shape
    <2>2. scan'.found = scan.found
        BY <2>1 DEF Scan
    <2> QED BY <2>1, <2>2 DEF ListIsLawful, RefreshToCome, Lawful, Shape
<1>9. TargetsAreSteady'
    BY DEF TargetsAreSteady, Targets, Steady
<1>10. PassedByIsNotReady'
    <2>1. scan \in Scan /\ scan # None
        BY DEF TypeOK, Shape
    <2>2. scan'.vaults = Members(configured) /\ scan'.said = health /\ scan'.away = {}
        BY <2>1 DEF Scan, Shape
    <2>3. ASSUME "install" \notin Awkward, running.do = "install", running.to # Local
          PROVE  Steady(running.to)
        <3>1. running \in Job /\ running # None /\ running.to \in Vault
            BY <2>3, JobFacts DEF TypeOK, Shape, Place
        <3>2. running \in Targets(running.to)
            BY <3>1, <2>3 DEF Targets
        <3> QED BY <2>3, <3>1, <3>2 DEF TargetsAreSteady, NoBlinkMidInstall
    <2> QED BY <2>2, <2>3 DEF PassedByIsNotReady, Steady, NoBlinkMidInstall
<1>11. TargetIsShown'
    BY DEF TargetIsShown, Shown, Accepts, Writable, Shape, TypeOK
<1> QED BY <1>1, <1>2, <1>3, <1>4, <1>5, <1>6, <1>7, <1>8, <1>9, <1>10, <1>11
    DEF IInv

LEMMA ScanBelievesKeeps ==
    ASSUME IInv, ScanBelieves PROVE IInv'
<1> USE PacksAssumption, SentinelsAssumption
    DEF IInv, ScanBelieves, files, bounds
<1>1. TypeOK'
    <2>1. /\ scan \in Scan /\ scan # None
          /\ Head(scan.ask) \in Vault /\ Tail(scan.ask) \in Seq(Vault)
          /\ Members(scan.ask) = {Head(scan.ask)} \cup Members(Tail(scan.ask))
        <3>1. scan \in Scan /\ scan # None
            BY DEF TypeOK, Shape
        <3> QED BY <3>1, ScanFields, TailMembers
    <2>2. /\ Append(scan.read, Head(scan.ask)) \in Seq(Place)
          /\ Members(Append(scan.read, Head(scan.ask))) =
               Members(scan.read) \cup {Head(scan.ask)}
        <3>1. scan.read \in Seq(Place) /\ Head(scan.ask) \in Place
            BY <2>1, ScanFields DEF Place
        <3> QED BY <3>1, AppendMembers
    <2>3. scan' \in Scan
        BY <2>1, <2>2 DEF Scan
    <2> QED BY <2>3 DEF TypeOK
<1>2. Shape'
    <2>1. /\ scan \in Scan /\ scan # None
          /\ Head(scan.ask) \in Vault /\ Tail(scan.ask) \in Seq(Vault)
          /\ Members(scan.ask) = {Head(scan.ask)} \cup Members(Tail(scan.ask))
        <3>1. scan \in Scan /\ scan # None
            BY DEF TypeOK, Shape
        <3> QED BY <3>1, ScanFields, TailMembers
    <2>2. /\ Append(scan.read, Head(scan.ask)) \in Seq(Place)
          /\ Members(Append(scan.read, Head(scan.ask))) =
               Members(scan.read) \cup {Head(scan.ask)}
        <3>1. scan.read \in Seq(Place) /\ Head(scan.ask) \in Place
            BY <2>1, ScanFields DEF Place
        <3> QED BY <3>1, AppendMembers
    <2>3. scan' \in Scan /\ scan'.then = scan.then
        BY <2>1, <2>2 DEF Scan
    <2> QED BY <2>1, <2>3 DEF Shape
<1>3. CopyIsTrue'
    BY DEF CopyIsTrue, TypeOK, Shape
<1>4. FoundIsThere'
    BY DEF FoundIsThere, TypeOK, Shape
<1>5. DoneIsSeen'
    <2>1. /\ scan \in Scan /\ scan # None
          /\ Head(scan.ask) \in Vault /\ Tail(scan.ask) \in Seq(Vault)
          /\ Members(scan.ask) = {Head(scan.ask)} \cup Members(Tail(scan.ask))
        <3>1. scan \in Scan /\ scan # None
            BY DEF TypeOK, Shape
        <3> QED BY <3>1, ScanFields, TailMembers
    <2>2. /\ Append(scan.read, Head(scan.ask)) \in Seq(Place)
          /\ Members(Append(scan.read, Head(scan.ask))) =
               Members(scan.read) \cup {Head(scan.ask)}
        <3>1. scan.read \in Seq(Place) /\ Head(scan.ask) \in Place
            BY <2>1, ScanFields DEF Place
        <3> QED BY <3>1, AppendMembers
    <2>3. /\ scan'.vaults = scan.vaults /\ scan'.found = scan.found
          /\ scan'.ask = Tail(scan.ask)
          /\ \/ scan'.away = scan.away \cup {Head(scan.ask)} /\ scan'.read = scan.read
             \/ scan'.away = scan.away /\ scan'.read = Append(scan.read, Head(scan.ask))
        BY <2>1 DEF Scan
    <2> QED BY <2>1, <2>2, <2>3 DEF DoneIsSeen, Seen
<1>6. BelievedIsThere'
    BY DEF BelievedIsThere, TypeOK, Shape, Members
<1>7. ListedAgrees'
    BY DEF ListedAgrees, TypeOK, Shape
<1>8. ListIsLawful'
    BY DEF ListIsLawful, RefreshToCome, Lawful, Shape, Members
<1>9. TargetsAreSteady'
    BY DEF TargetsAreSteady, Targets, Steady
<1>10. PassedByIsNotReady'
    BY DEF PassedByIsNotReady, Shape, TypeOK
<1>11. TargetIsShown'
    BY DEF TargetIsShown, Shown, Accepts, Writable, Shape, TypeOK
<1> QED BY <1>1, <1>2, <1>3, <1>4, <1>5, <1>6, <1>7, <1>8, <1>9, <1>10, <1>11
    DEF IInv

LEMMA ScanListsKeeps ==
    ASSUME IInv, ScanLists PROVE IInv'
<1> USE PacksAssumption, SentinelsAssumption
    DEF IInv, ScanLists, files, bounds
<1>1. TypeOK'
    BY ScanListsType DEF TypeOK
<1>2. Shape'
    <2> DEFINE place == Head(scan.read)
               here == Found(place)
               locked == place # Local /\ drive[place] = "locked"
    <2>1. /\ scan \in Scan /\ scan # None
          /\ place \in Place /\ Tail(scan.read) \in Seq(Place)
          /\ Members(scan.read) = {place} \cup Members(Tail(scan.read))
        <3>1. scan \in Scan /\ scan # None
            BY DEF TypeOK, Shape
        <3> QED BY <3>1, ScanFields, TailMembers
    <2>2. /\ scan'.then = scan.then /\ scan'.trust = scan.trust /\ scan'.said = scan.said
          /\ scan'.vaults = scan.vaults /\ scan'.ask = scan.ask
          /\ scan'.read = Tail(scan.read)
          /\ scan'.away = IF locked THEN scan.away \cup {place} ELSE scan.away
          /\ scan'.found = [p \in Pack |-> IF ~locked /\ p \in here THEN Load(p, place)
                                           ELSE scan.found[p]]
          /\ scan'.entries = [p \in Pack |-> IF ~locked /\ p \in here
                                             THEN Remembered(p, place)
                                             ELSE scan.entries[p]]
        BY <2>1 DEF Scan
    <2>3. scan' # None
        BY ScanListsType
    <2> QED BY <2>1, <2>2, <2>3 DEF Shape
<1>3. CopyIsTrue'
    <2> DEFINE place == Head(scan.read)
               here == Found(place)
               locked == place # Local /\ drive[place] = "locked"
    <2>1. /\ scan \in Scan /\ scan # None
          /\ place \in Place /\ Tail(scan.read) \in Seq(Place)
          /\ Members(scan.read) = {place} \cup Members(Tail(scan.read))
        <3>1. scan \in Scan /\ scan # None
            BY DEF TypeOK, Shape
        <3> QED BY <3>1, ScanFields, TailMembers
    <2>2. /\ scan'.then = scan.then /\ scan'.trust = scan.trust /\ scan'.said = scan.said
          /\ scan'.vaults = scan.vaults /\ scan'.ask = scan.ask
          /\ scan'.read = Tail(scan.read)
          /\ scan'.away = IF locked THEN scan.away \cup {place} ELSE scan.away
          /\ scan'.found = [p \in Pack |-> IF ~locked /\ p \in here THEN Load(p, place)
                                           ELSE scan.found[p]]
          /\ scan'.entries = [p \in Pack |-> IF ~locked /\ p \in here
                                             THEN Remembered(p, place)
                                             ELSE scan.entries[p]]
        BY <2>1 DEF Scan
    <2>3. ASSUME NEW p \in Pack
          PROVE  /\ scan'.found[p] = None => scan'.entries[p] = saved'[p]
                 /\ saved'[p] # None =>
                      /\ scan'.entries[p] # None
                      /\ scan'.entries[p].enabled = saved'[p].enabled
        <3>1. /\ scan.found[p] = None => scan.entries[p] = saved[p]
              /\ saved[p] # None =>
                   scan.entries[p] # None /\ scan.entries[p].enabled = saved[p].enabled
            BY <2>1 DEF CopyIsTrue
        <3>2. CASE ~locked /\ p \in here
            <4>1. scan'.found[p] = Load(p, place) /\ scan'.entries[p] = Remembered(p, place)
                BY <2>2, <3>2
            <4>2. Load(p, place) # None
                BY <3>2, <2>1, ScanFields, EnabledType DEF Load, Listing, TypeOK, Status
            <4>3. saved[p] # None => Remembered(p, place) =
                                       [enabled |-> saved[p].enabled, at |-> place]
                BY <2>1, <3>1, ScanFields DEF Remembered, Enabled, Entry
            <4>4. [enabled |-> saved[p].enabled, at |-> place] # None
                  \/ saved[p] = None
                BY <2>1 DEF Entry, TypeOK
            <4> QED BY <4>1, <4>2, <4>3, <4>4
        <3>3. CASE ~(~locked /\ p \in here)
            BY <2>2, <3>1, <3>3
        <3> QED BY <3>2, <3>3
    <2> QED BY <2>3 DEF CopyIsTrue
<1>4. FoundIsThere'
    <2> DEFINE place == Head(scan.read)
               here == Found(place)
               locked == place # Local /\ drive[place] = "locked"
    <2>1. /\ scan \in Scan /\ scan # None
          /\ place \in Place /\ Tail(scan.read) \in Seq(Place)
          /\ Members(scan.read) = {place} \cup Members(Tail(scan.read))
        <3>1. scan \in Scan /\ scan # None
            BY DEF TypeOK, Shape
        <3> QED BY <3>1, ScanFields, TailMembers
    <2>2. /\ scan'.then = scan.then /\ scan'.trust = scan.trust /\ scan'.said = scan.said
          /\ scan'.vaults = scan.vaults /\ scan'.ask = scan.ask
          /\ scan'.read = Tail(scan.read)
          /\ scan'.away = IF locked THEN scan.away \cup {place} ELSE scan.away
          /\ scan'.found = [p \in Pack |-> IF ~locked /\ p \in here THEN Load(p, place)
                                           ELSE scan.found[p]]
          /\ scan'.entries = [p \in Pack |-> IF ~locked /\ p \in here
                                             THEN Remembered(p, place)
                                             ELSE scan.entries[p]]
        BY <2>1 DEF Scan
    <2>3. ASSUME NEW p \in Pack, scan'.found[p] # None
          PROVE  /\ scan'.found[p].copy = disk'[scan'.found[p].at][p]
                 /\ scan'.found[p].at # Local =>
                      scan'.entries[p] = [enabled |-> scan'.found[p].enabled,
                                          at |-> scan'.found[p].at]
        <3>1. CASE ~locked /\ p \in here
            <4>1. scan'.found[p] = Load(p, place) /\ scan'.entries[p] = Remembered(p, place)
                BY <2>2, <3>1
            <4> QED BY <4>1 DEF Load, Remembered
        <3>2. CASE ~(~locked /\ p \in here)
            BY <2>1, <2>2, <2>3, <3>2 DEF FoundIsThere
        <3> QED BY <3>1, <3>2
    <2> QED BY <2>3 DEF FoundIsThere
<1>5. DoneIsSeen'
    <2> DEFINE place == Head(scan.read)
               here == Found(place)
               locked == place # Local /\ drive[place] = "locked"
    <2>1. /\ scan \in Scan /\ scan # None
          /\ place \in Place /\ Tail(scan.read) \in Seq(Place)
          /\ Members(scan.read) = {place} \cup Members(Tail(scan.read))
        <3>1. scan \in Scan /\ scan # None
            BY DEF TypeOK, Shape
        <3> QED BY <3>1, ScanFields, TailMembers
    <2>2. /\ scan'.then = scan.then /\ scan'.trust = scan.trust /\ scan'.said = scan.said
          /\ scan'.vaults = scan.vaults /\ scan'.ask = scan.ask
          /\ scan'.read = Tail(scan.read)
          /\ scan'.away = IF locked THEN scan.away \cup {place} ELSE scan.away
          /\ scan'.found = [p \in Pack |-> IF ~locked /\ p \in here THEN Load(p, place)
                                           ELSE scan.found[p]]
          /\ scan'.entries = [p \in Pack |-> IF ~locked /\ p \in here
                                             THEN Remembered(p, place)
                                             ELSE scan.entries[p]]
        BY <2>1 DEF Scan
    <2>3. ASSUME NEW p \in Pack, scan.found[p] # None
          PROVE  scan'.found[p] # None
        BY <2>2, <2>3 DEF Found
    <2>5. \A q \in Place : Seen(q) => Seen(q)'
        BY <2>3 DEF Seen
    <2>6. ASSUME NoPullMidListing, NEW q \in Place, q = place
          PROVE  q \in scan'.away \/ Seen(q)'
        <3>1. CASE locked
            BY <2>2, <2>6, <3>1
        <3>2. CASE ~locked
            <4>1. place # Local => drive[place] # "away"
                BY <2>1, <2>6 DEF BelievedIsThere
            <4>2. ASSUME NEW p \in Pack, disk[place][p] # Nothing, scan.found[p] = None
                  PROVE  scan'.found[p] # None
                <5>1. p \in here
                    BY <4>1, <4>2 DEF Found
                <5>2. Load(p, place) # None
                    BY <5>1, <2>1, ScanFields, EnabledType DEF Load, Listing, TypeOK, Status
                <5> QED BY <2>2, <3>2, <5>1, <5>2
            <4> QED BY <2>3, <2>6, <4>2 DEF Seen
        <3> QED BY <3>1, <3>2
    <2>7. ASSUME NoPullMidListing, NEW q \in scan'.vaults \cup {Local},
                 q \notin Members(scan'.ask) \cup Members(scan'.read) \cup scan'.away
          PROVE  Seen(q)'
        <3>1. q \in Place
            BY <2>1, <2>2, ScanFields DEF Place
        <3>2. CASE q = place
            BY <2>6, <2>7, <3>1, <3>2
        <3>3. CASE q # place
            <4>1. /\ q \in scan.vaults \cup {Local}
                  /\ q \notin Members(scan.ask) \cup Members(scan.read) \cup scan.away
                BY <2>1, <2>2, <2>7, <3>3
            <4>2. Seen(q)
                BY <2>7, <4>1 DEF DoneIsSeen
            <4> QED BY <2>5, <3>1, <4>2
        <3> QED BY <3>2, <3>3
    <2> QED BY <2>7 DEF DoneIsSeen
<1>6. BelievedIsThere'
    <2> DEFINE place == Head(scan.read)
               here == Found(place)
               locked == place # Local /\ drive[place] = "locked"
    <2>1. /\ scan \in Scan /\ scan # None
          /\ place \in Place /\ Tail(scan.read) \in Seq(Place)
          /\ Members(scan.read) = {place} \cup Members(Tail(scan.read))
        <3>1. scan \in Scan /\ scan # None
            BY DEF TypeOK, Shape
        <3> QED BY <3>1, ScanFields, TailMembers
    <2>2. /\ scan'.then = scan.then /\ scan'.trust = scan.trust /\ scan'.said = scan.said
          /\ scan'.vaults = scan.vaults /\ scan'.ask = scan.ask
          /\ scan'.read = Tail(scan.read)
          /\ scan'.away = IF locked THEN scan.away \cup {place} ELSE scan.away
          /\ scan'.found = [p \in Pack |-> IF ~locked /\ p \in here THEN Load(p, place)
                                           ELSE scan.found[p]]
          /\ scan'.entries = [p \in Pack |-> IF ~locked /\ p \in here
                                             THEN Remembered(p, place)
                                             ELSE scan.entries[p]]
        BY <2>1 DEF Scan
    <2> QED BY <2>1, <2>2 DEF BelievedIsThere
<1>7. ListedAgrees'
    BY DEF ListedAgrees, TypeOK, Shape
<1>8. ListIsLawful'
    <2> DEFINE place == Head(scan.read)
               here == Found(place)
               locked == place # Local /\ drive[place] = "locked"
    <2>1. /\ scan \in Scan /\ scan # None
          /\ place \in Place /\ Tail(scan.read) \in Seq(Place)
          /\ Members(scan.read) = {place} \cup Members(Tail(scan.read))
        <3>1. scan \in Scan /\ scan # None
            BY DEF TypeOK, Shape
        <3> QED BY <3>1, ScanFields, TailMembers
    <2>2. /\ scan'.then = scan.then /\ scan'.trust = scan.trust /\ scan'.said = scan.said
          /\ scan'.vaults = scan.vaults /\ scan'.ask = scan.ask
          /\ scan'.read = Tail(scan.read)
          /\ scan'.away = IF locked THEN scan.away \cup {place} ELSE scan.away
          /\ scan'.found = [p \in Pack |-> IF ~locked /\ p \in here THEN Load(p, place)
                                           ELSE scan.found[p]]
          /\ scan'.entries = [p \in Pack |-> IF ~locked /\ p \in here
                                             THEN Remembered(p, place)
                                             ELSE scan.entries[p]]
        BY <2>1 DEF Scan
    <2>3. ASSUME trust = trustFile, NEW p \in Pack, p \in here,
                 Load(p, place).status = "active", trustFile.required
          PROVE  Trusted(Load(p, place).copy, trustFile)
        BY <2>3 DEF Load, Status
    <2>4. trust = trustFile /\ Lawful(scan.found) => Lawful(scan'.found)
        BY <2>2, <2>3 DEF Lawful
    <2> QED BY <2>4 DEF ListIsLawful, RefreshToCome, Lawful
<1>9. TargetsAreSteady'
    BY DEF TargetsAreSteady, Targets, Steady
<1>10. PassedByIsNotReady'
    BY DEF PassedByIsNotReady, Shape, TypeOK
<1>11. TargetIsShown'
    BY DEF TargetIsShown, Shown, Accepts, Writable, Shape, TypeOK
<1> QED BY <1>1, <1>2, <1>3, <1>4, <1>5, <1>6, <1>7, <1>8, <1>9, <1>10, <1>11
    DEF IInv

LEMMA ScanClosesKeeps ==
    ASSUME IInv, ScanCloses PROVE IInv'
<1> USE PacksAssumption, SentinelsAssumption
    DEF IInv, ScanCloses, bounds
<1>1. TypeOK'
    <2>1. scan \in Scan /\ scan # None
        BY DEF TypeOK, Shape
    <2>2. saved' \in [Pack -> Entry \cup {None}]
        BY <2>1, ScanFields
    <2>3. ASSUME NEW p \in Pack, Missing(p)
          PROVE  [at |-> scan.entries[p].at, copy |-> Nothing,
                  enabled |-> scan.entries[p].enabled, status |-> "invalid"] \in Listing
        BY <2>1, <2>3, ScanFields DEF Missing, Entry, Listing, Folder
    <2>4. listed' \in [Pack -> Listing \cup {None}]
        BY <2>1, <2>3, ScanFields
    <2> QED BY <2>2, <2>4 DEF TypeOK
<1>2. Shape'
    BY DEF Shape, TypeOK, Job
<1>3. CopyIsTrue'
    BY DEF CopyIsTrue, TypeOK, Shape
<1>4. FoundIsThere'
    BY DEF FoundIsThere, TypeOK, Shape
<1>5. DoneIsSeen'
    BY DEF DoneIsSeen, Seen, Shape, Members
<1>6. BelievedIsThere'
    BY DEF BelievedIsThere, TypeOK, Shape, Members
<1>7. ListedAgrees'
    <2>1. scan \in Scan /\ scan # None
        BY DEF TypeOK, Shape
    <2>2. ASSUME NEW p \in Pack, listed'[p] # None, listed'[p].at # Local
          PROVE  saved'[p] = [enabled |-> listed'[p].enabled, at |-> listed'[p].at]
        <3>1. CASE Missing(p) /\ Kept(p)
            <4>1. saved'[p] = scan.entries[p] /\ scan.entries[p] \in Entry
                BY <2>1, <3>1, ScanFields DEF Missing
            <4>2. /\ listed'[p].enabled = scan.entries[p].enabled
                  /\ listed'[p].at = scan.entries[p].at
                BY <3>1
            <4> QED BY <4>1, <4>2 DEF Entry
        <3>2. CASE ~(Missing(p) /\ Kept(p))
            <4>1. listed'[p] = scan.found[p] /\ scan.found[p] # None
                BY <2>2, <3>2
            <4>2. saved'[p] = scan.entries[p]
                BY <4>1 DEF Missing
            <4> QED BY <2>1, <2>2, <4>1, <4>2 DEF FoundIsThere
        <3> QED BY <3>1, <3>2
    <2> QED BY <2>2 DEF ListedAgrees
<1>8. ListIsLawful'
    BY DEF ListIsLawful, RefreshToCome, Lawful, Shape, Members
<1>9. TargetsAreSteady'
    BY DEF TargetsAreSteady, Targets, Steady
<1>10. PassedByIsNotReady'
    BY DEF PassedByIsNotReady, Shape, TypeOK
<1>11. TargetIsShown'
    <2>1. scan \in Scan /\ scan # None
        BY DEF TypeOK, Shape
    <2>2. SUFFICES ASSUME NoPullMidListing, NoBlinkMidInstall, scan.then = "stage",
                          Accepts(running.to), disk[running.to][running.pack] \in Copy
                   PROVE  /\ listed'[running.pack] # None
                          /\ listed'[running.pack].at = running.to =>
                               listed'[running.pack].copy = disk[running.to][running.pack]
        BY DEF TargetIsShown, Shown, Shape, Accepts
    <2>3. /\ running.do = "install" /\ running.pack \in Pack /\ running.to \in Place
        BY <2>1, <2>2, JobFacts DEF Shape, TypeOK
    <2>4. running.to \in scan.vaults \cup {Local} /\ running.to \notin scan.away
        BY <2>1, <2>2, <2>3, ScanFields DEF PassedByIsNotReady, Place, Accepts, Writable
    <2>5. Members(scan.ask) = {} /\ Members(scan.read) = {}
        BY DEF Members
    <2>6. Seen(running.to)
        BY <2>2, <2>4, <2>5 DEF DoneIsSeen
    <2>7. scan.found[running.pack] # None
        BY <2>2, <2>3, <2>6 DEF Seen
    <2>8. listed'[running.pack] = scan.found[running.pack]
        <3>1. ~Missing(running.pack)
            BY <2>7 DEF Missing
        <3>2. listed' = [p \in Pack |->
                          IF Missing(p) /\ Kept(p)
                          THEN [at |-> scan.entries[p].at, copy |-> Nothing,
                                enabled |-> scan.entries[p].enabled,
                                status |-> "invalid"]
                          ELSE scan.found[p]]
            OBVIOUS
        <3> QED BY <2>3, <3>1, <3>2
    <2>9. scan.found[running.pack].copy = disk[scan.found[running.pack].at][running.pack]
        BY <2>1, <2>3, <2>7 DEF FoundIsThere
    <2> QED BY <2>7, <2>8, <2>9
<1> QED BY <1>1, <1>2, <1>3, <1>4, <1>5, <1>6, <1>7, <1>8, <1>9, <1>10, <1>11
    DEF IInv

LEMMA InstallStagesKeeps ==
    ASSUME IInv, InstallStages PROVE IInv'
<1> USE PacksAssumption, SentinelsAssumption
    DEF IInv, InstallStages, files, bounds, GiveUp, Proceed, Accepts, Writable
<1>0. /\ running \in Job /\ running.do = "install" /\ trust \in Trust
      /\ \/ running' = [running EXCEPT !.trust = trust] /\ step' = "verify"
         \/ running' = None /\ step' = "idle"
    BY DEF TypeOK, Shape
<1>a. \/ /\ running' \in Job /\ running' # None /\ step' = "verify"
         /\ running'.do = "install" /\ running'.pack = running.pack /\ running'.to = running.to
      \/ running' = None /\ step' = "idle"
    BY <1>0 DEF Job
<1>1. TypeOK'
    BY <1>a DEF TypeOK, Shape
<1>2. Shape'
    BY <1>a DEF Shape, TypeOK
<1>3. CopyIsTrue'
    BY DEF CopyIsTrue, TypeOK, Shape
<1>4. FoundIsThere'
    BY DEF FoundIsThere, TypeOK, Shape
<1>5. DoneIsSeen'
    BY DEF DoneIsSeen, Seen, Shape, Members
<1>6. BelievedIsThere'
    BY DEF BelievedIsThere, TypeOK, Shape, Members
<1>7. ListedAgrees'
    BY DEF ListedAgrees, TypeOK, Shape
<1>8. ListIsLawful'
    BY DEF ListIsLawful, RefreshToCome, Lawful, Shape, Members
<1>9. TargetsAreSteady'
    <2>1. ASSUME NEW v \in Vault, Targets(v)' # {}
          PROVE  Targets(v) # {}
        <3>1. PICK job \in Targets(v)' : TRUE
            BY <2>1
        <3>2. CASE job = running' /\ running' # None
            <4>1. running \in Targets(v)
                BY <1>0, <1>a, <3>1, <3>2 DEF Targets
            <4> QED BY <4>1
        <3>3. CASE job \in Members(queue)
            <4>1. job \in Targets(v)
                BY <3>1, <3>3 DEF Targets
            <4> QED BY <4>1
        <3> QED BY <3>1, <3>2, <3>3 DEF Targets
    <2> QED BY <2>1 DEF TargetsAreSteady, Steady
<1>10. PassedByIsNotReady'
    BY <1>a DEF PassedByIsNotReady, Shape, TypeOK
<1>11. TargetIsShown'
    BY <1>0, <1>a DEF TargetIsShown, Shown, Accepts, Writable, Shape, TypeOK
<1> QED BY <1>1, <1>2, <1>3, <1>4, <1>5, <1>6, <1>7, <1>8, <1>9, <1>10, <1>11
    DEF IInv

LEMMA InstallVerifiesKeeps ==
    ASSUME IInv, InstallVerifies PROVE IInv'
<1> USE PacksAssumption, SentinelsAssumption
    DEF IInv, InstallVerifies, files, bounds, GiveUp, Proceed, Accepts, Writable
<1>1. TypeOK'
    BY DEF TypeOK, Shape
<1>2. Shape'
    BY DEF Shape, TypeOK, Job
<1>3. CopyIsTrue'
    BY DEF CopyIsTrue, TypeOK, Shape
<1>4. FoundIsThere'
    BY DEF FoundIsThere, TypeOK, Shape
<1>5. DoneIsSeen'
    BY DEF DoneIsSeen, Seen, Shape, Members
<1>6. BelievedIsThere'
    BY DEF BelievedIsThere, TypeOK, Shape, Members
<1>7. ListedAgrees'
    BY DEF ListedAgrees, TypeOK, Shape
<1>8. ListIsLawful'
    BY DEF ListIsLawful, RefreshToCome, Lawful, Shape, Members
<1>9. TargetsAreSteady'
    BY DEF TargetsAreSteady, Targets, Steady
<1>10. PassedByIsNotReady'
    BY DEF PassedByIsNotReady, Shape, TypeOK
<1>11. TargetIsShown'
    BY DEF TargetIsShown, Shown, Accepts, Writable, Shape, TypeOK
<1> QED BY <1>1, <1>2, <1>3, <1>4, <1>5, <1>6, <1>7, <1>8, <1>9, <1>10, <1>11
    DEF IInv

LEMMA AdoptChecksKeeps ==
    ASSUME IInv, AdoptChecks PROVE IInv'
<1> USE PacksAssumption, SentinelsAssumption
    DEF IInv, AdoptChecks, files, bounds, GiveUp, Proceed, Accepts, Writable
<1>1. TypeOK'
    BY DEF TypeOK, Shape
<1>2. Shape'
    BY DEF Shape, TypeOK, Job
<1>3. CopyIsTrue'
    BY DEF CopyIsTrue, TypeOK, Shape
<1>4. FoundIsThere'
    BY DEF FoundIsThere, TypeOK, Shape
<1>5. DoneIsSeen'
    BY DEF DoneIsSeen, Seen, Shape, Members
<1>6. BelievedIsThere'
    BY DEF BelievedIsThere, TypeOK, Shape, Members
<1>7. ListedAgrees'
    BY DEF ListedAgrees, TypeOK, Shape
<1>8. ListIsLawful'
    BY DEF ListIsLawful, RefreshToCome, Lawful, Shape, Members
<1>9. TargetsAreSteady'
    BY DEF TargetsAreSteady, Targets, Steady
<1>10. PassedByIsNotReady'
    BY DEF PassedByIsNotReady, Shape, TypeOK
<1>11. TargetIsShown'
    BY DEF TargetIsShown, Shown, Accepts, Writable, Shape, TypeOK
<1> QED BY <1>1, <1>2, <1>3, <1>4, <1>5, <1>6, <1>7, <1>8, <1>9, <1>10, <1>11
    DEF IInv

LEMMA ActivationClearsKeeps ==
    ASSUME IInv, ActivationClears PROVE IInv'
<1> USE PacksAssumption, SentinelsAssumption
    DEF IInv, ActivationClears, bounds, Proceed, Accepts, Writable
<1>1. TypeOK'
    <2>1. running \in Job /\ running.pack \in Pack /\ running.file \in Copy /\ running.to \in Place
        BY JobFacts DEF TypeOK, Shape
    <2>2. disk' \in [Place -> [Pack -> Folder]]
        <3>1. \/ disk' = disk
              \/ disk' = [disk EXCEPT ![running.to][running.pack] = Nothing]
            OBVIOUS
        <3>2. disk \in [Place -> [Pack -> Folder]] /\ Nothing \in Folder
            BY <2>1 DEF TypeOK, Folder
        <3> QED BY ONLY <2>1, <3>1, <3>2
    <2> QED BY <2>2 DEF TypeOK
<1>2. Shape'
    BY DEF Shape, TypeOK, Job
<1>3. CopyIsTrue'
    BY DEF CopyIsTrue, TypeOK, Shape
<1>4. FoundIsThere'
    BY DEF FoundIsThere, TypeOK, Shape
<1>5. DoneIsSeen'
    BY DEF DoneIsSeen, Seen, Shape, Members
<1>6. BelievedIsThere'
    BY DEF BelievedIsThere, TypeOK, Shape, Members
<1>7. ListedAgrees'
    BY DEF ListedAgrees, TypeOK, Shape
<1>8. ListIsLawful'
    BY DEF ListIsLawful, RefreshToCome, Lawful, Shape, Members
<1>9. TargetsAreSteady'
    BY DEF TargetsAreSteady, Targets, Steady
<1>10. PassedByIsNotReady'
    BY DEF PassedByIsNotReady, Shape, TypeOK
<1>11. TargetIsShown'
    BY DEF TargetIsShown, Shown, Accepts, Writable, Shape, TypeOK
<1> QED BY <1>1, <1>2, <1>3, <1>4, <1>5, <1>6, <1>7, <1>8, <1>9, <1>10, <1>11
    DEF IInv

LEMMA ActivationMovesKeeps ==
    ASSUME IInv, ActivationMoves PROVE IInv'
<1> USE PacksAssumption, SentinelsAssumption
    DEF IInv, ActivationMoves, bounds, GiveUp, Proceed, Accepts, Writable
<1>1. TypeOK'
    <2>1. running \in Job /\ running.pack \in Pack /\ running.file \in Copy /\ running.to \in Place
        BY JobFacts DEF TypeOK, Shape
    <2>2. disk' \in [Place -> [Pack -> Folder]]
        <3>1. \/ disk' = disk
              \/ disk' = [disk EXCEPT ![running.to][running.pack] = running.file]
            OBVIOUS
        <3>2. disk \in [Place -> [Pack -> Folder]] /\ running.file \in Folder
            BY <2>1 DEF TypeOK, Folder
        <3> QED BY ONLY <2>1, <3>1, <3>2
    <2> QED BY <2>2 DEF TypeOK
<1>2. Shape'
    BY DEF Shape, TypeOK, Job
<1>3. CopyIsTrue'
    BY DEF CopyIsTrue, TypeOK, Shape
<1>4. FoundIsThere'
    BY DEF FoundIsThere, TypeOK, Shape
<1>5. DoneIsSeen'
    BY DEF DoneIsSeen, Seen, Shape, Members
<1>6. BelievedIsThere'
    BY DEF BelievedIsThere, TypeOK, Shape, Members
<1>7. ListedAgrees'
    BY DEF ListedAgrees, TypeOK, Shape
<1>8. ListIsLawful'
    BY DEF ListIsLawful, RefreshToCome, Lawful, Shape, Members
<1>9. TargetsAreSteady'
    BY DEF TargetsAreSteady, Targets, Steady
<1>10. PassedByIsNotReady'
    BY DEF PassedByIsNotReady, Shape, TypeOK
<1>11. TargetIsShown'
    BY DEF TargetIsShown, Shown, Accepts, Writable, Shape, TypeOK
<1> QED BY <1>1, <1>2, <1>3, <1>4, <1>5, <1>6, <1>7, <1>8, <1>9, <1>10, <1>11
    DEF IInv

LEMMA ActivationNotesKeeps ==
    ASSUME IInv, ActivationNotes PROVE IInv'
<1> USE PacksAssumption, SentinelsAssumption
    DEF IInv, ActivationNotes, bounds, Proceed
<1>1. TypeOK'
    <2>1. running \in Job /\ running.pack \in Pack /\ running.to \in Place
        BY JobFacts DEF TypeOK, Shape
    <2>2. Enabled(saved[running.pack]) \in BOOLEAN
        BY <2>1, EnabledType DEF TypeOK
    <2>3. NewEntry(running) \in Entry
        BY <2>1, <2>2 DEF NewEntry, Entry
    <2> QED BY <2>1, <2>3 DEF TypeOK
<1>2. Shape'
    BY DEF Shape, TypeOK, Job
<1>3. CopyIsTrue'
    BY DEF CopyIsTrue, TypeOK, Shape
<1>4. FoundIsThere'
    BY DEF FoundIsThere, TypeOK, Shape
<1>5. DoneIsSeen'
    BY DEF DoneIsSeen, Seen, Shape, Members
<1>6. BelievedIsThere'
    BY DEF BelievedIsThere, TypeOK, Shape, Members
<1>7. ListedAgrees'
    BY DEF ListedAgrees, TypeOK, Shape
<1>8. ListIsLawful'
    BY DEF ListIsLawful, RefreshToCome, Lawful, Shape, Members
<1>9. TargetsAreSteady'
    BY DEF TargetsAreSteady, Targets, Steady
<1>10. PassedByIsNotReady'
    BY DEF PassedByIsNotReady, Shape, TypeOK
<1>11. TargetIsShown'
    BY DEF TargetIsShown, Shown, Accepts, Writable, Shape, TypeOK
<1> QED BY <1>1, <1>2, <1>3, <1>4, <1>5, <1>6, <1>7, <1>8, <1>9, <1>10, <1>11
    DEF IInv

LEMMA RemoveDeletesKeeps ==
    ASSUME IInv, RemoveDeletes PROVE IInv'
<1> USE PacksAssumption, SentinelsAssumption
    DEF IInv, RemoveDeletes, bounds, GiveUp, Proceed
<1>1. TypeOK'
    <2>1. running \in Job /\ running.pack \in Pack /\ Local \in Place
        BY JobFacts DEF TypeOK, Shape, Place
    <2>2. disk' \in [Place -> [Pack -> Folder]]
        <3>1. disk' = disk \/ disk' = [disk EXCEPT ![Local][running.pack] = Nothing]
            OBVIOUS
        <3>2. disk \in [Place -> [Pack -> Folder]]
            BY DEF TypeOK
        <3> QED BY <2>1, <3>1, <3>2 DEF Folder
    <2> QED BY <2>2 DEF TypeOK
<1>2. Shape'
    BY DEF Shape, TypeOK, Job
<1>3. CopyIsTrue'
    BY DEF CopyIsTrue, TypeOK, Shape
<1>4. FoundIsThere'
    BY DEF FoundIsThere, TypeOK, Shape
<1>5. DoneIsSeen'
    BY DEF DoneIsSeen, Seen, Shape, Members
<1>6. BelievedIsThere'
    BY DEF BelievedIsThere, TypeOK, Shape, Members
<1>7. ListedAgrees'
    BY DEF ListedAgrees, TypeOK, Shape
<1>8. ListIsLawful'
    BY DEF ListIsLawful, RefreshToCome, Lawful, Shape, Members
<1>9. TargetsAreSteady'
    BY DEF TargetsAreSteady, Targets, Steady
<1>10. PassedByIsNotReady'
    BY DEF PassedByIsNotReady, Shape, TypeOK
<1>11. TargetIsShown'
    BY DEF TargetIsShown, Shown, Accepts, Writable, Shape, TypeOK
<1> QED BY <1>1, <1>2, <1>3, <1>4, <1>5, <1>6, <1>7, <1>8, <1>9, <1>10, <1>11
    DEF IInv

LEMMA RemoveForgetsKeeps ==
    ASSUME IInv, RemoveForgets PROVE IInv'
<1> USE PacksAssumption, SentinelsAssumption
    DEF IInv, RemoveForgets, bounds, Proceed
<1>1. TypeOK'
    BY DEF TypeOK, Shape
<1>2. Shape'
    BY DEF Shape, TypeOK, Job
<1>3. CopyIsTrue'
    BY DEF CopyIsTrue, TypeOK, Shape
<1>4. FoundIsThere'
    BY DEF FoundIsThere, TypeOK, Shape
<1>5. DoneIsSeen'
    BY DEF DoneIsSeen, Seen, Shape, Members
<1>6. BelievedIsThere'
    BY DEF BelievedIsThere, TypeOK, Shape, Members
<1>7. ListedAgrees'
    BY DEF ListedAgrees, TypeOK, Shape
<1>8. ListIsLawful'
    BY DEF ListIsLawful, RefreshToCome, Lawful, Shape, Members
<1>9. TargetsAreSteady'
    BY DEF TargetsAreSteady, Targets, Steady
<1>10. PassedByIsNotReady'
    BY DEF PassedByIsNotReady, Shape, TypeOK
<1>11. TargetIsShown'
    BY DEF TargetIsShown, Shown, Accepts, Writable, Shape, TypeOK
<1> QED BY <1>1, <1>2, <1>3, <1>4, <1>5, <1>6, <1>7, <1>8, <1>9, <1>10, <1>11
    DEF IInv

LEMMA SwitchSavesKeeps ==
    ASSUME IInv, SwitchSaves PROVE IInv'
<1> USE PacksAssumption, SentinelsAssumption
    DEF IInv, SwitchSaves, bounds, GiveUp, Proceed
<1>1. TypeOK'
    <2>1. running \in Job /\ running.pack \in Pack /\ running.on \in BOOLEAN
        BY JobFacts DEF TypeOK, Shape
    <2>2. [enabled |-> running.on,
           at |-> IF saved[running.pack] = None THEN Local ELSE saved[running.pack].at]
            \in Entry
        BY <2>1 DEF TypeOK, Entry, Place
    <2> QED BY SMTT(30), <2>1, <2>2 DEF TypeOK
<1>2. Shape'
    BY DEF Shape, TypeOK, Job
<1>3. CopyIsTrue'
    BY DEF CopyIsTrue, TypeOK, Shape
<1>4. FoundIsThere'
    BY DEF FoundIsThere, TypeOK, Shape
<1>5. DoneIsSeen'
    BY DEF DoneIsSeen, Seen, Shape, Members
<1>6. BelievedIsThere'
    BY DEF BelievedIsThere, TypeOK, Shape, Members
<1>7. ListedAgrees'
    BY DEF ListedAgrees, TypeOK, Shape
<1>8. ListIsLawful'
    BY DEF ListIsLawful, RefreshToCome, Lawful, Shape, Members
<1>9. TargetsAreSteady'
    BY DEF TargetsAreSteady, Targets, Steady
<1>10. PassedByIsNotReady'
    BY DEF PassedByIsNotReady, Shape, TypeOK
<1>11. TargetIsShown'
    BY DEF TargetIsShown, Shown, Accepts, Writable, Shape, TypeOK
<1> QED BY <1>1, <1>2, <1>3, <1>4, <1>5, <1>6, <1>7, <1>8, <1>9, <1>10, <1>11
    DEF IInv

LEMMA TrustAskedKeeps ==
    ASSUME IInv, TrustAsked PROVE IInv'
<1> USE PacksAssumption, SentinelsAssumption
    DEF IInv, TrustAsked, files, jobs
<1>1. TypeOK'
    BY DEF TypeOK, Shape
<1>2. Shape'
    BY DEF Shape, TypeOK, Job
<1>3. CopyIsTrue'
    BY DEF CopyIsTrue, TypeOK, Shape
<1>4. FoundIsThere'
    BY DEF FoundIsThere, TypeOK, Shape
<1>5. DoneIsSeen'
    BY SameScan
<1>6. BelievedIsThere'
    BY DEF BelievedIsThere, TypeOK, Shape, Members
<1>7. ListedAgrees'
    BY DEF ListedAgrees, TypeOK, Shape
<1>8. ListIsLawful'
    BY DEF ListIsLawful, RefreshToCome, Lawful, Shape, Members
<1>9. TargetsAreSteady'
    BY DEF TargetsAreSteady, Targets, Steady
<1>10. PassedByIsNotReady'
    BY DEF PassedByIsNotReady, Shape, TypeOK
<1>11. TargetIsShown'
    BY DEF TargetIsShown, Shown, Accepts, Writable, Shape, TypeOK
<1> QED BY <1>1, <1>2, <1>3, <1>4, <1>5, <1>6, <1>7, <1>8, <1>9, <1>10, <1>11
    DEF IInv

LEMMA TrustWritesKeeps ==
    ASSUME IInv, TrustWrites PROVE IInv'
<1> USE PacksAssumption, SentinelsAssumption
    DEF IInv, TrustWrites, bounds, Enqueue
<1>1. TypeOK'
    <2>1. PICK c \in changes : /\ changes' = changes \ {c}
                               /\ trustFile' = Changed(c.change, c.had)
                               /\ trust' = trustFile'
                               /\ Enqueue([do |-> "refresh"])
                               /\ UNCHANGED <<disk, drive, configured, saved, health, due,
                                              listed, loaded, running, step, scan, bounds>>
        OBVIOUS
    <2>2. trustFile' \in Trust
        BY <2>1, ChangedType DEF TypeOK
    <2>3. [do |-> "refresh"] \in Job
        BY DEF Job
    <2>4. queue' \in Seq(Job)
        BY <2>1, <2>3, EnqueueFacts
    <2> QED BY <2>1, <2>2, <2>4 DEF TypeOK
<1>2. Shape'
    BY DEF Shape, TypeOK, Job
<1>3. CopyIsTrue'
    BY DEF CopyIsTrue, TypeOK, Shape
<1>4. FoundIsThere'
    BY DEF FoundIsThere, TypeOK, Shape
<1>5. DoneIsSeen'
    <2>1. PICK c \in changes : /\ changes' = changes \ {c}
                               /\ trustFile' = Changed(c.change, c.had)
                               /\ trust' = trustFile'
                               /\ Enqueue([do |-> "refresh"])
                               /\ UNCHANGED <<disk, drive, configured, saved, health, due,
                                              listed, loaded, running, step, scan, bounds>>
        OBVIOUS
    <2> QED BY <2>1, SameScan
<1>6. BelievedIsThere'
    BY DEF BelievedIsThere, TypeOK, Shape, Members
<1>7. ListedAgrees'
    BY DEF ListedAgrees, TypeOK, Shape
<1>8. ListIsLawful'
    <2>1. PICK c \in changes : /\ changes' = changes \ {c}
                               /\ trustFile' = Changed(c.change, c.had)
                               /\ trust' = trustFile'
                               /\ Enqueue([do |-> "refresh"])
                               /\ UNCHANGED <<disk, drive, configured, saved, health, due,
                                              listed, loaded, running, step, scan, bounds>>
        OBVIOUS
    <2>3. [do |-> "refresh"] \in Job
        BY DEF Job
    <2>4. [do |-> "refresh"] \in Members(queue')
        BY <2>1, <2>3, EnqueueFacts
    <2> QED BY <2>4 DEF ListIsLawful, RefreshToCome
<1>9. TargetsAreSteady'
    BY DEF TargetsAreSteady, Targets, Steady, Members, TypeOK, Shape, Place, Job
<1>10. PassedByIsNotReady'
    BY DEF PassedByIsNotReady, Shape, TypeOK
<1>11. TargetIsShown'
    BY DEF TargetIsShown, Shown, Accepts, Writable, Shape, TypeOK
<1> QED BY <1>1, <1>2, <1>3, <1>4, <1>5, <1>6, <1>7, <1>8, <1>9, <1>10, <1>11
    DEF IInv

LEMMA InstallAskedKeeps ==
    ASSUME IInv, InstallAsked PROVE IInv'
<1> USE PacksAssumption, SentinelsAssumption
    DEF IInv, InstallAsked, files, Command, Enqueue, Writable
<1>1. TypeOK'
    <2>1. PICK p \in Pack, file \in Copy, to \in Place :
            /\ to # Local => to \in Members(configured) /\ Writable(health[to])
            /\ Command([do |-> "install", pack |-> p, file |-> file, to |-> to, trust |-> NoTrust])
        OBVIOUS
    <2>2. [do |-> "install", pack |-> p, file |-> file, to |-> to, trust |-> NoTrust] \in Job
        BY <2>1, PacksAssumption DEF Job, Copy, NoTrust, Trust
    <2>3. /\ Enqueue([do |-> "install", pack |-> p, file |-> file, to |-> to, trust |-> NoTrust])
          /\ UNCHANGED <<running, configured, drive, health, trustFile, trust,
                         step, scan, listed>>
        BY <2>1 DEF Command
    <2>4. queue' \in Seq(Job)
        BY <2>2, <2>3, EnqueueFacts
    <2> QED BY <2>1, <2>4 DEF TypeOK
<1>2. Shape'
    BY DEF Shape, TypeOK, Job
<1>3. CopyIsTrue'
    BY DEF CopyIsTrue, TypeOK, Shape
<1>4. FoundIsThere'
    BY DEF FoundIsThere, TypeOK, Shape
<1>5. DoneIsSeen'
    BY SameScan
<1>6. BelievedIsThere'
    BY DEF BelievedIsThere, TypeOK, Shape, Members
<1>7. ListedAgrees'
    BY DEF ListedAgrees, TypeOK, Shape
<1>8. ListIsLawful'
    <2>1. PICK p \in Pack, file \in Copy, to \in Place :
            /\ to # Local => to \in Members(configured) /\ Writable(health[to])
            /\ Command([do |-> "install", pack |-> p, file |-> file, to |-> to, trust |-> NoTrust])
        OBVIOUS
    <2>2. [do |-> "install", pack |-> p, file |-> file, to |-> to, trust |-> NoTrust] \in Job
        BY <2>1, PacksAssumption DEF Job, Copy, NoTrust, Trust
    <2>3. /\ Enqueue([do |-> "install", pack |-> p, file |-> file, to |-> to, trust |-> NoTrust])
          /\ UNCHANGED <<running, configured, drive, health, trustFile, trust,
                         step, scan, listed>>
        BY <2>1 DEF Command
    <2>4. Members(queue) \subseteq Members(queue')
        BY <2>2, <2>3, EnqueueFacts
    <2> QED BY <2>3, <2>4 DEF ListIsLawful, RefreshToCome, Lawful
<1>9. TargetsAreSteady'
    <2>1. PICK p \in Pack, file \in Copy, to \in Place :
            /\ to # Local => to \in Members(configured) /\ Writable(health[to])
            /\ Command([do |-> "install", pack |-> p, file |-> file, to |-> to, trust |-> NoTrust])
        OBVIOUS
    <2>2. [do |-> "install", pack |-> p, file |-> file, to |-> to, trust |-> NoTrust] \in Job
        BY <2>1, PacksAssumption DEF Job, Copy, NoTrust, Trust
    <2>3. /\ Enqueue([do |-> "install", pack |-> p, file |-> file, to |-> to, trust |-> NoTrust])
          /\ UNCHANGED <<running, configured, drive, health, trustFile, trust,
                         step, scan, listed>>
        BY <2>1 DEF Command
    <2>4. ASSUME NEW v \in Vault, Targets(v)' # {}, Targets(v) = {}
          PROVE  to = v
        <3>1. PICK other \in Targets(v)' : TRUE
            BY <2>4
        <3>2. /\ other = [do |-> "install", pack |-> p, file |-> file, to |-> to, trust |-> NoTrust]
              /\ other.do \in {"install", "adopt"} /\ other.to = v
            BY <2>2, <2>3, <2>4, <3>1, EnqueueFacts
        <3> QED BY <3>2
    <2> QED BY <2>1, <2>3, <2>4 DEF TargetsAreSteady, Steady, Readable
<1>10. PassedByIsNotReady'
    BY DEF PassedByIsNotReady, Shape, TypeOK
<1>11. TargetIsShown'
    BY DEF TargetIsShown, Shown, Accepts, Writable, Shape, TypeOK
<1> QED BY <1>1, <1>2, <1>3, <1>4, <1>5, <1>6, <1>7, <1>8, <1>9, <1>10, <1>11
    DEF IInv

LEMMA AdoptAskedKeeps ==
    ASSUME IInv, AdoptAsked PROVE IInv'
<1> USE PacksAssumption, SentinelsAssumption
    DEF IInv, AdoptAsked, files, Command, Enqueue, Writable
<1>1. TypeOK'
    <2>1. PICK p \in Pack, to \in Place :
            /\ to # Local => to \in Members(configured) /\ Writable(health[to])
            /\ Command([do |-> "adopt", pack |-> p, to |-> to,
                        file |-> [made |-> MaxMade, key |-> Unsigned, whole |-> TRUE]])
        OBVIOUS
    <2>2. [do |-> "adopt", pack |-> p, to |-> to,
           file |-> [made |-> MaxMade, key |-> Unsigned, whole |-> TRUE]] \in Job
        BY <2>1, PacksAssumption DEF Job, Copy
    <2>3. /\ Enqueue([do |-> "adopt", pack |-> p, to |-> to,
                      file |-> [made |-> MaxMade, key |-> Unsigned, whole |-> TRUE]])
          /\ UNCHANGED <<running, configured, drive, health, trustFile, trust,
                         step, scan, listed>>
        BY <2>1 DEF Command
    <2>4. queue' \in Seq(Job)
        BY <2>2, <2>3, EnqueueFacts
    <2> QED BY <2>1, <2>4 DEF TypeOK
<1>2. Shape'
    BY DEF Shape, TypeOK, Job
<1>3. CopyIsTrue'
    BY DEF CopyIsTrue, TypeOK, Shape
<1>4. FoundIsThere'
    BY DEF FoundIsThere, TypeOK, Shape
<1>5. DoneIsSeen'
    BY SameScan
<1>6. BelievedIsThere'
    BY DEF BelievedIsThere, TypeOK, Shape, Members
<1>7. ListedAgrees'
    BY DEF ListedAgrees, TypeOK, Shape
<1>8. ListIsLawful'
    <2>1. PICK p \in Pack, to \in Place :
            /\ to # Local => to \in Members(configured) /\ Writable(health[to])
            /\ Command([do |-> "adopt", pack |-> p, to |-> to,
                        file |-> [made |-> MaxMade, key |-> Unsigned, whole |-> TRUE]])
        OBVIOUS
    <2> DEFINE j == [do |-> "adopt", pack |-> p, to |-> to,
                     file |-> [made |-> MaxMade, key |-> Unsigned, whole |-> TRUE]]
    <2>2. j \in Job /\ j.to = to
        BY <2>1, PacksAssumption DEF Job, Copy
    <2>3. /\ Enqueue(j)
          /\ UNCHANGED <<running, configured, drive, health, trustFile, trust,
                         step, scan, listed>>
        BY <2>1 DEF Command
    <2> HIDE DEF j
    <2>4. Members(queue) \subseteq Members(queue')
        <3>1. queue \in Seq(Job) /\ queue' = Append(queue, j)
            BY <2>3 DEF TypeOK
        <3> QED BY ONLY <2>2, <3>1, AppendMembers
    <2> QED BY <2>3, <2>4 DEF ListIsLawful, RefreshToCome, Lawful
<1>9. TargetsAreSteady'
    <2>1. PICK p \in Pack, to \in Place :
            /\ to # Local => to \in Members(configured) /\ Writable(health[to])
            /\ Command([do |-> "adopt", pack |-> p, to |-> to,
                        file |-> [made |-> MaxMade, key |-> Unsigned, whole |-> TRUE]])
        OBVIOUS
    <2> DEFINE j == [do |-> "adopt", pack |-> p, to |-> to,
                     file |-> [made |-> MaxMade, key |-> Unsigned, whole |-> TRUE]]
    <2>2. j \in Job /\ j.to = to
        BY <2>1, PacksAssumption DEF Job, Copy
    <2>3. /\ Enqueue(j)
          /\ UNCHANGED <<running, configured, drive, health, trustFile, trust,
                         step, scan, listed>>
        BY <2>1 DEF Command
    <2> HIDE DEF j
    <2>4. ASSUME NEW v \in Vault, Targets(v)' # {}, Targets(v) = {}
          PROVE  to = v
        <3>1. PICK other \in Targets(v)' : TRUE
            BY <2>4
        <3>2. other = j /\ other.to = v
            BY <2>2, <2>3, <2>4, <3>1, EnqueueFacts
        <3> QED BY <2>2, <3>2
    <2> QED BY <2>1, <2>3, <2>4 DEF TargetsAreSteady, Steady, Readable
<1>10. PassedByIsNotReady'
    BY DEF PassedByIsNotReady, Shape, TypeOK
<1>11. TargetIsShown'
    BY DEF TargetIsShown, Shown, Accepts, Writable, Shape, TypeOK
<1> QED BY <1>1, <1>2, <1>3, <1>4, <1>5, <1>6, <1>7, <1>8, <1>9, <1>10, <1>11
    DEF IInv

LEMMA RemoveAskedKeeps ==
    ASSUME IInv, RemoveAsked PROVE IInv'
<1> USE PacksAssumption, SentinelsAssumption
    DEF IInv, RemoveAsked, files, Command, Enqueue
<1>1. TypeOK'
    <2>1. PICK p \in Pack :
            Command([do |-> "remove", pack |-> p])
        OBVIOUS
    <2>2. [do |-> "remove", pack |-> p] \in Job
        BY <2>1, PacksAssumption DEF Job, Copy
    <2>3. /\ Enqueue([do |-> "remove", pack |-> p])
          /\ UNCHANGED <<running, configured, drive, health, trustFile, trust,
                         step, scan, listed>>
        BY <2>1 DEF Command
    <2>4. queue' \in Seq(Job)
        BY <2>2, <2>3, EnqueueFacts
    <2> QED BY <2>1, <2>4 DEF TypeOK
<1>2. Shape'
    BY DEF Shape, TypeOK, Job
<1>3. CopyIsTrue'
    BY DEF CopyIsTrue, TypeOK, Shape
<1>4. FoundIsThere'
    BY DEF FoundIsThere, TypeOK, Shape
<1>5. DoneIsSeen'
    BY SameScan
<1>6. BelievedIsThere'
    BY DEF BelievedIsThere, TypeOK, Shape, Members
<1>7. ListedAgrees'
    BY DEF ListedAgrees, TypeOK, Shape
<1>8. ListIsLawful'
    <2>1. PICK p \in Pack :
            Command([do |-> "remove", pack |-> p])
        OBVIOUS
    <2>2. [do |-> "remove", pack |-> p] \in Job
        BY <2>1, PacksAssumption DEF Job, Copy
    <2>3. /\ Enqueue([do |-> "remove", pack |-> p])
          /\ UNCHANGED <<running, configured, drive, health, trustFile, trust,
                         step, scan, listed>>
        BY <2>1 DEF Command
    <2>4. Members(queue) \subseteq Members(queue')
        BY <2>2, <2>3, EnqueueFacts
    <2> QED BY <2>3, <2>4 DEF ListIsLawful, RefreshToCome, Lawful
<1>9. TargetsAreSteady'
    <2>1. PICK p \in Pack :
            Command([do |-> "remove", pack |-> p])
        OBVIOUS
    <2>2. [do |-> "remove", pack |-> p] \in Job
        BY <2>1, PacksAssumption DEF Job, Copy
    <2>3. /\ Enqueue([do |-> "remove", pack |-> p])
          /\ UNCHANGED <<running, configured, drive, health, trustFile, trust,
                         step, scan, listed>>
        BY <2>1 DEF Command
    <2>4. ASSUME NEW v \in Vault, Targets(v)' # {}, Targets(v) = {}
          PROVE  FALSE
        <3>1. PICK other \in Targets(v)' : TRUE
            BY <2>4
        <3>2. /\ other = [do |-> "remove", pack |-> p]
              /\ other.do \in {"install", "adopt"} /\ other.to = v
            BY <2>2, <2>3, <2>4, <3>1, EnqueueFacts
        <3> QED BY <3>2
    <2> QED BY <2>1, <2>3, <2>4 DEF TargetsAreSteady, Steady, Readable
<1>10. PassedByIsNotReady'
    BY DEF PassedByIsNotReady, Shape, TypeOK
<1>11. TargetIsShown'
    BY DEF TargetIsShown, Shown, Accepts, Writable, Shape, TypeOK
<1> QED BY <1>1, <1>2, <1>3, <1>4, <1>5, <1>6, <1>7, <1>8, <1>9, <1>10, <1>11
    DEF IInv

LEMMA SwitchAskedKeeps ==
    ASSUME IInv, SwitchAsked PROVE IInv'
<1> USE PacksAssumption, SentinelsAssumption
    DEF IInv, SwitchAsked, files, Command, Enqueue
<1>1. TypeOK'
    <2>1. PICK p \in Pack, on \in BOOLEAN :
            Command([do |-> "switch", pack |-> p, on |-> on])
        OBVIOUS
    <2>2. [do |-> "switch", pack |-> p, on |-> on] \in Job
        BY <2>1, PacksAssumption DEF Job, Copy
    <2>3. /\ Enqueue([do |-> "switch", pack |-> p, on |-> on])
          /\ UNCHANGED <<running, configured, drive, health, trustFile, trust,
                         step, scan, listed>>
        BY <2>1 DEF Command
    <2>4. queue' \in Seq(Job)
        BY <2>2, <2>3, EnqueueFacts
    <2> QED BY <2>1, <2>4 DEF TypeOK
<1>2. Shape'
    BY DEF Shape, TypeOK, Job
<1>3. CopyIsTrue'
    BY DEF CopyIsTrue, TypeOK, Shape
<1>4. FoundIsThere'
    BY DEF FoundIsThere, TypeOK, Shape
<1>5. DoneIsSeen'
    BY SameScan
<1>6. BelievedIsThere'
    BY DEF BelievedIsThere, TypeOK, Shape, Members
<1>7. ListedAgrees'
    BY DEF ListedAgrees, TypeOK, Shape
<1>8. ListIsLawful'
    <2>1. PICK p \in Pack, on \in BOOLEAN :
            Command([do |-> "switch", pack |-> p, on |-> on])
        OBVIOUS
    <2>2. [do |-> "switch", pack |-> p, on |-> on] \in Job
        BY <2>1, PacksAssumption DEF Job, Copy
    <2>3. /\ Enqueue([do |-> "switch", pack |-> p, on |-> on])
          /\ UNCHANGED <<running, configured, drive, health, trustFile, trust,
                         step, scan, listed>>
        BY <2>1 DEF Command
    <2>4. Members(queue) \subseteq Members(queue')
        BY <2>2, <2>3, EnqueueFacts
    <2> QED BY <2>3, <2>4 DEF ListIsLawful, RefreshToCome, Lawful
<1>9. TargetsAreSteady'
    <2>1. PICK p \in Pack, on \in BOOLEAN :
            Command([do |-> "switch", pack |-> p, on |-> on])
        OBVIOUS
    <2>2. [do |-> "switch", pack |-> p, on |-> on] \in Job
        BY <2>1, PacksAssumption DEF Job, Copy
    <2>3. /\ Enqueue([do |-> "switch", pack |-> p, on |-> on])
          /\ UNCHANGED <<running, configured, drive, health, trustFile, trust,
                         step, scan, listed>>
        BY <2>1 DEF Command
    <2>4. ASSUME NEW v \in Vault, Targets(v)' # {}, Targets(v) = {}
          PROVE  FALSE
        <3>1. PICK other \in Targets(v)' : TRUE
            BY <2>4
        <3>2. /\ other = [do |-> "switch", pack |-> p, on |-> on]
              /\ other.do \in {"install", "adopt"} /\ other.to = v
            BY <2>2, <2>3, <2>4, <3>1, EnqueueFacts
        <3> QED BY <3>2
    <2> QED BY <2>1, <2>3, <2>4 DEF TargetsAreSteady, Steady, Readable
<1>10. PassedByIsNotReady'
    BY DEF PassedByIsNotReady, Shape, TypeOK
<1>11. TargetIsShown'
    BY DEF TargetIsShown, Shown, Accepts, Writable, Shape, TypeOK
<1> QED BY <1>1, <1>2, <1>3, <1>4, <1>5, <1>6, <1>7, <1>8, <1>9, <1>10, <1>11
    DEF IInv

LEMMA VaultAddedKeeps ==
    ASSUME IInv, VaultAdded PROVE IInv'
<1> USE PacksAssumption, SentinelsAssumption
    DEF IInv, VaultAdded, jobs, Writable
<1>1. TypeOK'
    BY DEF TypeOK, Shape
<1>2. Shape'
    BY DEF Shape, TypeOK, Job
<1>3. CopyIsTrue'
    BY DEF CopyIsTrue, TypeOK, Shape
<1>4. FoundIsThere'
    BY DEF FoundIsThere, TypeOK, Shape
<1>5. DoneIsSeen'
    BY SameScan
<1>6. BelievedIsThere'
    BY DEF BelievedIsThere, TypeOK, Shape, Members
<1>7. ListedAgrees'
    BY DEF ListedAgrees, TypeOK, Shape
<1>8. ListIsLawful'
    BY DEF ListIsLawful, RefreshToCome, Lawful, Shape, Members
<1>9. TargetsAreSteady'
    <2>1. PICK v \in Vault : configured' = Append(configured, v)
        OBVIOUS
    <2>2. Members(configured) \subseteq Members(configured')
        BY <2>1, AppendMembers DEF TypeOK
    <2> QED BY <2>2 DEF TargetsAreSteady, Targets, Steady
<1>10. PassedByIsNotReady'
    BY DEF PassedByIsNotReady, Shape, TypeOK
<1>11. TargetIsShown'
    BY DEF TargetIsShown, Shown, Accepts, Writable, Shape, TypeOK
<1> QED BY <1>1, <1>2, <1>3, <1>4, <1>5, <1>6, <1>7, <1>8, <1>9, <1>10, <1>11
    DEF IInv

LEMMA VaultDroppedKeeps ==
    ASSUME IInv, VaultDropped PROVE IInv'
<1> USE PacksAssumption, SentinelsAssumption
    DEF IInv, VaultDropped, jobs, NoPullMidListing, NoBlinkMidInstall
<1>1. TypeOK'
    <2>1. configured' \in Seq(Vault)
        BY DroppedFacts
    <2> QED BY <2>1 DEF TypeOK
<1>2. Shape'
    BY DEF Shape, TypeOK, Job
<1>3. CopyIsTrue'
    BY DEF CopyIsTrue, TypeOK, Shape
<1>4. FoundIsThere'
    BY DEF FoundIsThere, TypeOK, Shape
<1>5. DoneIsSeen'
    BY SameScan
<1>6. BelievedIsThere'
    BY DEF BelievedIsThere, TypeOK, Shape, Members
<1>7. ListedAgrees'
    BY DEF ListedAgrees, TypeOK, Shape
<1>8. ListIsLawful'
    BY DEF ListIsLawful, RefreshToCome, Lawful, Shape, Members
<1>9. TargetsAreSteady'
    <2>1. PICK v \in Vault : /\ NoBlinkMidInstall => Targets(v) = {}
                            /\ Members(configured) \subseteq Members(configured') \cup {v}
        BY DroppedFacts
    <2> QED BY <2>1 DEF TargetsAreSteady, Targets, Steady
<1>10. PassedByIsNotReady'
    BY DEF PassedByIsNotReady, Shape, TypeOK
<1>11. TargetIsShown'
    BY DEF TargetIsShown, Shown, Accepts, Writable, Shape, TypeOK
<1> QED BY <1>1, <1>2, <1>3, <1>4, <1>5, <1>6, <1>7, <1>8, <1>9, <1>10, <1>11
    DEF IInv

LEMMA MonitorPassesKeeps ==
    ASSUME IInv, MonitorPasses PROVE IInv'
<1> USE PacksAssumption, SentinelsAssumption
    DEF IInv, MonitorPasses, files, bounds, Enqueue
<1>1. TypeOK'
    <2>1. [do |-> "refresh"] \in Job
        BY DEF Job
    <2>2. queue' \in Seq(Job)
        BY <2>1, EnqueueFacts
    <2>3. Checked \in [Vault -> Health]
        BY DEF Checked, Probe, Health, TypeOK
    <2> QED BY <2>2, <2>3 DEF TypeOK
<1>2. Shape'
    BY DEF Shape, TypeOK, Job
<1>3. CopyIsTrue'
    BY DEF CopyIsTrue, TypeOK, Shape
<1>4. FoundIsThere'
    BY DEF FoundIsThere, TypeOK, Shape
<1>5. DoneIsSeen'
    BY SameScan
<1>6. BelievedIsThere'
    BY DEF BelievedIsThere, TypeOK, Shape, Members
<1>7. ListedAgrees'
    BY DEF ListedAgrees, TypeOK, Shape
<1>8. ListIsLawful'
    <2>1. [do |-> "refresh"] \in Job
        BY DEF Job
    <2>2. [do |-> "refresh"] \in Members(queue')
        BY <2>1, EnqueueFacts
    <2> QED BY <2>2 DEF ListIsLawful, RefreshToCome
<1>9. TargetsAreSteady'
    <2>1. [do |-> "refresh"] \in Job
        BY DEF Job
    <2>2. \A v \in Vault : Targets(v)' # {} => Targets(v) # {}
        BY <2>1, EnqueueFacts
    <2>3. \A v \in Members(configured) \cap Vault : drive[v] = "ready" => Readable(health'[v])
        BY DEF Checked, Probe, Readable
    <2> QED BY <2>2, <2>3 DEF TargetsAreSteady, Steady
<1>10. PassedByIsNotReady'
    BY DEF PassedByIsNotReady, Shape, TypeOK
<1>11. TargetIsShown'
    BY DEF TargetIsShown, Shown, Accepts, Writable, Shape, TypeOK
<1> QED BY <1>1, <1>2, <1>3, <1>4, <1>5, <1>6, <1>7, <1>8, <1>9, <1>10, <1>11
    DEF IInv

LEMMA PullKeeps ==
    ASSUME IInv, Pull PROVE IInv'
<1> USE PacksAssumption, SentinelsAssumption
    DEF IInv, Pull, jobs, NoPullMidListing, NoBlinkMidInstall
<1>1. TypeOK'
    BY DEF TypeOK, Shape
<1>2. Shape'
    BY DEF Shape, TypeOK, Job
<1>3. CopyIsTrue'
    BY DEF CopyIsTrue, TypeOK, Shape
<1>4. FoundIsThere'
    BY DEF FoundIsThere, TypeOK, Shape
<1>5. DoneIsSeen'
    BY SameScan
<1>6. BelievedIsThere'
    BY DEF BelievedIsThere, TypeOK, Shape, Members
<1>7. ListedAgrees'
    BY DEF ListedAgrees, TypeOK, Shape
<1>8. ListIsLawful'
    BY DEF ListIsLawful, RefreshToCome, Lawful, Shape, Members
<1>9. TargetsAreSteady'
    BY DEF TargetsAreSteady, Targets, Steady
<1>10. PassedByIsNotReady'
    BY DEF PassedByIsNotReady, Shape, TypeOK
<1>11. TargetIsShown'
    BY DEF TargetIsShown, Shown, Accepts, Writable, Shape, TypeOK
<1> QED BY <1>1, <1>2, <1>3, <1>4, <1>5, <1>6, <1>7, <1>8, <1>9, <1>10, <1>11
    DEF IInv

LEMMA PlugKeeps ==
    ASSUME IInv, Plug PROVE IInv'
<1> USE PacksAssumption, SentinelsAssumption
    DEF IInv, Plug, jobs, bounds, NoPullMidListing, NoBlinkMidInstall
<1>1. TypeOK'
    BY DEF TypeOK, Shape, Place
<1>2. Shape'
    BY DEF Shape, TypeOK, Job
<1>3. CopyIsTrue'
    BY DEF CopyIsTrue, TypeOK, Shape
<1>4. FoundIsThere'
    BY DEF FoundIsThere, TypeOK, Shape
<1>5. DoneIsSeen'
    <2>1. scan # None => disk' = disk
        BY DEF TypeOK
    <2> QED BY <2>1, SameScan
<1>6. BelievedIsThere'
    BY DEF BelievedIsThere, TypeOK, Shape, Members
<1>7. ListedAgrees'
    BY DEF ListedAgrees, TypeOK, Shape
<1>8. ListIsLawful'
    BY DEF ListIsLawful, RefreshToCome, Lawful, Shape, Members
<1>9. TargetsAreSteady'
    BY DEF TargetsAreSteady, Targets, Steady
<1>10. PassedByIsNotReady'
    BY DEF PassedByIsNotReady, TypeOK, Shape, Targets, Steady, Place, Job, NoBlinkMidInstall
<1>11. TargetIsShown'
    BY DEF TargetIsShown, Shown, Accepts, Writable, Shape, TypeOK, Targets, Place, Job
<1> QED BY <1>1, <1>2, <1>3, <1>4, <1>5, <1>6, <1>7, <1>8, <1>9, <1>10, <1>11
    DEF IInv

LEMMA CrashKeeps ==
    ASSUME IInv, Crash PROVE IInv'
<1> USE PacksAssumption, SentinelsAssumption
    DEF IInv, Crash, files
<1>1. TypeOK'
    <2>1. NoTrust \in Trust
        BY DEF NoTrust, Trust
    <2>2. health' \in [Vault -> Health]
        BY DEF Health
    <2>3. listed' \in [Pack -> Listing \cup {None}]
        OBVIOUS
    <2>4. queue' \in Seq(Job) /\ changes' = {} /\ upsets' \in 0 .. MaxUpsets
        BY DEF TypeOK
    <2> QED BY <2>1, <2>2, <2>3, <2>4 DEF TypeOK
<1>2. Shape'
    BY DEF Shape, TypeOK, Job
<1>3. CopyIsTrue'
    BY DEF CopyIsTrue, TypeOK, Shape
<1>4. FoundIsThere'
    BY DEF FoundIsThere, TypeOK, Shape
<1>5. DoneIsSeen'
    BY DEF DoneIsSeen, Seen, Shape, Members
<1>6. BelievedIsThere'
    BY DEF BelievedIsThere, TypeOK, Shape, Members
<1>7. ListedAgrees'
    BY DEF ListedAgrees, TypeOK, Shape
<1>8. ListIsLawful'
    BY DEF ListIsLawful, RefreshToCome, Lawful, Shape, Members
<1>9. TargetsAreSteady'
    BY DEF TargetsAreSteady, Targets, Steady, Members, TypeOK, Shape, Place, Job
<1>10. PassedByIsNotReady'
    BY DEF PassedByIsNotReady, Shape, TypeOK
<1>11. TargetIsShown'
    BY DEF TargetIsShown, Shown, Accepts, Writable, Shape, TypeOK
<1> QED BY <1>1, <1>2, <1>3, <1>4, <1>5, <1>6, <1>7, <1>8, <1>9, <1>10, <1>11
    DEF IInv

-----------------------------------------------------------------------------
(* The initial states, and every step.                                     *)

LEMMA InitIInv == Init => IInv
<1> SUFFICES ASSUME Init PROVE IInv
    OBVIOUS
<1> USE PacksAssumption, SentinelsAssumption DEF Init
<1>1. TypeOK
    <2>1. NoTrust \in Trust
        BY DEF NoTrust, Trust
    <2>2. disk \in [Place -> [Pack -> Folder]]
        BY DEF Place, Folder
    <2>3. /\ saved \in [Pack -> Entry \cup {None}] /\ health \in [Vault -> Health]
          /\ listed \in [Pack -> Listing \cup {None}]
          /\ drive \in [Vault -> {"away", "ready", "read-only", "locked"}]
          /\ queue \in Seq(Job) /\ configured \in Seq(Vault)
        BY DEF Health
    <2>4. /\ scan = None /\ running = None /\ step = "idle" /\ changes = {}
          /\ due = TRUE /\ loaded = FALSE
        OBVIOUS
    <2>6. asks \in 0 .. MaxAsks /\ upsets \in 0 .. MaxUpsets
        OBVIOUS
    <2>5. trustFile \in Trust /\ trust \in Trust
        BY <2>1
    <2> QED BY ONLY <2>2, <2>3, <2>4, <2>5, <2>6 DEF TypeOK
<1>2. Shape
    BY DEF Shape
<1>3. CopyIsTrue /\ FoundIsThere /\ DoneIsSeen /\ BelievedIsThere
    BY DEF CopyIsTrue, FoundIsThere, DoneIsSeen, BelievedIsThere
<1>4. ListedAgrees /\ ListIsLawful
    BY DEF ListedAgrees, ListIsLawful, Lawful
<1>5. TargetsAreSteady
    BY DEF TargetsAreSteady, Targets, Members
<1>6. PassedByIsNotReady /\ TargetIsShown
    BY DEF PassedByIsNotReady, TargetIsShown
<1> QED BY <1>1, <1>2, <1>3, <1>4, <1>5, <1>6 DEF IInv

LEMMA StutterKeeps ==
    ASSUME IInv, UNCHANGED vars PROVE IInv'
<1> USE DEF IInv, vars, files, jobs, bounds
<1>1. (TypeOK /\ Shape /\ CopyIsTrue /\ FoundIsThere)'
    BY DEF TypeOK, Shape, CopyIsTrue, FoundIsThere
<1>2. (DoneIsSeen /\ BelievedIsThere /\ ListedAgrees)'
    BY DEF DoneIsSeen, Seen, BelievedIsThere, ListedAgrees
<1>3. (ListIsLawful /\ TargetsAreSteady)'
    BY DEF ListIsLawful, RefreshToCome, Lawful, TargetsAreSteady, Targets, Steady
<1>4. (PassedByIsNotReady /\ TargetIsShown)'
    BY DEF PassedByIsNotReady, TargetIsShown, Shown, Accepts
<1> QED BY <1>1, <1>2, <1>3, <1>4

LEMMA NextKeeps ==
    ASSUME IInv, [Next]_vars PROVE IInv'
<1>1. CASE JobStep
    BY <1>1, TakeJobKeeps, ScanOpensKeeps, ScanTrustsKeeps, ScanBelievesKeeps, ScanListsKeeps,
        ScanClosesKeeps, InstallStagesKeeps, InstallVerifiesKeeps, AdoptChecksKeeps, ActivationClearsKeeps,
        ActivationMovesKeeps, ActivationNotesKeeps, RemoveDeletesKeeps, RemoveForgetsKeeps, SwitchSavesKeeps
    DEF JobStep, ScanStep
<1>2. CASE Asked
    BY <1>2, InstallAskedKeeps, AdoptAskedKeeps, RemoveAskedKeeps, SwitchAskedKeeps,
        TrustAskedKeeps, VaultAddedKeeps, VaultDroppedKeeps
    DEF Asked
<1>3. CASE TrustWrites \/ MonitorPasses \/ Pull \/ Plug \/ Crash
    BY <1>3, TrustWritesKeeps, MonitorPassesKeeps, PullKeeps, PlugKeeps, CrashKeeps
<1>4. CASE UNCHANGED vars
    BY <1>4, StutterKeeps
<1> QED BY <1>1, <1>2, <1>3, <1>4 DEF Next

-----------------------------------------------------------------------------
(* The theorems.                                                           *)

\* The invariant holds in every state, of any number of packs, drives and keys.
THEOREM IInvHolds == Spec => []IInv
<1>1. Init => IInv
    BY InitIInv
<1>2. IInv /\ [Next]_vars => IInv'
    BY NextKeeps
<1> QED BY <1>1, <1>2, PTL DEF Spec

\* Every variable keeps its type.
THEOREM TypeOKHolds == Spec => []TypeOK
<1>1. IInv => TypeOK
    BY DEF IInv
<1> QED BY <1>1, IInvHolds, PTL

\* What the registry lists of a pack on a vault is what state.json remembers of
\* it whenever no job is under way, whatever scans, switches, installs, drives
\* and restarts came in between.
THEOREM ListedIsRememberedHolds == Spec => []ListedIsRemembered
<1>1. IInv => ListedIsRemembered
    BY DEF IInv, Shape, ListedAgrees, ListedIsRemembered
<1> QED BY <1>1, IInvHolds, PTL

\* With nothing left to do no pack is used that the policy in trust.json does
\* not allow, though trust changes while scans and installs are under way.
THEOREM OnlyTrustedPacksAreUsedHolds == Spec => []OnlyTrustedPacksAreUsed
<1>1. IInv => OnlyTrustedPacksAreUsed
    <2> SUFFICES ASSUME IInv, running = None, queue = <<>>
                 PROVE  Lawful(listed)
        BY DEF OnlyTrustedPacksAreUsed, Lawful
    <2>1. step = "idle" /\ ~RefreshToCome
        BY DEF IInv, Shape, RefreshToCome, Members
    <2> QED BY <2>1 DEF IInv, ListIsLawful
<1> QED BY <1>1, IInvHolds, PTL

\* Only a switch or a download that the operator asked for switches a pack on
\* again: the copy of state.json a scan holds never disagrees with the file
\* about a switch.
THEOREM SwitchedOffStaysOffHolds == Spec => SwitchedOffStaysOff
<1> DEFINE StaysOff ==
      \A p \in Pack :
        /\ saved[p] # None /\ ~saved[p].enabled
        /\ saved'[p] # None /\ saved'[p].enabled
        => running # None /\ running.do \in {"switch", "adopt"}
<1>1. ASSUME IInv, [Next]_vars PROVE StaysOff
    <2> SUFFICES ASSUME NEW p \in Pack,
                        saved[p] # None, ~saved[p].enabled,
                        saved'[p] # None, saved'[p].enabled
                 PROVE  running # None /\ running.do \in {"switch", "adopt"}
        OBVIOUS
    <2>1. CASE ScanCloses
        <3>1. saved'[p] = scan.entries[p]
            BY <2>1 DEF ScanCloses
        <3> QED BY <1>1, <2>1, <3>1 DEF IInv, CopyIsTrue, Shape, ScanCloses
    <2>2. CASE ActivationNotes
        <3>1. /\ running \in Job /\ running # None
              /\ running.do \in {"install", "adopt"} /\ running.pack \in Pack
            BY <1>1, <2>2, SentinelsAssumption, JobFacts DEF IInv, TypeOK, Shape, ActivationNotes
        <3>2. saved' = [saved EXCEPT ![running.pack] = NewEntry(running)]
              /\ saved \in [Pack -> Entry \cup {None}]
            BY <1>1, <2>2 DEF ActivationNotes, IInv, TypeOK
        <3>3. p = running.pack /\ saved'[p] = NewEntry(running)
            BY <3>1, <3>2
        <3>4. running.do = "install" => ~NewEntry(running).enabled
            BY <3>3 DEF NewEntry, Enabled
        <3> QED BY <3>1, <3>3, <3>4
    <2>3. CASE RemoveForgets
        <3>1. running.pack \in Pack /\ saved \in [Pack -> Entry \cup {None}]
            BY <1>1, <2>3, SentinelsAssumption, JobFacts DEF IInv, TypeOK, Shape, RemoveForgets
        <3> QED BY <2>3, <3>1 DEF RemoveForgets
    <2>4. CASE SwitchSaves
        BY <1>1, <2>4 DEF SwitchSaves, IInv, Shape
    <2>5. CASE \/ TakeJob \/ ScanOpens \/ ScanTrusts \/ ScanBelieves \/ ScanLists
               \/ InstallStages \/ InstallVerifies \/ AdoptChecks
               \/ ActivationClears \/ ActivationMoves \/ RemoveDeletes
        BY <2>5 DEF TakeJob, ScanOpens, ScanTrusts, ScanBelieves, ScanLists, files,
            InstallStages, InstallVerifies, AdoptChecks, ActivationClears,
            ActivationMoves, RemoveDeletes
    <2>6. CASE Asked
        BY <2>6 DEF Asked, InstallAsked, AdoptAsked, RemoveAsked, SwitchAsked,
            TrustAsked, VaultAdded, VaultDropped, Command, files
    <2>7. CASE TrustWrites \/ MonitorPasses \/ Pull \/ Plug \/ Crash \/ UNCHANGED vars
        BY <2>7 DEF TrustWrites, MonitorPasses, Pull, Plug, Crash, vars, files
    <2> QED BY <1>1, <2>1, <2>2, <2>3, <2>4, <2>5, <2>6, <2>7 DEF Next, JobStep, ScanStep
<1>2. Spec => [][StaysOff]_vars
    BY <1>1, IInvHolds, PTL DEF Spec
<1> QED BY <1>2 DEF SwitchedOffStaysOff

\* When no drive is pulled between a scan's look at its marker and its listing,
\* the choices about a pack on a drive are forgotten only when the drive is not
\* configured or really without the pack.
THEOREM ForgottenOnlyWhenGoneHolds ==
    ASSUME NoPullMidListing
    PROVE  Spec => ForgottenOnlyWhenGone
<1> DEFINE OnlyWhenGone ==
      \A p \in Pack :
        /\ scan # None
        /\ saved[p] # None /\ saved[p].at # Local
        /\ saved'[p] = None
        => \/ saved[p].at \notin scan.vaults
           \/ disk[saved[p].at][p] = Nothing
<1>1. ASSUME IInv, [Next]_vars PROVE OnlyWhenGone
    <2> SUFFICES ASSUME NEW p \in Pack, scan # None,
                        saved[p] # None, saved[p].at # Local, saved'[p] = None,
                        saved[p].at \in scan.vaults
                 PROVE  disk[saved[p].at][p] = Nothing
        OBVIOUS
    <2>1. CASE ScanCloses
        <3>1. saved'[p] = IF Missing(p) /\ ~Kept(p) THEN None ELSE scan.entries[p]
            BY <2>1 DEF ScanCloses
        <3>2. scan.entries[p] # None
            BY <1>1 DEF IInv, CopyIsTrue
        <3>3. Missing(p) /\ ~Kept(p)
            BY <3>1, <3>2
        <3>4. scan.found[p] = None /\ scan.entries[p] = saved[p]
            BY <1>1, <3>3 DEF Missing, IInv, CopyIsTrue
        <3>5. saved[p].at \notin scan.away
            BY <3>3, <3>4 DEF Kept
        <3>6. Members(scan.ask) = {} /\ Members(scan.read) = {}
            BY <2>1 DEF ScanCloses, Members
        <3>7. Seen(saved[p].at)
            BY <1>1, <2>1, <3>5, <3>6, NoPullMidListing DEF IInv, DoneIsSeen, ScanCloses
        <3> QED BY <3>4, <3>7 DEF Seen
    <2>2. CASE ActivationNotes \/ RemoveForgets \/ SwitchSaves
        BY <1>1, <2>2 DEF ActivationNotes, RemoveForgets, SwitchSaves, IInv, Shape
    <2>5. CASE \/ TakeJob \/ ScanOpens \/ ScanTrusts \/ ScanBelieves \/ ScanLists
               \/ InstallStages \/ InstallVerifies \/ AdoptChecks
               \/ ActivationClears \/ ActivationMoves \/ RemoveDeletes
        BY <2>5 DEF TakeJob, ScanOpens, ScanTrusts, ScanBelieves, ScanLists, files,
            InstallStages, InstallVerifies, AdoptChecks, ActivationClears,
            ActivationMoves, RemoveDeletes
    <2>6. CASE Asked
        BY <2>6 DEF Asked, InstallAsked, AdoptAsked, RemoveAsked, SwitchAsked,
            TrustAsked, VaultAdded, VaultDropped, Command, files
    <2>7. CASE TrustWrites \/ MonitorPasses \/ Pull \/ Plug \/ Crash \/ UNCHANGED vars
        BY <2>7 DEF TrustWrites, MonitorPasses, Pull, Plug, Crash, vars, files
    <2> QED BY <1>1, <2>1, <2>2, <2>5, <2>6, <2>7 DEF Next, JobStep, ScanStep
<1>2. Spec => [][OnlyWhenGone]_vars
    BY <1>1, IInvHolds, PTL DEF Spec
<1> QED BY <1>2 DEF ForgottenOnlyWhenGone

\* When, besides, no drive goes and comes back while a pack is being installed
\* on it, an install never goes on to replace a newer pack, or a whole signed one
\* by one that neither its signer nor a publisher trusted when the file was
\* unpacked has signed: what it looked up is what is in the folder, though the
\* drives and the trust change under it.
THEOREM NeverOlderOrAnothersHolds ==
    ASSUME NoPullMidListing, NoBlinkMidInstall
    PROVE  Spec => NeverOlderOrAnothers
<1> DEFINE NeverOlder ==
      /\ step = "verify" /\ step' = "clear"
      /\ disk[running.to][running.pack] \in Copy
      => MayReplace(disk[running.to][running.pack], running.file, running.trust)
<1>1. ASSUME IInv, [Next]_vars PROVE NeverOlder
    <2> SUFFICES ASSUME step = "verify", step' = "clear",
                        disk[running.to][running.pack] \in Copy
                 PROVE  MayReplace(disk[running.to][running.pack], running.file, running.trust)
        OBVIOUS
    <2>1. CASE InstallVerifies
        <3>1. ~Refused(running.pack) /\ Accepts(running.to)
            BY <2>1 DEF InstallVerifies, GiveUp
        <3>2. Shown(running.pack, running.to)
            BY <1>1, <3>1, NoPullMidListing, NoBlinkMidInstall DEF IInv, TargetIsShown
        <3>3. /\ listed[running.pack] # None
              /\ listed[running.pack].at = running.to
              /\ listed[running.pack].copy = disk[running.to][running.pack]
            BY <3>1, <3>2 DEF Shown, Refused
        <3> QED BY <3>1, <3>3 DEF Refused
    <2>2. CASE JobStep /\ ~InstallVerifies
        BY <1>1, <2>2 DEF JobStep, ScanStep, TakeJob, ScanOpens, ScanTrusts, ScanBelieves,
            ScanLists, ScanCloses, InstallStages, AdoptChecks, ActivationClears,
            ActivationMoves, ActivationNotes, RemoveDeletes, RemoveForgets,
            SwitchSaves, IInv, Shape
    <2>3. CASE Asked
        BY <2>3 DEF Asked, InstallAsked, AdoptAsked, RemoveAsked, SwitchAsked,
            TrustAsked, VaultAdded, VaultDropped, Command, jobs
    <2>4. CASE TrustWrites \/ MonitorPasses \/ Pull \/ Plug \/ Crash \/ UNCHANGED vars
        BY <2>4 DEF TrustWrites, MonitorPasses, Pull, Plug, Crash, vars, jobs
    <2> QED BY <1>1, <2>1, <2>2, <2>3, <2>4 DEF Next
<1>2. Spec => [][NeverOlder]_vars
    BY <1>1, IInvHolds, PTL DEF Spec
<1> QED BY <1>2 DEF NeverOlderOrAnothers
=============================================================================

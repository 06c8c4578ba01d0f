------------------------- MODULE ProviderHostProofs -------------------------
(***************************************************************************)
(* What TLAPS proves of ProviderHost for every number of objects, runs and *)
(* subscriptions.                                                          *)
(*                                                                         *)
(* The inductive invariant IndInv says of each Hosted record that it is    *)
(* well typed and that its start attempts are in order (Sound), that a     *)
(* source which runs, starts or has a port that no stop will close is      *)
(* wanted (InUse, LocallyWanted), that the host itself is then started     *)
(* (HostIsUp), and that Source Health knows the registered ids and no      *)
(* other (Registered).  Most steps leave alone the fields these speak of:  *)
(* Keeps(x, y) says so, and is proved once for each piece of a handler.    *)
(*                                                                         *)
(* OfflineInv adds what a poll needs to be cut when the network goes: its  *)
(* signal is the one the source refers to (Alert).  Steps that leave a     *)
(* poll as it is, or end it, are Calm.                                     *)
(***************************************************************************)
EXTENDS ProviderHost, TLAPS

-----------------------------------------------------------------------------
(* The shape of a Hosted record.                                           *)

FieldNames ==
  {"listed", "removed", "enabled", "initialized", "running", "starting", "run", "attempt",
   "polling", "pollCut", "settingsChangedInPoll", "waitingForSetup", "waitingForKey",
   "timer", "pollTimers", "retryTimers", "due", "abort", "sub", "subs", "startSub",
   "session", "unsubscribe", "overlays", "refreshing", "listener", "listenerPending",
   "stops", "leaving", "pubs", "healthSoon"}

IsRecord(x) == x = [f \in FieldNames |-> x[f]]

\* The fields that starts and stops are made of.
LifeTyped(x) ==
  /\ x.listed \in {"no", "yes", "gone"} /\ x.removed \in BOOLEAN /\ x.enabled \in BOOLEAN
  /\ x.initialized \in BOOLEAN /\ x.running \in BOOLEAN /\ x.starting \in BOOLEAN
  /\ x.run \in 0..MaxRun /\ x.attempt \in [Runs -> AttemptStage]
  /\ x.stops \in 0..MaxRun /\ x.leaving \in BOOLEAN /\ x.startSub \in 0..MaxSubs

RestTyped(x) ==
  /\ x.polling \in PollStage /\ x.pollCut \in BOOLEAN
  /\ x.settingsChangedInPoll \in BOOLEAN /\ x.waitingForSetup \in BOOLEAN
  /\ x.waitingForKey \in BOOLEAN
  /\ x.timer \in {"none", "poll", "retry"} /\ x.pollTimers \in Nat /\ x.retryTimers \in Nat
  /\ x.due \in BOOLEAN /\ x.abort \in 0..PollSignal
  /\ x.sub \in [Subs -> SubStage] /\ x.subs \in 0..MaxSubs
  /\ x.session \in 0..MaxSubs /\ x.unsubscribe \in 0..MaxSubs
  /\ x.overlays \in BOOLEAN /\ x.refreshing \in BOOLEAN
  /\ x.listener \in 0..MaxRun /\ x.listenerPending \in 0..MaxRun
  /\ x.pubs \in SUBSET Report /\ x.healthSoon \in BOOLEAN

\* The timer h.timer refers to is armed.
Timed(x) ==
  /\ x.timer = "poll" => x.pollTimers > 0
  /\ x.timer = "retry" => x.retryTimers > 0

Calling == {"initializing", "starting", "undoing", "subscribing"}

\* Attempts take their runs in order, only the current one is `starting`, and one that calls
\* the provider has none before it.
Sound(x) ==
  /\ x.stops <= x.run
  /\ x.leaving => x.stops > 0 /\ x.removed
  /\ x.startSub # 0 => \E r \in Runs : x.attempt[r] = "subscribing"
  /\ x.starting => x.run \in Runs /\ InFlight(x, x.run)
  /\ \A r \in Runs :
       /\ r > x.run => x.attempt[r] = "none"
       /\ InFlight(x, r) /\ x.run = r => x.starting
       /\ x.attempt[r] \in Calling => PreviousOver(x, r)

\* It runs or starts, or has a port that no stop under way will close.
InUse(x) == x.running \/ x.starting \/ (x.listener # 0 /\ x.stops = 0)

LocallyWanted(x) ==
  /\ InUse(x) => x.enabled /\ ~x.removed /\ x.listed = "yes"
  /\ x.listed # "yes" => x.listener = 0 /\ ~x.leaving

Shape(x) == IsRecord(x) /\ LifeTyped(x) /\ RestTyped(x) /\ Timed(x) /\ Sound(x)

SameLife(x, y) ==
  /\ y.listed = x.listed /\ y.removed = x.removed /\ y.enabled = x.enabled
  /\ y.initialized = x.initialized /\ y.running = x.running /\ y.starting = x.starting
  /\ y.run = x.run /\ y.attempt = x.attempt /\ y.stops = x.stops
  /\ y.leaving = x.leaving /\ y.startSub = x.startSub /\ y.listener \in {x.listener, 0}

Keeps(x, y) == IsRecord(y) /\ RestTyped(y) /\ Timed(y) /\ SameLife(x, y)

LEMMA RecordType ==
  ASSUME NEW x, IsRecord(x), LifeTyped(x), RestTyped(x)
  PROVE  x \in HostedType
BY DEF IsRecord, FieldNames, LifeTyped, RestTyped, HostedType

LEMMA KeepsShape ==
  ASSUME NEW x, NEW y, Shape(x), Keeps(x, y)
  PROVE  /\ Shape(y)
         /\ LocallyWanted(x) => LocallyWanted(y)
         /\ y.running = x.running /\ y.starting = x.starting
BY DEF Shape, Keeps, SameLife, LifeTyped, Sound, InFlight, PreviousOver, LocallyWanted, InUse

LEMMA KeepsTrans ==
  ASSUME NEW x, NEW y, NEW z, Keeps(x, y), Keeps(y, z)
  PROVE  Keeps(x, z)
BY DEF Keeps, SameLife

LEMMA KeepsSelf ==
  ASSUME NEW x, Shape(x)
  PROVE  Keeps(x, x)
BY DEF Keeps, SameLife, Shape

-----------------------------------------------------------------------------
(* The pieces of handlers that only poll and subscribe.                    *)

LEMMA ClearTimerKeeps ==
  ASSUME NEW x, Shape(x)
  PROVE  Keeps(x, ClearTimer(x)) /\ ClearTimer(x).timer = "none"
<1>1. IsRecord(ClearTimer(x))
  BY Zenon DEF Shape, IsRecord, ClearTimer
<1>2. RestTyped(ClearTimer(x))
  BY DEF Shape, IsRecord, FieldNames, RestTyped, Timed, ClearTimer
<1>3. SameLife(x, ClearTimer(x)) /\ ClearTimer(x).timer = "none"
  BY DEF Shape, IsRecord, FieldNames, SameLife, ClearTimer
<1>. QED BY <1>1, <1>2, <1>3 DEF Keeps, Timed

LEMMA ScheduleKeeps ==
  ASSUME NEW x, Shape(x)
  PROVE  Keeps(x, Schedule(x))
<1> DEFINE y == ClearTimer(x)
           z == [y EXCEPT !.timer = "poll", !.pollTimers = @ + 1, !.due = TRUE]
<1>1. Keeps(x, y)
  BY ClearTimerKeeps
<1>. HIDE DEF y
<1>2. IsRecord(z)
  BY <1>1, Zenon DEF Keeps, IsRecord
<1>3. RestTyped(z) /\ Timed(z)
  BY <1>1 DEF Keeps, IsRecord, FieldNames, RestTyped, Timed
<1>4. SameLife(x, z)
  BY <1>1 DEF Keeps, IsRecord, FieldNames, SameLife
<1>5. Keeps(x, z)
  BY <1>2, <1>3, <1>4 DEF Keeps
<1>. QED BY <1>5, KeepsSelf, Zenon DEF Schedule, y

LEMMA CancelPollKeeps ==
  ASSUME NEW x, Shape(x)
  PROVE  Keeps(x, CancelPoll(x))
<1> DEFINE y == ClearTimer(x)
<1>1. Keeps(x, y) /\ y.timer = "none"
  BY ClearTimerKeeps
<1>. HIDE DEF y
<1> DEFINE z == [y EXCEPT !.due = FALSE, !.abort = None,
                          !.pollCut = @ \/ x.abort = PollSignal,
                          !.session = IF x.abort = @ THEN 0 ELSE @]
<1>2. IsRecord(z)
  BY <1>1, Zenon DEF Keeps, IsRecord
<1>3. RestTyped(z) /\ Timed(z)
  BY <1>1, ConstantsAssumption DEF Keeps, IsRecord, FieldNames, RestTyped, Timed, None, PollSignal
<1>4. SameLife(x, z)
  BY <1>1 DEF Keeps, IsRecord, FieldNames, SameLife
<1>. QED BY <1>2, <1>3, <1>4, Zenon DEF CancelPoll, Keeps, y

LEMMA StopTailKeeps ==
  ASSUME NEW x, IsRecord(x), RestTyped(x), Timed(x)
  PROVE  Keeps(x, StopTail(x)) /\ StopTail(x).listener = 0
<1>1. IsRecord(StopTail(x))
  BY Zenon DEF IsRecord, StopTail
<1>2. RestTyped(StopTail(x)) /\ Timed(StopTail(x))
  BY ConstantsAssumption
  DEF IsRecord, FieldNames, RestTyped, Timed, StopTail, StopOverride, Report
<1>3. SameLife(x, StopTail(x)) /\ StopTail(x).listener = 0
  BY DEF IsRecord, FieldNames, SameLife, StopTail
<1>. QED BY <1>1, <1>2, <1>3 DEF Keeps

LEMMA RefreshOverlaysKeeps ==
  ASSUME NEW o, NEW x, Shape(x)
  PROVE  Keeps(x, RefreshOverlays(o, x))
<1> DEFINE y == [x EXCEPT !.refreshing = TRUE]
<1>1. IsRecord(y)
  BY Zenon DEF Shape, IsRecord
<1>2. RestTyped(y) /\ Timed(y) /\ SameLife(x, y)
  BY DEF Shape, IsRecord, FieldNames, RestTyped, Timed, SameLife
<1>. QED BY <1>1, <1>2, KeepsSelf, Zenon DEF Keeps, RefreshOverlays

LEMMA PollKeeps ==
  ASSUME NEW o, NEW x, Shape(x)
  PROVE  Keeps(x, Poll(o, x))
<1> DEFINE y == [x EXCEPT !.pubs = @ \union {"OFFLINE"}]
           z == [x EXCEPT !.polling = "asking", !.pollCut = FALSE, !.due = FALSE,
                          !.abort = PollSignal]
<1>1. IsRecord(y) /\ IsRecord(z)
  BY Zenon DEF Shape, IsRecord
<1>2. RestTyped(y) /\ Timed(y) /\ SameLife(x, y)
  BY DEF Shape, IsRecord, FieldNames, RestTyped, Timed, SameLife, Report
<1>3. RestTyped(z) /\ Timed(z) /\ SameLife(x, z)
  BY ConstantsAssumption
  DEF Shape, IsRecord, FieldNames, RestTyped, Timed, SameLife, PollStage, PollSignal
<1>. QED BY <1>1, <1>2, <1>3, KeepsSelf, Zenon DEF Keeps, Poll

LEMMA EndPollKeeps ==
  ASSUME NEW x, Shape(x)
  PROVE  Keeps(x, EndPoll(x))
<1> DEFINE y == [x EXCEPT !.polling = "idle", !.pollCut = FALSE,
                          !.abort = IF @ = PollSignal THEN None ELSE @,
                          !.settingsChangedInPoll = FALSE]
<1>1. IsRecord(y)
  BY Zenon DEF Shape, IsRecord
<1>2. RestTyped(y) /\ Timed(y) /\ SameLife(x, y)
  BY ConstantsAssumption
  DEF Shape, IsRecord, FieldNames, RestTyped, Timed, SameLife, PollStage, PollSignal, None
<1>3. Keeps(x, y)
  BY <1>1, <1>2 DEF Keeps
<1>. HIDE DEF y
<1>4. Keeps(x, Schedule(y))
  BY <1>3, KeepsShape, ScheduleKeeps, KeepsTrans, Zenon
<1>. QED BY <1>3, <1>4, Zenon DEF EndPoll, y

LEMMA ArmRetryKeeps ==
  ASSUME NEW x, Shape(x)
  PROVE  Keeps(x, ArmRetry(x))
<1>1. IsRecord(ArmRetry(x))
  BY Zenon DEF Shape, IsRecord, ArmRetry
<1>2. RestTyped(ArmRetry(x)) /\ Timed(ArmRetry(x))
  BY DEF Shape, IsRecord, FieldNames, RestTyped, Timed, ArmRetry
<1>3. SameLife(x, ArmRetry(x))
  BY DEF Shape, IsRecord, FieldNames, SameLife, ArmRetry
<1>. QED BY <1>1, <1>2, <1>3 DEF Keeps

LEMMA SubAtKeeps ==
  ASSUME NEW x, Shape(x), NEW n \in Subs, NEW stage \in SubStage
  PROVE  Keeps(x, SubAt(x, n, stage))
<1>1. IsRecord(SubAt(x, n, stage))
  BY Zenon DEF Shape, IsRecord, SubAt
<1>2. RestTyped(SubAt(x, n, stage)) /\ Timed(SubAt(x, n, stage))
  BY DEF Shape, IsRecord, FieldNames, RestTyped, Timed, SubAt
<1>3. SameLife(x, SubAt(x, n, stage))
  BY DEF Shape, IsRecord, FieldNames, SameLife, SubAt
<1>. QED BY <1>1, <1>2, <1>3 DEF Keeps

LEMMA OpenSubscriptionKeeps ==
  ASSUME NEW x, Shape(x), x.subs < MaxSubs
  PROVE  Keeps(x, OpenSubscription(x))
<1>1. IsRecord(OpenSubscription(x))
  BY Zenon DEF Shape, IsRecord, OpenSubscription
<1>2. RestTyped(OpenSubscription(x)) /\ Timed(OpenSubscription(x))
  BY ConstantsAssumption
  DEF Shape, IsRecord, FieldNames, RestTyped, Timed, OpenSubscription, Subs, SubStage,
      PollSignal
<1>3. SameLife(x, OpenSubscription(x))
  BY DEF Shape, IsRecord, FieldNames, SameLife, OpenSubscription
<1>. QED BY <1>1, <1>2, <1>3 DEF Keeps

-----------------------------------------------------------------------------
(* The pieces that start and stop.                                         *)

LEMMA StopNowShape ==
  ASSUME NEW x, Shape(x), x.run < MaxRun
  PROVE  /\ Shape(StopNow(x))
         /\ ~StopNow(x).running /\ ~StopNow(x).starting /\ ~InUse(StopNow(x))
         /\ StopNow(x).leaving = x.leaving /\ StopNow(x).listener \in {x.listener, 0}
         /\ ~x.running => StopNow(x).listener = 0
         /\ StopNow(x).removed = x.removed /\ StopNow(x).listed = x.listed
         /\ x.running => StopNow(x).stops > 0
<1> DEFINE w == CancelPoll(x)
<1>1. Keeps(x, w)
  BY CancelPollKeeps
<1>. HIDE DEF w
<1> DEFINE y == [w EXCEPT !.run = @ + 1, !.starting = FALSE,
                          !.session = IF x.unsubscribe = @ THEN 0 ELSE @,
                          !.unsubscribe = 0]
<1>2. IsRecord(y)
  BY <1>1, Zenon DEF Keeps, IsRecord
<1>3. RestTyped(y) /\ Timed(y)
  BY <1>1, ConstantsAssumption DEF Keeps, IsRecord, FieldNames, RestTyped, Timed
<1>4. /\ y.listed = x.listed /\ y.removed = x.removed /\ y.enabled = x.enabled
      /\ y.initialized = x.initialized /\ y.running = x.running /\ ~y.starting
      /\ y.run = x.run + 1 /\ y.attempt = x.attempt /\ y.stops = x.stops
      /\ y.leaving = x.leaving /\ y.startSub = x.startSub /\ y.starting \in BOOLEAN
      /\ y.listener \in {x.listener, 0}
  BY <1>1 DEF Keeps, SameLife, IsRecord, FieldNames
<1>5. StopNow(x) = IF x.running
                   THEN [y EXCEPT !.running = FALSE, !.session = 0, !.stops = @ + 1]
                   ELSE StopTail(y)
  BY DEF StopNow, w
<1>. HIDE DEF y
<1>6. LifeTyped(y)
  BY <1>4, ConstantsAssumption DEF Shape, LifeTyped
<1>7. Sound(y)
  BY <1>4, ConstantsAssumption DEF Shape, LifeTyped, Sound, InFlight, PreviousOver, Runs
<1>8. Shape(y)
  BY <1>2, <1>3, <1>6, <1>7 DEF Shape
<1>9. CASE x.running
  <2> DEFINE z == [y EXCEPT !.running = FALSE, !.session = 0, !.stops = @ + 1]
  <2>1. IsRecord(z)
    BY <1>2, Zenon DEF IsRecord
  <2>2. RestTyped(z) /\ Timed(z)
    BY <1>2, <1>3, ConstantsAssumption DEF IsRecord, FieldNames, RestTyped, Timed
  <2>3. /\ z.listed = x.listed /\ z.removed = x.removed /\ z.enabled = x.enabled
        /\ z.initialized = x.initialized /\ z.running = FALSE /\ z.starting = FALSE
        /\ z.run = x.run + 1 /\ z.attempt = x.attempt /\ z.stops = x.stops + 1
        /\ z.leaving = x.leaving /\ z.startSub = x.startSub /\ z.listener \in {x.listener, 0}
    BY <1>2, <1>4 DEF IsRecord, FieldNames
  <2>4. StopNow(x) = z
    BY <1>5, <1>9
  <2>. HIDE DEF z
  <2>8. x.stops + 1 \in 0..MaxRun /\ x.run + 1 \in 0..MaxRun
    BY ConstantsAssumption DEF Shape, LifeTyped, Sound
  <2>5. LifeTyped(z)
    BY <2>3, <2>8 DEF Shape, LifeTyped
  <2>6. Sound(z)
    BY <2>3, ConstantsAssumption DEF Shape, LifeTyped, Sound, InFlight, PreviousOver, Runs
  <2>7. Shape(z)
    BY <2>1, <2>2, <2>5, <2>6 DEF Shape
  <2>9. z.stops > 0
    BY <2>3, ConstantsAssumption DEF Shape, LifeTyped
  <2>. QED BY <2>3, <2>4, <2>7, <2>9, <1>9 DEF InUse
<1>10. CASE ~x.running
  <2>1. StopNow(x) = StopTail(y)
    BY <1>5, <1>10
  <2>2. Keeps(y, StopTail(y)) /\ StopTail(y).listener = 0
    BY <1>8, StopTailKeeps DEF Shape
  <2>. QED BY <1>4, <1>8, <1>10, <2>1, <2>2, KeepsShape DEF Keeps, SameLife, InUse
<1>. QED BY <1>9, <1>10 DEF Shape, LifeTyped

\* Attempts are in order whenever the fields they are made of are as they were.
LEMMA SoundLike ==
  ASSUME NEW x, NEW y, Sound(x), y.run = x.run, y.attempt = x.attempt,
         y.starting = x.starting, y.stops = x.stops, y.startSub = x.startSub,
         y.leaving => y.stops > 0 /\ y.removed
  PROVE  Sound(y)
BY DEF Sound, InFlight, PreviousOver

LEMMA ForgetShape ==
  ASSUME NEW x, Shape(x), ~x.running, ~x.starting
  PROVE  /\ Shape(Forget(x)) /\ ~Forget(x).running /\ ~Forget(x).starting
         /\ Forget(x).listed = "gone" /\ ~Forget(x).leaving
         /\ Forget(x).listener = x.listener
<1>1. IsRecord(Forget(x))
  BY Zenon DEF Shape, IsRecord, Forget
<1> DEFINE y == Forget(x)
<1>2. /\ RestTyped(y) /\ Timed(y) /\ y.running = x.running /\ y.starting = x.starting
      /\ y.run = x.run /\ y.attempt = x.attempt /\ y.stops = x.stops
      /\ y.leaving = FALSE /\ y.startSub = x.startSub /\ y.removed = x.removed
      /\ y.initialized = x.initialized /\ y.listed = "gone" /\ y.enabled = x.enabled
      /\ y.listener = x.listener
  BY DEF Shape, IsRecord, FieldNames, RestTyped, Timed, Forget
<1>. HIDE DEF y
<1>3. LifeTyped(y)
  BY <1>2 DEF Shape, LifeTyped
<1>4. Sound(y)
  BY <1>2, SoundLike DEF Shape
<1>. QED BY <1>1, <1>2, <1>3, <1>4 DEF Shape, y

\* What At and EndAttempt leave alone.
SameButAttempt(x, y) ==
  /\ y.listed = x.listed /\ y.removed = x.removed /\ y.enabled = x.enabled
  /\ y.initialized = x.initialized /\ y.running = x.running /\ y.run = x.run
  /\ y.stops = x.stops /\ y.leaving = x.leaving /\ y.startSub = x.startSub
  /\ y.subs = x.subs /\ y.listener = x.listener

LEMMA AtShape ==
  ASSUME NEW x, Shape(x), NEW r \in Runs, NEW stage \in AttemptStage,
         InFlight(x, r), stage \notin {"none", "done"},
         stage \in Calling => PreviousOver(x, r),
         x.startSub = 0 \/ x.attempt[r] # "subscribing"
  PROVE  /\ Shape(At(x, r, stage)) /\ SameButAttempt(x, At(x, r, stage))
         /\ At(x, r, stage).starting = x.starting
         /\ At(x, r, stage).attempt[r] = stage
<1> DEFINE y == At(x, r, stage)
<1>1. IsRecord(y)
  BY Zenon DEF Shape, IsRecord, At
<1>2. /\ RestTyped(y) /\ Timed(y) /\ SameButAttempt(x, y) /\ y.starting = x.starting
      /\ y.attempt = [x.attempt EXCEPT ![r] = stage]
  BY DEF Shape, IsRecord, FieldNames, RestTyped, Timed, SameButAttempt, At
<1>. HIDE DEF y
<1>3. LifeTyped(y)
  BY <1>2 DEF Shape, LifeTyped, SameButAttempt
<1>4. \A q \in Runs : y.attempt[q] = IF q = r THEN stage ELSE x.attempt[q]
  BY <1>2 DEF Shape, LifeTyped
<1>5. \A q \in Runs : InFlight(y, q) <=> InFlight(x, q)
  BY <1>4 DEF InFlight
<1>6. \A q \in Runs : PreviousOver(x, q) => PreviousOver(y, q)
  BY <1>4, <1>5 DEF InFlight, PreviousOver
<1>7. \A q \in Runs : y.attempt[q] \in Calling => PreviousOver(y, q)
  BY <1>4, <1>6 DEF Shape, Sound
<1>8. y.startSub # 0 => \E q \in Runs : y.attempt[q] = "subscribing"
  BY <1>2, <1>4 DEF Shape, Sound, SameButAttempt
<1>9. Sound(y)
  BY <1>2, <1>4, <1>5, <1>7, <1>8 DEF Shape, Sound, SameButAttempt, InFlight
<1>. QED BY <1>1, <1>2, <1>3, <1>4, <1>9 DEF Shape, y

LEMMA EndAttemptShape ==
  ASSUME NEW x, Shape(x), NEW r \in Runs, InFlight(x, r),
         x.startSub = 0 \/ x.attempt[r] # "subscribing"
  PROVE  /\ Shape(EndAttempt(x, r)) /\ SameButAttempt(x, EndAttempt(x, r))
         /\ EndAttempt(x, r).starting => x.starting
<1> DEFINE w == At(x, r, "done")
           y == [w EXCEPT !.starting = IF x.run = r THEN FALSE ELSE @]
<1>1. IsRecord(w)
  BY Zenon DEF Shape, IsRecord, At
<1>2. /\ RestTyped(w) /\ Timed(w) /\ SameButAttempt(x, w) /\ w.starting = x.starting
      /\ w.attempt = [x.attempt EXCEPT ![r] = "done"]
  BY DEF Shape, IsRecord, FieldNames, RestTyped, Timed, SameButAttempt, At
<1>3. y = EndAttempt(x, r)
  BY DEF EndAttempt
<1>. HIDE DEF w
<1>4. IsRecord(y)
  BY <1>1, Zenon DEF IsRecord
<1>5. /\ RestTyped(y) /\ Timed(y) /\ SameButAttempt(x, y)
      /\ y.starting = (IF x.run = r THEN FALSE ELSE x.starting)
      /\ y.attempt = [x.attempt EXCEPT ![r] = "done"]
  BY <1>1, <1>2 DEF IsRecord, FieldNames, RestTyped, Timed, SameButAttempt
<1>. HIDE DEF y
<1>6. LifeTyped(y)
  BY <1>5 DEF Shape, LifeTyped, SameButAttempt, AttemptStage
<1>7. \A q \in Runs : y.attempt[q] = IF q = r THEN "done" ELSE x.attempt[q]
  BY <1>5 DEF Shape, LifeTyped
<1>8. \A q \in Runs : PreviousOver(x, q) => PreviousOver(y, q)
  BY <1>7 DEF PreviousOver
<1>9. \A q \in Runs : y.attempt[q] \in Calling => PreviousOver(y, q)
  BY <1>7, <1>8 DEF Shape, Sound, Calling
<1>10. y.startSub # 0 => \E q \in Runs : y.attempt[q] = "subscribing"
  BY <1>5, <1>7 DEF Shape, Sound, SameButAttempt
<1>11. Sound(y)
  BY <1>5, <1>7, <1>9, <1>10 DEF Shape, LifeTyped, Sound, SameButAttempt, InFlight
<1>. QED BY <1>3, <1>4, <1>5, <1>6, <1>11 DEF Shape

LEMMA BeginStartShape ==
  ASSUME NEW x, Shape(x), x.run < MaxRun, ~x.starting
  PROVE  /\ Shape(BeginStart(x))
         /\ BeginStart(x).running = x.running /\ BeginStart(x).enabled = x.enabled
         /\ BeginStart(x).removed = x.removed /\ BeginStart(x).listed = x.listed
         /\ BeginStart(x).leaving = x.leaving
<1> DEFINE first == \A r \in Runs : x.attempt[r] = "none"
           stage == IF first THEN "initializing" ELSE "waiting"
           y == [x EXCEPT !.run = @ + 1, !.starting = TRUE,
                          !.attempt = [@ EXCEPT ![x.run + 1] = stage]]
<1>1. y = BeginStart(x)
  BY DEF BeginStart
<1>2. IsRecord(y)
  BY Zenon DEF Shape, IsRecord
<1>. HIDE DEF stage
<1>3. /\ RestTyped(y) /\ Timed(y) /\ y.starting = TRUE /\ y.run = x.run + 1
      /\ y.attempt = [x.attempt EXCEPT ![x.run + 1] = stage]
      /\ y.listed = x.listed /\ y.removed = x.removed /\ y.enabled = x.enabled
      /\ y.initialized = x.initialized /\ y.running = x.running /\ y.stops = x.stops
      /\ y.leaving = x.leaving /\ y.startSub = x.startSub
  BY DEF Shape, IsRecord, FieldNames, RestTyped, Timed
<1>. HIDE DEF y
<1>4. x.run + 1 \in Runs /\ x.run + 1 \in 0..MaxRun
  BY ConstantsAssumption DEF Shape, LifeTyped, Runs
<1>5. /\ stage \in {"initializing", "waiting"}
      /\ stage = "initializing" => first
  BY DEF stage
<1>. HIDE DEF first
<1>6. \A q \in Runs : y.attempt[q] = IF q = x.run + 1 THEN stage ELSE x.attempt[q]
  BY <1>3, <1>4 DEF Shape, LifeTyped
<1>7. LifeTyped(y)
  BY <1>3, <1>4, <1>5 DEF Shape, LifeTyped, AttemptStage
<1>8. ASSUME NEW q \in Runs, y.attempt[q] \in Calling
      PROVE  PreviousOver(y, q)
  <2>1. CASE q = x.run + 1
    <3>1. first
      BY <1>5, <1>6, <1>8, <2>1 DEF Calling
    <3>. QED BY <1>6, <2>1, <3>1 DEF first, PreviousOver, Runs
  <2>2. CASE q # x.run + 1
    <3>1. x.attempt[q] \in Calling /\ PreviousOver(x, q)
      BY <1>6, <1>8, <2>2 DEF Shape, Sound
    <3>2. q <= x.run
      BY <3>1, ConstantsAssumption DEF Shape, Sound, Calling, Runs, LifeTyped
    <3>. QED BY <1>6, <3>1, <3>2 DEF PreviousOver, Runs, Shape, LifeTyped
  <2>. QED BY <2>1, <2>2
<1>9. y.startSub # 0 => \E q \in Runs : y.attempt[q] = "subscribing"
  <2>1. x.attempt[x.run + 1] = "none"
    BY <1>4 DEF Shape, Sound, LifeTyped
  <2>. QED BY <1>3, <1>6, <2>1 DEF Shape, Sound
<1>10. Sound(y)
  BY <1>3, <1>4, <1>5, <1>6, <1>8, <1>9 DEF Shape, LifeTyped, Sound, InFlight, Runs
<1>. QED BY <1>1, <1>2, <1>3, <1>7, <1>10 DEF Shape

\* What matters to whether a source may run is as it was.
SameStanding(x, y) ==
  /\ y.listed = x.listed /\ y.removed = x.removed /\ y.enabled = x.enabled
  /\ y.running = x.running /\ (y.starting => x.starting) /\ (y.leaving => x.leaving)
  /\ InUse(y) => InUse(x)
  /\ y.listener # 0 => x.listener # 0 \/ InUse(x)

LEMMA KeepsStanding ==
  ASSUME NEW x, NEW y, Shape(x), Keeps(x, y)
  PROVE  Shape(y) /\ SameStanding(x, y)
BY KeepsShape DEF Keeps, SameLife, SameStanding, InUse

LEMMA StandingTrans ==
  ASSUME NEW x, NEW y, NEW z, SameStanding(x, y), SameStanding(y, z)
  PROVE  SameStanding(x, z)
BY DEF SameStanding

LEMMA AfterSubscribeShape ==
  ASSUME NEW o, NEW x, Shape(x), NEW r \in Runs, InFlight(x, r),
         x.startSub = 0 \/ x.attempt[r] # "subscribing"
  PROVE  Shape(AfterSubscribe(o, x, r)) /\ SameStanding(x, AfterSubscribe(o, x, r))
<1> DEFINE y == Schedule(x)
           z == RefreshOverlays(o, y)
<1>1. CASE o \in Polled
  <2>1. Keeps(x, y) /\ Shape(y)
    BY ScheduleKeeps, KeepsShape
  <2>2. Keeps(y, z) /\ Shape(z)
    BY <2>1, RefreshOverlaysKeeps, KeepsShape
  <2>3. Keeps(x, z)
    BY <2>1, <2>2, KeepsTrans
  <2>4. AfterSubscribe(o, x, r) = EndAttempt(z, r)
    BY <1>1 DEF AfterSubscribe
  <2>. HIDE DEF z
  <2>5. InFlight(z, r) /\ (z.startSub = 0 \/ z.attempt[r] # "subscribing")
    BY <2>3 DEF Keeps, SameLife, InFlight
  <2>6. Shape(EndAttempt(z, r)) /\ SameStanding(z, EndAttempt(z, r))
    BY <2>2, <2>5, EndAttemptShape DEF SameButAttempt, SameStanding, InUse
  <2>. QED BY <2>3, <2>4, <2>6, KeepsStanding, StandingTrans
<1>2. CASE o \notin Polled
  <2>1. "publishing" \in AttemptStage /\ "publishing" \notin Calling
    BY DEF AttemptStage, Calling
  <2>2. AfterSubscribe(o, x, r) = At(x, r, "publishing")
    BY <1>2 DEF AfterSubscribe
  <2>3. Shape(At(x, r, "publishing")) /\ SameStanding(x, At(x, r, "publishing"))
    BY <2>1, AtShape DEF SameButAttempt, SameStanding, InUse
  <2>. QED BY <2>2, <2>3
<1>. QED BY <1>1, <1>2

LEMMA ResumeShape ==
  ASSUME NEW o, NEW x, Shape(x), NEW n \in Subs
  PROVE  Shape(Resume(o, x, n)) /\ SameStanding(x, Resume(o, x, n))
<1>1. CASE x.startSub = n
  <2> DEFINE y == [x EXCEPT !.startSub = 0]
             r == CHOOSE q \in Runs : x.attempt[q] = "subscribing"
  <2>1. n # 0
    BY ConstantsAssumption DEF Subs
  <2>2. r \in Runs /\ x.attempt[r] = "subscribing"
    BY <1>1, <2>1 DEF Shape, Sound
  <2>3. IsRecord(y)
    BY Zenon DEF Shape, IsRecord
  <2>4. /\ RestTyped(y) /\ Timed(y) /\ y.startSub = 0
        /\ y.listed = x.listed /\ y.removed = x.removed /\ y.enabled = x.enabled
        /\ y.initialized = x.initialized /\ y.running = x.running
        /\ y.starting = x.starting /\ y.run = x.run /\ y.attempt = x.attempt
        /\ y.stops = x.stops /\ y.leaving = x.leaving /\ y.listener = x.listener
    BY DEF Shape, IsRecord, FieldNames, RestTyped, Timed
  <2>. HIDE DEF y
  <2>5. LifeTyped(y)
    BY <2>4, ConstantsAssumption DEF Shape, LifeTyped
  <2>6. Sound(y)
    BY <2>4 DEF Shape, Sound, InFlight, PreviousOver
  <2>7. Shape(y)
    BY <2>3, <2>4, <2>5, <2>6 DEF Shape
  <2>8. InFlight(y, r)
    BY <2>2, <2>4 DEF InFlight
  <2>9. SameStanding(x, y)
    BY <2>4 DEF SameStanding, InUse
  <2>10. Resume(o, x, n) = AfterSubscribe(o, y, r)
    BY <1>1, <2>4 DEF Resume, y
  <2>. QED BY <2>2, <2>4, <2>7, <2>8, <2>9, <2>10, AfterSubscribeShape, StandingTrans
<1>2. CASE x.startSub # n
  BY <1>2 DEF Resume, SameStanding
<1>. QED BY <1>1, <1>2

-----------------------------------------------------------------------------
(* The inductive invariant.                                                *)

HostIsUp == \A o \in Objects : InUse(hosted[o]) => started /\ ~disposed

\* Source Health knows the ids that are registered, each of which is one object's.
Registered ==
  /\ \A s \in Sources :
       health[s] = "none" <=> \A o \in Objects : SourceOf[o] = s => hosted[o].listed # "yes"
  /\ \A o, p \in Objects :
       SourceOf[o] = SourceOf[p] /\ hosted[o].listed = "yes" /\ hosted[p].listed = "yes"
         => o = p

IndInv ==
  /\ hosted = [o \in Objects |-> hosted[o]]
  /\ \A o \in Objects : Shape(hosted[o]) /\ LocallyWanted(hosted[o])
  /\ health \in [Sources -> Status \union {"none"}]
  /\ started \in BOOLEAN /\ disposed \in BOOLEAN /\ online \in BOOLEAN
  /\ HostIsUp /\ Registered

\* Of whom Source Health speaks is as it was.
Tells ==
  /\ health' \in [Sources -> Status \union {"none"}]
  /\ \A s \in Sources : health'[s] = "none" <=> health[s] = "none"

LEMMA InitIndInv ==
  ASSUME Init
  PROVE  IndInv
<1>1. IsRecord(NewHosted)
  BY DEF NewHosted, IsRecord, FieldNames
<1>2. LifeTyped(NewHosted) /\ Sound(NewHosted) /\ LocallyWanted(NewHosted)
  BY ConstantsAssumption
  DEF NewHosted, LifeTyped, Sound, LocallyWanted, InUse, Runs, AttemptStage, InFlight, Calling
<1>3. RestTyped(NewHosted) /\ Timed(NewHosted)
  BY ConstantsAssumption
  DEF NewHosted, RestTyped, Timed, PollStage, Subs, SubStage, PollSignal, Report, None
<1>4. ~InUse(NewHosted) /\ NewHosted.listed = "no"
  BY DEF NewHosted, InUse
<1>5. Shape(NewHosted) /\ LocallyWanted(NewHosted)
  BY <1>1, <1>2, <1>3 DEF Shape
<1>. HIDE DEF NewHosted
<1>. QED BY <1>4, <1>5, ConstantsAssumption DEF Init, IndInv, HostIsUp, Registered

\* Nobody is registered or taken out.
LEMMA RegisteredKeeps ==
  ASSUME Registered, Tells, \A o \in Objects : hosted'[o].listed = hosted[o].listed
  PROVE  Registered'
BY DEF Registered, Tells

\* One object changes, and its standing does not.
LEMMA BecomeKeeps ==
  ASSUME IndInv, NEW o \in Objects, NEW y, Become(o, y),
         Shape(y), SameStanding(hosted[o], y), Tells,
         started' = started, disposed' = disposed, online' \in BOOLEAN
  PROVE  IndInv'
<1>1. \A p \in Objects : hosted'[p] = IF p = o THEN y ELSE hosted[p]
  BY DEF IndInv, Become
<1>2. hosted' = [p \in Objects |-> hosted'[p]]
  BY DEF IndInv, Become
<1>3. LocallyWanted(y)
  BY DEF IndInv, LocallyWanted, SameStanding
<1>4. \A p \in Objects : Shape(hosted'[p]) /\ LocallyWanted(hosted'[p])
  BY <1>1, <1>3 DEF IndInv
<1>5. HostIsUp'
  BY <1>1 DEF IndInv, HostIsUp, SameStanding
<1>6. Registered'
  BY <1>1, RegisteredKeeps DEF IndInv, SameStanding
<1>. QED BY <1>2, <1>4, <1>5, <1>6 DEF IndInv, Tells

\* One object changes its standing: it has stopped, or it is wanted and the host is up.
LEMMA BecomeStands ==
  ASSUME IndInv, NEW o \in Objects, NEW y, Become(o, y), Shape(y), LocallyWanted(y),
         InUse(y) => started /\ ~disposed,
         health' \in [Sources -> Status \union {"none"}],
         (y.listed = hosted[o].listed /\ Tells) \/ Registered',
         started' = started, disposed' = disposed, online' = online
  PROVE  IndInv'
<1>1. \A p \in Objects : hosted'[p] = IF p = o THEN y ELSE hosted[p]
  BY DEF IndInv, Become
<1>2. hosted' = [p \in Objects |-> hosted'[p]]
  BY DEF IndInv, Become
<1>3. \A p \in Objects : Shape(hosted'[p]) /\ LocallyWanted(hosted'[p])
  BY <1>1 DEF IndInv
<1>4. HostIsUp'
  BY <1>1 DEF IndInv, HostIsUp
<1>5. Registered'
  BY <1>1, RegisteredKeeps DEF IndInv
<1>. QED BY <1>2, <1>3, <1>4, <1>5 DEF IndInv

\* An object is taken out, and Source Health forgets its id.
LEMMA TakenOut ==
  ASSUME IndInv, NEW o \in Objects, NEW y, Become(o, y), y.listed = "gone",
         hosted[o].listed = "yes", health' = [health EXCEPT ![SourceOf[o]] = "none"]
  PROVE  Registered'
<1>1. \A p \in Objects : hosted'[p] = IF p = o THEN y ELSE hosted[p]
  BY DEF IndInv, Become
<1>2. \A s \in Sources : health'[s] = IF s = SourceOf[o] THEN "none" ELSE health[s]
  BY DEF IndInv
<1>. QED BY <1>1, <1>2, ConstantsAssumption DEF IndInv, Registered

\* Every object changes at once.
LEMMA AllChange ==
  ASSUME IndInv, hosted' = [o \in Objects |-> hosted'[o]],
         \A o \in Objects : Shape(hosted'[o]) /\ LocallyWanted(hosted'[o]),
         \A o \in Objects : InUse(hosted'[o]) => started' /\ ~disposed',
         \A o \in Objects : hosted'[o].listed = hosted[o].listed, Tells,
         started' \in BOOLEAN, disposed' \in BOOLEAN, online' \in BOOLEAN
  PROVE  IndInv'
BY RegisteredKeeps DEF IndInv, HostIsUp, Tells

LEMMA HealthStays ==
  ASSUME IndInv, health' = health
  PROVE  Tells
BY DEF IndInv, Tells

LEMMA UpdateHealthType ==
  ASSUME IndInv, NEW s \in Sources, NEW status \in Status, UpdateHealth(s, status)
  PROVE  Tells
BY DEF IndInv, UpdateHealth, Status, Tells

LEMMA PublishType ==
  ASSUME IndInv, NEW o \in Objects, NEW override \in Report, Publish(o, override)
  PROVE  Tells
<1>1. PICK status \in Statuses(o, hosted[o], override) : UpdateHealth(SourceOf[o], status)
  BY DEF Publish
<1>2. status \in Status
  BY <1>1 DEF Statuses, StopOverride, Status, Report
<1>. QED BY <1>1, <1>2, ConstantsAssumption, UpdateHealthType

-----------------------------------------------------------------------------
(* Calls from outside.                                                     *)

LEMMA StartIfWantedStands ==
  ASSUME NEW x, Shape(x), LocallyWanted(x), x.run < MaxRun,
         InUse(x) => started /\ ~disposed
  PROVE  /\ Shape(StartIfWanted(x)) /\ LocallyWanted(StartIfWanted(x))
         /\ InUse(StartIfWanted(x)) => started /\ ~disposed
         /\ StartIfWanted(x).listed = x.listed
<1>1. CASE x.enabled /\ started /\ CanStart(x)
  BY <1>1, BeginStartShape DEF StartIfWanted, CanStart, LocallyWanted
<1>2. CASE ~(x.enabled /\ started /\ CanStart(x))
  BY <1>2 DEF StartIfWanted
<1>. QED BY <1>1, <1>2

LEMMA RegisterSafe ==
  ASSUME IndInv, NEW o \in Objects, NEW enabled \in BOOLEAN, Register(o, enabled)
  PROVE  IndInv'
<1> DEFINE x == hosted[o]
           y == [x EXCEPT !.listed = "yes", !.enabled = enabled]
<1>1. /\ Shape(x) /\ LocallyWanted(x) /\ ~InUse(x) /\ x.run < MaxRun
      /\ x.listed = "no" /\ x.listener = 0 /\ ~x.leaving
  BY DEF IndInv, Register, LocallyWanted
<1>2. IsRecord(y)
  BY <1>1, Zenon DEF Shape, IsRecord
<1>3. /\ RestTyped(y) /\ Timed(y) /\ y.running = x.running /\ y.starting = x.starting
      /\ y.run = x.run /\ y.attempt = x.attempt /\ y.stops = x.stops
      /\ y.leaving = x.leaving /\ y.startSub = x.startSub /\ y.removed = x.removed
      /\ y.initialized = x.initialized /\ y.listed = "yes" /\ y.enabled = enabled
      /\ y.listener = x.listener
  BY <1>1 DEF Shape, IsRecord, FieldNames, RestTyped, Timed
<1>4. Become(o, StartIfWanted(y))
  BY DEF Register
<1>. HIDE DEF y
<1>5. LifeTyped(y) /\ Sound(y) /\ LocallyWanted(y)
  BY <1>1, <1>3 DEF Shape, LifeTyped, Sound, InFlight, PreviousOver, LocallyWanted, InUse
<1>6. /\ Shape(StartIfWanted(y)) /\ LocallyWanted(StartIfWanted(y))
      /\ InUse(StartIfWanted(y)) => started /\ ~disposed
      /\ StartIfWanted(y).listed = "yes"
  BY <1>1, <1>2, <1>3, <1>5, StartIfWantedStands DEF Shape, InUse
<1>7. health' \in [Sources -> Status \union {"none"}]
  BY ConstantsAssumption DEF IndInv, Register, Status
<1>8. Registered'
  <2>1. \A p \in Objects : hosted'[p] = IF p = o THEN StartIfWanted(y) ELSE hosted[p]
    BY <1>4 DEF IndInv, Become
  <2>2. \A s \in Sources : (health'[s] = "none") <=> s # SourceOf[o] /\ health[s] = "none"
    BY DEF IndInv, Register
  <2>3. \A p \in Objects : SourceOf[p] = SourceOf[o] => hosted[p].listed # "yes"
    BY DEF Register
  <2>. QED BY <1>6, <2>1, <2>2, <2>3, ConstantsAssumption DEF IndInv, Registered
<1>. QED BY <1>4, <1>6, <1>7, <1>8, BecomeStands DEF Register, HostUnchanged

LEMMA UnregisterSafe ==
  ASSUME IndInv, NEW o \in Objects, Unregister(o)
  PROVE  IndInv'
<1> DEFINE x == hosted[o]
           y == [x EXCEPT !.enabled = FALSE, !.removed = TRUE]
           z == StopNow(y)
<1>1. Shape(x) /\ x.run < MaxRun /\ x.listed = "yes"
  BY DEF IndInv, Unregister
<1>2. IsRecord(y)
  BY <1>1, Zenon DEF Shape, IsRecord
<1>3. /\ RestTyped(y) /\ Timed(y) /\ y.running = x.running /\ y.starting = x.starting
      /\ y.run = x.run /\ y.attempt = x.attempt /\ y.stops = x.stops
      /\ y.leaving = x.leaving /\ y.startSub = x.startSub /\ y.removed = TRUE
      /\ y.initialized = x.initialized /\ y.listed = x.listed /\ y.enabled = FALSE
      /\ y.listener = x.listener
  BY <1>1 DEF Shape, IsRecord, FieldNames, RestTyped, Timed
<1>4. \/ Become(o, [z EXCEPT !.leaving = TRUE]) /\ y.running /\ UNCHANGED health
      \/ /\ Become(o, Forget(z)) /\ ~y.running
         /\ health' = [health EXCEPT ![SourceOf[o]] = "none"]
  BY DEF Unregister
<1>. HIDE DEF y
<1>5. LifeTyped(y) /\ Sound(y)
  <2>1. LifeTyped(y)
    BY <1>1, <1>3 DEF Shape, LifeTyped
  <2>2. y.leaving => y.stops > 0 /\ y.removed
    BY <1>1, <1>3 DEF Shape, Sound
  <2>. QED BY <1>1, <1>3, <2>1, <2>2, SoundLike DEF Shape
<1>6. /\ Shape(z) /\ ~z.running /\ ~z.starting /\ z.removed /\ (y.running => z.stops > 0)
      /\ ~InUse(z) /\ z.listed = "yes" /\ (~y.running => z.listener = 0)
  BY <1>1, <1>2, <1>3, <1>5, StopNowShape DEF Shape
<1>. HIDE DEF z
<1>7. CASE Become(o, [z EXCEPT !.leaving = TRUE]) /\ y.running /\ UNCHANGED health
  <2> DEFINE w == [z EXCEPT !.leaving = TRUE]
  <2>1. IsRecord(w)
    BY <1>6, Zenon DEF Shape, IsRecord
  <2>2. /\ RestTyped(w) /\ Timed(w) /\ w.running = z.running /\ w.starting = z.starting
        /\ w.run = z.run /\ w.attempt = z.attempt /\ w.stops = z.stops
        /\ w.leaving = TRUE /\ w.startSub = z.startSub /\ w.removed = z.removed
        /\ w.initialized = z.initialized /\ w.listed = z.listed /\ w.enabled = z.enabled
        /\ w.listener = z.listener
    BY <1>6 DEF Shape, IsRecord, FieldNames, RestTyped, Timed
  <2>. HIDE DEF w
  <2>3. LifeTyped(w) /\ Sound(w) /\ LocallyWanted(w) /\ ~InUse(w)
    <3>1. LifeTyped(w)
      BY <1>6, <2>2 DEF Shape, LifeTyped
    <3>. QED BY <1>6, <1>7, <2>2, <3>1, SoundLike DEF Shape, LocallyWanted, InUse
  <2>4. Become(o, w) /\ Tells
    BY <1>7, HealthStays DEF w
  <2>. QED BY <1>1, <1>6, <2>1, <2>2, <2>3, <2>4, BecomeStands
           DEF Shape, Tells, Unregister, HostUnchanged
<1>8. CASE /\ Become(o, Forget(z)) /\ ~y.running
           /\ health' = [health EXCEPT ![SourceOf[o]] = "none"]
  <2>1. /\ Shape(Forget(z)) /\ LocallyWanted(Forget(z)) /\ ~InUse(Forget(z))
        /\ Forget(z).listed = "gone"
    BY <1>6, <1>8, ForgetShape DEF LocallyWanted, InUse
  <2>2. health' \in [Sources -> Status \union {"none"}]
    BY <1>8, ConstantsAssumption DEF IndInv
  <2>3. Registered'
    BY <1>1, <1>8, <2>1, TakenOut
  <2>. QED BY <1>8, <2>1, <2>2, <2>3, BecomeStands DEF Unregister, HostUnchanged
<1>. QED BY <1>4, <1>7, <1>8

LEMMA SetEnabledSafe ==
  ASSUME IndInv, NEW o \in Objects, NEW enabled \in BOOLEAN, SetEnabled(o, enabled)
  PROVE  IndInv'
<1> DEFINE x == hosted[o]
           y == [x EXCEPT !.enabled = enabled]
<1>1. /\ Shape(x) /\ LocallyWanted(x) /\ x.run < MaxRun /\ x.enabled # enabled
      /\ x.listed = "yes"
  BY DEF IndInv, SetEnabled
<1>2. IsRecord(y)
  BY <1>1, Zenon DEF Shape, IsRecord
<1>3. /\ RestTyped(y) /\ Timed(y) /\ y.running = x.running /\ y.starting = x.starting
      /\ y.run = x.run /\ y.attempt = x.attempt /\ y.stops = x.stops
      /\ y.leaving = x.leaving /\ y.startSub = x.startSub /\ y.removed = x.removed
      /\ y.initialized = x.initialized /\ y.listed = x.listed /\ y.enabled = enabled
      /\ y.listener = x.listener
  BY <1>1 DEF Shape, IsRecord, FieldNames, RestTyped, Timed
<1>4. Become(o, IF enabled THEN StartIfWanted(y) ELSE StopNow(y))
  BY DEF SetEnabled
<1>. HIDE DEF y
<1>5. LifeTyped(y) /\ Sound(y)
  <2>1. LifeTyped(y)
    BY <1>1, <1>3 DEF Shape, LifeTyped
  <2>2. y.leaving => y.stops > 0 /\ y.removed
    BY <1>1, <1>3 DEF Shape, Sound
  <2>. QED BY <1>1, <1>3, <2>1, <2>2, SoundLike DEF Shape
<1>6. Shape(y)
  BY <1>1, <1>2, <1>3, <1>5 DEF Shape
<1>7. Tells
  BY ConstantsAssumption DEF IndInv, SetEnabled, UpdateHealth, Status, Tells
<1>8. CASE enabled
  <2>1. ~InUse(y)
    BY <1>1, <1>3, <1>8 DEF LocallyWanted, Shape, LifeTyped, InUse
  <2>2. /\ Shape(StartIfWanted(y)) /\ LocallyWanted(StartIfWanted(y))
        /\ InUse(StartIfWanted(y)) => started /\ ~disposed
        /\ StartIfWanted(y).listed = x.listed
    BY <1>1, <1>3, <1>6, <2>1, StartIfWantedStands DEF LocallyWanted
  <2>. QED BY <1>4, <1>7, <1>8, <2>2, BecomeStands DEF SetEnabled, HostUnchanged, Tells
<1>9. CASE ~enabled
  <2>1. /\ Shape(StopNow(y)) /\ ~InUse(StopNow(y)) /\ StopNow(y).listed = x.listed
        /\ LocallyWanted(StopNow(y))
    BY <1>1, <1>3, <1>6, StopNowShape DEF LocallyWanted
  <2>. QED BY <1>4, <1>7, <1>9, <2>1, BecomeStands
           DEF SetEnabled, HostUnchanged, Tells
<1>. QED BY <1>8, <1>9

LEMMA StartSafe ==
  ASSUME IndInv, Start
  PROVE  IndInv'
<1>1. hosted' = [o \in Objects |-> hosted'[o]]
  BY DEF Start
<1>2. ASSUME NEW o \in Objects
      PROVE  /\ Shape(hosted'[o]) /\ LocallyWanted(hosted'[o])
             /\ InUse(hosted'[o]) => started' /\ ~disposed'
             /\ hosted'[o].listed = hosted[o].listed
  <2>1. Shape(hosted[o]) /\ LocallyWanted(hosted[o])
    BY DEF IndInv
  <2>2. InUse(hosted[o]) => started' /\ ~disposed'
    BY DEF IndInv, HostIsUp, Start
  <2>3. CASE hosted[o].enabled /\ CanStart(hosted[o])
    <3>1. hosted[o].run < MaxRun /\ ~disposed /\ started' /\ disposed' = disposed
      BY <2>3 DEF Start, CanStart, Listed
    <3>2. hosted'[o] = BeginStart(hosted[o])
      BY <2>3 DEF Start
    <3>. QED BY <2>1, <2>3, <3>1, <3>2, BeginStartShape DEF CanStart, LocallyWanted
  <2>4. CASE ~(hosted[o].enabled /\ CanStart(hosted[o]))
    <3>1. hosted'[o] = hosted[o]
      BY <2>4 DEF Start
    <3>. QED BY <2>1, <2>2, <3>1
  <2>. QED BY <2>3, <2>4
<1>3. Tells /\ started' \in BOOLEAN /\ disposed' \in BOOLEAN /\ online' \in BOOLEAN
  BY HealthStays DEF IndInv, Start
<1>. QED BY <1>1, <1>2, <1>3, AllChange

LEMMA StopAllSafe ==
  ASSUME IndInv, StopAll, disposed' \in BOOLEAN
  PROVE  IndInv'
<1>1. hosted' = [o \in Objects |-> hosted'[o]]
  BY DEF StopAll
<1>2. ASSUME NEW o \in Objects
      PROVE  /\ Shape(hosted'[o]) /\ LocallyWanted(hosted'[o])
             /\ InUse(hosted'[o]) => started' /\ ~disposed'
             /\ hosted'[o].listed = hosted[o].listed
  <2>1. Shape(hosted[o]) /\ LocallyWanted(hosted[o])
    BY DEF IndInv
  <2>2. CASE o \in Listed
    <3>1. hosted[o].run < MaxRun /\ hosted'[o] = StopNow(hosted[o])
      BY <2>2 DEF StopAll
    <3>. QED BY <2>1, <3>1, StopNowShape DEF LocallyWanted
  <2>3. CASE o \notin Listed
    <3>1. hosted'[o] = hosted[o] /\ hosted[o].listed # "yes"
      BY <2>3 DEF StopAll, Listed
    <3>. QED BY <2>1, <3>1 DEF LocallyWanted
  <2>. QED BY <2>2, <2>3
<1>3. Tells /\ started' \in BOOLEAN /\ online' \in BOOLEAN
  BY HealthStays DEF IndInv, StopAll
<1>. QED BY <1>1, <1>2, <1>3, AllChange

\* The steps that schedule or cancel for many objects at once.
LEMMA AllKeep ==
  ASSUME IndInv, hosted' = [o \in Objects |-> hosted'[o]],
         \A o \in Objects : Keeps(hosted[o], hosted'[o]),
         Tells,
         started' = started, disposed' = disposed, online' \in BOOLEAN
  PROVE  IndInv'
<1>1. ASSUME NEW o \in Objects
      PROVE  /\ Shape(hosted'[o]) /\ LocallyWanted(hosted'[o])
             /\ InUse(hosted'[o]) => started' /\ ~disposed'
             /\ hosted'[o].listed = hosted[o].listed
  BY KeepsStanding, KeepsShape DEF IndInv, HostIsUp, SameStanding
<1>2. started' \in BOOLEAN /\ disposed' \in BOOLEAN
  BY DEF IndInv
<1>. QED BY <1>1, <1>2, AllChange

LEMMA SetOnlineSafe ==
  ASSUME IndInv, NEW up \in BOOLEAN, SetOnline(up)
  PROVE  IndInv'
<1>1. hosted' = [o \in Objects |-> hosted'[o]]
  BY DEF SetOnline
<1>2. ASSUME NEW o \in Objects
      PROVE  Keeps(hosted[o], hosted'[o])
  <2>1. Shape(hosted[o])
    BY DEF IndInv
  <2>2. hosted'[o] \in {Schedule(hosted[o]), CancelPoll(hosted[o]), hosted[o]}
    BY DEF SetOnline
  <2>. QED BY <2>1, <2>2, ScheduleKeeps, CancelPollKeeps, KeepsSelf
<1>3. Tells
  BY DEF IndInv, SetOnline, Status, Tells
<1>. QED BY <1>1, <1>2, <1>3, AllKeep DEF SetOnline

LEMMA SetViewportSafe ==
  ASSUME IndInv, SetViewport \/ SetPollScale
  PROVE  IndInv'
<1>1. hosted' = [o \in Objects |-> hosted'[o]]
  BY DEF SetViewport, SetPollScale
<1>2. ASSUME NEW o \in Objects
      PROVE  Keeps(hosted[o], hosted'[o])
  <2>1. Shape(hosted[o])
    BY DEF IndInv
  <2>2. hosted'[o] \in {Schedule(hosted[o]), hosted[o]}
    BY DEF SetViewport, SetPollScale
  <2>. QED BY <2>1, <2>2, ScheduleKeeps, KeepsSelf
<1>3. Tells
  BY HealthStays DEF SetViewport, SetPollScale
<1>. QED BY <1>1, <1>2, <1>3, AllKeep DEF SetViewport, SetPollScale, IndInv

\* One object changes in nothing that starts and stops are made of.
LEMMA BecomeKept ==
  ASSUME IndInv, NEW o \in Objects, NEW y, Become(o, y), Keeps(hosted[o], y),
         Tells,
         started' = started, disposed' = disposed, online' = online
  PROVE  IndInv'
<1>1. Shape(hosted[o])
  BY DEF IndInv
<1>2. Shape(y) /\ SameStanding(hosted[o], y)
  BY <1>1, KeepsStanding
<1>. QED BY <1>2, BecomeKeeps DEF IndInv

LEMMA SettingsChangeSafe ==
  ASSUME IndInv, NEW o \in Objects, SettingsChange(o)
  PROVE  IndInv'
<1> DEFINE x == hosted[o]
           y == [x EXCEPT !.settingsChangedInPoll = TRUE]
<1>1. Shape(x)
  BY DEF IndInv
<1>2. IsRecord(y)
  BY <1>1, Zenon DEF Shape, IsRecord
<1>3. RestTyped(y) /\ Timed(y) /\ SameLife(x, y)
  BY <1>1 DEF Shape, IsRecord, FieldNames, RestTyped, Timed, SameLife
<1>4. Keeps(x, y) /\ Keeps(x, Schedule(x))
  BY <1>1, <1>2, <1>3, ScheduleKeeps DEF Keeps
<1>5. Become(o, y) \/ Become(o, Schedule(x))
  BY DEF SettingsChange
<1>. QED BY <1>4, <1>5, BecomeKept, HealthStays DEF SettingsChange, IndInv

LEMMA CredentialChangeSafe ==
  ASSUME IndInv, NEW o \in Objects, CredentialChange(o)
  PROVE  IndInv'
<1> DEFINE x == hosted[o]
           y == [x EXCEPT !.waitingForKey = FALSE]
           z == Schedule(y)
           w == [z EXCEPT !.healthSoon = @ \/ ~disposed]
<1>1. Shape(x)
  BY DEF IndInv
<1>2. IsRecord(y)
  BY <1>1, Zenon DEF Shape, IsRecord
<1>3. RestTyped(y) /\ Timed(y) /\ SameLife(x, y)
  BY <1>1 DEF Shape, IsRecord, FieldNames, RestTyped, Timed, SameLife
<1>4. Become(o, z) \/ Become(o, w)
  BY Zenon DEF CredentialChange
<1>5. Keeps(x, y)
  BY <1>2, <1>3 DEF Keeps
<1>6. Keeps(x, z) /\ Shape(z)
  BY <1>1, <1>5, ScheduleKeeps, KeepsShape, KeepsTrans
<1>. HIDE DEF z
<1>7. IsRecord(w)
  BY <1>6, Zenon DEF Shape, IsRecord
<1>8. RestTyped(w) /\ Timed(w) /\ SameLife(z, w)
  BY <1>6 DEF Shape, IsRecord, FieldNames, RestTyped, Timed, SameLife, IndInv
<1>9. Keeps(x, w)
  BY <1>6, <1>7, <1>8, KeepsTrans DEF Keeps
<1>. QED BY <1>4, <1>6, <1>9, BecomeKept, HealthStays DEF CredentialChange, IndInv

LEMMA PollNowSafe ==
  ASSUME IndInv, NEW o \in Objects, PollNow(o)
  PROVE  IndInv'
BY PollKeeps, BecomeKept, HealthStays DEF PollNow, IndInv

-----------------------------------------------------------------------------
(* A start attempt and a stop.                                             *)

\* Freeing what a listener held, the session or the flag of initialisation touches no attempt.
LEMMA ListenerClosedKeeps ==
  ASSUME NEW x, Shape(x)
  PROVE  Keeps(x, [x EXCEPT !.listener = 0])
<1> DEFINE y == [x EXCEPT !.listener = 0]
<1>1. IsRecord(y)
  BY Zenon DEF Shape, IsRecord
<1>2. RestTyped(y) /\ Timed(y) /\ SameLife(x, y)
  BY ConstantsAssumption DEF Shape, IsRecord, FieldNames, RestTyped, Timed, SameLife
<1>. QED BY <1>1, <1>2 DEF Keeps

LEMMA AttemptProceedsSafe ==
  ASSUME IndInv, NEW o \in Objects, NEW r \in Runs, AttemptProceeds(o, r)
  PROVE  IndInv'
<1> DEFINE x == hosted[o]
           stage == IF x.initialized THEN "starting" ELSE "initializing"
<1>1. Shape(x) /\ x.attempt[r] = "waiting" /\ PreviousOver(x, r) /\ InFlight(x, r)
  BY DEF IndInv, AttemptProceeds, InFlight
<1>2. stage \in {"starting", "initializing"}
  OBVIOUS
<1>3. Become(o, EndAttempt(x, r)) \/ Become(o, At(x, r, stage))
  BY Zenon DEF AttemptProceeds
<1>. HIDE DEF stage
<1>4. Shape(EndAttempt(x, r)) /\ SameStanding(x, EndAttempt(x, r))
  BY <1>1, EndAttemptShape DEF SameButAttempt, SameStanding, InUse
<1>5. Shape(At(x, r, stage)) /\ SameStanding(x, At(x, r, stage))
  BY <1>1, <1>2, AtShape DEF AttemptStage, SameButAttempt, SameStanding, InUse
<1>. QED BY <1>3, <1>4, <1>5, BecomeKeeps, HealthStays DEF AttemptProceeds, IndInv

LEMMA InitializeAnswersSafe ==
  ASSUME IndInv, NEW o \in Objects, NEW r \in Runs, InitializeAnswers(o, r)
  PROVE  IndInv'
<1> DEFINE x == hosted[o]
           y == [x EXCEPT !.initialized = TRUE]
           z == [y EXCEPT !.listener = 0]
<1>1. Shape(x)
  BY DEF IndInv
<1>2. IsRecord(y)
  BY <1>1, Zenon DEF Shape, IsRecord
<1>3. /\ RestTyped(y) /\ Timed(y) /\ y.running = x.running /\ y.starting = x.starting
      /\ y.run = x.run /\ y.attempt = x.attempt /\ y.stops = x.stops
      /\ y.leaving = x.leaving /\ y.startSub = x.startSub /\ y.removed = x.removed
      /\ y.initialized = TRUE /\ y.listed = x.listed /\ y.enabled = x.enabled
      /\ y.listener = x.listener
  BY <1>1 DEF Shape, IsRecord, FieldNames, RestTyped, Timed
<1>4. Become(o, EndAttempt(z, r)) \/ Become(o, At(y, r, "starting"))
  BY Zenon DEF InitializeAnswers
<1>5. y.attempt[r] = "initializing"
  BY DEF InitializeAnswers
<1>. HIDE DEF y
<1>6. LifeTyped(y)
  BY <1>1, <1>3 DEF Shape, LifeTyped
<1>7. Sound(y)
  BY <1>1, <1>3, SoundLike DEF Shape, Sound
<1>8. Shape(y) /\ SameStanding(x, y)
  BY <1>2, <1>3, <1>6, <1>7 DEF Shape, SameStanding, InUse
<1>9. InFlight(y, r) /\ PreviousOver(y, r)
  BY <1>5, <1>7 DEF InFlight, Sound, Calling
<1>10. Shape(At(y, r, "starting")) /\ SameStanding(x, At(y, r, "starting"))
  BY <1>5, <1>8, <1>9, AtShape DEF AttemptStage, SameButAttempt, SameStanding, InUse
<1>11. Keeps(y, z)
  BY <1>8, ListenerClosedKeeps
<1>. HIDE DEF z
<1>12. Shape(z) /\ SameStanding(x, z) /\ InFlight(z, r) /\ z.attempt[r] = "initializing"
  BY <1>5, <1>8, <1>11, KeepsShape DEF Keeps, SameLife, SameStanding, InFlight, InUse
<1>13. Shape(EndAttempt(z, r)) /\ SameStanding(x, EndAttempt(z, r))
  BY <1>12, EndAttemptShape DEF SameButAttempt, SameStanding, InUse
<1>. QED BY <1>4, <1>10, <1>13, BecomeKeeps, HealthStays DEF InitializeAnswers, IndInv

LEMMA StartFailsSafe ==
  ASSUME IndInv, NEW o \in Objects, NEW r \in Runs, StartFails(o, r)
  PROVE  IndInv'
<1> DEFINE x == hosted[o]
           z == [x EXCEPT !.listener = 0]
<1>1. Shape(x) /\ x.attempt[r] \in {"initializing", "starting"} /\ InFlight(x, r)
  BY DEF IndInv, StartFails, InFlight
<1>2. Become(o, EndAttempt(z, r)) \/ Become(o, At(x, r, "failing"))
  BY Zenon DEF StartFails
<1>3. Shape(At(x, r, "failing")) /\ SameStanding(x, At(x, r, "failing"))
  BY <1>1, AtShape DEF AttemptStage, Calling, SameButAttempt, SameStanding, InUse
<1>4. Keeps(x, z)
  BY <1>1, ListenerClosedKeeps
<1>. HIDE DEF z
<1>5. /\ Shape(z) /\ SameStanding(x, z) /\ InFlight(z, r)
      /\ z.attempt[r] \in {"initializing", "starting"}
  BY <1>1, <1>4, KeepsShape DEF Keeps, SameLife, SameStanding, InFlight, InUse
<1>6. Shape(EndAttempt(z, r)) /\ SameStanding(x, EndAttempt(z, r))
  BY <1>5, EndAttemptShape DEF SameButAttempt, SameStanding, InUse
<1>. QED BY <1>2, <1>3, <1>6, BecomeKeeps, HealthStays DEF StartFails, IndInv

LEMMA UndoneSafe ==
  ASSUME IndInv, NEW o \in Objects, NEW r \in Runs, Undone(o, r)
  PROVE  IndInv'
<1> DEFINE x == hosted[o]
           z == [x EXCEPT !.listener = 0]
<1>1. Shape(x) /\ x.attempt[r] = "undoing" /\ InFlight(x, r)
  BY DEF IndInv, Undone, InFlight
<1>2. Become(o, EndAttempt(z, r))
  BY Zenon DEF Undone
<1>3. Keeps(x, z)
  BY <1>1, ListenerClosedKeeps
<1>. HIDE DEF z
<1>4. Shape(z) /\ SameStanding(x, z) /\ InFlight(z, r) /\ z.attempt[r] = "undoing"
  BY <1>1, <1>3, KeepsShape DEF Keeps, SameLife, SameStanding, InFlight, InUse
<1>5. Shape(EndAttempt(z, r)) /\ SameStanding(x, EndAttempt(z, r))
  BY <1>4, EndAttemptShape DEF SameButAttempt, SameStanding, InUse
<1>. QED BY <1>2, <1>5, BecomeKeeps, HealthStays DEF Undone, IndInv

LEMMA AttemptPublishesSafe ==
  ASSUME IndInv, NEW o \in Objects, NEW r \in Runs, AttemptPublishes(o, r)
  PROVE  IndInv'
<1> DEFINE x == hosted[o]
           z == RefreshOverlays(o, x)
<1>1. /\ Shape(x) /\ x.attempt[r] \in {"failing", "publishing"} /\ InFlight(x, r)
  BY DEF IndInv, AttemptPublishes, InFlight
<1>2. Become(o, EndAttempt(x, r)) \/ Become(o, EndAttempt(z, r))
  BY Zenon DEF AttemptPublishes
<1>3. Keeps(x, z)
  BY <1>1, RefreshOverlaysKeeps
<1>. HIDE DEF z
<1>4. /\ Shape(z) /\ SameStanding(x, z) /\ InFlight(z, r)
      /\ z.attempt[r] \in {"failing", "publishing"}
  BY <1>1, <1>3, KeepsShape DEF Keeps, SameLife, SameStanding, InFlight, InUse
<1>5. /\ Shape(EndAttempt(x, r)) /\ SameStanding(x, EndAttempt(x, r))
      /\ Shape(EndAttempt(z, r)) /\ SameStanding(x, EndAttempt(z, r))
  BY <1>1, <1>4, EndAttemptShape DEF SameButAttempt, SameStanding, InUse
<1>6. Tells
  <2>1. CASE UpdateHealth(SourceOf[o], "ERROR")
    BY <2>1, ConstantsAssumption, UpdateHealthType DEF Status
  <2>2. CASE Publish(o, "own")
    BY <2>2, PublishType DEF Report
  <2>. QED BY <2>1, <2>2 DEF AttemptPublishes
<1>. QED BY <1>2, <1>5, <1>6, BecomeKeeps, HealthStays DEF AttemptPublishes, HostUnchanged, IndInv

\* start() answered: the source runs, and waits for nobody.
LEMMA RunsNow ==
  ASSUME NEW x, Shape(x)
  PROVE  LET y == [x EXCEPT !.running = TRUE, !.waitingForKey = FALSE,
                            !.waitingForSetup = FALSE] IN
         /\ Shape(y) /\ y.running = TRUE /\ y.starting = x.starting
         /\ y.run = x.run /\ y.attempt = x.attempt /\ y.stops = x.stops
         /\ y.leaving = x.leaving /\ y.startSub = x.startSub /\ y.removed = x.removed
         /\ y.initialized = x.initialized /\ y.listed = x.listed /\ y.enabled = x.enabled
         /\ y.subs = x.subs /\ y.sub = x.sub /\ y.listener = x.listener
         /\ y.polling = x.polling /\ y.timer = x.timer /\ y.retryTimers = x.retryTimers
<1> DEFINE y == [x EXCEPT !.running = TRUE, !.waitingForKey = FALSE,
                          !.waitingForSetup = FALSE]
<1>1. IsRecord(y)
  BY Zenon DEF Shape, IsRecord
<1>2. /\ RestTyped(y) /\ Timed(y) /\ y.running = TRUE /\ y.starting = x.starting
      /\ y.run = x.run /\ y.attempt = x.attempt /\ y.stops = x.stops
      /\ y.leaving = x.leaving /\ y.startSub = x.startSub /\ y.removed = x.removed
      /\ y.initialized = x.initialized /\ y.listed = x.listed /\ y.enabled = x.enabled
      /\ y.subs = x.subs /\ y.sub = x.sub /\ y.listener = x.listener
      /\ y.polling = x.polling /\ y.timer = x.timer /\ y.retryTimers = x.retryTimers
  BY DEF Shape, IsRecord, FieldNames, RestTyped, Timed
<1>. HIDE DEF y
<1>3. LifeTyped(y)
  BY <1>2 DEF Shape, LifeTyped
<1>4. Sound(y)
  BY <1>2, SoundLike DEF Shape, Sound
<1>5. Shape(y)
  BY <1>1, <1>2, <1>3, <1>4 DEF Shape
<1>. QED BY <1>2, <1>5 DEF y

\* The one step that lets a source run: the attempt is not overtaken, so it is the one the
\* object is starting, and the host is up.
LEMMA StartAnswersSafe ==
  ASSUME IndInv, NEW o \in Objects, NEW r \in Runs, StartAnswers(o, r)
  PROVE  IndInv'
<1> DEFINE x == hosted[o]
           y == [x EXCEPT !.running = TRUE, !.waitingForKey = FALSE,
                          !.waitingForSetup = FALSE]
           u == At(x, r, "undoing")
           v == [u EXCEPT !.session = 0]
           w == OpenSubscription(y)
           a == At(w, r, "subscribing")
           z == [a EXCEPT !.startSub = x.subs + 1]
<1>1. /\ Shape(x) /\ LocallyWanted(x) /\ x.attempt[r] = "starting" /\ InFlight(x, r)
      /\ PreviousOver(x, r) /\ (o \in Streamed => x.subs < MaxSubs)
  BY DEF IndInv, StartAnswers, InFlight, Shape, Sound, Calling
<1>2. Tells /\ started' = started /\ disposed' = disposed /\ online' = online
  BY HealthStays DEF StartAnswers
<1>3. Become(o, IF Overtaken(x, r) THEN v
                ELSE IF o \in Streamed THEN z ELSE AfterSubscribe(o, y, r))
  BY Zenon DEF StartAnswers
<1>4. CASE Overtaken(x, r)
  <2>1. Shape(u) /\ SameStanding(x, u)
    BY <1>1, AtShape DEF AttemptStage, SameButAttempt, SameStanding, InUse
  <2>2. Become(o, v)
    BY <1>3, <1>4
  <2>. HIDE DEF u
  <2>3. IsRecord(v)
    BY <2>1, Zenon DEF Shape, IsRecord
  <2>4. RestTyped(v) /\ Timed(v) /\ SameLife(u, v)
    BY <2>1, ConstantsAssumption
    DEF Shape, IsRecord, FieldNames, RestTyped, Timed, SameLife
  <2>5. Shape(v) /\ SameStanding(x, v)
    BY <2>1, <2>3, <2>4, KeepsStanding, StandingTrans DEF Keeps
  <2>. QED BY <1>2, <2>2, <2>5, BecomeKeeps, HealthStays DEF IndInv
<1>5. CASE ~Overtaken(x, r)
  <2>1. x.starting /\ started /\ ~disposed
    BY <1>1, <1>5 DEF Overtaken, Shape, Sound, IndInv, HostIsUp, InUse
  <2>2. x.enabled /\ ~x.removed /\ x.listed = "yes"
    BY <1>1, <2>1 DEF LocallyWanted, InUse
  <2>3. /\ Shape(y) /\ y.starting = x.starting /\ y.attempt = x.attempt /\ y.run = x.run
        /\ y.removed = x.removed /\ y.listed = x.listed /\ y.enabled = x.enabled
        /\ y.subs = x.subs
    BY <1>1, RunsNow
  <2>. HIDE DEF y
  <2>4. Shape(y) /\ InFlight(y, r) /\ PreviousOver(y, r) /\ y.attempt[r] = "starting"
    BY <1>1, <2>3 DEF InFlight, PreviousOver
  <2>5. CASE o \in Streamed
    <3>1. Keeps(y, w)
      BY <1>1, <2>3, <2>4, <2>5, OpenSubscriptionKeeps
    <3>. HIDE DEF w
    <3>2. /\ Shape(w) /\ SameStanding(y, w) /\ InFlight(w, r) /\ PreviousOver(w, r)
          /\ w.attempt[r] = "starting"
      BY <2>4, <3>1, KeepsStanding DEF Keeps, SameLife, InFlight, PreviousOver
    <3>3. /\ Shape(a) /\ SameButAttempt(w, a) /\ a.starting = w.starting
          /\ a.attempt[r] = "subscribing"
      BY <3>2, AtShape DEF AttemptStage
    <3>4. SameStanding(y, a)
      BY <3>2, <3>3 DEF SameButAttempt, SameStanding, InUse
    <3>. HIDE DEF a
    <3>5. IsRecord(z)
      BY <3>3, Zenon DEF Shape, IsRecord
    <3>6. /\ RestTyped(z) /\ Timed(z) /\ z.running = a.running /\ z.starting = a.starting
          /\ z.run = a.run /\ z.attempt = a.attempt /\ z.stops = a.stops
          /\ z.leaving = a.leaving /\ z.startSub = x.subs + 1 /\ z.removed = a.removed
          /\ z.initialized = a.initialized /\ z.listed = a.listed /\ z.enabled = a.enabled
          /\ z.listener = a.listener
      BY <3>3 DEF Shape, IsRecord, FieldNames, RestTyped, Timed
    <3>. HIDE DEF z
    <3>7. x.subs + 1 \in 0..MaxSubs
      BY <1>1, <2>5, ConstantsAssumption DEF Shape, RestTyped
    <3>8. LifeTyped(z)
      BY <3>3, <3>6, <3>7 DEF Shape, LifeTyped
    <3>9. Sound(z)
      BY <3>3, <3>6 DEF Shape, Sound, InFlight, PreviousOver
    <3>10. Shape(z) /\ SameStanding(y, z)
      BY <3>4, <3>5, <3>6, <3>8, <3>9 DEF Shape, SameStanding, InUse
    <3>11. LocallyWanted(z) /\ z.listed = x.listed
      BY <2>2, <2>3, <3>10 DEF LocallyWanted, SameStanding
    <3>12. Become(o, z)
      BY <1>3, <1>5, <2>5
    <3>. QED BY <1>2, <2>1, <3>10, <3>11, <3>12, BecomeStands DEF Tells
  <2>6. CASE o \notin Streamed
    <3>1. /\ Shape(AfterSubscribe(o, y, r)) /\ SameStanding(y, AfterSubscribe(o, y, r))
      BY <2>4, AfterSubscribeShape
    <3>2. LocallyWanted(AfterSubscribe(o, y, r)) /\ AfterSubscribe(o, y, r).listed = x.listed
      BY <2>2, <2>3, <3>1 DEF LocallyWanted, SameStanding
    <3>3. Become(o, AfterSubscribe(o, y, r))
      BY <1>3, <1>5, <2>6
    <3>. QED BY <1>2, <2>1, <3>1, <3>2, <3>3, BecomeStands DEF Tells
  <2>. QED BY <2>5, <2>6
<1>. QED BY <1>4, <1>5

\* What the answer of provider.stop() takes off the count.
LEMMA StopCounted ==
  ASSUME NEW x, Shape(x), x.stops > 0, x.leaving => x.stops > 1
  PROVE  LET y == [x EXCEPT !.stops = @ - 1]
         IN  /\ Shape(y) /\ y.running = x.running /\ y.starting = x.starting
             /\ y.leaving = x.leaving /\ y.removed = x.removed
             /\ y.listed = x.listed /\ y.enabled = x.enabled
<1> DEFINE y == [x EXCEPT !.stops = @ - 1]
<1>1. IsRecord(y)
  BY Zenon DEF Shape, IsRecord
<1>2. /\ RestTyped(y) /\ Timed(y) /\ y.running = x.running /\ y.starting = x.starting
      /\ y.run = x.run /\ y.attempt = x.attempt /\ y.stops = x.stops - 1
      /\ y.leaving = x.leaving /\ y.startSub = x.startSub /\ y.removed = x.removed
      /\ y.initialized = x.initialized /\ y.listed = x.listed /\ y.enabled = x.enabled
  BY DEF Shape, IsRecord, FieldNames, RestTyped, Timed
<1>. HIDE DEF y
<1>3. x.stops - 1 \in 0..MaxRun /\ x.stops - 1 <= x.run /\ (x.leaving => x.stops - 1 > 0)
  BY ConstantsAssumption DEF Shape, LifeTyped, Sound
<1>4. LifeTyped(y)
  BY <1>2, <1>3 DEF Shape, LifeTyped
<1>5. Sound(y)
  BY <1>2, <1>3 DEF Shape, Sound, InFlight, PreviousOver
<1>. QED BY <1>1, <1>2, <1>4, <1>5 DEF Shape, y

LEMMA StopAnswersSafe ==
  ASSUME IndInv, NEW o \in Objects, StopAnswers(o)
  PROVE  IndInv'
<1> DEFINE x == hosted[o]
           y == [x EXCEPT !.stops = @ - 1]
           z == StopTail(y)
<1>1. Shape(x) /\ x.stops > 0 /\ (x.leaving => x.stops > 1) /\ Become(o, z)
  BY DEF IndInv, StopAnswers
<1>2. /\ Shape(y) /\ y.running = x.running /\ y.starting = x.starting
      /\ y.leaving = x.leaving /\ y.removed = x.removed
      /\ y.listed = x.listed /\ y.enabled = x.enabled
  BY <1>1, StopCounted
<1>. HIDE DEF y
<1>3. Shape(z) /\ Keeps(y, z) /\ z.listener = 0
  BY <1>2, StopTailKeeps, KeepsShape DEF Shape
<1>. HIDE DEF z
<1>4. SameStanding(x, z)
  BY <1>2, <1>3 DEF Keeps, SameLife, SameStanding, InUse
<1>. QED BY <1>1, <1>3, <1>4, BecomeKeeps, HealthStays DEF StopAnswers, IndInv

LEMMA UnregisterStopsSafe ==
  ASSUME IndInv, NEW o \in Objects, UnregisterStops(o)
  PROVE  IndInv'
<1> DEFINE x == hosted[o]
           y == [x EXCEPT !.stops = @ - 1]
           t == StopTail(y)
           z == Forget(t)
<1>1. /\ Shape(x) /\ x.leaving /\ x.stops > 0 /\ x.removed /\ x.listed = "yes"
      /\ Become(o, z)
  BY DEF IndInv, UnregisterStops, Shape, Sound, LocallyWanted
<1>2. ~x.running /\ ~x.starting
  BY <1>1 DEF IndInv, LocallyWanted, InUse
<1>3. IsRecord(y)
  BY <1>1, Zenon DEF Shape, IsRecord
<1>4. /\ RestTyped(y) /\ Timed(y) /\ y.running = x.running /\ y.starting = x.starting
      /\ y.run = x.run /\ y.attempt = x.attempt /\ y.stops = x.stops - 1
      /\ y.startSub = x.startSub /\ y.removed = x.removed
      /\ y.initialized = x.initialized /\ y.enabled = x.enabled
  BY <1>1 DEF Shape, IsRecord, FieldNames, RestTyped, Timed
<1>. HIDE DEF y
<1>5. Keeps(y, t) /\ t.listener = 0
  BY <1>3, <1>4, StopTailKeeps
<1>. HIDE DEF t
<1>6. IsRecord(z)
  BY <1>5, Zenon DEF Keeps, IsRecord, Forget
<1>7. /\ RestTyped(z) /\ Timed(z) /\ z.running = x.running /\ z.starting = x.starting
      /\ z.run = x.run /\ z.attempt = x.attempt /\ z.stops = x.stops - 1
      /\ z.leaving = FALSE /\ z.startSub = x.startSub /\ z.removed = x.removed
      /\ z.initialized = x.initialized /\ z.listed = "gone" /\ z.enabled = x.enabled
      /\ z.listener = 0
  BY <1>4, <1>5 DEF Keeps, SameLife, IsRecord, FieldNames, RestTyped, Timed, Forget
<1>. HIDE DEF z
<1>8. x.stops - 1 \in 0..MaxRun /\ x.stops - 1 <= x.run
  BY <1>1, ConstantsAssumption DEF Shape, LifeTyped, Sound
<1>9. LifeTyped(z)
  BY <1>1, <1>7, <1>8 DEF Shape, LifeTyped
<1>10. Sound(z)
  BY <1>1, <1>7, <1>8 DEF Shape, Sound, InFlight, PreviousOver
<1>11. Shape(z) /\ LocallyWanted(z) /\ ~InUse(z)
  BY <1>2, <1>6, <1>7, <1>9, <1>10 DEF Shape, LocallyWanted, InUse
<1>12. health' \in [Sources -> Status \union {"none"}] /\ Registered'
  BY <1>1, <1>7, TakenOut, ConstantsAssumption DEF IndInv, UnregisterStops
<1>. QED BY <1>1, <1>11, <1>12, BecomeStands DEF UnregisterStops, HostUnchanged

-----------------------------------------------------------------------------
(* Polling.                                                                *)

LEMMA PollTimerFiresSafe ==
  ASSUME IndInv, NEW o \in Objects, PollTimerFires(o)
  PROVE  IndInv'
<1> DEFINE x == hosted[o]
           y == [x EXCEPT !.pollTimers = @ - 1, !.timer = "none"]
<1>1. Shape(x) /\ x.pollTimers > 0 /\ Become(o, Poll(o, y))
  BY DEF IndInv, PollTimerFires
<1>2. IsRecord(y)
  BY <1>1, Zenon DEF Shape, IsRecord
<1>3. RestTyped(y) /\ Timed(y) /\ SameLife(x, y)
  BY <1>1 DEF Shape, IsRecord, FieldNames, RestTyped, Timed, SameLife
<1>4. Keeps(x, y) /\ Shape(y)
  BY <1>1, <1>2, <1>3, KeepsShape DEF Keeps
<1>5. Keeps(x, Poll(o, y))
  BY <1>4, PollKeeps, KeepsTrans
<1>. QED BY <1>1, <1>5, BecomeKept, HealthStays DEF IndInv, PollTimerFires

LEMMA BudgetExpiresSafe ==
  ASSUME IndInv, NEW o \in Objects, BudgetExpires(o)
  PROVE  IndInv'
<1> DEFINE x == hosted[o]
           y == [x EXCEPT !.pollCut = TRUE]
<1>1. Shape(x) /\ Become(o, y)
  BY DEF IndInv, BudgetExpires
<1>2. IsRecord(y)
  BY <1>1, Zenon DEF Shape, IsRecord
<1>3. RestTyped(y) /\ Timed(y) /\ SameLife(x, y)
  BY <1>1, ConstantsAssumption
  DEF Shape, IsRecord, FieldNames, RestTyped, Timed, SameLife
<1>4. Tells
  BY HealthStays DEF BudgetExpires
<1>. QED BY <1>1, <1>2, <1>3, <1>4, BecomeKept, HealthStays DEF Keeps, BudgetExpires, HostUnchanged

LEMMA QueryAnswersSafe ==
  ASSUME IndInv, NEW o \in Objects, QueryAnswers(o)
  PROVE  IndInv'
<1> DEFINE x == hosted[o]
           y == [x EXCEPT !.polling = "served", !.waitingForSetup = FALSE,
                          !.waitingForKey = FALSE]
<1>1. Shape(x) /\ Become(o, y)
  BY DEF IndInv, QueryAnswers
<1>2. IsRecord(y)
  BY <1>1, Zenon DEF Shape, IsRecord
<1>3. RestTyped(y) /\ Timed(y) /\ SameLife(x, y)
  BY <1>1, ConstantsAssumption
  DEF Shape, IsRecord, FieldNames, RestTyped, Timed, SameLife, PollStage
<1>4. Tells
  BY HealthStays DEF QueryAnswers
<1>. QED BY <1>1, <1>2, <1>3, <1>4, BecomeKept, HealthStays DEF Keeps, QueryAnswers, HostUnchanged

LEMMA QueryCancelledSafe ==
  ASSUME IndInv, NEW o \in Objects, QueryCancelled(o)
  PROVE  IndInv'
BY EndPollKeeps, BecomeKept, HealthStays DEF IndInv, QueryCancelled

LEMMA QueryFailsSafe ==
  ASSUME IndInv, NEW o \in Objects, QueryFails(o)
  PROVE  IndInv'
<1> DEFINE x == hosted[o]
<1>1. Shape(x)
  BY DEF IndInv
<1>2. PICK stage \in PollStage, setup \in BOOLEAN, key \in BOOLEAN :
        Become(o, [x EXCEPT !.polling = stage, !.waitingForSetup = setup,
                            !.waitingForKey = key])
  <2>1. CASE Become(o, [x EXCEPT !.polling = "setup", !.waitingForSetup = TRUE])
    <3>1. [x EXCEPT !.polling = "setup", !.waitingForSetup = TRUE]
          = [x EXCEPT !.polling = "setup", !.waitingForSetup = TRUE, !.waitingForKey = @]
      BY <1>1 DEF Shape, IsRecord, FieldNames
    <3>2. x.waitingForKey \in BOOLEAN /\ "setup" \in PollStage
      BY <1>1 DEF Shape, RestTyped, PollStage
    <3>. QED BY <2>1, <3>1, <3>2, Zenon
  <2>2. CASE Become(o, [x EXCEPT !.polling = "key", !.waitingForSetup = FALSE,
                                 !.waitingForKey = TRUE])
    BY <2>2, Zenon DEF PollStage
  <2>3. ASSUME NEW stage \in {"backoff", "never"},
               Become(o, [x EXCEPT !.polling = stage, !.waitingForSetup = FALSE])
        PROVE  \E k \in BOOLEAN :
                 Become(o, [x EXCEPT !.polling = stage, !.waitingForSetup = FALSE,
                                     !.waitingForKey = k])
    <3>1. [x EXCEPT !.polling = stage, !.waitingForSetup = FALSE]
          = [x EXCEPT !.polling = stage, !.waitingForSetup = FALSE, !.waitingForKey = @]
      BY <1>1 DEF Shape, IsRecord, FieldNames
    <3>2. x.waitingForKey \in BOOLEAN
      BY <1>1 DEF Shape, RestTyped
    <3>. QED BY <2>3, <3>1, <3>2, Zenon
  <2>. QED BY <2>1, <2>2, <2>3, Zenon DEF QueryFails, PollStage
<1> DEFINE y == [x EXCEPT !.polling = stage, !.waitingForSetup = setup,
                          !.waitingForKey = key]
<1>3. IsRecord(y)
  BY <1>1, Zenon DEF Shape, IsRecord
<1>4. RestTyped(y) /\ Timed(y) /\ SameLife(x, y)
  BY <1>1 DEF Shape, IsRecord, FieldNames, RestTyped, Timed, SameLife
<1>. QED BY <1>2, <1>3, <1>4, BecomeKept, HealthStays DEF Keeps, QueryFails, IndInv

LEMMA PollReportedSafe ==
  ASSUME IndInv, NEW o \in Objects, PollReported(o)
  PROVE  IndInv'
<1> DEFINE x == hosted[o]
           y == IF x.polling \in AsksAgain THEN Schedule(x) ELSE x
           z == IF x.polling = "served" THEN RefreshOverlays(o, y) ELSE y
<1>1. Shape(x) /\ Become(o, EndPoll(z))
  BY DEF IndInv, PollReported
<1>2. Keeps(x, y) /\ Shape(y)
  BY <1>1, ScheduleKeeps, KeepsSelf, KeepsShape
<1>. HIDE DEF y
<1>3. Keeps(x, z) /\ Shape(z)
  BY <1>1, <1>2, RefreshOverlaysKeeps, KeepsTrans, KeepsShape
<1>. HIDE DEF z
<1>4. Keeps(x, EndPoll(z))
  BY <1>3, EndPollKeeps, KeepsTrans
<1>5. Tells
  BY PublishType DEF PollReported, Report
<1>. QED BY <1>1, <1>4, <1>5, BecomeKept, HealthStays DEF PollReported, HostUnchanged

LEMMA RefreshAnswersSafe ==
  ASSUME IndInv, NEW o \in Objects, NEW some \in BOOLEAN, RefreshAnswers(o, some)
  PROVE  IndInv'
<1> DEFINE x == hosted[o]
           y == [x EXCEPT !.refreshing = FALSE, !.overlays = some]
<1>1. Shape(x) /\ Become(o, y)
  BY DEF IndInv, RefreshAnswers
<1>2. IsRecord(y)
  BY <1>1, Zenon DEF Shape, IsRecord
<1>3. RestTyped(y) /\ Timed(y) /\ SameLife(x, y)
  BY <1>1, ConstantsAssumption
  DEF Shape, IsRecord, FieldNames, RestTyped, Timed, SameLife
<1>4. Tells
  BY HealthStays DEF RefreshAnswers
<1>. QED BY <1>1, <1>2, <1>3, <1>4, BecomeKept, HealthStays DEF Keeps, RefreshAnswers, HostUnchanged

-----------------------------------------------------------------------------
(* Subscriptions, the listener and published health.                       *)

LEMMA RetryTimerFiresSafe ==
  ASSUME IndInv, NEW o \in Objects, RetryTimerFires(o)
  PROVE  IndInv'
<1> DEFINE x == hosted[o]
           y == [x EXCEPT !.retryTimers = @ - 1, !.timer = "none"]
<1>1. Shape(x) /\ x.retryTimers > 0 /\ (y.running => y.subs < MaxSubs)
  <2>1. Shape(x) /\ x.retryTimers > 0
    BY DEF IndInv, RetryTimerFires
  <2>2. y.running => y.subs + 1 < MaxSubs
    BY Zenon DEF RetryTimerFires
  <2>3. y.subs = x.subs /\ x.subs \in Int
    BY <2>1 DEF Shape, IsRecord, FieldNames, RestTyped
  <2>. QED BY <2>1, <2>2, <2>3, ConstantsAssumption
<1>2. (Become(o, OpenSubscription(y)) /\ y.running) \/ Become(o, y)
  BY Zenon DEF RetryTimerFires
<1>3. IsRecord(y)
  BY <1>1, Zenon DEF Shape, IsRecord
<1>4. RestTyped(y) /\ Timed(y) /\ SameLife(x, y)
  BY <1>1 DEF Shape, IsRecord, FieldNames, RestTyped, Timed, SameLife
<1>5. Keeps(x, y) /\ Shape(y)
  BY <1>1, <1>3, <1>4, KeepsShape DEF Keeps
<1>. HIDE DEF y
<1>6. y.running => Keeps(x, OpenSubscription(y))
  BY <1>1, <1>5, OpenSubscriptionKeeps, KeepsTrans
<1>. QED BY <1>2, <1>5, <1>6, BecomeKept, HealthStays DEF IndInv, RetryTimerFires

LEMMA SessionOpensSafe ==
  ASSUME IndInv, NEW o \in Objects, NEW n \in Subs,
         SessionOpens(o, n) \/ SubscribeAnswers(o, n) \/ SubscribeFails(o, n)
  PROVE  IndInv'
<1> DEFINE x == hosted[o]
           t == [x EXCEPT !.session = IF @ = n THEN 0 ELSE @]
           u(stage) == SubAt(x, n, stage)
<1>1. Shape(x) /\ n \in 0..MaxSubs /\ 0 \in 0..MaxSubs
  BY ConstantsAssumption DEF IndInv, Subs
<1>2. Tells /\ started' = started /\ disposed' = disposed /\ online' = online
  BY HealthStays DEF SessionOpens, SubscribeAnswers, SubscribeFails
<1>3. \A stage \in SubStage : Keeps(x, u(stage)) /\ Shape(u(stage))
  BY <1>1, SubAtKeeps, KeepsShape
<1>. HIDE DEF u
<1>4. CASE SessionOpens(o, n)
  <2> DEFINE v == u("opening")
             y == [v EXCEPT !.session = n]
  <2>1. Become(o, y)
    BY <1>4 DEF SessionOpens, u
  <2>2. Keeps(x, v) /\ Shape(v)
    BY <1>3 DEF SubStage
  <2>. HIDE DEF v
  <2>3. IsRecord(y)
    BY <2>2, Zenon DEF Shape, IsRecord
  <2>4. RestTyped(y) /\ Timed(y) /\ SameLife(v, y)
    BY <1>1, <2>2 DEF Shape, IsRecord, FieldNames, RestTyped, Timed, SameLife
  <2>5. Keeps(x, y)
    BY <2>2, <2>3, <2>4, KeepsTrans DEF Keeps
  <2>. QED BY <1>2, <2>1, <2>5, BecomeKept
<1>5. CASE SubscribeAnswers(o, n)
  <2> DEFINE v == u("telling")
             y == [v EXCEPT !.unsubscribe = n]
  <2>1. Become(o, y)
    BY <1>5 DEF SubscribeAnswers, u
  <2>2. Keeps(x, v) /\ Shape(v)
    BY <1>3 DEF SubStage
  <2>. HIDE DEF v
  <2>3. IsRecord(y)
    BY <2>2, Zenon DEF Shape, IsRecord
  <2>4. RestTyped(y) /\ Timed(y) /\ SameLife(v, y)
    BY <1>1, <2>2 DEF Shape, IsRecord, FieldNames, RestTyped, Timed, SameLife
  <2>5. Keeps(x, y)
    BY <2>2, <2>3, <2>4, KeepsTrans DEF Keeps
  <2>. QED BY <1>2, <2>1, <2>5, BecomeKept
<1>6. CASE SubscribeFails(o, n)
  <2>1. Become(o, SubAt(t, n, "failing")) \/ Become(o, SubAt(t, n, "refused"))
    BY <1>6 DEF SubscribeFails
  <2>2. IsRecord(t)
    BY <1>1, Zenon DEF Shape, IsRecord
  <2>3. RestTyped(t) /\ Timed(t) /\ SameLife(x, t)
    BY <1>1 DEF Shape, IsRecord, FieldNames, RestTyped, Timed, SameLife
  <2>4. Keeps(x, t) /\ Shape(t)
    BY <1>1, <2>2, <2>3, KeepsShape DEF Keeps
  <2>. HIDE DEF t
  <2>5. \A stage \in {"failing", "refused"} : Keeps(x, SubAt(t, n, stage))
    BY <2>4, SubAtKeeps, KeepsTrans DEF SubStage
  <2>. QED BY <1>2, <2>1, <2>5, BecomeKept
<1>. QED BY <1>4, <1>5, <1>6

LEMMA SubscriptionReportedSafe ==
  ASSUME IndInv, NEW o \in Objects, NEW n \in Subs, SubscriptionReported(o, n)
  PROVE  IndInv'
<1> DEFINE x == SubAt(hosted[o], n, "done")
           y == ArmRetry(x)
           z == SubAt(x, n, "noKey")
<1>1. Shape(hosted[o])
  BY DEF IndInv
<1>2. Shape(x) /\ SameStanding(hosted[o], x)
  BY <1>1, SubAtKeeps, KeepsStanding DEF SubStage
<1>3. Become(o, Resume(o, x, n)) \/ Become(o, Resume(o, y, n)) \/ Become(o, Resume(o, z, n))
  BY Zenon DEF SubscriptionReported
<1>4. Tells
  <2>1. CASE UpdateHealth(SourceOf[o], "ERROR")
    BY <2>1, ConstantsAssumption, UpdateHealthType DEF Status
  <2>2. CASE Publish(o, "own")
    BY <2>2, PublishType DEF Report
  <2>. QED BY <2>1, <2>2 DEF SubscriptionReported
<1>. HIDE DEF x
<1>5. Shape(y) /\ SameStanding(hosted[o], y)
  BY <1>2, ArmRetryKeeps, KeepsStanding, StandingTrans
<1>6. Shape(z) /\ SameStanding(hosted[o], z)
  BY <1>2, SubAtKeeps, KeepsStanding, StandingTrans DEF SubStage
<1>. HIDE DEF y, z
<1>7. /\ Shape(Resume(o, x, n)) /\ SameStanding(hosted[o], Resume(o, x, n))
      /\ Shape(Resume(o, y, n)) /\ SameStanding(hosted[o], Resume(o, y, n))
      /\ Shape(Resume(o, z, n)) /\ SameStanding(hosted[o], Resume(o, z, n))
  BY <1>2, <1>5, <1>6, ResumeShape, StandingTrans
<1>. QED BY <1>3, <1>4, <1>7, BecomeKeeps, HealthStays DEF SubscriptionReported, HostUnchanged, IndInv

LEMMA EmitSafe ==
  ASSUME IndInv, NEW o \in Objects, Emit(o)
  PROVE  IndInv'
<1> DEFINE x == hosted[o]
           y == [x EXCEPT !.pubs = @ \union {"own"}]
<1>1. Shape(x) /\ Become(o, y)
  BY DEF IndInv, Emit
<1>2. IsRecord(y)
  BY <1>1, Zenon DEF Shape, IsRecord
<1>3. RestTyped(y) /\ Timed(y) /\ SameLife(x, y)
  BY <1>1, ConstantsAssumption
  DEF Shape, IsRecord, FieldNames, RestTyped, Timed, SameLife, Report
<1>4. Tells
  BY HealthStays DEF Emit
<1>. QED BY <1>1, <1>2, <1>3, <1>4, BecomeKept, HealthStays DEF Keeps, Emit, HostUnchanged

LEMMA ListenSafe ==
  ASSUME IndInv, NEW o \in Objects, Listen(o)
  PROVE  IndInv'
<1> DEFINE x == hosted[o]
           y == [x EXCEPT !.listenerPending = x.run]
<1>1. Shape(x) /\ Become(o, y) /\ x.run \in 0..MaxRun
  BY DEF IndInv, Listen, Shape, LifeTyped
<1>2. IsRecord(y)
  BY <1>1, Zenon DEF Shape, IsRecord
<1>3. RestTyped(y) /\ Timed(y) /\ SameLife(x, y)
  BY <1>1, ConstantsAssumption
  DEF Shape, IsRecord, FieldNames, RestTyped, Timed, SameLife
<1>4. Tells
  BY HealthStays DEF Listen
<1>. QED BY <1>1, <1>2, <1>3, <1>4, BecomeKept, HealthStays DEF Keeps, Listen, HostUnchanged

LEMMA ListenAnswersSafe ==
  ASSUME IndInv, NEW o \in Objects, NEW opened \in BOOLEAN, ListenAnswers(o, opened)
  PROVE  IndInv'
<1> DEFINE x == hosted[o]
           y == [x EXCEPT !.listenerPending = 0,
                          !.listener = IF opened /\ MayKeepListener(x) THEN x.run ELSE @]
<1>1. Shape(x) /\ Become(o, y) /\ x.run \in 0..MaxRun
  BY DEF IndInv, ListenAnswers, Shape, LifeTyped
<1>2. IsRecord(y)
  BY <1>1, Zenon DEF Shape, IsRecord
<1>3. /\ RestTyped(y) /\ Timed(y) /\ y.running = x.running /\ y.starting = x.starting
      /\ y.run = x.run /\ y.attempt = x.attempt /\ y.stops = x.stops
      /\ y.leaving = x.leaving /\ y.startSub = x.startSub /\ y.removed = x.removed
      /\ y.initialized = x.initialized /\ y.listed = x.listed /\ y.enabled = x.enabled
  BY <1>1, ConstantsAssumption DEF Shape, IsRecord, FieldNames, RestTyped, Timed
<1>4. y.listener # 0 => x.listener # 0 \/ x.running \/ x.starting
  BY <1>1 DEF Shape, IsRecord, FieldNames, MayKeepListener
<1>5. y.listener = x.listener \/ x.running \/ x.starting
  BY <1>1 DEF Shape, IsRecord, FieldNames, MayKeepListener
<1>. HIDE DEF y
<1>6. Shape(y)
  BY <1>1, <1>2, <1>3, SoundLike DEF Shape, LifeTyped, Sound
<1>7. SameStanding(x, y)
  BY <1>3, <1>4, <1>5 DEF SameStanding, InUse
<1>. QED BY <1>1, <1>6, <1>7, BecomeKeeps, HealthStays DEF ListenAnswers, IndInv

LEMMA ListenerRefusesSafe ==
  ASSUME IndInv, NEW o \in Objects, ListenerRefuses(o)
  PROVE  IndInv'
<1> DEFINE x == hosted[o]
           y == [x EXCEPT !.healthSoon = TRUE]
<1>1. Shape(x) /\ Become(o, y)
  BY DEF IndInv, ListenerRefuses
<1>2. IsRecord(y)
  BY <1>1, Zenon DEF Shape, IsRecord
<1>3. RestTyped(y) /\ Timed(y) /\ SameLife(x, y)
  BY <1>1, ConstantsAssumption
  DEF Shape, IsRecord, FieldNames, RestTyped, Timed, SameLife
<1>4. Tells
  BY HealthStays DEF ListenerRefuses
<1>. QED BY <1>1, <1>2, <1>3, <1>4, BecomeKept, HealthStays DEF Keeps, ListenerRefuses, HostUnchanged

LEMMA ListenerClosedSafe ==
  ASSUME IndInv, NEW o \in Objects, ListenerClosed(o)
  PROVE  IndInv'
<1> DEFINE x == hosted[o]
           y == [x EXCEPT !.listener = 0]
<1>1. Shape(x) /\ Become(o, y)
  BY DEF IndInv, ListenerClosed
<1>2. IsRecord(y)
  BY <1>1, Zenon DEF Shape, IsRecord
<1>3. RestTyped(y) /\ Timed(y) /\ SameLife(x, y)
  BY <1>1, ConstantsAssumption
  DEF Shape, IsRecord, FieldNames, RestTyped, Timed, SameLife
<1>4. Tells
  BY HealthStays DEF ListenerClosed
<1>. QED BY <1>1, <1>2, <1>3, <1>4, BecomeKept, HealthStays DEF Keeps, ListenerClosed, HostUnchanged

LEMMA PublishLandsSafe ==
  ASSUME IndInv, NEW o \in Objects, NEW override \in Report, PublishLands(o, override)
  PROVE  IndInv'
<1> DEFINE x == hosted[o]
           y == [x EXCEPT !.pubs = @ \ {override}]
<1>1. Shape(x) /\ Become(o, y)
  BY DEF IndInv, PublishLands
<1>2. IsRecord(y)
  BY <1>1, Zenon DEF Shape, IsRecord
<1>3. RestTyped(y) /\ Timed(y) /\ SameLife(x, y)
  BY <1>1, ConstantsAssumption
  DEF Shape, IsRecord, FieldNames, RestTyped, Timed, SameLife
<1>4. Tells
  BY PublishType DEF IndInv, PublishLands
<1>. QED BY <1>1, <1>2, <1>3, <1>4, BecomeKept, HealthStays DEF Keeps, PublishLands, HostUnchanged

LEMMA HealthSoonFiresSafe ==
  ASSUME IndInv, NEW o \in Objects, HealthSoonFires(o)
  PROVE  IndInv'
<1> DEFINE x == hosted[o]
           y == [x EXCEPT !.healthSoon = FALSE,
                          !.pubs = IF x.running /\ ~x.removed /\ ~disposed
                                   THEN @ \union {"own"} ELSE @]
<1>1. Shape(x) /\ Become(o, y)
  BY DEF IndInv, HealthSoonFires
<1>2. IsRecord(y)
  BY <1>1, Zenon DEF Shape, IsRecord
<1>3. RestTyped(y) /\ Timed(y) /\ SameLife(x, y)
  BY <1>1, ConstantsAssumption
  DEF Shape, IsRecord, FieldNames, RestTyped, Timed, SameLife, Report
<1>4. Tells
  BY HealthStays DEF HealthSoonFires
<1>. QED BY <1>1, <1>2, <1>3, <1>4, BecomeKept, HealthStays DEF Keeps, HealthSoonFires, HostUnchanged

-----------------------------------------------------------------------------
(* The theorems.                                                           *)

LEMMA OutsideSafe ==
  ASSUME IndInv, Outside
  PROVE  IndInv'
<1>1. CASE Stop \/ Dispose
  BY <1>1, StopAllSafe DEF Stop, Dispose, IndInv
<1>2. CASE \E up \in BOOLEAN : SetOnline(up)
  BY <1>2, SetOnlineSafe
<1>3. ASSUME NEW o \in Objects, NEW b \in BOOLEAN, Register(o, b) \/ SetEnabled(o, b)
      PROVE  IndInv'
  BY <1>3, RegisterSafe, SetEnabledSafe
<1>4. ASSUME NEW o \in Objects,
             Unregister(o) \/ SettingsChange(o) \/ CredentialChange(o) \/ PollNow(o)
      PROVE  IndInv'
  BY <1>4, UnregisterSafe, SettingsChangeSafe, CredentialChangeSafe, PollNowSafe
<1>. QED BY <1>1, <1>2, <1>3, <1>4, StartSafe, SetViewportSafe DEF Outside

LEMMA SpontaneousSafe ==
  ASSUME IndInv, NEW o \in Objects, Spontaneous(o)
  PROVE  IndInv'
BY BudgetExpiresSafe, EmitSafe, ListenSafe, ListenerRefusesSafe, ListenerClosedSafe
DEF Spontaneous

LEMMA ProgressSafe ==
  ASSUME IndInv, NEW o \in Objects, Progress(o)
  PROVE  IndInv'
<1>1. ASSUME NEW r \in Runs, AttemptSteps(o, r)
      PROVE  IndInv'
  BY <1>1, AttemptProceedsSafe, InitializeAnswersSafe, StartFailsSafe, StartAnswersSafe,
     UndoneSafe, AttemptPublishesSafe DEF AttemptSteps
<1>2. CASE StopSteps(o)
  BY <1>2, StopAnswersSafe, UnregisterStopsSafe DEF StopSteps
<1>3. CASE PollSteps(o)
  BY <1>3, QueryAnswersSafe, QueryCancelledSafe, QueryFailsSafe, PollReportedSafe
  DEF PollSteps
<1>4. CASE Refreshes(o)
  BY <1>4, RefreshAnswersSafe DEF Refreshes
<1>5. ASSUME NEW n \in Subs, SubscriptionSteps(o, n)
      PROVE  IndInv'
  BY <1>5, SessionOpensSafe, SubscriptionReportedSafe DEF SubscriptionSteps
<1>6. CASE ListenSteps(o)
  BY <1>6, ListenAnswersSafe DEF ListenSteps
<1>7. ASSUME NEW override \in Report, PublishLands(o, override)
      PROVE  IndInv'
  BY <1>7, PublishLandsSafe
<1>. QED BY <1>1, <1>2, <1>3, <1>4, <1>5, <1>6, <1>7, PollTimerFiresSafe,
            RetryTimerFiresSafe, HealthSoonFiresSafe DEF Progress

LEMMA StutterSafe ==
  ASSUME IndInv, UNCHANGED vars
  PROVE  IndInv'
<1>1. /\ hosted' = hosted /\ health' = health /\ started' = started
      /\ disposed' = disposed /\ online' = online
  BY DEF vars
<1>. QED BY <1>1, AllChange, HealthStays DEF IndInv, HostIsUp

\* The inductive invariant holds of every reachable state: the sources of the host are well
\* formed, their start attempts are in order and what runs is wanted.
THEOREM IndInvHolds == Spec => []IndInv
<1>1. Init => IndInv
  BY InitIndInv
<1>2. IndInv /\ [Next]_vars => IndInv'
  BY OutsideSafe, SpontaneousSafe, ProgressSafe, StutterSafe DEF Next
<1>. QED BY <1>1, <1>2, PTL DEF Spec

\* Every variable keeps its type; in particular no timer is cleared twice, so no count of
\* armed timers or stops in flight ever falls below zero (schedule, cancelPoll).
THEOREM TypeCorrect == Spec => []TypeOK
<1>1. IndInv => TypeOK
  BY RecordType DEF IndInv, Shape, TypeOK
<1>. QED BY <1>1, IndInvHolds, PTL

\* No order of starts, slow starts, stops, disables and removals leaves a source running that
\* was turned off (overtaken in attemptStart, run in stopProvider).
THEOREM RunningIsWantedHolds == Spec => []RunningIsWanted
<1>1. IndInv => RunningIsWanted
  BY DEF IndInv, LocallyWanted, HostIsUp, InUse, RunningIsWanted
<1>. QED BY <1>1, IndInvHolds, PTL

\* Two start attempts of one source never both call its provider (startAttempt in
\* startProvider, awaited by attemptStart).
THEOREM StartsDoNotInterleaveHolds == Spec => []StartsDoNotInterleave
<1>1. ASSUME IndInv
      PROVE  StartsDoNotInterleave
  <2>1. ASSUME NEW o \in Objects, NEW q \in Runs, NEW r \in Runs,
               hosted[o].attempt[q] \in Calling, hosted[o].attempt[r] \in Calling
        PROVE  q = r
    <3>1. PreviousOver(hosted[o], q) /\ PreviousOver(hosted[o], r)
      BY <1>1, <2>1 DEF IndInv, Shape, Sound
    <3>2. ~(q < r) /\ ~(r < q)
      BY <2>1, <3>1 DEF PreviousOver, Calling
    <3>. QED BY <3>2, ConstantsAssumption DEF Runs
  <2>. QED BY <2>1 DEF StartsDoNotInterleave, Calling
<1>. QED BY <1>1, IndInvHolds, PTL

\* No port is left open: a source with a listener is wanted, or a stop of it is unanswered
\* that will still close it (withListener, closeListener).
THEOREM ListenerIsOwnedHolds == Spec => []ListenerIsOwned
<1>1. IndInv => ListenerIsOwned
  <2>1. ASSUME IndInv, NEW o \in Objects, hosted[o].listener # 0
        PROVE  Wanted(o) \/ hosted[o].stops > 0
    <3>1. hosted[o].stops = 0 \/ hosted[o].stops > 0
      BY <2>1, ConstantsAssumption DEF IndInv, Shape, LifeTyped
    <3>. QED BY <2>1, <3>1 DEF IndInv, LocallyWanted, HostIsUp, InUse, Wanted
  <2>. QED BY <2>1 DEF ListenerIsOwned
<1>. QED BY <1>1, IndInvHolds, PTL

\* An object taken out never runs or listens again, and Source Health has forgotten an id
\* exactly when it is free (unregister).
THEOREM TakenOutIsClosedHolds == Spec => []TakenOutIsClosed
<1>1. IndInv => TakenOutIsClosed
  BY DEF IndInv, LocallyWanted, InUse, Registered, TakenOutIsClosed
<1>. QED BY <1>1, IndInvHolds, PTL

\* h.starting is set exactly while the attempt of the current run is in flight (the finally
\* block of attemptStart, stopProvider).
THEOREM StartingIsCurrentHolds == Spec => []StartingIsCurrent
<1>1. IndInv => StartingIsCurrent
  BY DEF IndInv, Shape, Sound, StartingIsCurrent
<1>. QED BY <1>1, IndInvHolds, PTL

-----------------------------------------------------------------------------
(* While the network is away.  Of a source that is polled and does not     *)
(* subscribe, h.abort is the running poll's signal for as long as the poll *)
(* asks, so whatever cancels the poll finds it (Alert); and no step but    *)
(* poll() itself makes it ask (Calm).                                      *)

Asks(x) == x.polling = "asking" /\ ~x.pollCut

Alert(x) ==
  /\ IsRecord(x)
  /\ x.timer # "retry" /\ x.retryTimers = 0 /\ \A n \in Subs : x.sub[n] = "none"
  /\ Asks(x) => x.abort = PollSignal /\ x.running

Calm(x, y) == Alert(y) /\ (Asks(y) => Asks(x))

\* What none of this speaks of has changed, if anything.
Aside(x, y) ==
  /\ IsRecord(y)
  /\ y.timer = x.timer /\ y.retryTimers = x.retryTimers /\ y.sub = x.sub
  /\ y.polling = x.polling /\ y.pollCut = x.pollCut /\ y.abort = x.abort
  /\ y.running = x.running

LEMMA AsideCalm ==
  ASSUME NEW x, NEW y, Alert(x), Aside(x, y)
  PROVE  Calm(x, y)
BY DEF Alert, Aside, Calm, Asks

LEMMA CalmTrans ==
  ASSUME NEW x, NEW y, NEW z, Calm(x, y), Calm(y, z)
  PROVE  Calm(x, z)
BY DEF Calm

LEMMA ClearTimerCalm ==
  ASSUME NEW x, Alert(x)
  PROVE  Calm(x, ClearTimer(x))
<1>1. IsRecord(ClearTimer(x))
  BY Zenon DEF Alert, IsRecord, ClearTimer
<1>. QED BY <1>1 DEF Alert, IsRecord, FieldNames, Calm, Asks, ClearTimer

LEMMA ScheduleCalm ==
  ASSUME NEW x, Alert(x)
  PROVE  Calm(x, Schedule(x))
<1> DEFINE y == ClearTimer(x)
           z == [y EXCEPT !.timer = "poll", !.pollTimers = @ + 1, !.due = TRUE]
<1>1. Calm(x, y)
  BY ClearTimerCalm
<1>. HIDE DEF y
<1>2. IsRecord(z)
  BY <1>1, Zenon DEF Calm, Alert, IsRecord
<1>3. Calm(y, z)
  BY <1>1, <1>2 DEF Calm, Alert, IsRecord, FieldNames, Asks
<1>4. Calm(x, x) /\ Calm(x, z)
  BY <1>1, <1>3, CalmTrans DEF Calm
<1>. HIDE DEF z
<1>5. Schedule(x) = z \/ Schedule(x) = x
  BY Zenon DEF Schedule, y, z
<1>. QED BY <1>4, <1>5

\* cancelPoll aborts the poll that asks.
LEMMA CancelPollCalm ==
  ASSUME NEW x, Alert(x)
  PROVE  Calm(x, CancelPoll(x)) /\ ~Asks(CancelPoll(x))
<1> DEFINE y == ClearTimer(x)
           z == [y EXCEPT !.due = FALSE, !.abort = None,
                          !.pollCut = @ \/ x.abort = PollSignal,
                          !.session = IF x.abort = @ THEN 0 ELSE @]
<1>1. Calm(x, y) /\ y.polling = x.polling /\ y.pollCut = x.pollCut
  BY ClearTimerCalm DEF ClearTimer, Alert, IsRecord, FieldNames
<1>. HIDE DEF y
<1>2. IsRecord(z)
  BY <1>1, Zenon DEF Calm, Alert, IsRecord
<1>3. Alert(z) /\ ~Asks(z)
  <2>1. /\ z.timer = y.timer /\ z.retryTimers = y.retryTimers /\ z.sub = y.sub
        /\ z.polling = y.polling /\ z.pollCut = (y.pollCut \/ x.abort = PollSignal)
    BY <1>1 DEF Calm, Alert, IsRecord, FieldNames
  <2>2. ~Asks(z)
    BY <1>1, <2>1 DEF Alert, Asks
  <2>. QED BY <1>1, <1>2, <2>1, <2>2 DEF Calm, Alert
<1>4. z = CancelPoll(x)
  BY DEF CancelPoll, y
<1>. HIDE DEF z
<1>. QED BY <1>3, <1>4 DEF Calm

LEMMA StopTailAside ==
  ASSUME NEW x, IsRecord(x)
  PROVE  Aside(x, StopTail(x))
<1>1. IsRecord(StopTail(x))
  BY Zenon DEF IsRecord, StopTail
<1>. QED BY <1>1 DEF IsRecord, FieldNames, Aside, StopTail

LEMMA StopNowCalm ==
  ASSUME NEW x, Alert(x)
  PROVE  Calm(x, StopNow(x)) /\ ~Asks(StopNow(x))
<1> DEFINE w == CancelPoll(x)
           y == [w EXCEPT !.run = @ + 1, !.starting = FALSE,
                          !.session = IF x.unsubscribe = @ THEN 0 ELSE @,
                          !.unsubscribe = 0]
           z == [y EXCEPT !.running = FALSE, !.session = 0, !.stops = @ + 1]
<1>1. Alert(w) /\ ~Asks(w)
  BY CancelPollCalm DEF Calm
<1>2. StopNow(x) = z \/ StopNow(x) = StopTail(y)
  BY DEF StopNow
<1>. HIDE DEF w
<1>3. IsRecord(y)
  BY <1>1, Zenon DEF Alert, IsRecord
<1>4. Alert(y) /\ ~Asks(y)
  BY <1>1, <1>3 DEF Alert, IsRecord, FieldNames, Asks
<1>. HIDE DEF y
<1>5. IsRecord(z)
  BY <1>3, Zenon DEF IsRecord
<1>6. Alert(z) /\ ~Asks(z)
  BY <1>4, <1>5 DEF Alert, IsRecord, FieldNames, Asks
<1>7. Alert(StopTail(y)) /\ ~Asks(StopTail(y))
  BY <1>3, <1>4, StopTailAside, AsideCalm DEF Calm
<1>. HIDE DEF z
<1>. QED BY <1>2, <1>6, <1>7 DEF Calm

LEMMA ForgetAside ==
  ASSUME NEW x, IsRecord(x)
  PROVE  Aside(x, Forget(x))
<1>1. IsRecord(Forget(x))
  BY Zenon DEF IsRecord, Forget
<1>. QED BY <1>1 DEF IsRecord, FieldNames, Aside, Forget

LEMMA BeginStartAside ==
  ASSUME NEW x, IsRecord(x)
  PROVE  Aside(x, BeginStart(x))
<1> DEFINE first == \A r \in Runs : x.attempt[r] = "none"
           stage == IF first THEN "initializing" ELSE "waiting"
           y == [x EXCEPT !.run = @ + 1, !.starting = TRUE,
                          !.attempt = [@ EXCEPT ![x.run + 1] = stage]]
<1>1. y = BeginStart(x)
  BY DEF BeginStart
<1>2. IsRecord(y)
  BY Zenon DEF IsRecord
<1>. HIDE DEF stage
<1>3. Aside(x, y)
  BY <1>2 DEF IsRecord, FieldNames, Aside
<1>. QED BY <1>1, <1>3

LEMMA AtAside ==
  ASSUME NEW x, IsRecord(x), NEW r, NEW stage
  PROVE  Aside(x, At(x, r, stage))
<1>1. IsRecord(At(x, r, stage))
  BY Zenon DEF IsRecord, At
<1>. QED BY <1>1 DEF IsRecord, FieldNames, Aside, At

LEMMA EndAttemptAside ==
  ASSUME NEW x, IsRecord(x), NEW r
  PROVE  Aside(x, EndAttempt(x, r))
<1> DEFINE w == At(x, r, "done")
           y == [w EXCEPT !.starting = IF x.run = r THEN FALSE ELSE @]
<1>1. Aside(x, w)
  BY AtAside
<1>2. y = EndAttempt(x, r)
  BY DEF EndAttempt
<1>. HIDE DEF w
<1>3. IsRecord(y)
  BY <1>1, Zenon DEF Aside, IsRecord
<1>4. Aside(x, y)
  BY <1>1, <1>3 DEF IsRecord, FieldNames, Aside
<1>. QED BY <1>2, <1>4

LEMMA RefreshOverlaysAside ==
  ASSUME NEW o, NEW x, IsRecord(x)
  PROVE  Aside(x, RefreshOverlays(o, x))
<1> DEFINE y == [x EXCEPT !.refreshing = TRUE]
<1>1. IsRecord(y)
  BY Zenon DEF IsRecord
<1>2. Aside(x, y) /\ Aside(x, x)
  BY <1>1 DEF IsRecord, FieldNames, Aside
<1>. QED BY <1>2, Zenon DEF RefreshOverlays

LEMMA AsideTrans ==
  ASSUME NEW x, NEW y, NEW z, Aside(x, y), Aside(y, z)
  PROVE  Aside(x, z)
BY DEF Aside

\* poll() asks only when there is a network, or the source need not have one.
LEMMA PollAsks ==
  ASSUME NEW o, NEW x, Alert(x)
  PROVE  /\ Alert(Poll(o, x))
         /\ Asks(Poll(o, x)) => Asks(x) \/ online \/ ~PausesOffline(o)
<1> DEFINE y == [x EXCEPT !.pubs = @ \union {"OFFLINE"}]
           z == [x EXCEPT !.polling = "asking", !.pollCut = FALSE, !.due = FALSE,
                          !.abort = PollSignal]
<1>1. IsRecord(y) /\ IsRecord(z)
  BY Zenon DEF Alert, IsRecord
<1>2. Alert(y) /\ (Asks(y) => Asks(x))
  BY <1>1 DEF Alert, IsRecord, FieldNames, Asks
<1>3. x.running => Alert(z)
  BY <1>1 DEF Alert, IsRecord, FieldNames, Asks
<1>4. CASE ~x.running \/ o \notin Polled \/ x.polling # "idle"
  BY <1>4 DEF Poll
<1>5. CASE ~(~x.running \/ o \notin Polled \/ x.polling # "idle") /\ PausesOffline(o) /\ ~online
  <2>1. Poll(o, x) = y
    BY <1>5, Zenon DEF Poll
  <2>. QED BY <1>2, <2>1
<1>6. CASE /\ ~(~x.running \/ o \notin Polled \/ x.polling # "idle")
           /\ ~(PausesOffline(o) /\ ~online)
  <2>1. Poll(o, x) = z
    BY <1>6, Zenon DEF Poll
  <2>. QED BY <1>3, <1>6, <2>1
<1>. QED BY <1>4, <1>5, <1>6

LEMMA EndPollCalm ==
  ASSUME NEW x, Alert(x)
  PROVE  Calm(x, EndPoll(x))
<1> DEFINE y == [x EXCEPT !.polling = "idle", !.pollCut = FALSE,
                          !.abort = IF @ = PollSignal THEN None ELSE @,
                          !.settingsChangedInPoll = FALSE]
<1>1. IsRecord(y)
  BY Zenon DEF Alert, IsRecord
<1>2. Calm(x, y)
  BY <1>1 DEF Alert, IsRecord, FieldNames, Calm, Asks
<1>3. EndPoll(x) = y \/ EndPoll(x) = Schedule(y)
  BY Zenon DEF EndPoll
<1>. HIDE DEF y
<1>4. Calm(x, Schedule(y))
  BY <1>2, ScheduleCalm, CalmTrans DEF Calm
<1>. QED BY <1>2, <1>3, <1>4

LEMMA AfterSubscribeCalm ==
  ASSUME NEW o \in Polled, NEW x, Alert(x), NEW r
  PROVE  Calm(x, AfterSubscribe(o, x, r))
<1> DEFINE y == Schedule(x)
           z == RefreshOverlays(o, y)
<1>1. Calm(x, y)
  BY ScheduleCalm
<1>2. AfterSubscribe(o, x, r) = EndAttempt(z, r)
  BY DEF AfterSubscribe
<1>. HIDE DEF y
<1>3. Aside(y, z)
  BY <1>1, RefreshOverlaysAside DEF Calm, Alert
<1>. HIDE DEF z
<1>4. Aside(y, EndAttempt(z, r))
  BY <1>3, EndAttemptAside, AsideTrans DEF Aside
<1>. QED BY <1>1, <1>2, <1>4, AsideCalm, CalmTrans DEF Calm

\* What the invariant OfflineIsQuiet needs besides IndInv.
OfflineInv ==
  \A o \in Polled \ Streamed :
    Alert(hosted[o]) /\ (~online /\ PausesOffline(o) => ~Asks(hosted[o]))

\* One object changes: of one that only polls, the poll asks no more than it did.
LEMMA BecomeQuiet ==
  ASSUME IndInv, OfflineInv, NEW o \in Objects, NEW y, Become(o, y), online' = online,
         o \in Polled \ Streamed =>
           Alert(y) /\ (Asks(y) => Asks(hosted[o]) \/ online \/ ~PausesOffline(o))
  PROVE  OfflineInv'
<1>1. \A p \in Objects : hosted'[p] = IF p = o THEN y ELSE hosted[p]
  BY DEF IndInv, Become
<1>2. ASSUME NEW p \in Polled \ Streamed
      PROVE  Alert(hosted'[p]) /\ (~online /\ PausesOffline(p) => ~Asks(hosted'[p]))
  BY <1>1, ConstantsAssumption DEF OfflineInv
<1>. QED BY <1>2 DEF OfflineInv, Asks, Alert, PausesOffline

LEMMA BecomeCalm ==
  ASSUME IndInv, OfflineInv, NEW o \in Objects, NEW y, Become(o, y), online' = online,
         Alert(hosted[o]) => Calm(hosted[o], y)
  PROVE  OfflineInv'
BY BecomeQuiet DEF OfflineInv, Calm

LEMMA BecomeAside ==
  ASSUME IndInv, OfflineInv, NEW o \in Objects, NEW y, Become(o, y), online' = online,
         IsRecord(hosted[o]) => Aside(hosted[o], y)
  PROVE  OfflineInv'
BY BecomeCalm, AsideCalm DEF Alert

\* Every object changes at once, while the network stays as it is.
LEMMA AllCalm ==
  ASSUME OfflineInv, online' = online,
         \A o \in Objects : Alert(hosted[o]) => Calm(hosted[o], hosted'[o])
  PROVE  OfflineInv'
BY ConstantsAssumption DEF OfflineInv, Calm, Asks, Alert, PausesOffline

LEMMA StartIfWantedAside ==
  ASSUME NEW x, IsRecord(x)
  PROVE  Aside(x, StartIfWanted(x))
BY BeginStartAside, Zenon DEF StartIfWanted, Aside

LEMMA LifecycleQuiet ==
  ASSUME IndInv, OfflineInv, NEW o \in Objects, NEW b \in BOOLEAN,
         Register(o, b) \/ SetEnabled(o, b) \/ Unregister(o)
  PROVE  OfflineInv'
<1> DEFINE x == hosted[o]
           entered == [x EXCEPT !.listed = "yes", !.enabled = b]
           set == [x EXCEPT !.enabled = b]
           removed == [x EXCEPT !.enabled = FALSE, !.removed = TRUE]
<1>1. ASSUME Alert(x)
      PROVE  /\ Aside(x, entered) /\ Aside(x, set) /\ Aside(x, removed)
  <2>1. IsRecord(entered) /\ IsRecord(set) /\ IsRecord(removed)
    BY <1>1, Zenon DEF Alert, IsRecord
  <2>. QED BY <1>1, <2>1 DEF Alert, IsRecord, FieldNames, Aside
<1>2. CASE Register(o, b)
  <2>1. Become(o, StartIfWanted(entered)) /\ online' = online
    BY <1>2 DEF Register, HostUnchanged
  <2>. HIDE DEF entered
  <2>2. ASSUME Alert(x)
        PROVE  Calm(x, StartIfWanted(entered))
    BY <1>1, <2>2, StartIfWantedAside, AsideTrans, AsideCalm DEF Aside
  <2>. HIDE DEF x
  <2>. QED BY <2>1, <2>2, BecomeCalm DEF x
<1>3. CASE SetEnabled(o, b)
  <2>1. /\ Become(o, StartIfWanted(set)) \/ Become(o, StopNow(set))
        /\ online' = online
    BY <1>3 DEF SetEnabled, HostUnchanged
  <2>. HIDE DEF set
  <2>2. ASSUME Alert(x)
        PROVE  Calm(x, StartIfWanted(set)) /\ Calm(x, StopNow(set))
    <3>1. Calm(x, StartIfWanted(set))
      BY <1>1, <2>2, StartIfWantedAside, AsideTrans, AsideCalm DEF Aside
    <3>2. Calm(x, set) /\ Calm(set, StopNow(set))
      BY <1>1, <2>2, AsideCalm, StopNowCalm DEF Calm
    <3>. QED BY <3>1, <3>2, CalmTrans
  <2>. HIDE DEF x
  <2>. QED BY <2>1, <2>2, BecomeCalm DEF x
<1>4. CASE Unregister(o)
  <2> DEFINE y == StopNow(removed)
             z == [y EXCEPT !.leaving = TRUE]
  <2>1. (Become(o, z) \/ Become(o, Forget(y))) /\ online' = online
    BY <1>4 DEF Unregister, HostUnchanged
  <2>. HIDE DEF removed
  <2>2. ASSUME Alert(x)
        PROVE  Calm(x, y)
    BY <1>1, <2>2, AsideCalm, StopNowCalm, CalmTrans DEF Calm
  <2>. HIDE DEF y
  <2>3. ASSUME Alert(x)
        PROVE  Calm(x, z) /\ Calm(x, Forget(y))
    <3>1. IsRecord(y)
      BY <2>2, <2>3 DEF Calm, Alert
    <3>2. IsRecord(z)
      BY <3>1, Zenon DEF IsRecord
    <3>3. Aside(y, z)
      BY <3>1, <3>2 DEF IsRecord, FieldNames, Aside
    <3>4. Aside(y, Forget(y))
      BY <3>1, ForgetAside
    <3>. HIDE DEF z
    <3>. QED BY <2>2, <2>3, <3>3, <3>4, AsideCalm, CalmTrans DEF Calm
  <2>. HIDE DEF x, z
  <2>. QED BY <2>1, <2>3, BecomeCalm DEF x
<1>. QED BY <1>2, <1>3, <1>4

LEMMA HostQuiet ==
  ASSUME IndInv, OfflineInv, Start \/ Stop \/ Dispose \/ SetViewport \/ SetPollScale
  PROVE  OfflineInv'
<1>1. online' = online
  BY DEF Start, Stop, Dispose, StopAll, SetViewport, SetPollScale
<1>2. ASSUME NEW o \in Objects, Alert(hosted[o])
      PROVE  Calm(hosted[o], hosted'[o])
  <2>1. hosted'[o] \in {hosted[o], BeginStart(hosted[o]), StopNow(hosted[o]),
                        Schedule(hosted[o])}
    BY DEF Start, Stop, Dispose, StopAll, SetViewport, SetPollScale
  <2>2. Aside(hosted[o], BeginStart(hosted[o]))
    BY <1>2, BeginStartAside DEF Alert
  <2>. QED BY <1>2, <2>1, <2>2, AsideCalm, StopNowCalm, ScheduleCalm DEF Calm
<1>. QED BY <1>1, <1>2, AllCalm

\* What asks runs, and what runs is listed: setOnline cuts every poll it has to.
LEMMA SetOnlineQuiet ==
  ASSUME IndInv, OfflineInv, NEW up \in BOOLEAN, SetOnline(up)
  PROVE  OfflineInv'
<1>1. ASSUME NEW o \in Polled \ Streamed
      PROVE  Alert(hosted'[o]) /\ (~up /\ PausesOffline(o) => ~Asks(hosted'[o]))
  <2>1. o \in Objects /\ Alert(hosted[o])
    BY ConstantsAssumption DEF OfflineInv
  <2>2. hosted'[o] \in {Schedule(hosted[o]), CancelPoll(hosted[o]), hosted[o]}
    BY <2>1 DEF SetOnline
  <2>3. Alert(hosted'[o])
    BY <2>1, <2>2, ScheduleCalm, CancelPollCalm DEF Calm
  <2>4. CASE ~up /\ PausesOffline(o) /\ hosted[o].running
    <3>1. hosted[o].listed = "yes"
      BY <2>1, <2>4 DEF IndInv, LocallyWanted, InUse
    <3>2. hosted'[o] = CancelPoll(hosted[o])
      BY <2>1, <2>4, <3>1 DEF SetOnline, Listed
    <3>. QED BY <2>1, <2>3, <3>2, CancelPollCalm
  <2>5. CASE ~up /\ ~hosted[o].running
    <3>1. hosted'[o] = hosted[o]
      BY <2>1, <2>5 DEF SetOnline, Listed
    <3>. QED BY <2>1, <2>3, <2>5, <3>1 DEF Alert
  <2>. QED BY <2>3, <2>4, <2>5
<1>2. online' = up
  BY DEF SetOnline
<1>. QED BY <1>1, <1>2 DEF OfflineInv, Asks, Alert, PausesOffline

LEMMA SettingsQuiet ==
  ASSUME IndInv, OfflineInv, NEW o \in Objects, SettingsChange(o)
  PROVE  OfflineInv'
<1> DEFINE x == hosted[o]
           y == [x EXCEPT !.settingsChangedInPoll = TRUE]
<1>1. (Become(o, y) \/ Become(o, Schedule(x))) /\ online' = online
  BY DEF SettingsChange
<1>2. ASSUME Alert(x)
      PROVE  Calm(x, y) /\ Calm(x, Schedule(x))
  <2>1. IsRecord(y)
    BY <1>2, Zenon DEF Alert, IsRecord
  <2>. QED BY <1>2, <2>1, ScheduleCalm, AsideCalm DEF Alert, IsRecord, FieldNames, Aside
<1>. HIDE DEF x, y
<1>. QED BY <1>1, <1>2, BecomeCalm DEF x

LEMMA CredentialQuiet ==
  ASSUME IndInv, OfflineInv, NEW o \in Objects, CredentialChange(o)
  PROVE  OfflineInv'
<1> DEFINE x == [hosted[o] EXCEPT !.waitingForKey = FALSE]
           w == Schedule(x)
           y == [w EXCEPT !.healthSoon = @ \/ ~disposed]
<1>1. (Become(o, w) \/ Become(o, y)) /\ online' = online
  BY DEF CredentialChange
<1>2. ASSUME Alert(hosted[o])
      PROVE  Calm(hosted[o], w) /\ Calm(hosted[o], y)
  <2>1. IsRecord(x)
    BY <1>2, Zenon DEF Alert, IsRecord
  <2>2. Calm(hosted[o], x)
    BY <1>2, <2>1, AsideCalm DEF Alert, IsRecord, FieldNames, Aside
  <2>. HIDE DEF x
  <2>3. Calm(hosted[o], w)
    BY <2>2, ScheduleCalm, CalmTrans DEF Calm
  <2>. HIDE DEF w
  <2>4. IsRecord(y)
    BY <2>3, Zenon DEF Calm, Alert, IsRecord
  <2>5. Aside(w, y)
    BY <2>3, <2>4 DEF Calm, Alert, IsRecord, FieldNames, Aside
  <2>. HIDE DEF y
  <2>. QED BY <2>3, <2>5, AsideCalm, CalmTrans DEF Calm
<1>. HIDE DEF w, y
<1>. QED BY <1>1, <1>2, BecomeCalm

LEMMA PollNowQuiet ==
  ASSUME IndInv, OfflineInv, NEW o \in Objects, PollNow(o)
  PROVE  OfflineInv'
BY PollAsks, BecomeQuiet DEF PollNow, OfflineInv

LEMMA PollTimerQuiet ==
  ASSUME IndInv, OfflineInv, NEW o \in Objects, PollTimerFires(o)
  PROVE  OfflineInv'
<1> DEFINE x == [hosted[o] EXCEPT !.pollTimers = @ - 1, !.timer = "none"]
<1>1. Become(o, Poll(o, x)) /\ online' = online
  BY DEF PollTimerFires
<1>2. ASSUME Alert(hosted[o])
      PROVE  Alert(x) /\ (Asks(x) => Asks(hosted[o]))
  <2>1. IsRecord(x)
    BY <1>2, Zenon DEF Alert, IsRecord
  <2>. QED BY <1>2, <2>1 DEF Alert, IsRecord, FieldNames, Asks
<1>. HIDE DEF x
<1>. QED BY <1>1, <1>2, PollAsks, BecomeQuiet DEF OfflineInv

LEMMA AttemptQuiet ==
  ASSUME IndInv, OfflineInv, NEW o \in Objects, NEW r \in Runs,
         \/ AttemptProceeds(o, r) \/ InitializeAnswers(o, r) \/ StartFails(o, r)
         \/ Undone(o, r) \/ AttemptPublishes(o, r)
  PROVE  OfflineInv'
<1> DEFINE x == hosted[o]
           ready == [x EXCEPT !.initialized = TRUE]
           closed == [x EXCEPT !.listener = 0]
           both == [ready EXCEPT !.listener = 0]
           told == RefreshOverlays(o, x)
<1>1. online' = online
  BY DEF AttemptProceeds, InitializeAnswers, StartFails, Undone, AttemptPublishes, HostUnchanged
<1>2. ASSUME IsRecord(x)
      PROVE  /\ Aside(x, x) /\ Aside(x, ready) /\ Aside(x, closed) /\ Aside(x, both)
             /\ Aside(x, told)
  <2>1. IsRecord(ready) /\ IsRecord(closed) /\ IsRecord(both)
    BY <1>2, Zenon DEF IsRecord
  <2>2. Aside(x, x) /\ Aside(x, ready) /\ Aside(x, closed) /\ Aside(x, both)
    BY <1>2, <2>1 DEF IsRecord, FieldNames, Aside
  <2>. QED BY <1>2, <2>2, RefreshOverlaysAside
<1>3. \E y \in {x, ready, closed, both, told} :
        \/ Become(o, EndAttempt(y, r))
        \/ \E stage \in AttemptStage : Become(o, At(y, r, stage))
  <2>1. CASE AttemptProceeds(o, r)
    BY <2>1 DEF AttemptProceeds, AttemptStage
  <2>2. CASE InitializeAnswers(o, r)
    BY <2>2 DEF InitializeAnswers, AttemptStage
  <2>3. CASE StartFails(o, r)
    BY <2>3 DEF StartFails, AttemptStage
  <2>4. CASE Undone(o, r)
    BY <2>4 DEF Undone
  <2>5. CASE AttemptPublishes(o, r)
    BY <2>5 DEF AttemptPublishes
  <2>. QED BY <2>1, <2>2, <2>3, <2>4, <2>5
<1>. HIDE DEF ready, closed, both, told
<1>4. PICK y \in {x, ready, closed, both, told} :
        \/ Become(o, EndAttempt(y, r))
        \/ \E stage \in AttemptStage : Become(o, At(y, r, stage))
  BY <1>3
<1>5. ASSUME IsRecord(x), NEW stage
      PROVE  Aside(x, EndAttempt(y, r)) /\ Aside(x, At(y, r, stage))
  <2>1. Aside(x, y) /\ IsRecord(y)
    BY <1>2, <1>5 DEF Aside
  <2>. QED BY <2>1, AtAside, EndAttemptAside, AsideTrans
<1>. HIDE DEF x
<1>. QED BY <1>1, <1>4, <1>5, BecomeAside DEF x

LEMMA StartAnswersQuiet ==
  ASSUME IndInv, OfflineInv, NEW o \in Objects, NEW r \in Runs, StartAnswers(o, r)
  PROVE  OfflineInv'
<1> DEFINE x == hosted[o]
           y == [x EXCEPT !.running = TRUE, !.waitingForKey = FALSE, !.waitingForSetup = FALSE]
           v == At(x, r, "undoing")
           w == [v EXCEPT !.session = 0]
           z == IF Overtaken(x, r) THEN w
                ELSE IF o \in Streamed
                THEN [At(OpenSubscription(y), r, "subscribing") EXCEPT !.startSub = x.subs + 1]
                ELSE AfterSubscribe(o, y, r)
<1>1. Become(o, z) /\ online' = online
  BY DEF StartAnswers
<1>2. o \notin Streamed => z \in {w, AfterSubscribe(o, y, r)}
  OBVIOUS
<1>. HIDE DEF z
<1>3. ASSUME Alert(x), o \in Polled
      PROVE  Calm(x, w) /\ Calm(x, AfterSubscribe(o, y, r))
  <2>1. IsRecord(y)
    BY <1>3, Zenon DEF Alert, IsRecord
  <2>2. Calm(x, y)
    BY <1>3, <2>1 DEF Alert, IsRecord, FieldNames, Calm, Asks
  <2>3. Calm(x, AfterSubscribe(o, y, r))
    <3>. HIDE DEF y
    <3>. QED BY <1>3, <2>2, AfterSubscribeCalm, CalmTrans DEF Calm
  <2>4. Aside(x, v)
    BY <1>3, AtAside DEF Alert
  <2>. HIDE DEF v
  <2>5. IsRecord(w)
    BY <2>4, Zenon DEF Aside, IsRecord
  <2>6. Aside(x, w)
    BY <2>4, <2>5 DEF Aside, IsRecord, FieldNames
  <2>. QED BY <1>3, <2>3, <2>6, AsideCalm
<1>. HIDE DEF w, y
<1>4. o \in Polled \ Streamed => Calm(x, z)
  BY <1>2, <1>3 DEF OfflineInv
<1>. QED BY <1>1, <1>4, BecomeQuiet DEF Calm

LEMMA StopQuiet ==
  ASSUME IndInv, OfflineInv, NEW o \in Objects, StopSteps(o)
  PROVE  OfflineInv'
<1> DEFINE x == [hosted[o] EXCEPT !.stops = @ - 1]
           y == StopTail(x)
<1>1. (Become(o, y) \/ Become(o, Forget(y))) /\ online' = online
  BY DEF StopSteps, StopAnswers, UnregisterStops, HostUnchanged
<1>2. ASSUME IsRecord(hosted[o])
      PROVE  Aside(hosted[o], y) /\ Aside(hosted[o], Forget(y))
  <2>1. IsRecord(x)
    BY <1>2, Zenon DEF IsRecord
  <2>2. Aside(hosted[o], x)
    BY <1>2, <2>1 DEF IsRecord, FieldNames, Aside
  <2>. HIDE DEF x
  <2>3. Aside(hosted[o], y)
    BY <2>1, <2>2, StopTailAside, AsideTrans
  <2>. HIDE DEF y
  <2>. QED BY <2>3, ForgetAside, AsideTrans DEF Aside
<1>. HIDE DEF y
<1>. QED BY <1>1, <1>2, BecomeAside

LEMMA PollStepsQuiet ==
  ASSUME IndInv, OfflineInv, NEW o \in Objects, PollSteps(o) \/ BudgetExpires(o)
  PROVE  OfflineInv'
<1> DEFINE x == hosted[o]
           cut == [x EXCEPT !.pollCut = TRUE]
           served == [x EXCEPT !.polling = "served", !.waitingForSetup = FALSE,
                               !.waitingForKey = FALSE]
           setup == [x EXCEPT !.polling = "setup", !.waitingForSetup = TRUE]
           key == [x EXCEPT !.polling = "key", !.waitingForSetup = FALSE,
                            !.waitingForKey = TRUE]
           failed(stage) == [x EXCEPT !.polling = stage, !.waitingForSetup = FALSE]
           again == Schedule(x)
<1>1. online' = online
  BY DEF PollSteps, QueryAnswers, QueryCancelled, QueryFails, PollReported, BudgetExpires,
         HostUnchanged
<1>2. ASSUME Alert(x)
      PROVE  /\ Calm(x, cut) /\ Calm(x, served) /\ Calm(x, setup) /\ Calm(x, key)
             /\ Calm(x, failed("backoff")) /\ Calm(x, failed("never"))
  <2>1. /\ IsRecord(cut) /\ IsRecord(served) /\ IsRecord(setup) /\ IsRecord(key)
        /\ IsRecord(failed("backoff")) /\ IsRecord(failed("never"))
    BY <1>2, Zenon DEF Alert, IsRecord
  <2>2. Calm(x, cut) /\ Calm(x, served) /\ Calm(x, setup)
    BY <1>2, <2>1 DEF Alert, IsRecord, FieldNames, Calm, Asks
  <2>3. Calm(x, key) /\ Calm(x, failed("backoff")) /\ Calm(x, failed("never"))
    BY <1>2, <2>1 DEF Alert, IsRecord, FieldNames, Calm, Asks
  <2>. QED BY <2>2, <2>3
<1>3. CASE ~PollReported(o) /\ ~QueryCancelled(o)
  <2>1. \/ Become(o, cut) \/ Become(o, served) \/ Become(o, setup) \/ Become(o, key)
        \/ Become(o, failed("backoff")) \/ Become(o, failed("never"))
    BY <1>3 DEF PollSteps, QueryAnswers, QueryFails, BudgetExpires
  <2>. HIDE DEF cut, served, setup, key, failed, x
  <2>. QED BY <1>1, <1>2, <2>1, BecomeCalm DEF x
<1>4. CASE PollReported(o) \/ QueryCancelled(o)
  <2>1. \E y \in {x, again, RefreshOverlays(o, x), RefreshOverlays(o, again)} :
          Become(o, EndPoll(y))
    BY <1>4, Zenon DEF PollReported, QueryCancelled
  <2>2. ASSUME Alert(x), NEW y \in {x, again, RefreshOverlays(o, x), RefreshOverlays(o, again)}
        PROVE  Calm(x, EndPoll(y))
    <3>1. Calm(x, x) /\ Calm(x, again)
      BY <2>2, ScheduleCalm DEF Calm
    <3>. HIDE DEF again
    <3>2. Calm(x, RefreshOverlays(o, x)) /\ Calm(x, RefreshOverlays(o, again))
      BY <3>1, RefreshOverlaysAside, AsideCalm, CalmTrans DEF Calm, Alert
    <3>. QED BY <2>2, <3>1, <3>2, EndPollCalm, CalmTrans DEF Calm
  <2>. HIDE DEF x, again
  <2>. QED BY <1>1, <2>1, <2>2, BecomeCalm DEF x
<1>. QED BY <1>3, <1>4

\* A source that does not subscribe has no subscription in flight, and no retry of one.
LEMMA SubscriptionQuiet ==
  ASSUME IndInv, OfflineInv, NEW o \in Objects,
         RetryTimerFires(o) \/ \E n \in Subs : SubscriptionSteps(o, n)
  PROVE  OfflineInv'
<1>1. online' = online /\ \E y : Become(o, y)
  BY Zenon DEF RetryTimerFires, SubscriptionSteps, SessionOpens, SubscribeAnswers,
               SubscribeFails, SubscriptionReported, HostUnchanged
<1>2. \/ hosted[o].retryTimers > 0
      \/ \E n \in Subs : hosted[o].sub[n] # "none"
  <2>1. CASE RetryTimerFires(o)
    BY <2>1, Zenon DEF RetryTimerFires
  <2>2. ASSUME NEW n \in Subs, SubscriptionSteps(o, n)
        PROVE  hosted[o].sub[n] # "none"
    <3> DEFINE x == [hosted[o] EXCEPT !.session = IF @ = n THEN 0 ELSE @]
    <3>1. x.sub = hosted[o].sub
      BY DEF IndInv, Shape, IsRecord, FieldNames
    <3>2. CASE SubscribeFails(o, n)
      <4>1. x.sub[n] \in {"asked", "opening"}
        BY <3>2, Zenon DEF SubscribeFails
      <4>. HIDE DEF x
      <4>. QED BY <3>1, <4>1
    <3>3. CASE ~SubscribeFails(o, n)
      <4>1. \/ hosted[o].sub[n] \in {"asked", "opening", "telling", "failing"}
            \/ hosted[o].sub[n] = "refused"
        BY <2>2, <3>3 DEF SubscriptionSteps, SessionOpens, SubscribeAnswers,
                           SubscriptionReported
      <4>. QED BY <4>1
    <3>. QED BY <3>2, <3>3
  <2>. QED BY <2>1, <2>2
<1>3. o \notin Polled \ Streamed
  BY <1>2 DEF OfflineInv, Alert
<1>. QED BY <1>1, <1>3, BecomeQuiet

LEMMA SideQuiet ==
  ASSUME IndInv, OfflineInv, NEW o \in Objects,
         \/ Emit(o) \/ Listen(o) \/ ListenerRefuses(o) \/ ListenerClosed(o)
         \/ ListenSteps(o) \/ Refreshes(o) \/ HealthSoonFires(o)
         \/ \E override \in Report : PublishLands(o, override)
  PROVE  OfflineInv'
<1> DEFINE x == hosted[o]
           published(pubs) == [x EXCEPT !.pubs = pubs]
           asked(run) == [x EXCEPT !.listenerPending = run]
           listened(run) == [x EXCEPT !.listenerPending = 0, !.listener = run]
           refused == [x EXCEPT !.healthSoon = TRUE]
           closed == [x EXCEPT !.listener = 0]
           refreshed(some) == [x EXCEPT !.refreshing = FALSE, !.overlays = some]
           fired(pubs) == [x EXCEPT !.healthSoon = FALSE, !.pubs = pubs]
<1>1. online' = online
  BY DEF Emit, Listen, ListenerRefuses, ListenerClosed, ListenSteps, ListenAnswers,
         Refreshes, RefreshAnswers, HealthSoonFires, PublishLands, HostUnchanged
<1>2. ASSUME IsRecord(x), NEW v
      PROVE  /\ Aside(x, published(v)) /\ Aside(x, asked(v)) /\ Aside(x, listened(v))
             /\ Aside(x, refused) /\ Aside(x, closed) /\ Aside(x, refreshed(v))
             /\ Aside(x, fired(v))
  <2>1. /\ IsRecord(published(v)) /\ IsRecord(asked(v)) /\ IsRecord(listened(v))
        /\ IsRecord(refused) /\ IsRecord(closed) /\ IsRecord(refreshed(v))
        /\ IsRecord(fired(v))
    BY <1>2, Zenon DEF IsRecord
  <2>2. Aside(x, published(v)) /\ Aside(x, asked(v)) /\ Aside(x, listened(v))
    BY <1>2, <2>1 DEF IsRecord, FieldNames, Aside
  <2>3. /\ Aside(x, refused) /\ Aside(x, closed) /\ Aside(x, refreshed(v))
        /\ Aside(x, fired(v))
    BY <1>2, <2>1 DEF IsRecord, FieldNames, Aside
  <2>. QED BY <2>2, <2>3
<1>3. \E v : \/ Become(o, published(v)) \/ Become(o, asked(v)) \/ Become(o, listened(v))
             \/ Become(o, refused) \/ Become(o, closed) \/ Become(o, refreshed(v))
             \/ Become(o, fired(v))
  <2>1. CASE Emit(o) \/ \E override \in Report : PublishLands(o, override)
    BY <2>1, Zenon DEF Emit, PublishLands
  <2>2. CASE Listen(o) \/ ListenerRefuses(o) \/ ListenerClosed(o)
    BY <2>2, Zenon DEF Listen, ListenerRefuses, ListenerClosed
  <2>3. CASE ListenSteps(o) \/ Refreshes(o) \/ HealthSoonFires(o)
    BY <2>3, Zenon DEF ListenSteps, ListenAnswers, Refreshes, RefreshAnswers, HealthSoonFires
  <2>. QED BY <2>1, <2>2, <2>3
<1>. HIDE DEF published, asked, listened, refused, closed, refreshed, fired
<1>4. PICK v : \/ Become(o, published(v)) \/ Become(o, asked(v)) \/ Become(o, listened(v))
               \/ Become(o, refused) \/ Become(o, closed) \/ Become(o, refreshed(v))
               \/ Become(o, fired(v))
  BY <1>3
<1>. HIDE DEF x
<1>. QED BY <1>1, <1>2, <1>4, BecomeAside DEF x

LEMMA InitQuiet ==
  ASSUME Init
  PROVE  OfflineInv
<1>1. IsRecord(NewHosted)
  BY DEF NewHosted, IsRecord, FieldNames
<1>2. Alert(NewHosted) /\ ~Asks(NewHosted)
  BY <1>1 DEF NewHosted, Alert, Asks
<1>. QED BY <1>2, ConstantsAssumption DEF Init, OfflineInv

LEMMA NextQuiet ==
  ASSUME IndInv, OfflineInv, [Next]_vars
  PROVE  OfflineInv'
<1>1. CASE Outside
  <2>1. ASSUME NEW o \in Objects, NEW b \in BOOLEAN,
               \/ Register(o, b) \/ SetEnabled(o, b) \/ Unregister(o)
               \/ SettingsChange(o) \/ CredentialChange(o) \/ PollNow(o)
        PROVE  OfflineInv'
    BY <2>1, LifecycleQuiet, SettingsQuiet, CredentialQuiet, PollNowQuiet
  <2>2. ASSUME NEW up \in BOOLEAN, SetOnline(up)
        PROVE  OfflineInv'
    BY <2>2, SetOnlineQuiet
  <2>3. CASE Start \/ Stop \/ Dispose \/ SetViewport \/ SetPollScale
    BY <2>3, HostQuiet
  <2>. QED BY <1>1, <2>1, <2>2, <2>3 DEF Outside
<1>2. ASSUME NEW o \in Objects, Spontaneous(o)
      PROVE  OfflineInv'
  BY <1>2, SideQuiet, PollStepsQuiet DEF Spontaneous
<1>3. ASSUME NEW o \in Objects, Progress(o)
      PROVE  OfflineInv'
  <2>1. ASSUME NEW r \in Runs, AttemptSteps(o, r)
        PROVE  OfflineInv'
    BY <2>1, AttemptQuiet, StartAnswersQuiet DEF AttemptSteps
  <2>2. CASE StopSteps(o) \/ PollTimerFires(o) \/ PollSteps(o)
    BY <2>2, StopQuiet, PollTimerQuiet, PollStepsQuiet
  <2>3. CASE RetryTimerFires(o) \/ \E n \in Subs : SubscriptionSteps(o, n)
    BY <2>3, SubscriptionQuiet
  <2>4. CASE \/ Refreshes(o) \/ ListenSteps(o) \/ HealthSoonFires(o)
             \/ \E override \in Report : PublishLands(o, override)
    BY <2>4, SideQuiet
  <2>. QED BY <1>3, <2>1, <2>2, <2>3, <2>4 DEF Progress
<1>4. CASE UNCHANGED vars
  BY <1>4 DEF vars, OfflineInv, Asks, Alert, PausesOffline
<1>. QED BY <1>1, <1>2, <1>3, <1>4 DEF Next

\* While the network is away, a poll of a source that is only polled and needs the network is
\* cut when it was running and does not begin, whatever starts, stops, timers and key entries
\* come in between (setOnline, poll).
THEOREM OfflineIsQuietHolds == Spec => []OfflineIsQuiet
<1>1. Init => IndInv /\ OfflineInv
  BY InitIndInv, InitQuiet
<1>2. IndInv /\ IndInv' /\ OfflineInv /\ [Next]_vars => OfflineInv'
  BY NextQuiet
<1>3. OfflineInv => OfflineIsQuiet
  BY DEF OfflineInv, Asks, OfflineIsQuiet
<1>. QED BY <1>1, <1>2, <1>3, IndInvHolds, PTL DEF Spec
=============================================================================

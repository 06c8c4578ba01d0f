---------------------- MODULE ProviderHostServiceProofs ----------------------
(***************************************************************************)
(* Who asks a running source, for every number of objects, runs and        *)
(* subscriptions: a polled source is forgotten only by a poll that was     *)
(* cut or answered too early, and a stream has a session or something that *)
(* will open one.                                                          *)
(*                                                                         *)
(* Both are about each step of one Hosted record.  Minds(o, x, y) says     *)
(* what a step of object o from x to y must keep; there is a lemma for     *)
(* each kind of step (Alike: none of the fields matter that it changes,    *)
(* Rests: the source does not run after it, Scheduled: a timer polls) and  *)
(* one for each action.  Underway says whose a running source is: of the   *)
(* attempt that took the current run, every earlier one being over.        *)
(***************************************************************************)
EXTENDS ProviderHostProofs

Underway(o, x) ==
  /\ x.running =>
       /\ x.run \in Runs /\ x.attempt[x.run] \in {"subscribing", "publishing", "done"}
       /\ PreviousOver(x, x.run)
  /\ IF o \in Polled THEN \A r \in Runs : x.attempt[r] # "publishing" ELSE x.polling = "idle"

\* Nothing will ask it (Forgotten, whether or not the network is there).
Neglected(x) ==
  /\ x.running /\ x.pollTimers = 0 /\ x.polling = "idle"
  /\ ~x.waitingForSetup /\ ~x.waitingForKey
  /\ \A r \in Runs : x.attempt[r] \in {"none", "done"}

\* The poll ends without asking for the next.
Cut(x) == (x.polling = "asking" /\ x.pollCut) \/ x.polling \in {"never", "key", "setup"}

Reachable(o) == online \/ ~PausesOffline(o)

\* A subscription that is open needs nothing; one being opened will have a session.
Served(x) ==
  \/ x.session # 0 \/ x.retryTimers > 0
  \/ \E n \in Subs : x.sub[n] \in {"asked", "failing", "refused", "noKey"}

NeverRetried(x) ==
  x.timer # "retry" /\ x.retryTimers = 0 /\ \A n \in Subs : x.sub[n] # "failing"

\* What may cancel a retry: a poll that is scheduled instead.
MayReschedule == {"settings", "credential", "viewport", "scale"}

\* A stream that no offline switch closes and no poll timer robs of its retry.
Undisturbed(o) ==
  /\ o \in Streamed /\ ~PausesOffline(o)
  /\ "subscribeFails" \notin Inputs \/ (o \notin Polled /\ Inputs \intersect MayReschedule = {})

Tended(x) ==
  /\ x.running => Served(x)
  /\ "subscribeFails" \notin Inputs => NeverRetried(x)

Minds(o, x, y) ==
  /\ Underway(o, y)
  /\ o \in Polled /\ Reachable(o) /\ Neglected(y) => Neglected(x) \/ Cut(x)
  /\ Undisturbed(o) /\ Tended(x) => Tended(y)

Before(o, x) == Shape(x) /\ Underway(o, x) /\ (x.running => ~disposed)

-----------------------------------------------------------------------------
(* Kinds of steps.                                                         *)

Alike(x, y) ==
  /\ y.running = x.running /\ y.run = x.run /\ y.attempt = x.attempt
  /\ y.polling = x.polling /\ y.pollTimers = x.pollTimers
  /\ y.waitingForSetup = x.waitingForSetup /\ y.waitingForKey = x.waitingForKey
  /\ y.session = x.session /\ y.timer = x.timer /\ y.retryTimers = x.retryTimers
  /\ y.sub = x.sub

LEMMA AlikeMinds ==
  ASSUME NEW o, NEW x, NEW y, Underway(o, x), Alike(x, y)
  PROVE  Minds(o, x, y)
BY DEF Minds, Alike, Underway, PreviousOver, Neglected, Tended, Served, NeverRetried

\* The source does not run, and no attempt of it is about to publish that was not before.
Rests(x, y) ==
  /\ y.running = FALSE
  /\ \A r \in Runs : y.attempt[r] \in {x.attempt[r], "waiting", "initializing", "starting",
                                       "undoing", "failing", "done"}
  /\ y.polling = x.polling /\ y.sub = x.sub
  /\ x.timer # "retry" => y.timer # "retry" /\ y.retryTimers = x.retryTimers

LEMMA RestsMinds ==
  ASSUME NEW o, NEW x, NEW y, Underway(o, x), Rests(x, y)
  PROVE  Minds(o, x, y)
BY DEF Minds, Rests, Underway, Neglected, Tended, NeverRetried

\* It runs or not as it did, with the sessions it had.
SameService(x, y) ==
  /\ y.running = x.running /\ y.run = x.run
  /\ y.session = x.session /\ y.sub = x.sub

LEMMA ServiceMinds ==
  ASSUME NEW o, NEW x, NEW y, Underway(o, y), SameService(x, y),
         "subscribeFails" \in Inputs /\ Undisturbed(o) => y.retryTimers = x.retryTimers,
         x.timer # "retry" => y.timer # "retry" /\ y.retryTimers = x.retryTimers,
         ~Neglected(y) \/ Cut(x)
  PROVE  Minds(o, x, y)
BY DEF Minds, SameService, Tended, Served, NeverRetried

-----------------------------------------------------------------------------
(* What the pieces of handlers leave.                                      *)

\* Scheduled, a source that runs has a timer that polls.
LEMMA ScheduleLeaves ==
  ASSUME NEW x, Shape(x), x.running => ~disposed
  PROVE  LET y == Schedule(x) IN
         /\ SameService(x, y) /\ y.attempt = x.attempt /\ y.polling = x.polling
         /\ y.waitingForSetup = x.waitingForSetup /\ y.waitingForKey = x.waitingForKey
         /\ y.pollTimers > 0 \/ ~y.running
         /\ x.timer # "retry" => y.timer # "retry" /\ y.retryTimers = x.retryTimers
<1> DEFINE w == ClearTimer(x)
           z == [w EXCEPT !.timer = "poll", !.pollTimers = @ + 1, !.due = TRUE]
<1>1. /\ SameService(x, w) /\ w.attempt = x.attempt /\ w.polling = x.polling
      /\ w.waitingForSetup = x.waitingForSetup /\ w.waitingForKey = x.waitingForKey
      /\ w.pollTimers \in Nat /\ (x.timer # "retry" => w.retryTimers = x.retryTimers)
  BY DEF Shape, IsRecord, FieldNames, RestTyped, Timed, SameService, ClearTimer
<1>2. IsRecord(w)
  BY ClearTimerKeeps DEF Keeps
<1>. HIDE DEF w
<1>3. /\ SameService(x, z) /\ z.attempt = x.attempt /\ z.polling = x.polling
      /\ z.waitingForSetup = x.waitingForSetup /\ z.waitingForKey = x.waitingForKey
      /\ z.pollTimers > 0 /\ z.timer # "retry"
      /\ x.timer # "retry" => z.retryTimers = x.retryTimers
  BY <1>1, <1>2 DEF IsRecord, FieldNames, SameService
<1>. HIDE DEF z
<1>4. CASE x.running
  <2>1. Schedule(x) = z
    BY <1>4, Zenon DEF Schedule, z, w
  <2>. QED BY <1>3, <2>1
<1>5. CASE ~x.running
  <2>1. Schedule(x) = x
    BY <1>5, Zenon DEF Schedule
  <2>. QED BY <1>5, <2>1 DEF SameService
<1>. QED BY <1>4, <1>5
LEMMA AlikeTrans ==
  ASSUME NEW x, NEW y, NEW z, Alike(x, y), Alike(y, z)
  PROVE  Alike(x, z)
BY DEF Alike

LEMMA AlikeRests ==
  ASSUME NEW x, NEW y, NEW z, (Alike(x, y) /\ Rests(y, z)) \/ (Rests(x, y) /\ Alike(y, z))
  PROVE  Rests(x, z)
BY DEF Alike, Rests

LEMMA ClearTimerLeaves ==
  ASSUME NEW x, IsRecord(x)
  PROVE  LET y == ClearTimer(x) IN
         /\ IsRecord(y) /\ SameService(x, y) /\ y.attempt = x.attempt
         /\ y.polling = x.polling /\ y.timer = "none"
         /\ x.timer # "retry" => y.retryTimers = x.retryTimers
<1>1. IsRecord(ClearTimer(x))
  BY Zenon DEF IsRecord, ClearTimer
<1>. QED BY <1>1 DEF IsRecord, FieldNames, SameService, ClearTimer

LEMMA StopTailLeaves ==
  ASSUME NEW x, IsRecord(x)
  PROVE  IsRecord(StopTail(x)) /\ Alike(x, StopTail(x))
<1>1. IsRecord(StopTail(x))
  BY Zenon DEF IsRecord, StopTail
<1>. QED BY <1>1 DEF IsRecord, FieldNames, Alike, StopTail

LEMMA ForgetLeaves ==
  ASSUME NEW x, IsRecord(x)
  PROVE  Alike(x, Forget(x))
BY DEF IsRecord, FieldNames, Alike, Forget

LEMMA RefreshOverlaysLeaves ==
  ASSUME NEW o, NEW x, IsRecord(x)
  PROVE  IsRecord(RefreshOverlays(o, x)) /\ Alike(x, RefreshOverlays(o, x))
<1> DEFINE y == [x EXCEPT !.refreshing = TRUE]
<1>1. IsRecord(y)
  BY Zenon DEF IsRecord
<1>2. Alike(x, y) /\ Alike(x, x)
  BY <1>1 DEF IsRecord, FieldNames, Alike
<1>. QED BY <1>1, <1>2, Zenon DEF RefreshOverlays

LEMMA CancelPollLeaves ==
  ASSUME NEW x, IsRecord(x)
  PROVE  LET y == CancelPoll(x) IN
         /\ IsRecord(y) /\ y.running = x.running /\ y.run = x.run /\ y.attempt = x.attempt
         /\ y.polling = x.polling /\ y.sub = x.sub /\ y.timer = "none"
         /\ x.timer # "retry" => y.retryTimers = x.retryTimers
<1> DEFINE w == ClearTimer(x)
           y == [w EXCEPT !.due = FALSE, !.abort = None,
                          !.pollCut = @ \/ x.abort = PollSignal,
                          !.session = IF x.abort = @ THEN 0 ELSE @]
<1>1. /\ IsRecord(w) /\ w.running = x.running /\ w.run = x.run /\ w.attempt = x.attempt
      /\ w.polling = x.polling /\ w.sub = x.sub /\ w.timer = "none"
      /\ x.timer # "retry" => w.retryTimers = x.retryTimers
  BY ClearTimerLeaves DEF SameService
<1>2. y = CancelPoll(x)
  BY DEF CancelPoll
<1>. HIDE DEF w
<1>3. IsRecord(y)
  BY <1>1, Zenon DEF IsRecord
<1>4. /\ y.running = w.running /\ y.run = w.run /\ y.attempt = w.attempt
      /\ y.polling = w.polling /\ y.sub = w.sub /\ y.timer = w.timer
      /\ y.retryTimers = w.retryTimers
  BY <1>1 DEF IsRecord, FieldNames
<1>. HIDE DEF y
<1>. QED BY <1>1, <1>2, <1>3, <1>4

LEMMA StopNowLeaves ==
  ASSUME NEW x, IsRecord(x), x.running \in BOOLEAN
  PROVE  IsRecord(StopNow(x)) /\ Rests(x, StopNow(x))
<1> DEFINE w == CancelPoll(x)
           y == [w EXCEPT !.run = @ + 1, !.starting = FALSE,
                          !.session = IF x.unsubscribe = @ THEN 0 ELSE @,
                          !.unsubscribe = 0]
           z == [y EXCEPT !.running = FALSE, !.session = 0, !.stops = @ + 1]
<1>1. /\ IsRecord(w) /\ w.running = x.running /\ w.attempt = x.attempt
      /\ w.polling = x.polling /\ w.sub = x.sub /\ w.timer = "none"
      /\ x.timer # "retry" => w.retryTimers = x.retryTimers
  BY CancelPollLeaves
<1>2. StopNow(x) = IF x.running THEN z ELSE StopTail(y)
  BY DEF StopNow
<1>. HIDE DEF w
<1>3. IsRecord(y)
  BY <1>1, Zenon DEF IsRecord
<1>4. /\ y.running = x.running /\ y.attempt = x.attempt
      /\ y.polling = x.polling /\ y.sub = x.sub /\ y.timer = "none"
      /\ x.timer # "retry" => y.retryTimers = x.retryTimers
  BY <1>1, <1>3 DEF IsRecord, FieldNames
<1>. HIDE DEF y
<1>5. IsRecord(z)
  BY <1>3, Zenon DEF IsRecord
<1>6. Rests(x, z)
  BY <1>3, <1>4 DEF IsRecord, FieldNames, Rests
<1>7. ~x.running => Rests(x, y)
  BY <1>4 DEF Rests
<1>8. IsRecord(StopTail(y)) /\ (~x.running => Rests(x, StopTail(y)))
  BY <1>3, <1>7, StopTailLeaves, AlikeRests
<1>. HIDE DEF z
<1>. QED BY <1>2, <1>5, <1>6, <1>8

LEMMA BeginStartLeaves ==
  ASSUME NEW x, IsRecord(x), x.attempt \in [Runs -> AttemptStage], x.running = FALSE
  PROVE  Rests(x, BeginStart(x))
<1> DEFINE first == \A r \in Runs : x.attempt[r] = "none"
           stage == IF first THEN "initializing" ELSE "waiting"
           y == [x EXCEPT !.run = @ + 1, !.starting = TRUE,
                          !.attempt = [@ EXCEPT ![x.run + 1] = stage]]
<1>1. y = BeginStart(x)
  BY DEF BeginStart
<1>2. stage \in {"initializing", "waiting"}
  OBVIOUS
<1>. HIDE DEF stage
<1>3. /\ y.running = x.running /\ y.attempt = [x.attempt EXCEPT ![x.run + 1] = stage]
      /\ y.polling = x.polling /\ y.sub = x.sub /\ y.timer = x.timer
      /\ y.retryTimers = x.retryTimers
  BY DEF IsRecord, FieldNames
<1>4. \A r \in Runs : y.attempt[r] \in {x.attempt[r], stage}
  BY <1>3
<1>. HIDE DEF y
<1>. QED BY <1>1, <1>2, <1>3, <1>4 DEF Rests
\* Only the stage of attempt r has changed.
Stages(x, y, r, stage) ==
  /\ IsRecord(y) /\ SameService(x, y) /\ y.attempt = [x.attempt EXCEPT ![r] = stage]
  /\ y.polling = x.polling /\ y.pollTimers = x.pollTimers
  /\ y.timer = x.timer /\ y.retryTimers = x.retryTimers

LEMMA AtLeaves ==
  ASSUME NEW x, IsRecord(x), NEW r, NEW stage
  PROVE  Stages(x, At(x, r, stage), r, stage)
<1>1. IsRecord(At(x, r, stage))
  BY Zenon DEF IsRecord, At
<1>. QED BY <1>1 DEF IsRecord, FieldNames, Stages, SameService, At

LEMMA EndAttemptLeaves ==
  ASSUME NEW x, IsRecord(x), NEW r
  PROVE  Stages(x, EndAttempt(x, r), r, "done")
<1> DEFINE w == At(x, r, "done")
           y == [w EXCEPT !.starting = IF x.run = r THEN FALSE ELSE @]
<1>1. Stages(x, w, r, "done")
  BY AtLeaves
<1>2. y = EndAttempt(x, r)
  BY DEF EndAttempt
<1>. HIDE DEF w
<1>3. IsRecord(y)
  BY <1>1, Zenon DEF Stages, IsRecord
<1>4. Stages(x, y, r, "done")
  BY <1>1, <1>3 DEF IsRecord, FieldNames, Stages, SameService
<1>. QED BY <1>2, <1>4

LEMMA StagesRests ==
  ASSUME NEW x, NEW y, NEW r \in Runs, Shape(x), ~x.running,
         NEW stage \in {"waiting", "initializing", "starting", "undoing", "failing", "done"},
         Stages(x, y, r, stage)
  PROVE  Rests(x, y)
<1>1. \A q \in Runs : y.attempt[q] \in {x.attempt[q], stage}
  BY DEF Stages, Shape, LifeTyped
<1>. QED BY <1>1 DEF Stages, SameService, Rests, Shape, LifeTyped

\* While a source runs, only the attempt that took its run may be in flight, past start().
LEMMA WhileRunning ==
  ASSUME NEW o, NEW x, Shape(x), Underway(o, x), x.running, NEW r \in Runs, InFlight(x, r)
  PROVE  r = x.run /\ x.attempt[r] \in {"subscribing", "publishing"}
<1>1. r <= x.run
  BY ConstantsAssumption DEF Shape, Sound, LifeTyped, InFlight, Runs
<1>2. ~(r < x.run)
  BY DEF Underway, PreviousOver, InFlight
<1>3. r = x.run
  BY <1>1, <1>2, ConstantsAssumption DEF Shape, LifeTyped, Runs
<1>. QED BY <1>3 DEF Underway, InFlight

LEMMA AfterSubscribeLeaves ==
  ASSUME NEW o, NEW x, Shape(x), x.running => ~disposed, NEW r
  PROVE  LET y == AfterSubscribe(o, x, r) IN
         /\ SameService(x, y) /\ y.polling = x.polling
         /\ y.attempt = [x.attempt EXCEPT ![r] = IF o \in Polled THEN "done" ELSE "publishing"]
         /\ o \in Polled => y.pollTimers > 0 \/ ~y.running
         /\ o \notin Polled => y.retryTimers = x.retryTimers /\ y.timer = x.timer
         /\ x.timer # "retry" => y.timer # "retry" /\ y.retryTimers = x.retryTimers
<1>1. CASE o \in Polled
  <2> DEFINE v == Schedule(x)
             w == RefreshOverlays(o, v)
             y == EndAttempt(w, r)
  <2>1. /\ IsRecord(v) /\ SameService(x, v) /\ v.attempt = x.attempt
        /\ v.polling = x.polling /\ (v.pollTimers > 0 \/ ~v.running)
        /\ x.timer # "retry" => v.timer # "retry" /\ v.retryTimers = x.retryTimers
    BY ScheduleLeaves, ScheduleKeeps DEF Keeps
  <2>2. y = AfterSubscribe(o, x, r)
    BY <1>1 DEF AfterSubscribe
  <2>. HIDE DEF v
  <2>3. IsRecord(w) /\ Alike(v, w)
    BY <2>1, RefreshOverlaysLeaves
  <2>. HIDE DEF w
  <2>4. Stages(w, y, r, "done")
    BY <2>3, EndAttemptLeaves
  <2>. HIDE DEF y
  <2>. QED BY <1>1, <2>1, <2>2, <2>3, <2>4 DEF Stages, Alike, SameService
<1>2. CASE o \notin Polled
  <2> DEFINE y == At(x, r, "publishing")
  <2>1. Stages(x, y, r, "publishing")
    BY AtLeaves DEF Shape
  <2>2. y = AfterSubscribe(o, x, r)
    BY <1>2 DEF AfterSubscribe
  <2>. HIDE DEF y
  <2>. QED BY <1>2, <2>1, <2>2 DEF Stages
<1>. QED BY <1>1, <1>2

\* The attempt of a start that awaited its subscription goes on.
LEMMA AfterSubscribeMinds ==
  ASSUME NEW o, NEW x, Before(o, x), NEW r \in Runs, x.attempt[r] = "subscribing"
  PROVE  Minds(o, x, AfterSubscribe(o, x, r))
<1> DEFINE y == AfterSubscribe(o, x, r)
           stage == IF o \in Polled THEN "done" ELSE "publishing"
<1>1. /\ SameService(x, y) /\ y.polling = x.polling
      /\ y.attempt = [x.attempt EXCEPT ![r] = stage]
      /\ o \in Polled => y.pollTimers > 0 \/ ~y.running
      /\ o \notin Polled => y.retryTimers = x.retryTimers /\ y.timer = x.timer
      /\ x.timer # "retry" => y.timer # "retry" /\ y.retryTimers = x.retryTimers
  BY AfterSubscribeLeaves DEF Before
<1>. HIDE DEF y
<1>2. \A q \in Runs : y.attempt[q] = IF q = r THEN stage ELSE x.attempt[q]
  BY <1>1 DEF Before, Shape, LifeTyped
<1>3. x.running => r = x.run
  BY WhileRunning DEF Before, InFlight
<1>4. Underway(o, y)
  BY <1>1, <1>2, <1>3 DEF Before, Underway, SameService, PreviousOver
<1>5. o \in Polled => ~Neglected(y)
  BY <1>1 DEF Neglected
<1>6. "subscribeFails" \in Inputs /\ Undisturbed(o) => y.retryTimers = x.retryTimers
  BY <1>1 DEF Undisturbed
<1>. QED BY <1>1, <1>4, <1>5, <1>6 DEF Minds, SameService, Tended, Served, NeverRetried, y

LEMMA ResumeMinds ==
  ASSUME NEW o, NEW x, Before(o, x), NEW n \in Subs
  PROVE  Minds(o, x, Resume(o, x, n))
<1>1. CASE x.startSub = n
  <2> DEFINE y == [x EXCEPT !.startSub = 0]
             r == CHOOSE q \in Runs : x.attempt[q] = "subscribing"
  <2>1. n # 0
    BY ConstantsAssumption DEF Subs
  <2>2. r \in Runs /\ x.attempt[r] = "subscribing"
    BY <1>1, <2>1 DEF Before, Shape, Sound
  <2>3. Alike(x, y) /\ y.startSub = 0 /\ y.pollCut = x.pollCut
    BY DEF Before, Shape, IsRecord, FieldNames, Alike
  <2>4. IsRecord(y)
    BY Zenon DEF Before, Shape, IsRecord
  <2>5. RestTyped(y) /\ Timed(y) /\ LifeTyped(y) /\ Sound(y)
    <3>1. /\ RestTyped(y) /\ Timed(y)
          /\ y.listed = x.listed /\ y.removed = x.removed /\ y.enabled = x.enabled
          /\ y.initialized = x.initialized /\ y.running = x.running
          /\ y.starting = x.starting /\ y.run = x.run /\ y.attempt = x.attempt
          /\ y.stops = x.stops /\ y.leaving = x.leaving
      BY DEF Before, Shape, IsRecord, FieldNames, RestTyped, Timed
    <3>. HIDE DEF y
    <3>2. LifeTyped(y)
      BY <2>3, <3>1, ConstantsAssumption DEF Before, Shape, LifeTyped
    <3>3. Sound(y)
      BY <2>3, <3>1 DEF Before, Shape, Sound, InFlight, PreviousOver
    <3>. QED BY <3>1, <3>2, <3>3
  <2>6. Resume(o, x, n) = AfterSubscribe(o, y, r)
    BY <1>1 DEF Resume
  <2>. HIDE DEF y, r
  <2>7. Before(o, y)
    BY <2>3, <2>4, <2>5 DEF Before, Shape, Alike, Underway, PreviousOver
  <2>8. Minds(o, y, AfterSubscribe(o, y, r))
    BY <2>2, <2>3, <2>7, AfterSubscribeMinds DEF Alike
  <2>. QED BY <2>3, <2>6, <2>8
           DEF Minds, Alike, Neglected, Cut, Tended, Served, NeverRetried
<1>2. CASE x.startSub # n
  <2>1. Resume(o, x, n) = x /\ Alike(x, x)
    BY <1>2 DEF Resume, Alike
  <2>. QED BY <2>1, AlikeMinds DEF Before
<1>. QED BY <1>1, <1>2
\* poll() asks, or leaves things as they are.
LEMMA PollLeaves ==
  ASSUME NEW o, NEW x, IsRecord(x)
  PROVE  \/ Alike(x, Poll(o, x)) /\ (Reachable(o) => ~x.running \/ o \notin Polled \/ x.polling # "idle")
         \/ /\ o \in Polled
            /\ SameService(x, Poll(o, x)) /\ Poll(o, x).attempt = x.attempt
            /\ Poll(o, x).polling = "asking"
            /\ Poll(o, x).timer = x.timer /\ Poll(o, x).retryTimers = x.retryTimers
<1> DEFINE y == [x EXCEPT !.pubs = @ \union {"OFFLINE"}]
           z == [x EXCEPT !.polling = "asking", !.pollCut = FALSE, !.due = FALSE,
                          !.abort = PollSignal]
<1>1. Alike(x, x) /\ Alike(x, y)
  BY DEF IsRecord, FieldNames, Alike
<1>2. /\ SameService(x, z) /\ z.attempt = x.attempt /\ z.polling = "asking"
      /\ z.timer = x.timer /\ z.retryTimers = x.retryTimers
  BY DEF IsRecord, FieldNames, SameService
<1>3. CASE ~x.running \/ o \notin Polled \/ x.polling # "idle"
  <2>1. Poll(o, x) = x
    BY <1>3, Zenon DEF Poll
  <2>. QED BY <1>1, <1>3, <2>1
<1>4. CASE ~(~x.running \/ o \notin Polled \/ x.polling # "idle") /\ PausesOffline(o) /\ ~online
  <2>1. Poll(o, x) = y
    BY <1>4, Zenon DEF Poll
  <2>. QED BY <1>1, <1>4, <2>1 DEF Reachable
<1>5. CASE /\ ~(~x.running \/ o \notin Polled \/ x.polling # "idle")
           /\ ~(PausesOffline(o) /\ ~online)
  <2>1. Poll(o, x) = z
    BY <1>5, Zenon DEF Poll
  <2>. QED BY <1>2, <1>5, <2>1
<1>. QED BY <1>3, <1>4, <1>5

\* The end of a poll that is scheduled again, or was cut.
LEMMA EndPollLeaves ==
  ASSUME NEW x, Shape(x), x.running => ~disposed
  PROVE  LET y == EndPoll(x) IN
         /\ SameService(x, y) /\ y.attempt = x.attempt /\ y.polling = "idle"
         /\ x.pollTimers > 0 => y.pollTimers > 0 \/ ~y.running
         /\ x.timer # "retry" => y.timer # "retry" /\ y.retryTimers = x.retryTimers
<1> DEFINE y == [x EXCEPT !.polling = "idle", !.pollCut = FALSE,
                          !.abort = IF @ = PollSignal THEN None ELSE @,
                          !.settingsChangedInPoll = FALSE]
<1>1. /\ SameService(x, y) /\ y.attempt = x.attempt /\ y.polling = "idle"
      /\ y.pollTimers = x.pollTimers /\ y.timer = x.timer /\ y.retryTimers = x.retryTimers
      /\ SameLife(x, y) /\ RestTyped(y) /\ Timed(y)
  BY ConstantsAssumption
  DEF Shape, IsRecord, FieldNames, SameService, SameLife, RestTyped, Timed, PollStage,
      PollSignal, None
<1>2. IsRecord(y)
  BY Zenon DEF Shape, IsRecord
<1>3. EndPoll(x) = y \/ EndPoll(x) = Schedule(y)
  BY Zenon DEF EndPoll
<1>. HIDE DEF y
<1>4. Shape(y)
  BY <1>1, <1>2, KeepsShape DEF Keeps
<1>5. y.running => ~disposed
  BY <1>1 DEF SameService
<1> DEFINE z == Schedule(y)
<1>6. /\ SameService(y, z) /\ z.attempt = y.attempt /\ z.polling = y.polling
      /\ z.pollTimers > 0 \/ ~z.running
      /\ y.timer # "retry" => z.timer # "retry" /\ z.retryTimers = y.retryTimers
  BY <1>4, <1>5, ScheduleLeaves
<1>. HIDE DEF z
<1>7. EndPoll(x) = y \/ EndPoll(x) = z
  BY <1>3 DEF z
<1>. QED BY <1>1, <1>6, <1>7 DEF SameService

-----------------------------------------------------------------------------
(* Every action.                                                           *)

ServiceInv == \A o \in Objects : Underway(o, hosted[o])

AllMind == \A o \in Objects : Minds(o, hosted[o], hosted'[o])

LEMMA BeforeHolds ==
  ASSUME IndInv, ServiceInv, NEW o \in Objects
  PROVE  Before(o, hosted[o]) /\ LocallyWanted(hosted[o])
BY DEF IndInv, ServiceInv, Before, HostIsUp, InUse

LEMMA BecomeMinds ==
  ASSUME IndInv, ServiceInv, NEW o \in Objects, NEW y, Become(o, y), Minds(o, hosted[o], y)
  PROVE  AllMind
<1>1. \A p \in Objects : hosted'[p] = IF p = o THEN y ELSE hosted[p]
  BY DEF IndInv, Become
<1>2. ASSUME NEW p \in Objects, p # o
      PROVE  Minds(p, hosted[p], hosted'[p])
  <2>1. hosted'[p] = hosted[p] /\ Alike(hosted[p], hosted'[p])
    BY <1>1, <1>2 DEF Alike
  <2>. QED BY <2>1, AlikeMinds DEF ServiceInv
<1>. QED BY <1>1, <1>2 DEF AllMind

LEMMA BecomeAlike ==
  ASSUME IndInv, ServiceInv, NEW o \in Objects, NEW y, Become(o, y),
         IsRecord(hosted[o]) => Alike(hosted[o], y)
  PROVE  AllMind
BY BecomeMinds, AlikeMinds DEF IndInv, Shape, ServiceInv

LEMMA BecomeRests ==
  ASSUME IndInv, ServiceInv, NEW o \in Objects, NEW y, Become(o, y),
         Before(o, hosted[o]) => Rests(hosted[o], y)
  PROVE  AllMind
BY BecomeMinds, RestsMinds, BeforeHolds DEF Before

LEMMA StartIfWantedLeaves ==
  ASSUME NEW x, IsRecord(x), x.attempt \in [Runs -> AttemptStage], x.running \in BOOLEAN
  PROVE  Alike(x, StartIfWanted(x)) \/ Rests(x, StartIfWanted(x))
<1>1. CASE x.enabled /\ started /\ CanStart(x)
  <2>1. x.running = FALSE
    BY <1>1 DEF CanStart
  <2>2. StartIfWanted(x) = BeginStart(x)
    BY <1>1, Zenon DEF StartIfWanted
  <2>. QED BY <2>1, <2>2, BeginStartLeaves
<1>2. CASE ~(x.enabled /\ started /\ CanStart(x))
  <2>1. StartIfWanted(x) = x
    BY <1>2, Zenon DEF StartIfWanted
  <2>. QED BY <2>1 DEF Alike
<1>. QED BY <1>1, <1>2

LEMMA LifecycleMinds ==
  ASSUME IndInv, ServiceInv, NEW o \in Objects, NEW b \in BOOLEAN,
         Register(o, b) \/ SetEnabled(o, b) \/ Unregister(o)
  PROVE  AllMind
<1> DEFINE x == hosted[o]
           entered == [x EXCEPT !.listed = "yes", !.enabled = b]
           set == [x EXCEPT !.enabled = b]
           removed == [x EXCEPT !.enabled = FALSE, !.removed = TRUE]
<1>1. Before(o, x)
  BY BeforeHolds
<1>2. IsRecord(entered) /\ IsRecord(set) /\ IsRecord(removed)
  BY <1>1, Zenon DEF Before, Shape, IsRecord
<1>3. Alike(x, entered) /\ Alike(x, set) /\ Alike(x, removed)
  BY <1>1, <1>2 DEF Before, Shape, IsRecord, FieldNames, Alike
<1>4. x.attempt \in [Runs -> AttemptStage] /\ x.running \in BOOLEAN
  BY <1>1 DEF Before, Shape, LifeTyped
<1>5. CASE Register(o, b)
  <2>1. Become(o, StartIfWanted(entered))
    BY <1>5 DEF Register
  <2>. HIDE DEF entered, x
  <2>2. Alike(x, StartIfWanted(entered)) \/ Rests(x, StartIfWanted(entered))
    BY <1>2, <1>3, <1>4, StartIfWantedLeaves, AlikeTrans, AlikeRests DEF Alike
  <2>. QED BY <2>1, <2>2, BecomeAlike, BecomeRests DEF x
<1>6. CASE SetEnabled(o, b)
  <2>1. Become(o, StartIfWanted(set)) \/ Become(o, StopNow(set))
    BY <1>6 DEF SetEnabled
  <2>. HIDE DEF set, x
  <2>2. Alike(x, StartIfWanted(set)) \/ Rests(x, StartIfWanted(set))
    BY <1>2, <1>3, <1>4, StartIfWantedLeaves, AlikeTrans, AlikeRests DEF Alike
  <2>3. Rests(x, StopNow(set))
    BY <1>2, <1>3, <1>4, StopNowLeaves, AlikeRests DEF Alike
  <2>. QED BY <2>1, <2>2, <2>3, BecomeAlike, BecomeRests DEF x
<1>7. CASE Unregister(o)
  <2> DEFINE y == StopNow(removed)
             z == [y EXCEPT !.leaving = TRUE]
  <2>1. Become(o, z) \/ Become(o, Forget(y))
    BY <1>7 DEF Unregister
  <2>. HIDE DEF removed, x
  <2>2. IsRecord(y) /\ Rests(x, y)
    BY <1>2, <1>3, <1>4, StopNowLeaves, AlikeRests DEF Alike
  <2>. HIDE DEF y
  <2>3. Alike(y, z) /\ Alike(y, Forget(y))
    BY <2>2, ForgetLeaves DEF IsRecord, FieldNames, Alike
  <2>. HIDE DEF z
  <2>4. Rests(x, z) /\ Rests(x, Forget(y))
    BY <2>2, <2>3, AlikeRests
  <2>. QED BY <2>1, <2>4, BecomeRests DEF x
<1>. QED BY <1>5, <1>6, <1>7
LEMMA ScheduleMinds ==
  ASSUME NEW o, NEW x, Before(o, x), "subscribeFails" \in Inputs => ~Undisturbed(o)
  PROVE  Minds(o, x, Schedule(x))
<1> DEFINE y == Schedule(x)
<1>1. /\ SameService(x, y) /\ y.attempt = x.attempt /\ y.polling = x.polling
      /\ y.pollTimers > 0 \/ ~y.running
      /\ x.timer # "retry" => y.timer # "retry" /\ y.retryTimers = x.retryTimers
  BY ScheduleLeaves DEF Before
<1>. HIDE DEF y
<1>2. Underway(o, y)
  BY <1>1 DEF Before, Underway, SameService, PreviousOver
<1>3. ~Neglected(y)
  BY <1>1 DEF Neglected
<1>4. Minds(o, x, y)
  BY <1>1, <1>2, <1>3, ServiceMinds
<1>. QED BY <1>4 DEF y

LEMMA HostMinds ==
  ASSUME IndInv, ServiceInv, Start \/ Stop \/ Dispose \/ SetViewport \/ SetPollScale
  PROVE  AllMind
<1>1. ASSUME NEW o \in Objects
      PROVE  Minds(o, hosted[o], hosted'[o])
  <2>1. Before(o, hosted[o]) /\ Underway(o, hosted[o])
    BY BeforeHolds DEF Before
  <2>2. \/ hosted'[o] = hosted[o]
        \/ hosted'[o] = BeginStart(hosted[o]) /\ CanStart(hosted[o])
        \/ hosted'[o] = StopNow(hosted[o])
        \/ hosted'[o] = Schedule(hosted[o]) /\ Inputs \intersect MayReschedule # {}
    BY DEF Start, Stop, Dispose, StopAll, SetViewport, SetPollScale, MayReschedule
  <2>3. Alike(hosted[o], hosted[o])
    BY DEF Alike
  <2>4. CanStart(hosted[o]) => Rests(hosted[o], BeginStart(hosted[o]))
    BY <2>1, BeginStartLeaves DEF Before, Shape, LifeTyped, CanStart
  <2>5. Rests(hosted[o], StopNow(hosted[o]))
    BY <2>1, StopNowLeaves DEF Before, Shape, LifeTyped
  <2>6. Inputs \intersect MayReschedule # {} => Minds(o, hosted[o], Schedule(hosted[o]))
    BY <2>1, ScheduleMinds DEF Undisturbed
  <2>. QED BY <2>1, <2>2, <2>3, <2>4, <2>5, <2>6, AlikeMinds, RestsMinds
<1>. QED BY <1>1 DEF AllMind

LEMMA SettingsMinds ==
  ASSUME IndInv, ServiceInv, NEW o \in Objects, SettingsChange(o)
  PROVE  AllMind
<1> DEFINE x == hosted[o]
           y == [x EXCEPT !.settingsChangedInPoll = TRUE]
<1>1. Become(o, y) \/ Become(o, Schedule(x))
  BY DEF SettingsChange
<1>2. IsRecord(x) => Alike(x, y)
  BY DEF IsRecord, FieldNames, Alike
<1>3. Minds(o, x, Schedule(x))
  BY BeforeHolds, ScheduleMinds DEF SettingsChange, Undisturbed, MayReschedule
<1>. HIDE DEF x, y
<1>. QED BY <1>1, <1>2, <1>3, BecomeAlike, BecomeMinds DEF x

LEMMA CredentialMinds ==
  ASSUME IndInv, ServiceInv, NEW o \in Objects, CredentialChange(o)
  PROVE  AllMind
<1> DEFINE x == hosted[o]
           v == [x EXCEPT !.waitingForKey = FALSE]
           w == Schedule(v)
           y == [w EXCEPT !.healthSoon = @ \/ ~disposed]
<1>1. Become(o, w) \/ Become(o, y)
  BY DEF CredentialChange
<1>2. Before(o, x)
  BY BeforeHolds
<1>3. IsRecord(v)
  BY <1>2, Zenon DEF Before, Shape, IsRecord
<1>4. /\ SameService(x, v) /\ v.attempt = x.attempt /\ v.polling = x.polling
      /\ v.timer = x.timer /\ v.retryTimers = x.retryTimers
      /\ SameLife(x, v) /\ RestTyped(v) /\ Timed(v)
  BY <1>2, <1>3 DEF Before, Shape, IsRecord, FieldNames, SameService, SameLife, RestTyped, Timed
<1>. HIDE DEF v
<1>5. Shape(v) /\ (v.running => ~disposed)
  BY <1>2, <1>3, <1>4, KeepsShape DEF Keeps, Before, SameService
<1>6. /\ SameService(v, w) /\ w.attempt = v.attempt /\ w.polling = v.polling
      /\ w.pollTimers > 0 \/ ~w.running
      /\ v.timer # "retry" => w.timer # "retry" /\ w.retryTimers = v.retryTimers
  BY <1>5, ScheduleLeaves
<1>7. IsRecord(w)
  BY <1>5, ScheduleKeeps DEF Keeps
<1>. HIDE DEF w
<1>8. Alike(w, y)
  BY <1>7 DEF IsRecord, FieldNames, Alike
<1>9. "subscribeFails" \in Inputs => ~Undisturbed(o)
  BY DEF CredentialChange, Undisturbed, MayReschedule
<1>. HIDE DEF x, y
<1>10. ASSUME NEW z \in {w, y}
       PROVE  Minds(o, x, z)
  <2>1. /\ SameService(x, z) /\ z.attempt = x.attempt /\ z.polling = x.polling
        /\ z.pollTimers > 0 \/ ~z.running
        /\ x.timer # "retry" => z.timer # "retry" /\ z.retryTimers = x.retryTimers
    BY <1>4, <1>6, <1>8 DEF SameService, Alike
  <2>2. Underway(o, z)
    BY <1>2, <2>1 DEF Before, Underway, SameService, PreviousOver
  <2>3. ~Neglected(z)
    BY <2>1 DEF Neglected
  <2>. QED BY <1>9, <2>1, <2>2, <2>3, ServiceMinds
<1>. QED BY <1>1, <1>10, BecomeMinds DEF x

LEMMA PollMinds ==
  ASSUME NEW o, NEW x, NEW v, Underway(o, x), IsRecord(v), SameService(x, v),
         v.attempt = x.attempt, v.polling = x.polling,
         v = x \/ (v.timer # "retry" /\ v.retryTimers = x.retryTimers)
  PROVE  Minds(o, x, Poll(o, v))
<1> DEFINE y == Poll(o, v)
<1>1. \/ Alike(v, y) /\ (Reachable(o) => ~v.running \/ o \notin Polled \/ v.polling # "idle")
      \/ /\ o \in Polled /\ SameService(v, y) /\ y.attempt = v.attempt /\ y.polling = "asking"
         /\ y.timer = v.timer /\ y.retryTimers = v.retryTimers
  BY PollLeaves
<1>. HIDE DEF y
<1>2. Underway(o, y)
  BY <1>1 DEF Alike, SameService, Underway, PreviousOver
<1>3. o \in Polled /\ Reachable(o) => ~Neglected(y)
  BY <1>1 DEF Alike, Neglected
<1>4. Tended(x) => Tended(y)
  BY <1>1 DEF Alike, SameService, Tended, Served, NeverRetried
<1>. QED BY <1>2, <1>3, <1>4 DEF Minds, y

LEMMA PollNowMinds ==
  ASSUME IndInv, ServiceInv, NEW o \in Objects, PollNow(o)
  PROVE  AllMind
<1>1. IsRecord(hosted[o]) /\ Underway(o, hosted[o]) /\ SameService(hosted[o], hosted[o])
  BY BeforeHolds DEF Before, Shape, SameService
<1>. QED BY <1>1, PollMinds, BecomeMinds DEF PollNow

LEMMA PollTimerMinds ==
  ASSUME IndInv, ServiceInv, NEW o \in Objects, PollTimerFires(o)
  PROVE  AllMind
<1> DEFINE x == hosted[o]
           v == [x EXCEPT !.pollTimers = @ - 1, !.timer = "none"]
<1>1. Become(o, Poll(o, v))
  BY DEF PollTimerFires
<1>2. IsRecord(x) /\ Underway(o, x)
  BY BeforeHolds DEF Before, Shape
<1>3. IsRecord(v)
  BY <1>2, Zenon DEF IsRecord
<1>4. /\ SameService(x, v) /\ v.attempt = x.attempt /\ v.polling = x.polling
      /\ v.timer = "none" /\ v.retryTimers = x.retryTimers
  BY <1>2, <1>3 DEF IsRecord, FieldNames, SameService
<1>. HIDE DEF v, x
<1>. QED BY <1>1, <1>2, <1>3, <1>4, PollMinds, BecomeMinds DEF x
\* An attempt that has not reached its subscription finds the source at rest.
LEMMA EarlyStage ==
  ASSUME NEW o, NEW x, NEW v, NEW y, Before(o, x), NEW r \in Runs,
         InFlight(x, r), x.attempt[r] \notin {"subscribing", "publishing"}, Alike(x, v),
         NEW stage \in {"waiting", "initializing", "starting", "undoing", "failing", "done"},
         Stages(v, y, r, stage)
  PROVE  Rests(x, y)
<1>1. x.running = FALSE
  BY WhileRunning DEF Before, Shape, LifeTyped
<1>2. /\ y.attempt = [x.attempt EXCEPT ![r] = stage] /\ y.running = x.running
      /\ y.polling = x.polling /\ y.sub = x.sub /\ y.timer = x.timer
      /\ y.retryTimers = x.retryTimers
  BY DEF Stages, SameService, Alike
<1>3. \A q \in Runs : y.attempt[q] \in {x.attempt[q], stage}
  BY <1>2 DEF Before, Shape, LifeTyped
<1>. QED BY <1>1, <1>2, <1>3 DEF Rests

LEMMA AttemptMinds ==
  ASSUME IndInv, ServiceInv, NEW o \in Objects, NEW r \in Runs,
         \/ AttemptProceeds(o, r) \/ InitializeAnswers(o, r) \/ StartFails(o, r)
         \/ Undone(o, r) \/ (AttemptPublishes(o, r) /\ hosted[o].attempt[r] = "failing")
  PROVE  AllMind
<1> DEFINE x == hosted[o]
           early == {"waiting", "initializing", "starting", "undoing", "failing", "done"}
           answered == [x EXCEPT !.initialized = TRUE]
           closed == [x EXCEPT !.listener = 0]
           both == [answered EXCEPT !.listener = 0]
<1>1. \E v \in {x, answered, closed, both}, stage \in early :
        Become(o, At(v, r, stage)) \/ Become(o, EndAttempt(v, r))
  BY Zenon DEF AttemptProceeds, InitializeAnswers, StartFails, Undone, AttemptPublishes
<1>2. InFlight(x, r) /\ x.attempt[r] \notin {"subscribing", "publishing"}
  BY DEF AttemptProceeds, InitializeAnswers, StartFails, Undone, InFlight
<1>3. PICK v \in {x, answered, closed, both}, stage \in early :
        Become(o, At(v, r, stage)) \/ Become(o, EndAttempt(v, r))
  BY <1>1
<1>4. Before(o, x) /\ IsRecord(x)
  BY BeforeHolds DEF Before, Shape
<1>5. IsRecord(answered) /\ IsRecord(closed) /\ IsRecord(both)
  BY <1>4, Zenon DEF IsRecord
<1>6. Alike(x, x) /\ Alike(x, answered) /\ Alike(x, closed) /\ Alike(x, both)
  BY <1>4, <1>5 DEF IsRecord, FieldNames, Alike
<1>7. IsRecord(v) /\ Alike(x, v)
  BY <1>3, <1>4, <1>5, <1>6
<1>. HIDE DEF x, answered, closed, both
<1>8. Stages(v, At(v, r, stage), r, stage) /\ Stages(v, EndAttempt(v, r), r, "done")
  BY <1>7, AtLeaves, EndAttemptLeaves
<1>9. Rests(x, At(v, r, stage)) /\ Rests(x, EndAttempt(v, r))
  BY <1>2, <1>3, <1>4, <1>7, <1>8, EarlyStage
<1>. QED BY <1>3, <1>9, BecomeRests DEF x

\* The first health of a source that is not polled ends its start.
LEMMA PublishedMinds ==
  ASSUME IndInv, ServiceInv, NEW o \in Objects, NEW r \in Runs,
         AttemptPublishes(o, r), hosted[o].attempt[r] # "failing"
  PROVE  AllMind
<1> DEFINE x == hosted[o]
           v == RefreshOverlays(o, x)
           y == EndAttempt(v, r)
<1>1. Become(o, y) /\ x.attempt[r] = "publishing"
  BY DEF AttemptPublishes
<1>2. Before(o, x) /\ IsRecord(x)
  BY BeforeHolds DEF Before, Shape
<1>. HIDE DEF x
<1>3. IsRecord(v) /\ Alike(x, v)
  BY <1>2, RefreshOverlaysLeaves
<1>. HIDE DEF v
<1>4. Stages(v, y, r, "done")
  BY <1>3, EndAttemptLeaves
<1>. HIDE DEF y
<1>5. /\ SameService(x, y) /\ y.attempt = [x.attempt EXCEPT ![r] = "done"]
      /\ y.polling = x.polling /\ y.timer = x.timer /\ y.retryTimers = x.retryTimers
  BY <1>3, <1>4 DEF Stages, Alike, SameService
<1>6. \A q \in Runs : y.attempt[q] = IF q = r THEN "done" ELSE x.attempt[q]
  BY <1>2, <1>5 DEF Before, Shape, LifeTyped
<1>7. o \notin Polled
  BY <1>1, <1>2 DEF Before, Underway
<1>8. Underway(o, y)
  BY <1>2, <1>5, <1>6 DEF Before, Underway, SameService, PreviousOver
<1>9. Minds(o, x, y)
  BY <1>5, <1>7, <1>8 DEF Minds, SameService, Tended, Served, NeverRetried
<1>. QED BY <1>1, <1>9, BecomeMinds DEF x
\* A start that answers opens the subscription, or goes on as if one had answered.
LEMMA StartAnswersMinds ==
  ASSUME IndInv, ServiceInv, NEW o \in Objects, NEW r \in Runs, StartAnswers(o, r)
  PROVE  AllMind
<1> DEFINE x == hosted[o]
           y == [x EXCEPT !.running = TRUE, !.waitingForKey = FALSE, !.waitingForSetup = FALSE]
           u == At(x, r, "undoing")
           v == [u EXCEPT !.session = 0]
           w == OpenSubscription(y)
           a == At(w, r, "subscribing")
           z == [a EXCEPT !.startSub = x.subs + 1]
           c == AfterSubscribe(o, y, r)
<1>1. /\ Before(o, x) /\ Shape(x) /\ IsRecord(x) /\ x.attempt[r] = "starting"
      /\ PreviousOver(x, r)
      /\ ~Overtaken(x, r) => x.run = r /\ ~disposed
      /\ (o \in Streamed => x.subs < MaxSubs) /\ x.attempt \in [Runs -> AttemptStage]
  BY BeforeHolds DEF Before, StartAnswers, Shape, Sound, Calling, Overtaken, LifeTyped
<1>2. Become(o, IF Overtaken(x, r) THEN v ELSE IF o \in Streamed THEN z ELSE c)
  BY Zenon DEF StartAnswers
<1>3. InFlight(x, r) /\ ~x.running
  <2>1. InFlight(x, r)
    BY <1>1 DEF InFlight
  <2>. QED BY <1>1, <2>1, WhileRunning DEF Before
<1>4. /\ Shape(y) /\ y.running = TRUE /\ y.run = x.run /\ y.attempt = x.attempt
      /\ y.polling = x.polling /\ y.subs = x.subs /\ y.sub = x.sub
      /\ y.timer = x.timer /\ y.retryTimers = x.retryTimers
  BY <1>1, RunsNow
<1>. HIDE DEF x, y
<1>5. CASE Overtaken(x, r)
  <2>1. Stages(x, u, r, "undoing")
    BY <1>1, AtLeaves
  <2>. HIDE DEF u
  <2>2. Rests(x, u)
    BY <1>1, <1>3, <2>1, StagesRests
  <2>3. Rests(x, v)
    BY <2>1, <2>2 DEF Stages, IsRecord, FieldNames, Rests
  <2>. HIDE DEF v
  <2>. QED BY <1>2, <1>5, <2>3, BecomeRests DEF x
<1>6. CASE ~Overtaken(x, r) /\ o \in Streamed
  <2>1. x.subs + 1 \in Subs
    BY <1>1, <1>6, ConstantsAssumption DEF Shape, RestTyped, Subs
  <2>2. /\ IsRecord(w) /\ w.running = TRUE /\ w.run = x.run /\ w.attempt = x.attempt
        /\ w.polling = x.polling /\ w.timer = x.timer /\ w.retryTimers = x.retryTimers
        /\ w.sub = [x.sub EXCEPT ![x.subs + 1] = "asked"]
    <3>1. IsRecord(w)
      BY <1>4, Zenon DEF Shape, IsRecord, OpenSubscription
    <3>. QED BY <1>4, <3>1 DEF Shape, IsRecord, FieldNames, OpenSubscription
  <2>. HIDE DEF w
  <2>3. Stages(w, a, r, "subscribing")
    BY <2>2, AtLeaves
  <2>. HIDE DEF a
  <2>4. /\ z.running = TRUE /\ z.run = r /\ z.polling = x.polling
        /\ z.attempt = [x.attempt EXCEPT ![r] = "subscribing"]
        /\ z.timer = x.timer /\ z.retryTimers = x.retryTimers
        /\ z.sub = [x.sub EXCEPT ![x.subs + 1] = "asked"]
    BY <1>1, <1>6, <2>2, <2>3 DEF Stages, SameService, IsRecord, FieldNames
  <2>. HIDE DEF z
  <2>5. \A q \in Runs : z.attempt[q] = IF q = r THEN "subscribing" ELSE x.attempt[q]
    BY <1>1, <2>4
  <2>6. \A n \in Subs : z.sub[n] = IF n = x.subs + 1 THEN "asked" ELSE x.sub[n]
    BY <1>1, <2>4 DEF Shape, RestTyped
  <2>7. PreviousOver(z, r)
    BY <1>1, <2>5, ConstantsAssumption DEF PreviousOver, Runs
  <2>8. Underway(o, z)
    BY <1>1, <2>4, <2>5, <2>7 DEF Before, Underway
  <2>9. ~Neglected(z)
    BY <2>5 DEF Neglected
  <2>10. Served(z) /\ (NeverRetried(x) => NeverRetried(z))
    BY <2>1, <2>4, <2>6 DEF Served, NeverRetried
  <2>11. Minds(o, x, z)
    BY <2>8, <2>9, <2>10 DEF Minds, Tended
  <2>. QED BY <1>2, <1>6, <2>11, BecomeMinds DEF x
<1>7. CASE ~Overtaken(x, r) /\ o \notin Streamed
  <2> DEFINE stage == IF o \in Polled THEN "done" ELSE "publishing"
  <2>1. /\ SameService(y, c) /\ c.polling = y.polling
        /\ c.attempt = [y.attempt EXCEPT ![r] = stage]
        /\ o \in Polled => c.pollTimers > 0 \/ ~c.running
    BY <1>1, <1>4, <1>7, AfterSubscribeLeaves
  <2>. HIDE DEF c
  <2>2. \A q \in Runs : c.attempt[q] = IF q = r THEN stage ELSE x.attempt[q]
    BY <1>1, <1>4, <2>1
  <2>3. PreviousOver(c, r)
    BY <1>1, <2>2, ConstantsAssumption DEF PreviousOver, Runs
  <2>4. Underway(o, c)
    BY <1>1, <1>4, <1>7, <2>1, <2>2, <2>3 DEF Before, Underway, SameService
  <2>5. o \in Polled => ~Neglected(c)
    BY <2>1 DEF Neglected
  <2>6. Minds(o, x, c)
    BY <1>7, <2>4, <2>5 DEF Minds, Undisturbed
  <2>. QED BY <1>2, <1>7, <2>6, BecomeMinds DEF x
<1>. QED BY <1>5, <1>6, <1>7

LEMMA StopMinds ==
  ASSUME IndInv, ServiceInv, NEW o \in Objects, StopSteps(o)
  PROVE  AllMind
<1> DEFINE x == hosted[o]
           v == [x EXCEPT !.stops = @ - 1]
           y == StopTail(v)
<1>1. Become(o, y) \/ Become(o, Forget(y))
  BY DEF StopSteps, StopAnswers, UnregisterStops
<1>2. ASSUME IsRecord(x)
      PROVE  Alike(x, y) /\ Alike(x, Forget(y))
  <2>1. IsRecord(v)
    BY <1>2, Zenon DEF IsRecord
  <2>2. Alike(x, v)
    BY <1>2, <2>1 DEF IsRecord, FieldNames, Alike
  <2>. HIDE DEF x, v
  <2>3. IsRecord(y) /\ Alike(x, y)
    BY <2>1, <2>2, StopTailLeaves, AlikeTrans
  <2>. HIDE DEF y
  <2>. QED BY <2>3, ForgetLeaves, AlikeTrans
<1>. HIDE DEF x, y
<1>. QED BY <1>1, <1>2, BecomeAlike DEF x
\* Only the end of a poll that was cut, or that is not to be repeated, arms no timer.
LEMMA PollStepsMinds ==
  ASSUME IndInv, ServiceInv, NEW o \in Objects, PollSteps(o) \/ BudgetExpires(o)
  PROVE  AllMind
<1> DEFINE x == hosted[o]
           cut == [x EXCEPT !.pollCut = TRUE]
           served == [x EXCEPT !.polling = "served", !.waitingForSetup = FALSE,
                               !.waitingForKey = FALSE]
           setup == [x EXCEPT !.polling = "setup", !.waitingForSetup = TRUE]
           key == [x EXCEPT !.polling = "key", !.waitingForSetup = FALSE,
                            !.waitingForKey = TRUE]
           failed(stage) == [x EXCEPT !.polling = stage, !.waitingForSetup = FALSE]
           again == Schedule(x)
<1>1. /\ Before(o, x) /\ Shape(x) /\ IsRecord(x) /\ Underway(o, x)
      /\ x.running => ~disposed
  BY BeforeHolds DEF Before, Shape
<1>2. x.polling # "idle"
  BY DEF PollSteps, QueryAnswers, QueryCancelled, QueryFails, PollReported, BudgetExpires
<1>3. o \in Polled
  BY <1>1, <1>2 DEF Underway
<1>4. ASSUME NEW y, SameService(x, y), y.attempt = x.attempt,
             x.timer # "retry" => y.timer # "retry" /\ y.retryTimers = x.retryTimers,
             ~Neglected(y) \/ Cut(x)
      PROVE  Minds(o, x, y)
  <2>1. Underway(o, y)
    BY <1>1, <1>3, <1>4 DEF Underway, SameService, PreviousOver
  <2>2. "subscribeFails" \in Inputs => ~Undisturbed(o)
    BY <1>3 DEF Undisturbed
  <2>. QED BY <1>4, <2>1, <2>2, ServiceMinds
<1>5. CASE ~PollReported(o) /\ ~QueryCancelled(o)
  <2>1. \/ Become(o, cut) \/ Become(o, served) \/ Become(o, setup) \/ Become(o, key)
        \/ Become(o, failed("backoff")) \/ Become(o, failed("never"))
    BY <1>5 DEF PollSteps, QueryAnswers, QueryFails, BudgetExpires
  <2>2. /\ IsRecord(cut) /\ IsRecord(served) /\ IsRecord(setup) /\ IsRecord(key)
        /\ IsRecord(failed("backoff")) /\ IsRecord(failed("never"))
    BY <1>1, Zenon DEF IsRecord
  <2>3. Minds(o, x, cut)
    <3>1. Alike(x, cut)
      BY <1>1, <2>2 DEF IsRecord, FieldNames, Alike
    <3>. QED BY <1>1, <3>1, AlikeMinds
  <2> DEFINE Asked(y) == /\ SameService(x, y) /\ y.attempt = x.attempt /\ y.polling # "idle"
                         /\ y.timer = x.timer /\ y.retryTimers = x.retryTimers
  <2>4. Asked(served) /\ Asked(setup) /\ Asked(key)
    BY <1>1, <2>2 DEF IsRecord, FieldNames, SameService
  <2>5. Asked(failed("backoff")) /\ Asked(failed("never"))
    BY <1>1, <2>2 DEF IsRecord, FieldNames, SameService
  <2>6. ASSUME NEW y, Asked(y)
        PROVE  Minds(o, x, y)
    BY <1>4, <2>6 DEF Neglected
  <2>. HIDE DEF cut, served, setup, key, failed, x, Asked
  <2>. QED BY <2>1, <2>3, <2>4, <2>5, <2>6, BecomeMinds DEF x
<1>6. ASSUME NEW v, Shape(v), SameService(x, v), v.attempt = x.attempt,
             x.timer # "retry" => v.timer # "retry" /\ v.retryTimers = x.retryTimers,
             Cut(x) \/ v.pollTimers > 0 \/ ~v.running
      PROVE  Minds(o, x, EndPoll(v)) /\ Minds(o, x, EndPoll(RefreshOverlays(o, v)))
  <2> DEFINE w == RefreshOverlays(o, v)
  <2>1. Alike(v, w) /\ Shape(w)
    BY <1>6, RefreshOverlaysLeaves, RefreshOverlaysKeeps, KeepsShape DEF Shape
  <2>2. Alike(v, v)
    BY DEF Alike
  <2>. HIDE DEF w, x
  <2>3. ASSUME NEW u \in {v, w}
        PROVE  Minds(o, x, EndPoll(u))
    <3> DEFINE y == EndPoll(u)
    <3>1. /\ Shape(u) /\ SameService(x, u) /\ u.attempt = x.attempt
          /\ x.timer # "retry" => u.timer # "retry" /\ u.retryTimers = x.retryTimers
          /\ Cut(x) \/ u.pollTimers > 0 \/ ~u.running
      BY <1>6, <2>1, <2>2 DEF Alike, SameService
    <3>2. u.running => ~disposed
      BY <1>1, <3>1 DEF SameService
    <3>3. /\ SameService(u, y) /\ y.attempt = u.attempt /\ y.polling = "idle"
          /\ u.pollTimers > 0 => y.pollTimers > 0 \/ ~y.running
          /\ u.timer # "retry" => y.timer # "retry" /\ y.retryTimers = u.retryTimers
      BY <3>1, <3>2, EndPollLeaves
    <3>. HIDE DEF y
    <3>4. ~Neglected(y) \/ Cut(x)
      BY <3>1, <3>3 DEF Neglected, SameService
    <3>5. Minds(o, x, y)
      BY <1>4, <3>1, <3>3, <3>4 DEF SameService
    <3>. QED BY <3>5 DEF y
  <2>. QED BY <2>3 DEF w
<1>7. CASE (PollReported(o) /\ x.polling \notin AsksAgain) \/ QueryCancelled(o)
  <2>1. Become(o, EndPoll(x)) \/ Become(o, EndPoll(RefreshOverlays(o, x)))
    BY <1>7, Zenon DEF PollReported, QueryCancelled
  <2>2. Cut(x)
    BY <1>1, <1>2, <1>7
    DEF PollReported, QueryCancelled, Cut, AsksAgain, Shape, RestTyped, PollStage
  <2>3. Minds(o, x, EndPoll(x)) /\ Minds(o, x, EndPoll(RefreshOverlays(o, x)))
    BY <1>1, <1>6, <2>2 DEF SameService
  <2>. HIDE DEF x
  <2>. QED BY <2>1, <2>3, BecomeMinds DEF x
<1>8. CASE PollReported(o) /\ x.polling \in AsksAgain
  <2>1. Become(o, EndPoll(again)) \/ Become(o, EndPoll(RefreshOverlays(o, again)))
    BY <1>8, Zenon DEF PollReported
  <2>2. /\ SameService(x, again) /\ again.attempt = x.attempt
        /\ again.pollTimers > 0 \/ ~again.running
        /\ x.timer # "retry" => again.timer # "retry" /\ again.retryTimers = x.retryTimers
    BY <1>1, ScheduleLeaves
  <2>3. Shape(again)
    BY <1>1, ScheduleKeeps, KeepsShape
  <2>4. Minds(o, x, EndPoll(again)) /\ Minds(o, x, EndPoll(RefreshOverlays(o, again)))
    BY <1>6, <2>2, <2>3
  <2>. HIDE DEF x, again
  <2>. QED BY <2>1, <2>4, BecomeMinds DEF x
<1>. QED BY <1>5, <1>7, <1>8
\* It runs, polls and waits as it did.
AsksAlike(x, y) ==
  /\ y.running = x.running /\ y.run = x.run /\ y.attempt = x.attempt
  /\ y.polling = x.polling /\ y.pollCut = x.pollCut /\ y.pollTimers = x.pollTimers
  /\ y.waitingForSetup = x.waitingForSetup /\ y.waitingForKey = x.waitingForKey

LEMMA AsksAlikeMinds ==
  ASSUME NEW o, NEW x, NEW y, Before(o, x), AsksAlike(x, y), Tended(x) => Tended(y)
  PROVE  /\ Minds(o, x, y)
         /\ Shape(y) => Before(o, y)
         /\ \A z : Minds(o, y, z) => Minds(o, x, z)
<1>1. Underway(o, y) /\ (Neglected(y) => Neglected(x)) /\ (Cut(y) => Cut(x))
  BY DEF Before, AsksAlike, Underway, PreviousOver, Neglected, Cut
<1>. QED BY <1>1 DEF Minds, Before, AsksAlike

\* Only subscription n has moved.
SubOnly(x, y, n, stage) ==
  /\ AsksAlike(x, y)
  /\ y.session = x.session /\ y.timer = x.timer /\ y.retryTimers = x.retryTimers
  /\ \A m \in Subs : y.sub[m] = IF m = n THEN stage ELSE x.sub[m]

LEMMA SubAtLeaves ==
  ASSUME NEW x, Shape(x), NEW n \in Subs, NEW stage \in SubStage
  PROVE  /\ Shape(SubAt(x, n, stage)) /\ SubOnly(x, SubAt(x, n, stage), n, stage)
<1> DEFINE y == SubAt(x, n, stage)
<1>1. Shape(y)
  BY SubAtKeeps, KeepsShape
<1>2. /\ AsksAlike(x, y) /\ y.sub = [x.sub EXCEPT ![n] = stage]
      /\ y.session = x.session /\ y.timer = x.timer /\ y.retryTimers = x.retryTimers
  BY DEF Shape, IsRecord, FieldNames, AsksAlike, SubAt
<1>. QED BY <1>1, <1>2 DEF Shape, RestTyped, SubOnly

LEMMA StageNames ==
  {"opening", "telling", "failing", "refused", "noKey", "done"} \subseteq SubStage
BY DEF SubStage

LEMMA RetryMinds ==
  ASSUME IndInv, ServiceInv, NEW o \in Objects, RetryTimerFires(o)
  PROVE  AllMind
<1> DEFINE x == hosted[o]
           v == [x EXCEPT !.retryTimers = @ - 1, !.timer = "none"]
           w == OpenSubscription(v)
<1>1. x.retryTimers > 0 /\ Become(o, IF v.running THEN w ELSE v)
      /\ (v.running => v.subs + 1 < MaxSubs)
  BY DEF RetryTimerFires
<1>2. Before(o, x) /\ IsRecord(x)
  BY BeforeHolds DEF Before, Shape
<1>3. IsRecord(v)
  BY <1>2, Zenon DEF IsRecord
<1>4. AsksAlike(x, v) /\ v.subs = x.subs /\ v.sub = x.sub
  BY <1>2, <1>3 DEF IsRecord, FieldNames, AsksAlike
<1>. HIDE DEF v
<1>5. AsksAlike(x, w) /\ w.sub = [x.sub EXCEPT ![x.subs + 1] = "asked"]
  BY <1>3, <1>4 DEF IsRecord, FieldNames, AsksAlike, OpenSubscription
<1>. HIDE DEF w, x
<1>6. ~NeverRetried(x)
  BY <1>1 DEF NeverRetried
<1>7. CASE v.running
  <2>1. x.subs + 1 \in Subs
    BY <1>1, <1>2, <1>4, <1>7, ConstantsAssumption DEF Before, Shape, RestTyped, Subs
  <2>2. Served(w)
    BY <1>2, <1>5, <2>1 DEF Before, Shape, RestTyped, Served
  <2>3. Minds(o, x, w)
    BY <1>2, <1>5, <1>6, <2>2, AsksAlikeMinds DEF Tended
  <2>. QED BY <1>1, <1>7, <2>3, BecomeMinds DEF x
<1>8. CASE ~v.running
  <2>1. Minds(o, x, v)
    BY <1>2, <1>4, <1>6, <1>8, AsksAlikeMinds DEF Tended
  <2>. QED BY <1>1, <1>8, <2>1, BecomeMinds DEF x
<1>. QED BY <1>7, <1>8

LEMMA SessionMinds ==
  ASSUME IndInv, ServiceInv, NEW o \in Objects, NEW n \in Subs,
         SessionOpens(o, n) \/ SubscribeAnswers(o, n) \/ SubscribeFails(o, n)
  PROVE  AllMind
<1> DEFINE x == hosted[o]
           u == SubAt(x, n, "opening")
           opened == [u EXCEPT !.session = n]
           w == SubAt(x, n, "telling")
           answered == [w EXCEPT !.unsubscribe = n]
           v == [x EXCEPT !.session = IF @ = n THEN 0 ELSE @]
<1>1. Before(o, x) /\ Shape(x) /\ IsRecord(x)
  BY BeforeHolds DEF Before, Shape
<1>2. n # 0
  BY ConstantsAssumption DEF Subs
<1>3. CASE SessionOpens(o, n)
  <2>1. Become(o, opened)
    BY <1>3 DEF SessionOpens
  <2>2. Shape(u) /\ SubOnly(x, u, n, "opening")
    BY <1>1, StageNames, SubAtLeaves
  <2>. HIDE DEF u
  <2>3. /\ AsksAlike(x, opened) /\ opened.session = n /\ opened.sub = u.sub
        /\ opened.timer = x.timer /\ opened.retryTimers = x.retryTimers
    BY <2>2 DEF Shape, IsRecord, FieldNames, AsksAlike, SubOnly
  <2>. HIDE DEF opened, x
  <2>4. Served(opened) /\ (NeverRetried(x) => NeverRetried(opened))
    BY <1>2, <2>2, <2>3 DEF SubOnly, Served, NeverRetried
  <2>5. Minds(o, x, opened)
    BY <1>1, <2>3, <2>4, AsksAlikeMinds DEF Tended
  <2>. QED BY <2>1, <2>5, BecomeMinds DEF x
<1>4. CASE SubscribeAnswers(o, n)
  <2>1. Become(o, answered) /\ x.sub[n] = "opening"
    BY <1>4 DEF SubscribeAnswers
  <2>2. Shape(w) /\ SubOnly(x, w, n, "telling")
    BY <1>1, StageNames, SubAtLeaves
  <2>. HIDE DEF w
  <2>3. /\ AsksAlike(x, answered) /\ answered.session = x.session /\ answered.sub = w.sub
        /\ answered.timer = x.timer /\ answered.retryTimers = x.retryTimers
    BY <2>2 DEF Shape, IsRecord, FieldNames, AsksAlike, SubOnly
  <2>. HIDE DEF answered, x
  <2>4. (Served(x) => Served(answered)) /\ (NeverRetried(x) => NeverRetried(answered))
    BY <2>1, <2>2, <2>3 DEF SubOnly, Served, NeverRetried
  <2>5. Minds(o, x, answered)
    BY <1>1, <2>3, <2>4, AsksAlikeMinds DEF Tended, AsksAlike
  <2>. QED BY <2>1, <2>5, BecomeMinds DEF x
<1>5. CASE SubscribeFails(o, n)
  <2>1. /\ "subscribeFails" \in Inputs
        /\ Become(o, SubAt(v, n, "failing")) \/ Become(o, SubAt(v, n, "refused"))
    BY <1>5 DEF SubscribeFails
  <2>2. Shape(v) /\ AsksAlike(x, v)
    <3>1. IsRecord(v)
      BY <1>1, Zenon DEF IsRecord
    <3>2. RestTyped(v) /\ Timed(v) /\ SameLife(x, v) /\ AsksAlike(x, v)
      BY <1>1, <3>1, ConstantsAssumption
      DEF Shape, IsRecord, FieldNames, RestTyped, Timed, SameLife, AsksAlike
    <3>. QED BY <1>1, <3>1, <3>2, KeepsShape DEF Keeps
  <2>. HIDE DEF v, x
  <2>3. ASSUME NEW stage \in {"failing", "refused"}
        PROVE  Minds(o, x, SubAt(v, n, stage))
    <3> DEFINE y == SubAt(v, n, stage)
    <3>1. SubOnly(v, y, n, stage)
      BY <2>2, StageNames, SubAtLeaves
    <3>. HIDE DEF y
    <3>2. Served(y) /\ AsksAlike(x, y)
      BY <2>2, <3>1 DEF SubOnly, Served, AsksAlike
    <3>3. Minds(o, x, y)
      BY <1>1, <2>1, <3>2, AsksAlikeMinds DEF Tended
    <3>. QED BY <3>3 DEF y
  <2>. QED BY <2>1, <2>3, BecomeMinds DEF x
<1>. QED BY <1>3, <1>4, <1>5

\* The subscription is open, is retried, or was refused its key; a start may go on.
LEMMA SubscriptionReportedMinds ==
  ASSUME IndInv, ServiceInv, NEW o \in Objects, NEW n \in Subs, SubscriptionReported(o, n)
  PROVE  AllMind
<1> DEFINE x == hosted[o]
           v == SubAt(x, n, "done")
           armed == ArmRetry(v)
           refused == SubAt(v, n, "noKey")
<1>1. Before(o, x) /\ Shape(x) /\ IsRecord(x)
  BY BeforeHolds DEF Before, Shape
<1>2. Shape(v) /\ SubOnly(x, v, n, "done")
  BY <1>1, StageNames, SubAtLeaves
<1>3. \/ x.sub[n] = "telling" /\ Become(o, Resume(o, v, n))
      \/ x.sub[n] = "failing" /\ Become(o, Resume(o, armed, n))
      \/ x.sub[n] = "refused" /\ Become(o, Resume(o, refused, n))
  BY DEF SubscriptionReported
<1>. HIDE DEF v
<1>4. ASSUME NEW y, Shape(y), AsksAlike(x, y), Tended(x) => Tended(y), Become(o, Resume(o, y, n))
      PROVE  AllMind
  <2>. HIDE DEF x
  <2>1. Before(o, y)
    BY <1>1, <1>4, AsksAlikeMinds
  <2>2. Minds(o, y, Resume(o, y, n))
    BY <2>1, ResumeMinds
  <2>3. Minds(o, x, Resume(o, y, n))
    BY <1>1, <1>4, <2>2, AsksAlikeMinds
  <2>. QED BY <1>4, <2>3, BecomeMinds DEF x
<1>5. Shape(armed) /\ AsksAlike(x, armed) /\ armed.retryTimers > 0
  <2>1. Shape(armed)
    BY <1>2, ArmRetryKeeps, KeepsShape
  <2>2. IsRecord(v)
    BY <1>2 DEF Shape
  <2>3. AsksAlike(v, armed) /\ armed.retryTimers = v.retryTimers + 1
    BY <2>2 DEF IsRecord, FieldNames, AsksAlike, ArmRetry
  <2>. QED BY <1>2, <2>1, <2>3 DEF SubOnly, AsksAlike, Shape, RestTyped
<1>6. Shape(refused) /\ SubOnly(v, refused, n, "noKey")
  BY <1>2, StageNames, SubAtLeaves
<1>. HIDE DEF armed, refused, x
<1>7. CASE x.sub[n] = "telling"
  <2>1. (Served(x) => Served(v)) /\ (NeverRetried(x) => NeverRetried(v))
    BY <1>2, <1>7 DEF SubOnly, Served, NeverRetried
  <2>. QED BY <1>2, <1>3, <1>4, <1>7, <2>1 DEF SubOnly, Tended, AsksAlike
<1>8. CASE x.sub[n] = "failing"
  <2>1. Served(armed) /\ ~NeverRetried(x)
    BY <1>5, <1>8 DEF Served, NeverRetried
  <2>. QED BY <1>3, <1>4, <1>5, <1>8, <2>1 DEF Tended
<1>9. CASE x.sub[n] = "refused"
  <2>1. Served(refused) /\ (NeverRetried(x) => NeverRetried(refused))
    BY <1>2, <1>6 DEF SubOnly, Served, NeverRetried
  <2>2. AsksAlike(x, refused)
    BY <1>2, <1>6 DEF SubOnly, AsksAlike
  <2>. QED BY <1>3, <1>4, <1>6, <1>9, <2>1, <2>2 DEF Tended
<1>. QED BY <1>3, <1>7, <1>8, <1>9
LEMMA SideMinds ==
  ASSUME IndInv, ServiceInv, NEW o \in Objects,
         \/ Emit(o) \/ Listen(o) \/ ListenerRefuses(o) \/ ListenerClosed(o)
         \/ ListenSteps(o) \/ Refreshes(o) \/ HealthSoonFires(o)
         \/ \E override \in Report : PublishLands(o, override)
  PROVE  AllMind
<1> DEFINE x == hosted[o]
           published(pubs) == [x EXCEPT !.pubs = pubs]
           asked(run) == [x EXCEPT !.listenerPending = run]
           listened(run) == [x EXCEPT !.listenerPending = 0, !.listener = run]
           refused == [x EXCEPT !.healthSoon = TRUE]
           closed == [x EXCEPT !.listener = 0]
           refreshed(some) == [x EXCEPT !.refreshing = FALSE, !.overlays = some]
           fired(pubs) == [x EXCEPT !.healthSoon = FALSE, !.pubs = pubs]
<1>1. ASSUME IsRecord(x), NEW v
      PROVE  /\ Alike(x, published(v)) /\ Alike(x, asked(v)) /\ Alike(x, listened(v))
             /\ Alike(x, refused) /\ Alike(x, closed) /\ Alike(x, refreshed(v))
             /\ Alike(x, fired(v))
  <2>1. /\ IsRecord(published(v)) /\ IsRecord(asked(v)) /\ IsRecord(listened(v))
        /\ IsRecord(refused) /\ IsRecord(closed) /\ IsRecord(refreshed(v))
        /\ IsRecord(fired(v))
    BY <1>1, Zenon DEF IsRecord
  <2>2. Alike(x, published(v)) /\ Alike(x, asked(v)) /\ Alike(x, listened(v))
    BY <1>1, <2>1 DEF IsRecord, FieldNames, Alike
  <2>3. Alike(x, refused) /\ Alike(x, closed)
    BY <1>1, <2>1 DEF IsRecord, FieldNames, Alike
  <2>4. Alike(x, refreshed(v)) /\ Alike(x, fired(v))
    BY <1>1, <2>1 DEF IsRecord, FieldNames, Alike
  <2>. QED BY <2>2, <2>3, <2>4
<1>2. \E v : \/ Become(o, published(v)) \/ Become(o, asked(v)) \/ Become(o, listened(v))
             \/ Become(o, refused) \/ Become(o, closed) \/ Become(o, refreshed(v))
             \/ Become(o, fired(v))
  <2>1. CASE Emit(o) \/ \E override \in Report : PublishLands(o, override)
    BY <2>1, Zenon DEF Emit, PublishLands
  <2>2. CASE Listen(o) \/ ListenerRefuses(o) \/ ListenerClosed(o)
    BY <2>2, Zenon DEF Listen, ListenerRefuses, ListenerClosed
  <2>3. CASE ListenSteps(o) \/ Refreshes(o) \/ HealthSoonFires(o)
    BY <2>3, Zenon DEF ListenSteps, ListenAnswers, Refreshes, RefreshAnswers, HealthSoonFires
  <2>. QED BY <2>1, <2>2, <2>3
<1>. HIDE DEF published, asked, listened, refused, closed, refreshed, fired, x
<1>. QED BY <1>1, <1>2, BecomeAlike DEF x

-----------------------------------------------------------------------------
(* The network.                                                            *)

\* A source that an offline switch reaches may lose its session, and no other.
LEMMA SetOnlineLeaves ==
  ASSUME IndInv, ServiceInv, NEW up \in BOOLEAN, SetOnline(up), NEW o \in Objects
  PROVE  /\ Underway(o, hosted'[o])
         /\ ~PausesOffline(o) => hosted'[o] = hosted[o]
<1> DEFINE x == hosted[o]
<1>1. /\ hosted'[o] \in {Schedule(x), CancelPoll(x), x}
      /\ ~PausesOffline(o) => hosted'[o] = x
  BY DEF SetOnline
<1>2. /\ Before(o, x) /\ Shape(x) /\ IsRecord(x) /\ Underway(o, x)
      /\ x.running => ~disposed
  BY BeforeHolds DEF Before, Shape
<1>. HIDE DEF x
<1>3. Underway(o, Schedule(x))
  BY <1>2, ScheduleLeaves DEF Underway, SameService, PreviousOver
<1>4. Underway(o, CancelPoll(x))
  BY <1>2, CancelPollLeaves DEF Underway, PreviousOver
<1>. QED BY <1>1, <1>2, <1>3, <1>4 DEF x

\* When the network comes back every source it stopped is scheduled, unless it waits.
LEMMA SetOnlineRemembers ==
  ASSUME IndInv, ServiceInv, NEW up \in BOOLEAN, SetOnline(up), NEW o \in Objects,
         ~Forgotten(o)
  PROVE  ~Forgotten(o)'
<1> DEFINE x == hosted[o]
<1>1. SUFFICES ASSUME Neglected(hosted'[o]), up \/ ~PausesOffline(o)
               PROVE  FALSE
  BY DEF Forgotten, Neglected, SetOnline
<1>2. /\ Shape(x) /\ (x.running => ~disposed) /\ (x.running => x.listed = "yes")
  BY BeforeHolds DEF Before, LocallyWanted, InUse
<1>3. CASE up /\ hosted'[o] = Schedule(x)
  BY <1>1, <1>2, <1>3, ScheduleLeaves DEF Neglected
<1>4. CASE hosted'[o] = x
  <2>1. Neglected(x)
    BY <1>1, <1>4
  <2>2. PausesOffline(o) /\ up
    BY <1>1, <2>1 DEF Forgotten, Neglected
  <2>3. o \in Listed /\ x.running /\ ~x.waitingForSetup /\ ~x.waitingForKey
    BY <1>2, <2>1 DEF Neglected, Listed
  <2>4. hosted'[o] = Schedule(x)
    BY <2>2, <2>3 DEF SetOnline
  <2>. QED BY <1>3, <2>2, <2>4
<1>5. CASE ~up /\ hosted'[o] # x
  BY <1>1, <1>5 DEF SetOnline
<1>. QED BY <1>3, <1>4, <1>5 DEF SetOnline

-----------------------------------------------------------------------------
(* The theorems.                                                           *)

LEMMA NextMinds ==
  ASSUME IndInv, ServiceInv, [Next]_vars, \A up \in BOOLEAN : ~SetOnline(up)
  PROVE  AllMind /\ online' = online
<1>1. CASE Outside
  <2>1. ASSUME NEW o \in Objects, NEW b \in BOOLEAN,
               \/ Register(o, b) \/ SetEnabled(o, b) \/ Unregister(o)
               \/ SettingsChange(o) \/ CredentialChange(o) \/ PollNow(o)
        PROVE  AllMind /\ online' = online
    <3>1. AllMind
      BY <2>1, LifecycleMinds, SettingsMinds, CredentialMinds, PollNowMinds
    <3>2. online' = online
      BY <2>1, Zenon DEF Register, SetEnabled, Unregister, SettingsChange, CredentialChange,
                         PollNow, HostUnchanged
    <3>. QED BY <3>1, <3>2
  <2>2. CASE Start \/ Stop \/ Dispose \/ SetViewport \/ SetPollScale
    <3>1. AllMind
      BY <2>2, HostMinds
    <3>2. online' = online
      BY <2>2, Zenon DEF Start, Stop, Dispose, StopAll, SetViewport, SetPollScale
    <3>. QED BY <3>1, <3>2
  <2>. QED BY <1>1, <2>1, <2>2 DEF Outside
<1>2. ASSUME NEW o \in Objects, Spontaneous(o)
      PROVE  AllMind /\ online' = online
  <2>1. AllMind
    BY <1>2, SideMinds, PollStepsMinds DEF Spontaneous
  <2>. QED BY <1>2, <2>1 DEF Spontaneous, BudgetExpires, Emit, Listen, ListenerRefuses,
                              ListenerClosed
<1>3. ASSUME NEW o \in Objects, Progress(o)
      PROVE  AllMind /\ online' = online
  <2>1. ASSUME NEW r \in Runs, AttemptSteps(o, r)
        PROVE  AllMind /\ online' = online
    <3>1. AllMind
      BY <2>1, AttemptMinds, PublishedMinds, StartAnswersMinds DEF AttemptSteps
    <3>. QED BY <2>1, <3>1 DEF AttemptSteps, AttemptProceeds, InitializeAnswers, StartFails,
                               StartAnswers, Undone, AttemptPublishes, HostUnchanged
  <2>2. CASE StopSteps(o) \/ PollTimerFires(o) \/ PollSteps(o)
    <3>1. AllMind
      BY <2>2, StopMinds, PollTimerMinds, PollStepsMinds
    <3>. QED BY <2>2, <3>1 DEF StopSteps, StopAnswers, UnregisterStops, PollTimerFires,
                  PollSteps, QueryAnswers, QueryCancelled, QueryFails, PollReported,
                  HostUnchanged
  <2>3. CASE RetryTimerFires(o) \/ \E n \in Subs : SubscriptionSteps(o, n)
    <3>1. AllMind
      BY <2>3, RetryMinds, SessionMinds, SubscriptionReportedMinds DEF SubscriptionSteps
    <3>. QED BY <2>3, <3>1 DEF RetryTimerFires, SubscriptionSteps, SessionOpens,
                  SubscribeAnswers, SubscribeFails, SubscriptionReported, HostUnchanged
  <2>4. CASE \/ Refreshes(o) \/ ListenSteps(o) \/ HealthSoonFires(o)
             \/ \E override \in Report : PublishLands(o, override)
    <3>1. AllMind
      BY <2>4, SideMinds
    <3>. QED BY <2>4, <3>1 DEF Refreshes, RefreshAnswers, ListenSteps, ListenAnswers,
                  HealthSoonFires, PublishLands, HostUnchanged
  <2>. QED BY <1>3, <2>1, <2>2, <2>3, <2>4 DEF Progress
<1>4. CASE UNCHANGED vars
  BY <1>4, AlikeMinds DEF vars, AllMind, Alike, ServiceInv
<1>. QED BY <1>1, <1>2, <1>3, <1>4 DEF Next

LEMMA InitService ==
  ASSUME Init
  PROVE  ServiceInv /\ \A o \in Objects : Tended(hosted[o])
<1>1. /\ NewHosted.running = FALSE /\ NewHosted.polling = "idle"
      /\ NewHosted.attempt = [r \in Runs |-> "none"] /\ NewHosted.sub = [n \in Subs |-> "none"]
      /\ NewHosted.timer = "none" /\ NewHosted.retryTimers = 0
  BY DEF NewHosted
<1>. QED BY <1>1 DEF Init, ServiceInv, Underway, Tended, NeverRetried

LEMMA StepServes ==
  ASSUME IndInv, ServiceInv, [Next]_vars
  PROVE  /\ ServiceInv'
         /\ \A o \in Objects : Undisturbed(o) /\ Tended(hosted[o]) => Tended(hosted[o])'
<1>1. ASSUME NEW up \in BOOLEAN, SetOnline(up)
      PROVE  /\ ServiceInv'
             /\ \A o \in Objects : Undisturbed(o) /\ Tended(hosted[o]) => Tended(hosted[o])'
  BY <1>1, SetOnlineLeaves DEF ServiceInv, Undisturbed
<1>2. CASE AllMind
  BY <1>2 DEF AllMind, ServiceInv, Minds
<1>. QED BY <1>1, <1>2, NextMinds

\* A source that runs was started by the attempt of its current run, every earlier attempt is
\* over, and only a source that is polled has a poll.
THEOREM ServiceInvHolds == Spec => []ServiceInv
<1>1. Init => ServiceInv
  BY InitService
<1>2. IndInv /\ ServiceInv /\ [Next]_vars => ServiceInv'
  BY StepServes
<1>. QED BY <1>1, <1>2, IndInvHolds, PTL DEF Spec

\* Nothing but a poll that was cut, or that had its answer (a missing key or setup, a host
\* that is not allowed), leaves a running polled source with nobody to ask it: for every
\* number of sources, starts and subscriptions (poll, schedule, setOnline).
THEOREM ForgottenOnlyByACutHolds == Spec => ForgottenOnlyByACut
<1>1. ASSUME IndInv, ServiceInv, [Next]_vars, NEW o \in Polled, ~Forgotten(o), Forgotten(o)'
      PROVE  Cut(hosted[o])
  <2>1. o \in Objects
    BY ConstantsAssumption
  <2>2. \A up \in BOOLEAN : ~SetOnline(up)
    BY <1>1, <2>1, SetOnlineRemembers
  <2>3. AllMind /\ online' = online
    BY <1>1, <2>2, NextMinds
  <2>. QED BY <1>1, <2>1, <2>3 DEF AllMind, Minds, Forgotten, Neglected, Reachable
<1>2. IndInv /\ ServiceInv /\ [Next]_vars =>
        [\A o \in Polled : ~Forgotten(o) /\ Forgotten(o)' =>
           \/ hosted[o].polling = "asking" /\ hosted[o].pollCut
           \/ hosted[o].polling \in {"never", "key", "setup"}]_vars
  BY <1>1 DEF Cut
<1>. QED BY <1>2, IndInvHolds, ServiceInvHolds, PTL DEF Spec, ForgottenOnlyByACut

\* Every undisturbed stream that runs is served.
StreamsAreTended == \A o \in Objects : Undisturbed(o) => Tended(hosted[o])

\* A stream that no offline switch closes, and whose retry no poll timer can replace, is never
\* left without a session, a subscription being opened, or a timer that opens one, unless its
\* key was refused (openSubscription), whatever becomes of the other sources.
THEOREM StreamsAreTendedHolds == Spec => []StreamsAreTended
<1>1. Init => StreamsAreTended
  BY InitService DEF StreamsAreTended
<1>2. IndInv /\ ServiceInv /\ StreamsAreTended /\ [Next]_vars => StreamsAreTended'
  BY StepServes DEF StreamsAreTended
<1>. QED BY <1>1, <1>2, IndInvHolds, ServiceInvHolds, PTL DEF Spec

\* So where every stream is of that kind, every running stream is served or its key was refused.
THEOREM StreamIsServedHolds ==
  ASSUME \A o \in Streamed : o \in Objects /\ Undisturbed(o)
  PROVE  Spec => []StreamIsServed
<1>1. StreamsAreTended => StreamIsServed
  BY DEF StreamsAreTended, Tended, Served, StreamIsServed
<1>. QED BY <1>1, StreamsAreTendedHolds, PTL
=============================================================================

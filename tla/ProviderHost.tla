---------------------------- MODULE ProviderHost ----------------------------
(***************************************************************************)
(* The provider host (packages/provider-runtime/src/index.ts): the object  *)
(* that starts and stops every source of the application, polls it, keeps  *)
(* its subscription, listener and overlays, and reports its health.        *)
(*                                                                         *)
(* The code is single-threaded and asynchronous.  A step of this model is  *)
(* what runs between two awaits: a handler up to its first await, or what  *)
(* follows the answer to an awaited call.  Every call in flight is part of *)
(* the state, so that the handlers of an object interleave at exactly the  *)
(* points where the code lets them.                                        *)
(*                                                                         *)
(*   hosted   one record per Hosted object (see HostedType)                *)
(*   health   the status Source Health shows for each source id            *)
(*   started, disposed, online   the host's own flags                      *)
(*                                                                         *)
(* Left out: durations (an armed timer may fire at any time), the contents *)
(* of a batch, on-demand lookups (they change no state) and logging.       *)
(* Closing a listener's port is taken to be immediate.                     *)
(***************************************************************************)
EXTENDS Integers, FiniteSets

CONSTANTS
  Objects,        \* Hosted objects; one is made by each call of register
  Sources,        \* provider ids
  SourceOf,       \* the id an object is registered under
  Polled,         \* objects whose provider implements query
  Streamed,       \* objects whose provider implements subscribe
  Overlaid,       \* objects whose provider implements overlays
  Listening,      \* local-process objects, which may open a listener
  Remote,         \* transport http or websocket
  CachesOffline,  \* capabilities.answersFromCacheOffline
  BoundsQuery,    \* capabilities.boundsQuery
  Keyed,          \* objects that declare a credential
  Inputs,         \* the calls from outside that an instance explores
  MaxRun,         \* bound on the starts and stops of one object
  MaxSubs         \* bound on the subscriptions one object opens

AllInputs == {"unregister", "stop", "dispose", "disable", "network", "viewport",
              "scale", "settings", "credential", "pollNow", "budget", "startFails",
              "hostNotAllowed", "subscribeFails"}

ASSUME ConstantsAssumption ==
  /\ SourceOf \in [Objects -> Sources]
  /\ Polled \subseteq Objects
  /\ MaxRun \in Nat
  /\ MaxSubs \in Nat

VARIABLES hosted, health, started, disposed, online

vars == <<hosted, health, started, disposed, online>>

Runs == 1..MaxRun
Subs == 1..MaxSubs

\* What `abort` refers to: no controller, a subscription's, or the running poll's.
None == 0
PollSignal == MaxSubs + 1

AttemptStage == {"none", "waiting", "initializing", "starting", "undoing",
                 "subscribing", "failing", "publishing", "done"}
PollStage == {"idle", "asking", "served", "setup", "key", "backoff", "never"}
SubStage == {"none", "asked", "opening", "telling", "failing", "refused", "noKey", "done"}
Status == {"STARTING", "DISABLED", "OFFLINE", "ERROR", "REPORTED"}
Report == {"own", "STARTING", "DISABLED", "OFFLINE"}

(***************************************************************************)
(* The fields keep their names in the source.  Those that are not fields   *)
(* of Hosted stand for calls in flight:                                    *)
(*   attempt       the stage of the start attempt that took each run       *)
(*   polling       the stage of the running poll ("idle": h.polling false) *)
(*   pollCut       the running poll's signal is aborted                    *)
(*   pollTimers, retryTimers   armed timers that poll / subscribe again;   *)
(*                 `timer` is the one h.timer refers to                    *)
(*   sub, subs     the stage of each openSubscription call, and how many   *)
(*   startSub      the call the running start attempt awaits               *)
(*   session       the subscription whose session the provider holds open  *)
(*   stops         stopProvider calls that await provider.stop()           *)
(*   leaving       one of them is unregister's                             *)
(*   pubs          publishHealth calls nobody awaits, by their override    *)
(*   refreshing    refreshOverlays awaits provider.overlays()              *)
(*   listenerPending   the run for which a listener is being opened        *)
(***************************************************************************)
HostedType ==
  [listed : {"no", "yes", "gone"}, removed : BOOLEAN, enabled : BOOLEAN,
   initialized : BOOLEAN, running : BOOLEAN, starting : BOOLEAN, run : 0..MaxRun,
   attempt : [Runs -> AttemptStage],
   polling : PollStage, pollCut : BOOLEAN, settingsChangedInPoll : BOOLEAN,
   waitingForSetup : BOOLEAN, waitingForKey : BOOLEAN,
   timer : {"none", "poll", "retry"}, pollTimers : Nat, retryTimers : Nat, due : BOOLEAN,
   abort : 0..PollSignal,
   sub : [Subs -> SubStage], subs : 0..MaxSubs, startSub : 0..MaxSubs,
   session : 0..MaxSubs, unsubscribe : 0..MaxSubs,
   overlays : BOOLEAN, refreshing : BOOLEAN,
   listener : 0..MaxRun, listenerPending : 0..MaxRun,
   stops : 0..MaxRun, leaving : BOOLEAN, pubs : SUBSET Report, healthSoon : BOOLEAN]

NewHosted ==
  [listed |-> "no", removed |-> FALSE, enabled |-> FALSE, initialized |-> FALSE,
   running |-> FALSE, starting |-> FALSE, run |-> 0,
   attempt |-> [r \in Runs |-> "none"],
   polling |-> "idle", pollCut |-> FALSE, settingsChangedInPoll |-> FALSE,
   waitingForSetup |-> FALSE, waitingForKey |-> FALSE,
   timer |-> "none", pollTimers |-> 0, retryTimers |-> 0, due |-> FALSE,
   abort |-> None, sub |-> [n \in Subs |-> "none"], subs |-> 0, startSub |-> 0,
   session |-> 0, unsubscribe |-> 0, overlays |-> FALSE, refreshing |-> FALSE,
   listener |-> 0, listenerPending |-> 0, stops |-> 0, leaving |-> FALSE,
   pubs |-> {}, healthSoon |-> FALSE]

Init ==
  /\ hosted = [o \in Objects |-> NewHosted]
  /\ health = [s \in Sources |-> "none"]
  /\ started = FALSE
  /\ disposed = FALSE
  /\ online = TRUE

-----------------------------------------------------------------------------
(* Pieces of handlers that do not await: each maps a Hosted record to the  *)
(* record it leaves.                                                       *)

PausesOffline(o) == o \in Remote \ CachesOffline

\* Faulty variant: forgets that no timer may be armed.
ClearsTwice(x) == [x EXCEPT !.timer = "none", !.pollTimers = @ - 1]

\* clearTimeout(h.timer): only the timer h.timer refers to can be cleared.
ClearTimer(x) ==
  [x EXCEPT !.timer = "none",
            !.pollTimers = IF x.timer = "poll" THEN @ - 1 ELSE @,
            !.retryTimers = IF x.timer = "retry" THEN @ - 1 ELSE @]

Schedule(x) ==
  IF x.running /\ ~disposed
  THEN [ClearTimer(x) EXCEPT !.timer = "poll", !.pollTimers = @ + 1, !.due = TRUE]
  ELSE x

\* A session whose signal is aborted is closed by its provider.
CancelPoll(x) ==
  [ClearTimer(x) EXCEPT
     !.due = FALSE,
     !.abort = None,
     !.pollCut = @ \/ x.abort = PollSignal,
     !.session = IF x.abort = @ THEN 0 ELSE @]

StopOverride(x) == IF x.enabled THEN "STARTING" ELSE "DISABLED"

\* stopProvider after provider.stop() answered; unregister then forgets the object.
StopTail(x) ==
  [x EXCEPT !.overlays = FALSE,
            !.listener = 0,
            !.pubs = IF x.removed THEN @ ELSE @ \union {StopOverride(x)}]

Forget(x) == [x EXCEPT !.listed = "gone", !.leaving = FALSE]

\* stopProvider up to its first await.
StopNow(x) ==
  LET y == [CancelPoll(x) EXCEPT
              !.run = @ + 1,
              !.starting = FALSE,
              !.session = IF x.unsubscribe = @ THEN 0 ELSE @,
              !.unsubscribe = 0]
  IN  IF x.running
      THEN [y EXCEPT !.running = FALSE, !.session = 0, !.stops = @ + 1]
      ELSE StopTail(y)

\* Faulty variant: a start is refused while one that was stopped is still being answered.
CanStartWhenIdle(x) ==
  /\ x.listed = "yes" /\ ~x.running /\ ~x.starting /\ ~x.removed /\ ~disposed
  /\ \A r \in Runs : x.attempt[r] \in {"none", "done"}

\* startProvider up to its first await, and whether it goes on.
CanStart(x) == x.listed = "yes" /\ ~x.running /\ ~x.starting /\ ~x.removed /\ ~disposed

\* attemptStart takes its run at once; only a first attempt has none before it to wait for.
BeginStart(x) ==
  LET first == \A r \in Runs : x.attempt[r] = "none"
      stage == IF first THEN "initializing" ELSE "waiting"
  IN  [x EXCEPT !.run = @ + 1,
                !.starting = TRUE,
                !.attempt = [@ EXCEPT ![x.run + 1] = stage]]

\* Faulty variant: a stop or a disable does not overtake a start.
OvertakenByRemoval(x, r) == x.removed \/ disposed

Overtaken(x, r) == x.run # r \/ x.removed \/ ~x.enabled \/ disposed

At(x, r, stage) == [x EXCEPT !.attempt = [@ EXCEPT ![r] = stage]]

\* Faulty variant: an overtaken attempt clears the flag of the one that overtook it.
EndsEveryAttempt(x, r) == [At(x, r, "done") EXCEPT !.starting = FALSE]

EndAttempt(x, r) ==
  [At(x, r, "done") EXCEPT !.starting = IF x.run = r THEN FALSE ELSE @]

RefreshOverlays(o, x) ==
  IF x.running /\ o \in Overlaid THEN [x EXCEPT !.refreshing = TRUE] ELSE x

\* Faulty variant: a poll does not ask whether there is a network.
PollsOffline(o, x) ==
  IF ~x.running \/ o \notin Polled \/ x.polling # "idle" THEN x
  ELSE [x EXCEPT !.polling = "asking", !.pollCut = FALSE, !.due = FALSE, !.abort = PollSignal]

\* poll up to its first await.
Poll(o, x) ==
  IF ~x.running \/ o \notin Polled \/ x.polling # "idle" THEN x
  ELSE IF PausesOffline(o) /\ ~online THEN [x EXCEPT !.pubs = @ \union {"OFFLINE"}]
  ELSE [x EXCEPT !.polling = "asking", !.pollCut = FALSE, !.due = FALSE,
                 !.abort = PollSignal]

\* Faulty variant: h.polling is not reset.
StaysPolling(x) == [x EXCEPT !.pollCut = FALSE, !.settingsChangedInPoll = FALSE]

\* poll's finally block.
EndPoll(x) ==
  LET y == [x EXCEPT !.polling = "idle", !.pollCut = FALSE,
                     !.abort = IF @ = PollSignal THEN None ELSE @,
                     !.settingsChangedInPoll = FALSE]
  IN  IF x.settingsChangedInPoll /\ ~x.waitingForKey THEN Schedule(y) ELSE y

OpenSubscription(x) ==
  [x EXCEPT !.subs = @ + 1,
            !.sub = [@ EXCEPT ![x.subs + 1] = "asked"],
            !.abort = x.subs + 1]

\* attemptStart after the subscription: poll at once, or publish what there is.
AfterSubscribe(o, x, r) ==
  IF o \in Polled
  THEN EndAttempt(RefreshOverlays(o, Schedule(x)), r)
  ELSE At(x, r, "publishing")

-----------------------------------------------------------------------------
(* Source Health: publishHealth reads the object again when the provider's  *)
(* own health arrives; an override wins over everything.                    *)

Statuses(o, x, override) ==
  IF override # "own" THEN {override}
  ELSE IF ~x.running THEN {"DISABLED", StopOverride(x)}
  ELSE IF o \in Remote /\ ~online THEN {"OFFLINE"}
  ELSE {"REPORTED"}

UpdateHealth(s, status) ==
  health' = [health EXCEPT ![s] = IF @ = "none" THEN @ ELSE status]

Publish(o, override) ==
  \E status \in Statuses(o, hosted[o], override) : UpdateHealth(SourceOf[o], status)

Become(o, x) == hosted' = [hosted EXCEPT ![o] = x]

HostUnchanged == UNCHANGED <<started, disposed, online>>

-----------------------------------------------------------------------------
(* Calls from outside.                                                     *)

StartIfWanted(x) == IF x.enabled /\ started /\ CanStart(x) THEN BeginStart(x) ELSE x

Register(o, enabled) ==
  LET x == hosted[o] IN
  /\ x.listed = "no"
  /\ \A p \in Objects : SourceOf[p] = SourceOf[o] => hosted[p].listed # "yes"
  /\ x.run < MaxRun
  /\ Become(o, StartIfWanted([x EXCEPT !.listed = "yes", !.enabled = enabled]))
  /\ health' = [health EXCEPT ![SourceOf[o]] = IF enabled THEN "STARTING" ELSE "DISABLED"]
  /\ HostUnchanged

Unregister(o) ==
  LET x == [hosted[o] EXCEPT !.enabled = FALSE, !.removed = TRUE] IN
  /\ "unregister" \in Inputs
  /\ hosted[o].listed = "yes" /\ ~hosted[o].removed
  /\ x.run < MaxRun
  /\ IF x.running
     THEN /\ Become(o, [StopNow(x) EXCEPT !.leaving = TRUE])
          /\ UNCHANGED health
     ELSE /\ Become(o, Forget(StopNow(x)))
          /\ health' = [health EXCEPT ![SourceOf[o]] = "none"]
  /\ HostUnchanged

SetEnabled(o, enabled) ==
  LET x == [hosted[o] EXCEPT !.enabled = enabled]
      shown == health[SourceOf[o]]
  IN
  /\ hosted[o].listed = "yes" /\ hosted[o].enabled # enabled
  /\ ~enabled => "disable" \in Inputs
  /\ x.run < MaxRun
  /\ Become(o, IF enabled THEN StartIfWanted(x) ELSE StopNow(x))
  /\ UpdateHealth(SourceOf[o],
       CASE ~enabled -> "DISABLED"
         [] enabled /\ shown = "DISABLED" -> "STARTING"
         [] OTHER -> shown)
  /\ HostUnchanged

Listed == {o \in Objects : hosted[o].listed = "yes"}

Start ==
  /\ ~started
  /\ \A o \in Listed : hosted[o].run < MaxRun
  /\ started' = TRUE
  /\ hosted' = [o \in Objects |->
       IF hosted[o].enabled /\ CanStart(hosted[o]) THEN BeginStart(hosted[o]) ELSE hosted[o]]
  /\ UNCHANGED <<health, disposed, online>>

StopAll ==
  /\ \A o \in Listed : hosted[o].run < MaxRun
  /\ started' = FALSE
  /\ hosted' = [o \in Objects |-> IF o \in Listed THEN StopNow(hosted[o]) ELSE hosted[o]]
  /\ UNCHANGED <<health, online>>

Stop == "stop" \in Inputs /\ started /\ StopAll /\ UNCHANGED disposed

Dispose == "dispose" \in Inputs /\ ~disposed /\ StopAll /\ disposed' = TRUE

\* A remote source is cut off at once, and asked again when the network is back.
SetOnline(up) ==
  LET affected == {o \in Listed : hosted[o].running /\ PausesOffline(o)}
      resumed == {o \in affected : ~hosted[o].waitingForSetup /\ ~hosted[o].waitingForKey}
  IN
  /\ "network" \in Inputs
  /\ online # up
  /\ online' = up
  /\ hosted' = [o \in Objects |->
       CASE up /\ o \in resumed -> Schedule(hosted[o])
         [] ~up /\ o \in affected -> CancelPoll(hosted[o])
         [] OTHER -> hosted[o]]
  /\ health' = [s \in Sources |->
       IF ~up /\ health[s] # "none" /\ \E o \in affected : SourceOf[o] = s
       THEN "OFFLINE" ELSE health[s]]
  /\ UNCHANGED <<started, disposed>>

\* A moved view asks earlier, unless a poll is due sooner: a due time left behind by a
\* timer that has fired is always sooner.
SetViewport ==
  LET asked == {o \in Listed : /\ hosted[o].running /\ o \in BoundsQuery
                               /\ hosted[o].polling = "idle"
                               /\ ~hosted[o].waitingForSetup /\ ~hosted[o].waitingForKey}
      must == {o \in asked : ~hosted[o].due}
      may == {o \in asked : hosted[o].due /\ hosted[o].pollTimers > 0}
  IN
  /\ "viewport" \in Inputs
  /\ \E some \in SUBSET may :
       hosted' = [o \in Objects |->
         IF o \in must \union some THEN Schedule(hosted[o]) ELSE hosted[o]]
  /\ UNCHANGED <<health, started, disposed, online>>

\* Back towards the normal pace: a poll already queued may come forward.
SetPollScale ==
  LET queued == {o \in Listed : /\ hosted[o].running /\ o \in Remote
                                /\ hosted[o].polling = "idle" /\ hosted[o].due}
  IN
  /\ "scale" \in Inputs
  /\ \E some \in SUBSET queued :
       hosted' = [o \in Objects |-> IF o \in some THEN Schedule(hosted[o]) ELSE hosted[o]]
  /\ UNCHANGED <<health, started, disposed, online>>

SettingsChange(o) ==
  LET x == hosted[o] IN
  /\ "settings" \in Inputs
  /\ x.listed = "yes" /\ x.running /\ ~x.waitingForKey
  /\ Become(o, IF x.polling # "idle" THEN [x EXCEPT !.settingsChangedInPoll = TRUE]
               ELSE Schedule(x))
  /\ UNCHANGED <<health, started, disposed, online>>

CredentialChange(o) ==
  LET x == [hosted[o] EXCEPT !.waitingForKey = FALSE] IN
  /\ "credential" \in Inputs
  /\ x.listed = "yes" /\ x.running /\ o \in Keyed
  /\ Become(o, IF o \in Polled THEN Schedule(x)
               ELSE [Schedule(x) EXCEPT !.healthSoon = @ \/ ~disposed])
  /\ UNCHANGED <<health, started, disposed, online>>

PollNow(o) ==
  /\ "pollNow" \in Inputs
  /\ hosted[o].listed = "yes" /\ hosted[o].running
  /\ Become(o, Poll(o, hosted[o]))
  /\ UNCHANGED <<health, started, disposed, online>>

-----------------------------------------------------------------------------
(* A start attempt.                                                        *)

\* Faulty variant: a start does not wait for the one before it.
NeedNotWait(x, r) == TRUE

\* An earlier attempt is over before this one calls the provider.
PreviousOver(x, r) == \A q \in Runs : q < r => x.attempt[q] \in {"none", "done"}

AttemptProceeds(o, r) ==
  LET x == hosted[o] IN
  /\ x.attempt[r] = "waiting"
  /\ PreviousOver(x, r)
  /\ Become(o, IF Overtaken(x, r) THEN EndAttempt(x, r)
               ELSE At(x, r, IF x.initialized THEN "starting" ELSE "initializing"))
  /\ UNCHANGED <<health, started, disposed, online>>

InitializeAnswers(o, r) ==
  LET x == [hosted[o] EXCEPT !.initialized = TRUE] IN
  /\ x.attempt[r] = "initializing"
  /\ Become(o, IF Overtaken(x, r) THEN EndAttempt([x EXCEPT !.listener = 0], r)
               ELSE At(x, r, "starting"))
  /\ UNCHANGED <<health, started, disposed, online>>

\* initialize() or start() throws.
StartFails(o, r) ==
  LET x == hosted[o] IN
  /\ "startFails" \in Inputs
  /\ x.attempt[r] \in {"initializing", "starting"}
  /\ Become(o, IF Overtaken(x, r) THEN EndAttempt([x EXCEPT !.listener = 0], r)
               ELSE At(x, r, "failing"))
  /\ UNCHANGED <<health, started, disposed, online>>

StartAnswers(o, r) ==
  LET x == hosted[o]
      y == [x EXCEPT !.running = TRUE, !.waitingForKey = FALSE, !.waitingForSetup = FALSE]
  IN
  /\ x.attempt[r] = "starting"
  /\ o \in Streamed => x.subs < MaxSubs
  /\ Become(o, IF Overtaken(x, r) THEN [At(x, r, "undoing") EXCEPT !.session = 0]
               ELSE IF o \in Streamed
               THEN [At(OpenSubscription(y), r, "subscribing") EXCEPT !.startSub = x.subs + 1]
               ELSE AfterSubscribe(o, y, r))
  /\ UNCHANGED <<health, started, disposed, online>>

\* The provider of an overtaken attempt has stopped.
Undone(o, r) ==
  LET x == hosted[o] IN
  /\ x.attempt[r] = "undoing"
  /\ Become(o, EndAttempt([x EXCEPT !.listener = 0], r))
  /\ UNCHANGED <<health, started, disposed, online>>

\* The publish the attempt awaits arrives: the failure of the start, or the first health of
\* a source that is not polled.
AttemptPublishes(o, r) ==
  LET x == hosted[o] IN
  /\ \/ /\ x.attempt[r] = "failing"
        /\ UpdateHealth(SourceOf[o], "ERROR")
        /\ Become(o, EndAttempt(x, r))
     \/ /\ x.attempt[r] = "publishing"
        /\ Publish(o, "own")
        /\ Become(o, EndAttempt(RefreshOverlays(o, x), r))
  /\ HostUnchanged

\* provider.stop() answers to a stopProvider call.
StopAnswers(o) ==
  LET x == hosted[o] IN
  /\ x.stops > 0
  /\ Become(o, StopTail([x EXCEPT !.stops = @ - 1]))
  /\ x.leaving => x.stops > 1
  /\ UNCHANGED <<health, started, disposed, online>>

\* The same for the call of unregister, which then takes the object out.
UnregisterStops(o) ==
  LET x == hosted[o] IN
  /\ x.leaving
  /\ Become(o, Forget(StopTail([x EXCEPT !.stops = @ - 1])))
  /\ health' = [health EXCEPT ![SourceOf[o]] = "none"]
  /\ HostUnchanged

-----------------------------------------------------------------------------
(* Polling.                                                                *)

PollTimerFires(o) ==
  LET x == [hosted[o] EXCEPT !.pollTimers = @ - 1, !.timer = "none"] IN
  /\ hosted[o].pollTimers > 0
  /\ Become(o, Poll(o, x))
  /\ UNCHANGED <<health, started, disposed, online>>

\* The poll's own time is up: its signal is aborted with the reason TIMEOUT.
BudgetExpires(o) ==
  /\ "budget" \in Inputs
  /\ hosted[o].polling = "asking" /\ ~hosted[o].pollCut
  /\ Become(o, [hosted[o] EXCEPT !.pollCut = TRUE])
  /\ UNCHANGED <<health, started, disposed, online>>

\* The provider answers; admit hands the batch to the sinks in this step.
QueryAnswers(o) ==
  LET x == hosted[o] IN
  /\ x.polling = "asking"
  /\ Become(o, [x EXCEPT !.polling = "served", !.waitingForSetup = FALSE,
                         !.waitingForKey = FALSE])
  /\ UNCHANGED <<health, started, disposed, online>>

\* The provider saw the abort (CANCELLED): nothing is reported and nothing scheduled.  The
\* code does the same on a CANCELLED of another origin; providers are taken to give none.
QueryCancelled(o) ==
  /\ hosted[o].polling = "asking" /\ hosted[o].pollCut
  /\ Become(o, EndPoll(hosted[o]))
  /\ UNCHANGED <<health, started, disposed, online>>

\* Setup is required, the key is missing or refused, or the poll failed (for good when the
\* host is not allowed).
QueryFails(o) ==
  LET x == hosted[o] IN
  /\ x.polling = "asking"
  /\ \/ Become(o, [x EXCEPT !.polling = "setup", !.waitingForSetup = TRUE])
     \/ Become(o, [x EXCEPT !.polling = "key", !.waitingForSetup = FALSE,
                            !.waitingForKey = TRUE])
     \/ \E stage \in {"backoff", "never"} :
          /\ stage = "never" => "hostNotAllowed" \in Inputs
          /\ Become(o, [x EXCEPT !.polling = stage, !.waitingForSetup = FALSE])
  /\ UNCHANGED <<health, started, disposed, online>>

\* Faulty variant: a failed poll has no back-off.
AsksAgainWhenServed == {"served"}

\* The stages of a poll after which the source is scheduled again.
AsksAgain == {"served", "backoff"}

\* The health a poll awaits is published; what was served or failed is scheduled again.
PollReported(o) ==
  LET x == hosted[o] IN
  /\ x.polling \notin {"idle", "asking"}
  /\ Publish(o, "own")
  /\ LET y == IF x.polling \in AsksAgain THEN Schedule(x) ELSE x
     IN  Become(o, EndPoll(IF x.polling = "served" THEN RefreshOverlays(o, y) ELSE y))
  /\ HostUnchanged

RefreshAnswers(o, some) ==
  /\ hosted[o].refreshing
  /\ Become(o, [hosted[o] EXCEPT !.refreshing = FALSE, !.overlays = some])
  /\ UNCHANGED <<health, started, disposed, online>>

-----------------------------------------------------------------------------
(* Subscriptions.                                                          *)

\* A bound: the last subscription of an object is left to a start.
RetryTimerFires(o) ==
  LET x == [hosted[o] EXCEPT !.retryTimers = @ - 1, !.timer = "none"] IN
  /\ hosted[o].retryTimers > 0
  /\ x.running => x.subs + 1 < MaxSubs
  /\ Become(o, IF x.running THEN OpenSubscription(x) ELSE x)
  /\ UNCHANGED <<health, started, disposed, online>>

SubAt(x, n, stage) == [x EXCEPT !.sub = [@ EXCEPT ![n] = stage]]

\* The provider has looked its key up and opens a session, closing the one it had.
SessionOpens(o, n) ==
  /\ hosted[o].sub[n] = "asked"
  /\ Become(o, [SubAt(hosted[o], n, "opening") EXCEPT !.session = n])
  /\ UNCHANGED <<health, started, disposed, online>>

SubscribeAnswers(o, n) ==
  /\ hosted[o].sub[n] = "opening"
  /\ Become(o, [SubAt(hosted[o], n, "telling") EXCEPT !.unsubscribe = n])
  /\ UNCHANGED <<health, started, disposed, online>>

SubscribeFails(o, n) ==
  LET x == [hosted[o] EXCEPT !.session = IF @ = n THEN 0 ELSE @] IN
  /\ "subscribeFails" \in Inputs
  /\ x.sub[n] \in {"asked", "opening"}
  /\ \/ Become(o, SubAt(x, n, "failing"))
     \/ Become(o, SubAt(x, n, "refused"))
  /\ UNCHANGED <<health, started, disposed, online>>

\* The start attempt that awaited subscription n, if one did, goes on.
Resume(o, x, n) ==
  IF x.startSub = n
  THEN AfterSubscribe(o, [x EXCEPT !.startSub = 0],
                      CHOOSE r \in Runs : x.attempt[r] = "subscribing")
  ELSE x

\* Faulty variant: a failed subscription is not retried.
NoRetry(x) == x

\* h.timer = setTimeout(...) without clearing the timer it referred to.
ArmRetry(x) == [x EXCEPT !.timer = "retry", !.retryTimers = @ + 1]

\* The health an openSubscription call awaits is published: of the open subscription, or of
\* its failure, which arms a retry (not for a refused key).
SubscriptionReported(o, n) ==
  LET x == SubAt(hosted[o], n, "done") IN
  /\ \/ /\ hosted[o].sub[n] = "telling"
        /\ Publish(o, "own")
        /\ Become(o, Resume(o, x, n))
     \/ /\ hosted[o].sub[n] = "failing"
        /\ UpdateHealth(SourceOf[o], "ERROR")
        /\ Become(o, Resume(o, ArmRetry(x), n))
     \/ /\ hosted[o].sub[n] = "refused"
        /\ UpdateHealth(SourceOf[o], "ERROR")
        /\ Become(o, Resume(o, SubAt(x, n, "noKey"), n))
  /\ HostUnchanged

\* A session pushes observations; they are admitted while the source runs.
Emit(o) ==
  /\ hosted[o].session # 0 /\ hosted[o].running
  /\ Become(o, [hosted[o] EXCEPT !.pubs = @ \union {"own"}])
  /\ UNCHANGED <<health, started, disposed, online>>

-----------------------------------------------------------------------------
(* The listener, and health published on the side.                         *)

Listen(o) ==
  LET x == hosted[o] IN
  /\ o \in Listening
  /\ x.running \/ x.starting
  /\ ~x.removed /\ x.listener = 0 /\ x.listenerPending = 0
  /\ Become(o, [x EXCEPT !.listenerPending = x.run])
  /\ UNCHANGED <<health, started, disposed, online>>

\* Faulty variant: a port that opens late is kept whatever happened meanwhile.
KeepAnyListener(x) == TRUE

MayKeepListener(x) ==
  x.run = x.listenerPending /\ ~x.removed /\ (x.running \/ x.starting)

\* The port is open (kept only in the run that asked for it), or could not be opened.
ListenAnswers(o, opened) ==
  LET x == hosted[o]
      kept == opened /\ MayKeepListener(x)
  IN
  /\ x.listenerPending # 0
  /\ Become(o, [x EXCEPT !.listenerPending = 0,
                         !.listener = IF kept THEN x.run ELSE @])
  /\ UNCHANGED <<health, started, disposed, online>>

\* The listener refused a request: health is published soon.
ListenerRefuses(o) ==
  /\ hosted[o].listener # 0 /\ ~disposed
  /\ Become(o, [hosted[o] EXCEPT !.healthSoon = TRUE])
  /\ UNCHANGED <<health, started, disposed, online>>

\* The provider closes its listener.
ListenerClosed(o) ==
  /\ hosted[o].listener # 0
  /\ Become(o, [hosted[o] EXCEPT !.listener = 0])
  /\ UNCHANGED <<health, started, disposed, online>>

PublishLands(o, override) ==
  /\ override \in hosted[o].pubs
  /\ Publish(o, override)
  /\ Become(o, [hosted[o] EXCEPT !.pubs = @ \ {override}])
  /\ HostUnchanged

HealthSoonFires(o) ==
  LET x == hosted[o] IN
  /\ x.healthSoon
  /\ Become(o, [x EXCEPT !.healthSoon = FALSE,
                         !.pubs = IF x.running /\ ~x.removed /\ ~disposed
                                  THEN @ \union {"own"} ELSE @])
  /\ UNCHANGED <<health, started, disposed, online>>

-----------------------------------------------------------------------------
\* Calls from outside: no fairness, they may never come.
Outside ==
  \/ Start \/ Stop \/ Dispose \/ SetViewport \/ SetPollScale
  \/ \E up \in BOOLEAN : SetOnline(up)
  \/ \E o \in Objects :
       \/ \E b \in BOOLEAN : Register(o, b) \/ SetEnabled(o, b)
       \/ Unregister(o) \/ SettingsChange(o) \/ CredentialChange(o) \/ PollNow(o)

\* What a source does of its own accord.
Spontaneous(o) ==
  BudgetExpires(o) \/ Emit(o) \/ Listen(o) \/ ListenerRefuses(o) \/ ListenerClosed(o)

\* The answer to a call in flight, or a timer that fires.
AttemptSteps(o, r) ==
  \/ AttemptProceeds(o, r) \/ InitializeAnswers(o, r) \/ StartFails(o, r)
  \/ StartAnswers(o, r) \/ Undone(o, r) \/ AttemptPublishes(o, r)
StopSteps(o) == StopAnswers(o) \/ UnregisterStops(o)
PollSteps(o) == QueryAnswers(o) \/ QueryCancelled(o) \/ QueryFails(o) \/ PollReported(o)
SubscriptionSteps(o, n) ==
  \/ SessionOpens(o, n) \/ SubscribeAnswers(o, n) \/ SubscribeFails(o, n)
  \/ SubscriptionReported(o, n)
Refreshes(o) == \E some \in BOOLEAN : RefreshAnswers(o, some)
ListenSteps(o) == \E opened \in BOOLEAN : ListenAnswers(o, opened)

Progress(o) ==
  \/ \E r \in Runs : AttemptSteps(o, r)
  \/ StopSteps(o) \/ PollTimerFires(o) \/ PollSteps(o) \/ Refreshes(o)
  \/ RetryTimerFires(o) \/ \E n \in Subs : SubscriptionSteps(o, n)
  \/ ListenSteps(o) \/ HealthSoonFires(o)
  \/ \E override \in Report : PublishLands(o, override)

Next == Outside \/ \E o \in Objects : Spontaneous(o) \/ Progress(o)

Spec == Init /\ [][Next]_vars

\* Every awaited call is answered in the end and every armed timer fires; nobody has to
\* press a button, and no source has to send anything.
Fairness ==
  \A o \in Objects :
    /\ \A r \in Runs : WF_vars(AttemptSteps(o, r))
    /\ \A n \in Subs : WF_vars(SubscriptionSteps(o, n))
    /\ WF_vars(StopSteps(o)) /\ WF_vars(PollSteps(o))
    /\ WF_vars(PollTimerFires(o)) /\ WF_vars(RetryTimerFires(o))

FairSpec == Spec /\ Fairness

-----------------------------------------------------------------------------
(* What the host promises.                                                 *)

\* The type of every variable.
TypeOK ==
  /\ hosted \in [Objects -> HostedType]
  /\ health \in [Sources -> Status \union {"none"}]
  /\ started \in BOOLEAN /\ disposed \in BOOLEAN /\ online \in BOOLEAN

InFlight(x, r) == x.attempt[r] \notin {"none", "done"}

\* A source runs only while the host does and the operator wants it: no order of starts,
\* slow starts, stops, disables and removals leaves a source running that was turned off
\* (`overtaken` in attemptStart, `run` in stopProvider).
RunningIsWanted ==
  \A o \in Objects : hosted[o].running =>
    /\ hosted[o].enabled /\ ~hosted[o].removed /\ hosted[o].listed = "yes"
    /\ started /\ ~disposed

\* Two start attempts of one source never both call its provider, however often it is
\* stopped and started while the provider is slow (attemptStart awaits the previous one).
StartsDoNotInterleave ==
  \A o \in Objects : \A q, r \in Runs :
    /\ hosted[o].attempt[q] \in {"initializing", "starting", "undoing", "subscribing"}
    /\ hosted[o].attempt[r] \in {"initializing", "starting", "undoing", "subscribing"}
    => q = r

\* h.starting is set exactly while the attempt of the current run is in flight, so a start
\* is neither begun twice nor refused for ever because of one that was overtaken.
StartingIsCurrent ==
  \A o \in Objects :
    /\ hosted[o].starting => hosted[o].run \in Runs
    /\ \A r \in Runs : InFlight(hosted[o], r) /\ hosted[o].run = r <=>
                       hosted[o].starting /\ hosted[o].run = r

\* Nothing will ask a running polled source that is online: no timer, no poll in flight, no
\* start, and no operator it waits for (schedule and poll).
Forgotten(o) ==
  LET x == hosted[o] IN
  /\ x.running /\ (online \/ ~PausesOffline(o))
  /\ x.pollTimers = 0 /\ x.polling = "idle"
  /\ ~x.waitingForSetup /\ ~x.waitingForKey
  /\ \A r \in Runs : x.attempt[r] \in {"none", "done"}

\* A source is forgotten only by the end of a poll that was cut, whose host the allow list
\* refuses, or whose missing key or setup was answered while it was still being reported: no
\* other order of timers, starts, stops, settings, view and network changes leaves a polled
\* source unasked (poll's CANCELLED branch, schedule).
ForgottenOnlyByACut ==
  [][\A o \in Polled : ~Forgotten(o) /\ Forgotten(o)' =>
       \/ hosted[o].polling = "asking" /\ hosted[o].pollCut
       \/ hosted[o].polling \in {"never", "key", "setup"}]_vars

\* A running subscribed source that is online always has a session, or a subscription
\* being opened, or a timer that will open one, or was refused its key (openSubscription).
StreamIsServed ==
  \A o \in Streamed : LET x == hosted[o] IN
    x.running /\ (online \/ ~PausesOffline(o)) =>
      \/ x.session # 0 \/ x.retryTimers > 0
      \/ \E n \in Subs : x.sub[n] \in {"asked", "opening", "failing", "refused", "noKey"}

Wanted(o) ==
  hosted[o].listed = "yes" /\ hosted[o].enabled /\ ~hosted[o].removed /\ started /\ ~disposed

\* No port is left open: a source with a listener is wanted (it runs, starts, or failed to
\* start), or a stop of it is unanswered that will still close it, however slow the opening of
\* the port, the start and the stop are (withListener, closeListener).
ListenerIsOwned ==
  \A o \in Objects : hosted[o].listener # 0 => Wanted(o) \/ hosted[o].stops > 0

\* While the network is away no remote source goes on asking: a poll that was running is cut,
\* and none begins, whatever starts, stops, timers and key entries come in between (setOnline,
\* poll; of a source that is also subscribed to, the poll's signal may have been lost).
OfflineIsQuiet ==
  \A o \in Polled \ Streamed :
    ~online /\ PausesOffline(o) /\ hosted[o].polling = "asking" => hosted[o].pollCut

\* A source taken out is closed: it never runs, polls or listens again, although its slow
\* start, poll or stop may still be answered, and a reload of its definition finds its id
\* free exactly when Source Health has forgotten it (unregister).
TakenOutIsClosed ==
  /\ \A o \in Objects : hosted[o].listed = "gone" =>
       ~hosted[o].running /\ ~hosted[o].starting /\ hosted[o].listener = 0
  /\ \A s \in Sources :
       health[s] = "none" <=> \A o \in Objects : SourceOf[o] = s => hosted[o].listed # "yes"

\* The provider threw, and nobody has stopped or started the source since.
FailedToStart(x) == x.run \in Runs /\ x.attempt[x.run] = "done" /\ ~x.running

\* A source that is wanted runs in the end, unless its own start fails, whatever was pressed
\* before.
WantedSourceRuns ==
  \A o \in Objects :
    Wanted(o) ~> (hosted[o].running \/ ~Wanted(o) \/ FailedToStart(hosted[o]))

\* A source that is disabled or removed comes to rest: no poll, no start and no stop is left
\* in flight, and no timer of it is armed.
UnwantedSourceRests ==
  \A o \in Objects :
    (~hosted[o].enabled \/ hosted[o].removed)
      ~> \/ hosted[o].enabled /\ ~hosted[o].removed
         \/ /\ ~hosted[o].running /\ hosted[o].polling = "idle" /\ hosted[o].stops = 0
            /\ \A r \in Runs : ~InFlight(hosted[o], r)
            /\ hosted[o].pollTimers = 0 /\ hosted[o].retryTimers = 0
=============================================================================

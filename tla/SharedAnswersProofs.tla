------------------------ MODULE SharedAnswersProofs ------------------------
(***************************************************************************)
(* Every step of the HTTP client is one of SharedAnswers, for any number   *)
(* of calls, keys and hosts.  That all who wait for a key are answered at  *)
(* once is FlightsAreExact: who has joined for a key follows the one call  *)
(* that executes for it.  That a stored answer is one that was fetched     *)
(* under its key needs an invariant: what the cache holds for a key, and   *)
(* what an execution found there when it began, was a fresh answer for it. *)
(***************************************************************************)
EXTENDS HttpClientProofs

StoreOwned == \A k \in Keys : Owned(cache[k].body, k) /\ Owned(cache[k].good, k)

FoundOwned ==
  \A c \in Calls : call[c].stage \in Executing => Owned(call[c].cached, call[c].key)

SInv == IInv /\ Resting /\ StoreOwned /\ FoundOwned

\* What an execution that goes on found: what it had found, or what is stored as it begins.
FoundStays ==
  \A d \in Calls : call'[d].stage \in Executing =>
    \/ /\ call[d].stage \in Executing
       /\ call'[d].cached = call[d].cached /\ call'[d].key = call[d].key
    \/ call'[d].key \in Keys /\ call'[d].cached = cache[call'[d].key].body

Shares == [SA!Next]_(SA!svars) /\ FoundStays

\* x is the record of c on its way, and has what c found in the cache.
Prepared(c, x) ==
  /\ Ready(c, x) /\ Owned(x.cached, x.key)
  /\ call[c].stage \in Executing => x.cached = call[c].cached /\ x.key = call[c].key
  /\ call[c].stage = "none" => x.cached = cache[x.key].body

-----------------------------------------------------------------------------
\* What somebody got fresh, he has got.
LEMMA OwnedIsGot ==
  ASSUME NEW b, NEW k, Owned(b, k), b # NoCall
  PROVE  b \in Calls /\ Got(b) = [key |-> k, answer |-> "fresh", body |-> b]
BY DEF Owned, Got

\* Who waits with a call that executes for a key: whoever has joined it, and nobody else.
LEMMA WhoWaits ==
  ASSUME Flights, NEW c \in Calls, NEW x, Ready(c, x)
  PROVE  /\ call[c].stage \in Executing =>
              \A d \in Calls : d \in Waiters(x.key) <=>
                d = c \/ (call[d].stage = "joined" /\ call[d].leader = c)
         /\ call[c].stage = "none" =>
              /\ Waiters(x.key) = {}
              /\ \A d \in Calls : ~(call[d].stage = "joined" /\ call[d].leader = c)
<1>1. CASE call[c].stage \in Executing
  <2>1. flight[x.key] = c /\ x.key \in Keys
    BY <1>1 DEF Ready, Executing, Waiting
  <2>2. call[c].key = x.key
    BY <2>1, HttpAssumption DEF Flights, FlightsAreExact
  <2>3. ASSUME NEW d \in Calls, call[d].stage \in Executing, call[d].key = x.key
        PROVE  d = c
    <3>1. flight[x.key] = d
      BY <2>3, OwnFlight DEF Ready, Executing, Waiting
    <3>. QED BY <2>1, <3>1
  <2>4. ASSUME NEW d \in Calls, call[d].stage = "joined"
        PROVE  call[d].leader = c <=> call[d].key = x.key
    <3>1. call[d].key \in Keys /\ flight[call[d].key] = call[d].leader /\ call[d].leader \in Calls
      BY <2>4 DEF Flights, FlightsAreExact, Named
    <3>2. call[flight[call[d].key]].key = call[d].key
      BY <3>1, HttpAssumption DEF Flights, FlightsAreExact
    <3>. QED BY <2>1, <2>2, <3>1, <3>2
  <2>. QED BY <1>1, <2>2, <2>3, <2>4 DEF Waiters, Executing, Waiting
<1>2. CASE call[c].stage = "none"
  <2>1. flight[x.key] = NoCall /\ x.key \in Keys
    BY <1>2 DEF Ready, Executing, Waiting
  <2>2. ASSUME NEW d \in Calls, call[d].stage \in Executing
        PROVE  call[d].key # x.key
    BY <2>1, <2>2, OwnFlight, HttpAssumption DEF Ready, Executing, Waiting
  <2>3. ASSUME NEW d \in Calls, call[d].stage = "joined"
        PROVE  call[d].key # x.key /\ call[d].leader # c
    <3>1. call[d].key \in Keys /\ flight[call[d].key] = call[d].leader /\ call[d].leader \in Calls
      BY <2>3 DEF Flights, FlightsAreExact, Named
    <3>2. call[call[d].leader].stage \in Executing
      BY <3>1 DEF Flights, FlightsAreExact
    <3>. QED BY <1>2, <2>1, <3>1, <3>2, HttpAssumption DEF Executing, Waiting
  <2>. QED BY <1>2, <2>2, <2>3 DEF Waiters, Executing, Waiting
<1>3. call[c].stage \in Executing \/ call[c].stage = "none"
  BY DEF Ready
<1>. QED BY <1>1, <1>2, <1>3 DEF Executing, Waiting

\* An execution that ends answers all who wait for its key; one that never sent anything, only
\* its own call.
LEMMA FinishShares ==
  ASSUME Flights, Resting, NEW c \in Calls, NEW x, Prepared(c, x), NEW answer, NEW body,
         Finish(c, x, answer, body),
         \/ answer = "error" /\ body = NoCall
         \/ answer = "stored" /\ body # NoCall /\ Owned(body, x.key)
         \/ answer = "fresh" /\ body = c /\ call[c].stage \in Executing
  PROVE  Shares
<1> DEFINE k == x.key
           a == [key |-> k, answer |-> answer, body |-> body]
           ends(d) == d = c \/ (call[d].stage = "joined" /\ call[d].leader = c)
           got == [d \in Calls |-> Got(d)]
           waiting == [j \in Keys |-> Waiters(j)]
<1>0. Ready(c, x) /\ k \in Keys
  BY DEF Prepared, Ready
<1>1. /\ \A d \in Calls : ends(d) =>
           /\ call'[d].stage = "answered" /\ call'[d].key = k
           /\ call'[d].answer = answer /\ call'[d].body = body
      /\ \A d \in Calls : ~ends(d) => call'[d] = call[d]
  BY <1>0, FinishLeaves
<1>2. \A d \in Calls : Got(d)' = IF ends(d) THEN a ELSE Got(d)
  BY <1>1 DEF Got
<1>3. /\ call[c].stage \in Executing => \A d \in Calls : d \in Waiters(k) <=> ends(d)
      /\ call[c].stage = "none" => Waiters(k) = {} /\ \A d \in Calls : ends(d) <=> d = c
  BY <1>0, WhoWaits
<1>4. \A j \in Keys : Waiters(j)' = {d \in Waiters(j) : ~ends(d)}
  <2>1. \A j \in Keys, d \in Calls : ends(d) => d \notin Waiters(j)'
    BY <1>1 DEF Waiters, Executing, Waiting
  <2>2. \A j \in Keys, d \in Calls : ~ends(d) => (d \in Waiters(j)' <=> d \in Waiters(j))
    BY <1>1 DEF Waiters
  <2>3. \A j \in Keys : Waiters(j) \subseteq Calls /\ Waiters(j)' \subseteq Calls
    BY DEF Waiters
  <2>. QED BY <2>1, <2>2, <2>3
<1>5. FoundStays
  BY <1>1 DEF FoundStays, Executing, Waiting
<1>6. ASSUME answer = "stored"
      PROVE  body \in Calls /\ Got(body) = [key |-> k, answer |-> "fresh", body |-> body]
  BY <1>6, OwnedIsGot
<1>7. CASE call[c].stage \in Executing
  <2>1. c \in Waiters(k)
    BY <1>3, <1>7
  <2>2. a \in SA!Answers(k, waiting[k])
    BY <1>0, <1>6, <2>1 DEF SA!Answers
  <2>3. got' = [d \in Calls |-> IF d \in waiting[k] THEN a ELSE got[d]]
    BY <1>0, <1>2, <1>3, <1>7
  <2>4. waiting' = [waiting EXCEPT ![k] = {}]
    <3>1. Waiters(k)' = {}
      BY <1>0, <1>3, <1>4, <1>7 DEF Waiters
    <3>2. \A j \in Keys \ {k} : Waiters(j)' = Waiters(j)
      <4>1. \A d \in Calls : ends(d) => call[d].key = k
        BY <1>3, <1>7 DEF Waiters
      <4>. QED BY <1>4, <4>1 DEF Waiters
    <3>. QED BY <1>0, <3>1, <3>2
  <2>5. SA!Settle(k)
    BY <1>0, <2>1, <2>2, <2>3, <2>4 DEF SA!Settle
  <2>. QED BY <1>0, <1>5, <2>5 DEF Shares, SA!Next
<1>8. CASE call[c].stage = "none"
  <2>1. got[c] = SA!NotYet /\ \A j \in Keys : c \notin waiting[j]
    BY <1>8 DEF Got, Waiters, Executing, Waiting, SA!NotYet
  <2>2. a \in SA!Answers(k, {})
    BY <1>0, <1>6, <1>8 DEF SA!Answers, Executing, Waiting
  <2>3. got' = [got EXCEPT ![c] = a]
    BY <1>2, <1>3, <1>8
  <2>4. \A j \in Keys : Waiters(j)' = Waiters(j)
    <3>1. \A j \in Keys : \A d \in Waiters(j) : ~ends(d)
      BY <1>3, <1>8, <2>1 DEF Waiters
    <3>. QED BY <1>4, <3>1
  <2>5. SA!AnswerAtOnce(c, k)
    BY <1>0, <1>3, <1>8, <2>1, <2>2, <2>3, <2>4 DEF SA!AnswerAtOnce, SA!Unasked
  <2>. QED BY <1>0, <1>5, <2>5 DEF Shares, SA!Next
<1>. QED BY <1>0, <1>7, <1>8 DEF Ready

\* A call that goes on, or begins, waits for its key; those who wait for another do not change.
LEMMA AwaitShares ==
  ASSUME Flights, Resting, NEW c \in Calls, NEW x, Prepared(c, x), NEW stage \in Executing,
         Await(c, x, stage)
  PROVE  Shares
<1> DEFINE k == x.key
           y == [x EXCEPT !.stage = stage]
           got == [d \in Calls |-> Got(d)]
           waiting == [j \in Keys |-> Waiters(j)]
<1>0. Ready(c, x) /\ k \in Keys
  BY DEF Prepared, Ready
<1>1. y.stage = stage /\ y.key = k /\ y.cached = x.cached
  BY <1>0 DEF Ready, CallType
<1>. HIDE DEF y
<1>2. call' = [call EXCEPT ![c] = y]
  BY Zenon DEF Await, y
<1>3. \A d \in Calls : call'[d] = IF d = c THEN y ELSE call[d]
  BY <1>2 DEF Flights
<1>4. call[c].stage # "answered" /\ stage # "answered"
  BY <1>0 DEF Ready, Executing, Waiting
<1>5. got' = got
  BY <1>1, <1>3, <1>4 DEF Got
<1>6. \A j \in Keys : Waiters(j)' = IF j = k THEN Waiters(j) \union {c} ELSE Waiters(j) \ {c}
  BY <1>1, <1>3 DEF Waiters
<1>7. FoundStays
  <2>1. \/ call[c].stage \in Executing /\ y.cached = call[c].cached /\ y.key = call[c].key
        \/ y.key \in Keys /\ y.cached = cache[y.key].body
    BY <1>0, <1>1 DEF Prepared, Ready
  <2>. QED BY <1>3, <2>1 DEF FoundStays
<1>8. CASE call[c].stage \in Executing
  <2>1. call[c].key = k
    BY <1>8 DEF Prepared
  <2>2. \A j \in Keys : Waiters(j)' = Waiters(j)
    BY <1>6, <1>8, <2>1 DEF Waiters
  <2>3. waiting' = waiting
    BY <2>2
  <2>. QED BY <1>5, <1>7, <2>3 DEF Shares, SA!svars
<1>9. CASE call[c].stage = "none"
  <2>1. got[c] = SA!NotYet /\ \A j \in Keys : c \notin Waiters(j)
    BY <1>9 DEF Got, Waiters, Executing, Waiting, SA!NotYet
  <2>2. \A j \in Keys : Waiters(j)' = IF j = k THEN Waiters(j) \union {c} ELSE Waiters(j)
    BY <1>6, <2>1
  <2>3. waiting' = [waiting EXCEPT ![k] = @ \union {c}]
    BY <1>0, <2>2
  <2>4. SA!Ask(c, k)
    BY <1>5, <2>1, <2>3 DEF SA!Ask, SA!Unasked
  <2>. QED BY <1>0, <1>7, <2>4 DEF Shares, SA!Next
<1>. QED BY <1>0, <1>8, <1>9 DEF Ready

\* Nobody's stage, key or answer changes.
LEMMA SameShares ==
  ASSUME \A d \in Calls : /\ call'[d].stage = call[d].stage /\ call'[d].key = call[d].key
                          /\ call'[d].answer = call[d].answer /\ call'[d].body = call[d].body
                          /\ call'[d].cached = call[d].cached
  PROVE  Shares
<1>1. \A d \in Calls : Got(d)' = Got(d)
  BY DEF Got
<1>2. \A j \in Keys : Waiters(j)' = Waiters(j)
  BY DEF Waiters
<1>3. FoundStays
  BY DEF FoundStays
<1>. QED BY <1>1, <1>2, <1>3 DEF Shares, SA!svars

-----------------------------------------------------------------------------
(* The pieces of execute.                                                  *)

LEMMA ServeStaleShares ==
  ASSUME Flights, Resting, NEW c \in Calls, NEW x, Prepared(c, x), ServeStale(c, x)
  PROVE  Shares
<1>1. CASE Error(c, x)
  BY <1>1, FinishShares DEF Error
<1>2. CASE x.cached # NoCall /\ Finish(c, x, "stored", x.cached)
  BY <1>2, FinishShares DEF Prepared
<1>. QED BY <1>1, <1>2 DEF ServeStale

LEMMA LimitsShares ==
  ASSUME Flights, Resting, NEW c \in Calls, NEW x, Prepared(c, x),
         NEW waits \in SUBSET {"limited", "sharing"}, Limits(c, x, waits)
  PROVE  Shares
<1>1. CASE Await(c, x, "fetching")
  BY <1>1, AwaitShares DEF Executing
<1>2. CASE ServeStale(c, x)
  BY <1>2, ServeStaleShares
<1>3. CASE \E stage \in waits : Await(c, x, stage)
  BY <1>3, AwaitShares DEF Executing, Waiting
<1>. QED BY <1>1, <1>2, <1>3 DEF Limits

LEMMA PassBreakerShares ==
  ASSUME Flights, Resting, NEW c \in Calls, NEW x, Prepared(c, x), PassBreaker(c, x)
  PROVE  Shares
<1> DEFINE b == host[HostOf[x.key]]
           y == [x EXCEPT !.probe = b.circuit = "halfOpen"]
<1>1. Prepared(c, y)
  BY DEF Prepared, Ready, CallType
<1>2. CASE ServeStale(c, x)
  BY <1>2, ServeStaleShares
<1>3. CASE Limits(c, y, {"limited", "sharing"})
  BY <1>1, <1>3, LimitsShares
<1>. QED BY <1>2, <1>3, Zenon DEF PassBreaker

-----------------------------------------------------------------------------
(* One lemma per action that touches calls.                                *)

LEMMA RequestShares ==
  ASSUME SInv, NEW c \in Calls, NEW k \in Keys, Request(c, k)
  PROVE  Shares
<1> DEFINE x == [call[c] EXCEPT !.key = k, !.cached = cache[k].body]
<1>. USE DEF SInv, IInv
<1>1. /\ call[c] \in CallType /\ call[c].stage = "none"
      /\ cache[k].body \in Calls \union {NoCall}
  BY DEF Flights, CacheTyped, Request
<1>2. CASE flight[k] = NoCall /\ Execute(c, x)
  <2>1. Prepared(c, x)
    BY <1>1, <1>2 DEF Prepared, Ready, CallType, StoreOwned, Executing, Waiting
  <2>. HIDE DEF x
  <2>2. CASE ServeStale(c, x)
    BY <2>1, <2>2, ServeStaleShares
  <2>3. CASE Await(c, x, "pacing")
    BY <2>1, <2>3, AwaitShares DEF Executing, Waiting
  <2>4. CASE PassBreaker(c, x)
    BY <2>1, <2>4, PassBreakerShares
  <2>. QED BY <1>2, <2>2, <2>3, <2>4, Zenon DEF Execute
<1>3. CASE /\ flight[k] # NoCall
           /\ call' = [call EXCEPT ![c] = [@ EXCEPT !.stage = "joined", !.key = k,
                                                    !.leader = flight[k]]]
           /\ flight' = flight
  <2> DEFINE y == [call[c] EXCEPT !.stage = "joined", !.key = k, !.leader = flight[k]]
             got == [d \in Calls |-> Got(d)]
             waiting == [j \in Keys |-> Waiters(j)]
  <2>1. y.stage = "joined" /\ y.key = k
    BY <1>1 DEF CallType
  <2>. HIDE DEF y
  <2>2. call' = [call EXCEPT ![c] = y]
    BY <1>3, Zenon DEF y
  <2>3. \A d \in Calls : call'[d] = IF d = c THEN y ELSE call[d]
    BY <2>2 DEF Flights
  <2>4. got' = got /\ got[c] = SA!NotYet
    BY <1>1, <2>1, <2>3 DEF Got, SA!NotYet
  <2>5. \A j \in Keys : c \notin Waiters(j)
    BY <1>1 DEF Waiters, Executing, Waiting
  <2>6. \A j \in Keys : Waiters(j)' = IF j = k THEN Waiters(j) \union {c} ELSE Waiters(j)
    BY <2>1, <2>3, <2>5 DEF Waiters
  <2>7. waiting' = [waiting EXCEPT ![k] = @ \union {c}]
    BY <2>6
  <2>8. SA!Ask(c, k)
    BY <2>4, <2>5, <2>7 DEF SA!Ask, SA!Unasked
  <2>9. FoundStays
    BY <2>1, <2>3 DEF FoundStays, Executing, Waiting
  <2>. QED BY <2>8, <2>9 DEF Shares, SA!Next
<1>. QED BY <1>2, <1>3, Zenon DEF Request

LEMMA ProgressShares ==
  ASSUME SInv, NEW c \in Calls, Progress(c)
  PROVE  Shares
<1> DEFINE x == call[c]
<1>. USE DEF SInv, IInv
<1>1. call[c].stage \in Executing
  BY DEF Progress, Wakes, Succeeds, AskedToWait, Refused, Fails, Cancelled, Executing
<1>2. Prepared(c, x)
  BY <1>1, OwnFlight DEF Prepared, FoundOwned, Executing, Waiting
<1>3. ASSUME Error(c, x) \/ ServeStale(c, x) PROVE Shares
  BY <1>2, <1>3, FinishShares, ServeStaleShares DEF Error
<1>4. ASSUME Wakes(c) PROVE Shares
  <2>1. CASE PassBreaker(c, x)
    BY <1>2, <2>1, PassBreakerShares
  <2>2. CASE Limits(c, x, {"sharing"}) \/ Limits(c, x, {})
    BY <1>2, <2>2, LimitsShares
  <2>3. CASE x.stage = "backoff" /\ Await(c, [x EXCEPT !.attempt = @ + 1], "fetching")
    <3> DEFINE y == [x EXCEPT !.attempt = @ + 1]
    <3>1. x.attempt < MaxRetries
      BY <2>3 DEF Flights, Named
    <3>2. Prepared(c, y)
      BY <1>2, <3>1, HttpAssumption DEF Prepared, Ready, CallType
    <3>. HIDE DEF y
    <3>3. Await(c, y, "fetching")
      BY <2>3, Zenon DEF y
    <3>. QED BY <3>2, <3>3, AwaitShares DEF Executing
  <2>. QED BY <1>3, <1>4, <2>1, <2>2, <2>3, Zenon DEF Wakes
<1>5. ASSUME Succeeds(c) PROVE Shares
  <2>1. CASE Finish(c, x, "fresh", c)
    BY <1>1, <1>2, <2>1, FinishShares
  <2>2. CASE x.cached # NoCall /\ Finish(c, x, "stored", x.cached)
    BY <1>2, <2>2, FinishShares DEF Prepared
  <2>. QED BY <1>5, <2>1, <2>2, Zenon DEF Succeeds
<1>6. ASSUME AskedToWait(c) \/ Refused(c) \/ Cancelled(c) PROVE Shares
  BY <1>3, <1>6, Zenon DEF AskedToWait, Refused, Cancelled
<1>7. ASSUME Fails(c) PROVE Shares
  <2>1. CASE Await(c, x, "backoff")
    BY <1>2, <2>1, AwaitShares DEF Executing, Waiting
  <2>. QED BY <1>3, <1>7, <2>1, Zenon DEF Fails
<1>. QED BY <1>4, <1>5, <1>6, <1>7 DEF Progress

LEMMA CutShares ==
  ASSUME Flights, NEW c \in Calls, NEW reason, Cut(c, reason)
  PROVE  Shares
<1> DEFINE x == [call[c] EXCEPT !.cut = reason]
<1>1. /\ x.stage = call[c].stage /\ x.key = call[c].key /\ x.answer = call[c].answer
      /\ x.body = call[c].body /\ x.cached = call[c].cached
  BY DEF Flights, CallType
<1>2. call' = [call EXCEPT ![c] = x]
  BY Zenon DEF Cut
<1>. HIDE DEF x
<1>3. \A d \in Calls : call'[d] = IF d = c THEN x ELSE call[d]
  BY <1>2 DEF Flights
<1>. QED BY <1>1, <1>3, SameShares

LEMMA JudgeShares ==
  ASSUME Flights, NEW c \in Calls, NEW verdict, Judge(c, verdict)
  PROVE  Shares
<1>1. ASSUME NEW d \in Calls
      PROVE  /\ call'[d].stage = call[d].stage /\ call'[d].key = call[d].key
             /\ call'[d].answer = call[d].answer /\ call'[d].body = call[d].body
             /\ call'[d].cached = call[d].cached
  <2> DEFINE y == [call[d] EXCEPT !.verdict = verdict]
  <2>1. /\ y.stage = call[d].stage /\ y.key = call[d].key /\ y.answer = call[d].answer
        /\ y.body = call[d].body /\ y.cached = call[d].cached
    BY DEF Flights, CallType
  <2>. HIDE DEF y
  <2>2. call'[d] = IF call[d].answer = "fresh" /\ call[d].body = c THEN y ELSE call[d]
    BY Zenon DEF Judge, y
  <2>. QED BY <2>1, <2>2
<1>. QED BY <1>1, SameShares

\* Every step of the client is one of SharedAnswers.
LEMMA StepShares ==
  ASSUME SInv, [Next]_vars
  PROVE  Shares
<1>1. ASSUME NEW c \in Calls, NEW reason \in {"abort", "budget"}, Cut(c, reason) PROVE Shares
  BY <1>1, CutShares DEF SInv, IInv
<1>2. ASSUME NEW c \in Calls, NEW verdict \in {"accepted", "refused"}, Judge(c, verdict)
      PROVE  Shares
  BY <1>2, JudgeShares DEF SInv, IInv
<1>3. ASSUME UNCHANGED call PROVE Shares
  BY <1>3, SameShares
<1>. QED BY <1>1, <1>2, <1>3, RequestShares, ProgressShares
       DEF Next, CircuitCools, RetryAfterPasses, SetOnline, vars

-----------------------------------------------------------------------------
(* Whose the bodies are.                                                   *)

\* A fresh answer is never taken back.
LEMMA OwnedStays ==
  ASSUME IInv, Resting, [Next]_vars, NEW b, NEW k, Owned(b, k)
  PROVE  Owned(b, k)'
<1>. USE DEF IInv
<1>1. ASSUME NEW j, Quiet(j) PROVE Owned(b, k)'
  BY <1>1 DEF Quiet, Owned
<1>2. ASSUME NEW c \in Calls, NEW j \in Keys, Request(c, j) PROVE Owned(b, k)'
  BY <1>1, <1>2, RequestQuiet
<1>3. ASSUME NEW c \in Calls, NEW reason \in {"abort", "budget"}, Cut(c, reason)
      PROVE  Owned(b, k)'
  BY <1>1, <1>3, CutQuiet
<1>4. ASSUME NEW c \in Calls, NEW verdict \in {"accepted", "refused"}, Judge(c, verdict)
      PROVE  Owned(b, k)'
  BY <1>4, JudgeLeaves DEF Owned
<1>5. ASSUME NEW c \in Calls, Progress(c) PROVE Owned(b, k)'
  <2>1. CASE FreshAnswer(c)
    <3>1. Ready(c, call[c])
      BY <1>5, UnderWay
    <3>. QED BY <2>1, <3>1, FinishLeaves DEF FreshAnswer, Owned
  <2>. QED BY <1>1, <1>5, <2>1, ProgressQuiet
<1>6. ASSUME UNCHANGED call PROVE Owned(b, k)'
  BY <1>6 DEF Owned
<1>. QED BY <1>2, <1>3, <1>4, <1>5, <1>6
       DEF Next, CircuitCools, RetryAfterPasses, SetOnline, vars

\* What is stored for a key was stored for it before, or is the answer that has just come.
LEMMA StoreStaysOwned ==
  ASSUME SInv, [Next]_vars
  PROVE  StoreOwned'
<1>. USE DEF SInv, IInv
<1>1. \A j \in Keys : \A b \in {NoCall, cache[j].body, cache[j].good} : Owned(b, j)'
  BY OwnedStays DEF StoreOwned, Owned
<1>2. ASSUME \A j \in Keys : /\ cache'[j].body \in {NoCall, cache[j].body, cache[j].good}
                             /\ cache'[j].good \in {NoCall, cache[j].body, cache[j].good}
      PROVE  StoreOwned'
  <2>1. ASSUME NEW j \in Keys, NEW b, NEW g, b = cache'[j].body, g = cache'[j].good
        PROVE  Owned(b, j)' /\ Owned(g, j)'
    BY <1>1, <1>2, <2>1
  <2>. QED BY <2>1 DEF StoreOwned
<1>3. UNCHANGED cache => StoreOwned'
  BY <1>2
<1>4. ASSUME NEW c \in Calls, Progress(c) PROVE StoreOwned'
  <2>1. CASE FreshAnswer(c)
    <3>0. PICK k \in Keys : k = call[c].key
      BY <1>4, UnderWay
    <3>1. Ready(c, call[c]) /\ k = call[c].key
      BY <1>4, <3>0, UnderWay
    <3>2. Owned(c, k)'
      BY <2>1, <3>1, FinishLeaves DEF FreshAnswer, Owned
    <3>3. \A j \in Keys :
            /\ cache'[j].body \in {NoCall, cache[j].body} \/ (j = k /\ cache'[j].body = c)
            /\ cache'[j].good \in {NoCall, cache[j].body, cache[j].good}
      BY <2>1, <3>1 DEF FreshAnswer, Store, NewEntry, Nothing, CacheTyped
    <3>4. ASSUME NEW j \in Keys, NEW b, NEW g, b = cache'[j].body, g = cache'[j].good
          PROVE  Owned(b, j)' /\ Owned(g, j)'
      BY <1>1, <3>2, <3>3, <3>4
    <3>. QED BY <3>4 DEF StoreOwned
  <2>. QED BY <1>3, <1>4, <2>1, ProgressQuiet
<1>5. ASSUME NEW c \in Calls, NEW verdict \in {"accepted", "refused"}, Judge(c, verdict)
      PROVE  StoreOwned'
  <2>1. UNCHANGED cache \/ Invalidate(call[c].key, c)
    BY <1>5, Zenon DEF Judge
  <2>2. ASSUME Invalidate(call[c].key, c) PROVE StoreOwned'
    <3>1. call[c].key \in Keys
      BY <1>5, JudgeLeaves
    <3>. QED BY <1>2, <2>2, <3>1 DEF Invalidate, Nothing, CacheTyped
  <2>. QED BY <1>3, <2>1, <2>2
<1>6. ASSUME NEW c \in Calls, \/ \E k \in Keys : Request(c, k)
                              \/ \E reason \in {"abort", "budget"} : Cut(c, reason)
      PROVE  StoreOwned'
  BY <1>3, <1>6, Zenon DEF Request, Cut, CacheUnchanged
<1>7. ASSUME \/ \E h \in Hosts : CircuitCools(h) \/ RetryAfterPasses(h)
             \/ \E up \in BOOLEAN : SetOnline(up)
      PROVE  StoreOwned'
  BY <1>3, <1>7, Zenon DEF CircuitCools, RetryAfterPasses, SetOnline, CacheUnchanged
<1>. QED BY <1>3, <1>4, <1>5, <1>6, <1>7 DEF Next, vars

LEMMA NextSInv == SInv /\ [Next]_vars => SInv'
<1> SUFFICES ASSUME SInv, [Next]_vars PROVE SInv'
  OBVIOUS
<1>1. IInv' /\ Resting' /\ StoreOwned'
  BY NextIInv, RestingStays, StoreStaysOwned DEF SInv
<1>2. FoundStays
  BY StepShares DEF Shares
<1>3. ASSUME NEW d \in Calls, call'[d].stage \in Executing
      PROVE  Owned(call[d].cached, call[d].key)'
  <2>1. PICK b, k : b = call'[d].cached /\ k = call'[d].key
    OBVIOUS
  <2>2. Owned(b, k)
    BY <1>2, <1>3, <2>1 DEF FoundStays, SInv, FoundOwned, StoreOwned
  <2>3. Owned(b, k)'
    BY <2>2, OwnedStays DEF SInv
  <2>. QED BY <2>1, <2>3
<1>. QED BY <1>1, <1>3 DEF SInv, FoundOwned

\* What the cache holds for a key, and what an execution found there, was fetched under that key
\* and answered to somebody as fresh, through every store, eviction, refusal and restoration.
THEOREM SInvHolds == Spec => []SInv
<1>1. Init => SInv
  <2>1. ASSUME Init PROVE SInv
    <3>1. \A c \in Calls : call[c].stage \notin Executing /\ Blank(call[c])
      BY <2>1 DEF Init, NewCall, Executing, Waiting, Blank
    <3>. QED BY <2>1, <3>1, InitIInv
           DEF SInv, Resting, StoreOwned, FoundOwned, Owned, Init, Nothing
  <2>. QED BY <2>1
<1>. QED BY <1>1, NextSInv, PTL DEF Spec

\* Whoever asks for a key while others wait for it is answered with them, at once and alike, and
\* with nothing but what was fetched under that key: every step of the client is one of
\* SharedAnswers, for any calls, keys and hosts. That they are answered in the end is left to
\* the runs.
THEOREM ClientImplementsSharedAnswers == Spec => SA!Init /\ [][SA!Next]_(SA!svars)
<1>1. Init => SA!Init
  <2>1. ASSUME Init PROVE SA!Init
    <3>1. \A c \in Calls : Got(c) = SA!NotYet
      BY <2>1 DEF Init, NewCall, Got, SA!NotYet
    <3>2. \A k \in Keys : Waiters(k) = {}
      BY <2>1 DEF Init, NewCall, Waiters, Executing, Waiting
    <3>. QED BY <3>1, <3>2 DEF SA!Init
  <2>. QED BY <2>1
<1>2. SInv /\ [Next]_vars => [SA!Next]_(SA!svars)
  BY StepShares DEF Shares
<1>. QED BY <1>1, <1>2, SInvHolds, PTL DEF Spec
=============================================================================

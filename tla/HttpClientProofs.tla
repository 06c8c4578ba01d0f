-------------------------- MODULE HttpClientProofs --------------------------
(***************************************************************************)
(* Proofs for any number of calls, keys and hosts. FlightsAreExact is      *)
(* inductive once it is known that a call that waits for an answer has a   *)
(* key, and a joined one a leader. The types and the verdicts rest on it   *)
(* and on the order of the cache, which names each stored key once, the    *)
(* newest last: what a new body replaces has been judged, so what is kept  *)
(* aside was accepted.                                                     *)
(***************************************************************************)
EXTENDS HttpClient, SequenceTheorems, TLAPS

Named ==
  \A c \in Calls :
    /\ call[c].stage # "none" => call[c].key \in Keys
    /\ call[c].stage = "joined" => call[c].leader \in Calls
    /\ call[c].stage = "backoff" => call[c].attempt < MaxRetries

Flights ==
  /\ call \in [Calls -> CallType]
  /\ flight \in [Keys -> Calls \union {NoCall}]
  /\ Named
  /\ FlightsAreExact

CacheTyped == cache \in [Keys -> [body : Calls \union {NoCall}, good : Calls \union {NoCall}]]

IInv == Flights /\ CacheTyped

\* x is the record of call c on its way: its flight is c's, or nobody's when c just begins.
Ready(c, x) ==
  /\ x \in CallType /\ x.key \in Keys
  /\ \/ call[c].stage = "none" /\ flight[x.key] = NoCall
     \/ call[c].stage \in Executing /\ flight[x.key] = c

-----------------------------------------------------------------------------
\* A call that executes has exactly one flight, and it is under its own key.
LEMMA OwnFlight ==
  ASSUME Flights, NEW c \in Calls, call[c].stage \in Executing
  PROVE  Ready(c, call[c])
<1>1. call[c] \in CallType /\ call[c].key \in Keys
  BY DEF Flights, Named, Executing, Waiting
<1>2. PICK k \in Keys : flight[k] = c
  BY DEF Flights, FlightsAreExact
<1>3. call[c].key = k
  BY <1>2, HttpAssumption DEF Flights, FlightsAreExact
<1>. QED BY <1>1, <1>2, <1>3 DEF Ready

\* A call that ends takes its flight and everyone who waits for it along.
LEMMA FinishKeeps ==
  ASSUME Flights, NEW c \in Calls, NEW x, Ready(c, x),
         NEW answer \in Answer, NEW body \in Calls \union {NoCall},
         Finish(c, x, answer, body)
  PROVE  Flights'
<1> DEFINE over == Answered(x, answer, body)
           ends(d) == d = c \/ (call[d].stage = "joined" /\ call[d].leader = c)
<1>1. /\ over \in CallType /\ over.stage = "answered" /\ over.key = x.key
  <2>1. over = [NewCall EXCEPT !.stage = "answered", !.key = x.key, !.answer = answer,
                               !.body = body]
    BY DEF Answered
  <2>2. NewCall \in CallType
    BY HttpAssumption DEF NewCall, CallType, Answer
  <2>. HIDE DEF over
  <2>. QED BY <2>1, <2>2 DEF CallType, Ready
<1>. HIDE DEF over
<1>2. \A d \in Calls : call'[d] = IF ends(d) THEN over ELSE call[d]
  BY Zenon DEF Finish, over
<1>3. call' \in [Calls -> CallType]
  BY <1>1, <1>2 DEF Finish, Flights, over
<1>4. flight' = [flight EXCEPT ![x.key] = NoCall]
  BY DEF Finish, Lands
<1>5. flight' \in [Keys -> Calls \union {NoCall}]
  BY <1>4 DEF Flights
<1>6. Named'
  BY <1>1, <1>2 DEF Flights, Named, Ready
<1>7. FlightsAreExact'
  <2>1. ASSUME NEW d \in Calls
        PROVE  (call[d].stage \in Executing)' <=> \E k \in Keys : flight'[k] = d
    BY <1>1, <1>2, <1>4, HttpAssumption
       DEF Flights, FlightsAreExact, Ready, Executing, Waiting
  <2>2. ASSUME NEW k \in Keys, flight'[k] # NoCall
        PROVE  call'[flight'[k]].key = k
    BY <1>1, <1>2, <1>4, <2>2, HttpAssumption
       DEF Flights, FlightsAreExact, Ready, Executing, Waiting
  <2>3. ASSUME NEW d \in Calls, call'[d].stage = "joined"
        PROVE  flight'[call'[d].key] = call'[d].leader
    BY <1>1, <1>2, <1>4, <2>3, HttpAssumption
       DEF Flights, FlightsAreExact, Named, Ready, Executing, Waiting
  <2>. QED BY <2>1, <2>2, <2>3 DEF FlightsAreExact
<1>. QED BY <1>3, <1>5, <1>6, <1>7 DEF Flights

\* A call that goes on waiting keeps its flight, or takes a free one.
LEMMA AwaitKeeps ==
  ASSUME Flights, NEW c \in Calls, NEW x, Ready(c, x), NEW stage \in Executing,
         stage = "backoff" => x.attempt < MaxRetries, Await(c, x, stage)
  PROVE  Flights'
<1> DEFINE y == [x EXCEPT !.stage = stage]
<1>1. y \in CallType /\ y.stage = stage /\ y.key = x.key /\ y.attempt = x.attempt
  BY DEF Ready, CallType, Executing, Waiting
<1>. HIDE DEF y
<1>2. call' = [call EXCEPT ![c] = y] /\ flight' = [flight EXCEPT ![x.key] = c]
  BY Zenon DEF Await, y
<1>3. /\ call' \in [Calls -> CallType]
      /\ flight' \in [Keys -> Calls \union {NoCall}]
  BY <1>1, <1>2 DEF Flights, Ready
<1>4. Named'
  BY <1>1, <1>2 DEF Flights, Named, Ready, Executing, Waiting
<1>5. FlightsAreExact'
  BY <1>1, <1>2, HttpAssumption
     DEF Flights, FlightsAreExact, Named, Ready, Executing, Waiting
<1>. QED BY <1>3, <1>4, <1>5 DEF Flights

\* Nothing happens to calls and flights.
LEMMA FlightsStay ==
  ASSUME Flights, UNCHANGED <<call, flight>>
  PROVE  Flights'
  BY DEF Flights, Named, FlightsAreExact

LEMMA ServeStaleKeeps ==
  ASSUME Flights, NEW c \in Calls, NEW x, Ready(c, x), ServeStale(c, x)
  PROVE  Flights'
<1>1. x.cached \in Calls \union {NoCall}
  BY DEF Ready, CallType
<1>2. CASE Error(c, x)
  BY <1>2, FinishKeeps DEF Error, Answer
<1>3. CASE Finish(c, x, "stored", x.cached)
  BY <1>1, <1>3, FinishKeeps DEF Answer
<1>. QED BY <1>2, <1>3 DEF ServeStale

LEMMA LimitsKeeps ==
  ASSUME Flights, NEW c \in Calls, NEW x, Ready(c, x), NEW waits \in SUBSET {"limited", "sharing"},
         Limits(c, x, waits)
  PROVE  Flights'
<1>1. CASE Await(c, x, "fetching")
  BY <1>1, AwaitKeeps DEF Executing
<1>2. CASE ServeStale(c, x)
  BY <1>2, ServeStaleKeeps
<1>3. CASE \E stage \in waits : Await(c, x, stage)
  BY <1>3, AwaitKeeps DEF Executing, Waiting
<1>. QED BY <1>1, <1>2, <1>3 DEF Limits

LEMMA PassBreakerKeeps ==
  ASSUME Flights, NEW c \in Calls, NEW x, Ready(c, x), PassBreaker(c, x)
  PROVE  Flights'
<1> DEFINE b == host[HostOf[x.key]]
           y == [x EXCEPT !.probe = b.circuit = "halfOpen"]
<1>1. Ready(c, y)
  BY DEF Ready, CallType
<1>2. CASE ServeStale(c, x)
  BY <1>2, ServeStaleKeeps
<1>3. CASE Limits(c, y, {"limited", "sharing"})
  BY <1>1, <1>3, LimitsKeeps
<1>. QED BY <1>2, <1>3, Zenon DEF PassBreaker

LEMMA ExecuteKeeps ==
  ASSUME Flights, NEW c \in Calls, NEW x, Ready(c, x), Execute(c, x)
  PROVE  Flights'
<1>1. CASE ServeStale(c, x)
  BY <1>1, ServeStaleKeeps
<1>2. CASE Await(c, x, "pacing")
  BY <1>2, AwaitKeeps DEF Executing, Waiting
<1>3. CASE PassBreaker(c, x)
  BY <1>3, PassBreakerKeeps
<1>. QED BY <1>1, <1>2, <1>3, Zenon DEF Execute

-----------------------------------------------------------------------------
(* One lemma per action that touches calls.                                *)

LEMMA RequestKeeps ==
  ASSUME IInv, NEW c \in Calls, NEW k \in Keys, Request(c, k)
  PROVE  Flights'
<1> DEFINE x == [call[c] EXCEPT !.key = k, !.cached = cache[k].body]
<1>1. call[c] \in CallType /\ call[c].stage = "none" /\ cache[k].body \in Calls \union {NoCall}
  BY DEF IInv, Flights, CacheTyped, Request
<1>2. CASE flight[k] = NoCall /\ Execute(c, x)
  <2>1. Ready(c, x)
    BY <1>1, <1>2 DEF Ready, CallType
  <2>. QED BY <1>2, <2>1, ExecuteKeeps DEF IInv
<1>3. CASE /\ flight[k] # NoCall
           /\ call' = [call EXCEPT ![c] = [@ EXCEPT !.stage = "joined", !.key = k,
                                                    !.leader = flight[k]]]
           /\ flight' = flight
  <2> DEFINE y == [call[c] EXCEPT !.stage = "joined", !.key = k, !.leader = flight[k]]
  <2>1. flight[k] \in Calls
    BY <1>3 DEF IInv, Flights
  <2>2. y \in CallType /\ y.stage = "joined" /\ y.key = k /\ y.leader = flight[k]
    BY <1>1, <2>1 DEF CallType
  <2>. HIDE DEF y
  <2>3. call' = [call EXCEPT ![c] = y]
    BY <1>3, Zenon DEF y
  <2>4. call' \in [Calls -> CallType] /\ flight' \in [Keys -> Calls \union {NoCall}]
    BY <1>3, <2>2, <2>3 DEF IInv, Flights
  <2>5. Named'
    BY <2>1, <2>2, <2>3 DEF IInv, Flights, Named
  <2>6. \A d \in Calls : call'[d] = IF d = c THEN y ELSE call[d]
    BY <2>3 DEF IInv, Flights
  <2>7. FlightsAreExact'
    <3>1. \A j \in Keys : flight[j] # c
      BY <1>1 DEF IInv, Flights, FlightsAreExact, Executing, Waiting
    <3>2. \A d \in Calls : call'[d].stage \in Executing <=> \E j \in Keys : flight[j] = d
      BY <3>1, <2>2, <2>6 DEF IInv, Flights, FlightsAreExact, Executing, Waiting
    <3>3. \A j \in Keys : flight[j] # NoCall => call'[flight[j]].key = j
      BY <3>1, <2>6 DEF IInv, Flights, FlightsAreExact
    <3>4. \A d \in Calls : call'[d].stage = "joined" => flight[call'[d].key] = call'[d].leader
      BY <2>2, <2>6 DEF IInv, Flights, FlightsAreExact
    <3>. QED BY <1>3, <3>2, <3>3, <3>4 DEF FlightsAreExact
  <2>. QED BY <2>4, <2>5, <2>7 DEF Flights
<1>. QED BY <1>2, <1>3, Zenon DEF Request

\* A field of call c that the flights do not look at changes.
LEMMA SidelineKeeps ==
  ASSUME Flights, NEW c \in Calls, NEW x \in CallType, UNCHANGED flight,
         x.stage = call[c].stage, x.key = call[c].key, x.leader = call[c].leader,
         x.attempt = call[c].attempt, call' = [call EXCEPT ![c] = x]
  PROVE  Flights'
<1>1. call' \in [Calls -> CallType] /\ flight' \in [Keys -> Calls \union {NoCall}]
  BY DEF Flights
<1>2. \A d \in Calls : /\ call'[d].stage = call[d].stage
                       /\ call'[d].key = call[d].key
                       /\ call'[d].leader = call[d].leader
                       /\ call'[d].attempt = call[d].attempt
  BY DEF Flights
<1>3. Named' /\ FlightsAreExact'
  BY <1>2 DEF Flights, Named, FlightsAreExact
<1>. QED BY <1>1, <1>3 DEF Flights

LEMMA CutKeeps ==
  ASSUME Flights, NEW c \in Calls, NEW reason \in {"abort", "budget"}, Cut(c, reason)
  PROVE  Flights'
<1> DEFINE x == [call[c] EXCEPT !.cut = reason]
<1>1. /\ x \in CallType /\ x.stage = call[c].stage
      /\ x.key = call[c].key /\ x.leader = call[c].leader /\ x.attempt = call[c].attempt
  BY DEF Flights, CallType
<1>2. call' = [call EXCEPT ![c] = x] /\ UNCHANGED flight
  BY Zenon DEF Cut
<1>. HIDE DEF x
<1>. QED BY <1>1, <1>2, SidelineKeeps

LEMMA WakesKeeps ==
  ASSUME Flights, NEW c \in Calls, Wakes(c)
  PROVE  Flights'
<1> DEFINE x == call[c]
<1>1. Ready(c, x)
  BY OwnFlight DEF Wakes, Executing
<1>2. CASE Error(c, x)
  BY <1>1, <1>2, FinishKeeps DEF Error, Answer
<1>3. CASE PassBreaker(c, x)
  BY <1>1, <1>3, PassBreakerKeeps
<1>4. CASE Limits(c, x, {"sharing"}) \/ Limits(c, x, {})
  BY <1>1, <1>4, LimitsKeeps
<1>5. CASE x.stage = "backoff" /\ Await(c, [x EXCEPT !.attempt = @ + 1], "fetching")
  <2> DEFINE y == [x EXCEPT !.attempt = @ + 1]
  <2>1. x.attempt < MaxRetries
    BY <1>5 DEF Flights, Named
  <2>2. Ready(c, y)
    BY <1>1, <2>1, HttpAssumption DEF Ready, CallType
  <2>. HIDE DEF y
  <2>3. Await(c, y, "fetching")
    BY <1>5, Zenon DEF y
  <2>. QED BY <2>2, <2>3, AwaitKeeps DEF Executing
<1>. QED BY <1>2, <1>3, <1>4, <1>5, Zenon DEF Wakes

LEMMA SucceedsKeeps ==
  ASSUME Flights, NEW c \in Calls, Succeeds(c)
  PROVE  Flights'
<1> DEFINE x == call[c]
<1>1. Ready(c, x) /\ x.cached \in Calls \union {NoCall}
  BY OwnFlight DEF Succeeds, Executing, Ready, CallType
<1>2. CASE Finish(c, x, "fresh", c)
  BY <1>1, <1>2, FinishKeeps DEF Answer
<1>3. CASE Finish(c, x, "stored", x.cached)
  BY <1>1, <1>3, FinishKeeps DEF Answer
<1>. QED BY <1>2, <1>3, Zenon DEF Succeeds

\* The outcomes of a fetch that end the call with an error or the stored body.
LEMMA EndsKeep ==
  ASSUME Flights, NEW c \in Calls, AskedToWait(c) \/ Refused(c) \/ Cancelled(c)
  PROVE  Flights'
<1> DEFINE x == call[c]
<1>1. Ready(c, x)
  BY OwnFlight DEF AskedToWait, Refused, Cancelled, Executing
<1>2. CASE ServeStale(c, x)
  BY <1>1, <1>2, ServeStaleKeeps
<1>3. CASE Error(c, x)
  BY <1>1, <1>3, FinishKeeps DEF Error, Answer
<1>. QED BY <1>2, <1>3, Zenon DEF AskedToWait, Refused, Cancelled

\* A failed fetch backs off only while there are attempts left.
LEMMA FailsKeeps ==
  ASSUME Flights, NEW c \in Calls, Fails(c)
  PROVE  Flights'
<1> DEFINE x == call[c]
<1>1. Ready(c, x)
  BY OwnFlight DEF Fails, Executing
<1>2. CASE x.attempt < MaxRetries /\ Await(c, x, "backoff")
  BY <1>1, <1>2, AwaitKeeps DEF Executing, Waiting
<1>3. CASE ServeStale(c, x)
  BY <1>1, <1>3, ServeStaleKeeps
<1>. QED BY <1>2, <1>3, Zenon DEF Fails

\* A verdict is passed on calls that are answered; no stage, key or leader changes.
LEMMA JudgeKeeps ==
  ASSUME Flights, NEW c \in Calls, NEW verdict \in {"accepted", "refused"}, Judge(c, verdict)
  PROVE  Flights'
<1> DEFINE readers == {d \in Calls : call[d].answer = "fresh" /\ call[d].body = c}
           judged(d) == [call[d] EXCEPT !.verdict = verdict]
<1>1. call' = [d \in Calls |-> IF d \in readers THEN judged(d) ELSE call[d]] /\ UNCHANGED flight
  BY Zenon DEF Judge
<1>2. \A d \in Calls : /\ judged(d) \in CallType /\ judged(d).stage = call[d].stage
                       /\ judged(d).key = call[d].key /\ judged(d).leader = call[d].leader
                       /\ judged(d).attempt = call[d].attempt
  BY DEF Flights, CallType
<1>. HIDE DEF readers, judged
<1>3. call' \in [Calls -> CallType] /\ flight' \in [Keys -> Calls \union {NoCall}]
  BY <1>1, <1>2 DEF Flights
<1>4. \A d \in Calls : /\ call'[d].stage = call[d].stage
                       /\ call'[d].key = call[d].key
                       /\ call'[d].leader = call[d].leader
                       /\ call'[d].attempt = call[d].attempt
  BY <1>1, <1>2
<1>5. Named' /\ FlightsAreExact'
  BY <1>1, <1>4 DEF Flights, Named, FlightsAreExact
<1>. QED BY <1>3, <1>5 DEF Flights

-----------------------------------------------------------------------------
(* The cache: what it holds stays a body, whatever is stored or dropped.   *)

LEMMA StoreKeeps ==
  ASSUME CacheTyped, NEW k \in Keys, NEW c \in Calls, Store(k, c)
  PROVE  CacheTyped'
  BY DEF CacheTyped, Store, NewEntry, Nothing

LEMMA InvalidateKeeps ==
  ASSUME CacheTyped, NEW k, NEW c \in Calls, Invalidate(k, c)
  PROVE  CacheTyped'
  BY DEF CacheTyped, Invalidate, Nothing

LEMMA CacheStays ==
  ASSUME CacheTyped, UNCHANGED cache
  PROVE  CacheTyped'
  BY DEF CacheTyped

-----------------------------------------------------------------------------
LEMMA InitIInv == Init => IInv
<1> SUFFICES ASSUME Init PROVE IInv
  OBVIOUS
<1>1. NewCall \in CallType /\ NewCall.stage = "none"
  BY HttpAssumption DEF NewCall, CallType, Answer
<1>2. Flights
  BY <1>1, HttpAssumption
     DEF Init, Flights, Named, FlightsAreExact, Executing, Waiting
<1>3. CacheTyped
  BY DEF Init, CacheTyped, Nothing
<1>. QED BY <1>2, <1>3 DEF IInv

LEMMA ProgressKeeps ==
  ASSUME IInv, NEW c \in Calls, Progress(c)
  PROVE  IInv'
<1>. USE DEF IInv
<1>1. CASE Wakes(c)
  BY <1>1, WakesKeeps, CacheStays DEF Wakes, CacheUnchanged
<1>2. CASE Succeeds(c)
  <2>1. call[c].key \in Keys
    BY <1>2 DEF Succeeds, Flights, Named
  <2>2. CacheTyped'
    <3>1. Store(call[c].key, c) \/ UNCHANGED cache
      BY <1>2, Zenon DEF Succeeds, CacheUnchanged
    <3>. QED BY <2>1, <3>1, StoreKeeps, CacheStays
  <2>. QED BY <1>2, <2>2, SucceedsKeeps
<1>3. CASE AskedToWait(c) \/ Refused(c) \/ Cancelled(c)
  <2>1. UNCHANGED cache
    BY <1>3, Zenon DEF AskedToWait, Refused, Cancelled, CacheUnchanged
  <2>. QED BY <1>3, <2>1, EndsKeep, CacheStays
<1>4. CASE Fails(c)
  <2>1. UNCHANGED cache
    BY <1>4, Zenon DEF Fails, CacheUnchanged
  <2>. QED BY <1>4, <2>1, FailsKeeps, CacheStays
<1>. QED BY <1>1, <1>2, <1>3, <1>4 DEF Progress

LEMMA NextIInv == IInv /\ [Next]_vars => IInv'
<1> SUFFICES ASSUME IInv, [Next]_vars PROVE IInv'
  OBVIOUS
<1>. USE DEF IInv
<1>1. ASSUME NEW c \in Calls, NEW k \in Keys, Request(c, k) PROVE IInv'
  BY <1>1, RequestKeeps, CacheStays DEF Request, CacheUnchanged
<1>2. ASSUME NEW c \in Calls, NEW reason \in {"abort", "budget"}, Cut(c, reason) PROVE IInv'
  BY <1>2, CutKeeps, CacheStays DEF Cut, CacheUnchanged
<1>3. ASSUME NEW c \in Calls, NEW verdict \in {"accepted", "refused"}, Judge(c, verdict)
      PROVE  IInv'
  <2>1. Invalidate(call[c].key, c) \/ UNCHANGED cache
    BY <1>3, Zenon DEF Judge
  <2>. QED BY <1>3, <2>1, JudgeKeeps, InvalidateKeeps, CacheStays
<1>4. ASSUME NEW c \in Calls, Progress(c) PROVE IInv'
  BY <1>4, ProgressKeeps
<1>5. ASSUME UNCHANGED <<call, flight, cache>> PROVE IInv'
  BY <1>5, FlightsStay, CacheStays
<1>6. ASSUME NEW h \in Hosts, CircuitCools(h) \/ RetryAfterPasses(h) PROVE IInv'
  BY <1>5, <1>6 DEF CircuitCools, RetryAfterPasses, CacheUnchanged
<1>7. ASSUME NEW up \in BOOLEAN, SetOnline(up) PROVE IInv'
  BY <1>5, <1>7 DEF SetOnline, CacheUnchanged
<1>8. CASE UNCHANGED vars
  BY <1>5, <1>8 DEF vars
<1>. QED BY <1>1, <1>2, <1>3, <1>4, <1>6, <1>7, <1>8 DEF Next

\* The invariant holds in every state: calls, flights and stored bodies are well shaped, a
\* call that backs off has attempts left, and the table of flights is exact.
THEOREM IInvHolds == Spec => []IInv
  BY InitIInv, NextIInv, PTL DEF Spec

\* SingleFlight never loses an execution, never runs two for one key, and never leaves a
\* caller waiting for an answer that has already been given.
THEOREM FlightsAreExactHolds == Spec => []FlightsAreExact
<1>1. IInv => FlightsAreExact
  BY DEF IInv, Flights
<1>. QED BY <1>1, IInvHolds, PTL
-----------------------------------------------------------------------------
(* The order of the cache: each key stored is in it, once.                 *)

Ordered(s) == \A i, j \in 1..Len(s) : s[i] = s[j] => i = j
In(k, s) == \E i \in 1..Len(s) : s[i] = k

\* What Without takes out is one key, and the others keep their order.
LEMMA WithoutOne ==
  ASSUME NEW s \in Seq(Keys), Ordered(s), NEW k \in Keys
  PROVE  LET w == Without(s, k) IN
         /\ w \in Seq(Keys) /\ Ordered(w)
         /\ \A j \in Keys : In(j, w) <=> In(j, s) /\ j # k
         /\ In(k, s) => Len(w) = Len(s) - 1
         /\ ~In(k, s) => w = s
<1>1. Len(s) \in Nat /\ DOMAIN s = 1..Len(s)
  OBVIOUS
<1>2. CASE ~In(k, s)
  <2>1. Without(s, k) = s
    BY <1>1, <1>2 DEF Without, In
  <2>. QED BY <1>2, <2>1 DEF In
<1>3. CASE In(k, s)
  <2> DEFINE at == CHOOSE i \in DOMAIN s : s[i] = k
             w == [i \in 1..(Len(s) - 1) |-> IF i < at THEN s[i] ELSE s[i + 1]]
  <2>1. at \in 1..Len(s) /\ s[at] = k
    BY <1>1, <1>3 DEF In
  <2>2. Without(s, k) = w
    BY <1>1, <1>3 DEF Without, In
  <2>3. w = [i \in 1..(Len(s) - 1) |-> IF i < at THEN s[i] ELSE s[i + 1]]
    OBVIOUS
  <2>. HIDE DEF at, w
  <2>4. Len(s) - 1 \in Nat /\ w \in [1..(Len(s) - 1) -> Keys]
    BY <1>1, <2>1, <2>3
  <2>5. w \in Seq(Keys) /\ Len(w) = Len(s) - 1
    BY <2>4, SeqDef
  <2>6. \A i \in 1..Len(w) : w[i] = IF i < at THEN s[i] ELSE s[i + 1]
    BY <2>3, <2>5
  <2>7. Ordered(w)
    BY <1>1, <2>1, <2>5, <2>6 DEF Ordered
  <2>8. \A j \in Keys : In(j, w) <=> In(j, s) /\ j # k
    <3>1. ASSUME NEW j \in Keys, In(j, w) PROVE In(j, s) /\ j # k
      <4>1. PICK i \in 1..Len(w) : w[i] = j
        BY <3>1 DEF In
      <4>2. CASE i < at
        BY <1>1, <2>1, <2>5, <2>6, <4>1, <4>2 DEF In, Ordered
      <4>3. CASE ~(i < at)
        <5>1. i + 1 \in 1..Len(s) /\ s[i + 1] = j /\ i + 1 # at
          BY <1>1, <2>1, <2>5, <2>6, <4>1, <4>3
        <5>. QED BY <2>1, <5>1 DEF In, Ordered
      <4>. QED BY <4>2, <4>3
    <3>2. ASSUME NEW j \in Keys, In(j, s), j # k PROVE In(j, w)
      <4>1. PICK i \in 1..Len(s) : s[i] = j
        BY <3>2 DEF In
      <4>2. CASE i < at
        <5>1. i \in 1..Len(w) /\ w[i] = j
          BY <1>1, <2>1, <2>5, <2>6, <4>1, <4>2
        <5>. QED BY <5>1 DEF In
      <4>3. CASE i > at
        <5>1. i - 1 \in 1..Len(w) /\ w[i - 1] = j
          BY <1>1, <2>1, <2>5, <2>6, <4>1, <4>3
        <5>. QED BY <5>1 DEF In
      <4>. QED BY <1>1, <2>1, <3>2, <4>1, <4>2, <4>3
    <3>. QED BY <3>1, <3>2
  <2>. QED BY <1>3, <2>2, <2>5, <2>7, <2>8
<1>. QED BY <1>2, <1>3

OrderTyped ==
  /\ order \in Seq(Keys) /\ Len(order) <= CacheMax
  /\ Ordered(order)
  /\ \A k \in Keys : cache[k].body # NoCall <=> In(k, order)

\* A stored key is the newest, and only the oldest of a full cache goes.
LEMMA StoreOrders ==
  ASSUME CacheTyped, OrderTyped, NEW k \in Keys, NEW c \in Calls, Store(k, c)
  PROVE  /\ OrderTyped'
         /\ cache'[k] = [body |-> c, good |-> cache[k].body]
         /\ \A j \in Keys \ {k} :
              \/ cache'[j] = cache[j]
              \/ cache'[j] = Nothing /\ Len(order) = CacheMax /\ order[1] = j
<1> DEFINE w == Without(order, k)
           newest == Append(w, k)
           full == Len(newest) > CacheMax
<1>1. /\ w \in Seq(Keys) /\ Ordered(w)
      /\ \A j \in Keys : In(j, w) <=> In(j, order) /\ j # k
      /\ In(k, order) => Len(w) = Len(order) - 1
      /\ ~In(k, order) => w = order
  BY WithoutOne DEF OrderTyped
<1>2. /\ order' = IF full THEN Tail(newest) ELSE newest
      /\ cache' = [j \in Keys |->
           IF j = k THEN NewEntry(k, c)
           ELSE IF full /\ j = Head(newest) THEN Nothing ELSE cache[j]]
  BY DEF Store
<1>. HIDE DEF w
<1>3. /\ newest \in Seq(Keys) /\ Len(newest) = Len(w) + 1 /\ Len(w) \in Nat
      /\ \A i \in 1..Len(w) : newest[i] = w[i]
      /\ newest[Len(w) + 1] = k
  BY <1>1
<1>. HIDE DEF newest
<1>4. Ordered(newest) /\ \A j \in Keys : In(j, newest) <=> In(j, w) \/ j = k
  <2>1. ~In(k, w)
    BY <1>1
  <2>2. Ordered(newest)
    BY <1>1, <1>3, <2>1 DEF Ordered, In
  <2>3. ASSUME NEW j \in Keys PROVE In(j, newest) <=> In(j, w) \/ j = k
    BY <1>3 DEF In
  <2>. QED BY <2>2, <2>3
<1>5. CacheMax \in Nat \ {0} /\ Len(order) \in Nat /\ Len(order) <= CacheMax
  BY HttpAssumption DEF OrderTyped
<1>6. \A j \in Keys : In(j, newest) <=> cache[j].body # NoCall \/ j = k
  BY <1>1, <1>4 DEF OrderTyped
<1>7. NewEntry(k, c) = [body |-> c, good |-> cache[k].body] /\ c # NoCall
  BY HttpAssumption DEF NewEntry
<1>8. CASE ~full
  <2>1. order' = newest /\ \A j \in Keys : cache'[j] = IF j = k THEN NewEntry(k, c) ELSE cache[j]
    BY <1>2, <1>8
  <2>2. Len(newest) <= CacheMax
    BY <1>3, <1>5, <1>8
  <2>3. OrderTyped'
    BY <1>3, <1>4, <1>6, <1>7, <2>1, <2>2 DEF OrderTyped, Ordered, In
  <2>. QED BY <1>7, <2>1, <2>3
<1>9. CASE full
  <2>1. ~In(k, order) /\ w = order /\ Len(order) = CacheMax
    BY <1>1, <1>3, <1>5, <1>9
  <2>2. newest # <<>> /\ Head(newest) = order[1] /\ Head(newest) \in Keys /\ newest[1] = Head(newest)
    BY <1>3, <1>5, <2>1
  <2>3. Head(newest) # k
    BY <1>5, <2>1, <2>2 DEF In
  <2> DEFINE t == Tail(newest)
  <2>4. /\ t \in Seq(Keys) /\ Len(t) = CacheMax
        /\ \A i \in 1..Len(t) : t[i] = newest[i + 1]
    BY <1>3, <1>5, <2>1, <2>2
  <2>. HIDE DEF t
  <2>5. Ordered(t)
    BY <1>3, <1>4, <1>5, <2>1, <2>4 DEF Ordered
  <2>6. \A j \in Keys : In(j, t) <=> In(j, newest) /\ j # Head(newest)
    <3>1. ASSUME NEW j \in Keys, In(j, t) PROVE In(j, newest) /\ j # newest[1]
      <4>1. PICK i \in 1..Len(t) : t[i] = j
        BY <3>1 DEF In
      <4>2. i + 1 \in 1..Len(newest) /\ newest[i + 1] = j /\ 1 \in 1..Len(newest) /\ i + 1 # 1
        BY <1>3, <1>5, <2>1, <2>4, <4>1
      <4>. QED BY <1>4, <4>2 DEF In, Ordered
    <3>2. ASSUME NEW j \in Keys, In(j, newest), j # newest[1] PROVE In(j, t)
      <4>1. PICK i \in 1..Len(newest) : newest[i] = j
        BY <3>2 DEF In
      <4>2. i - 1 \in 1..Len(t) /\ t[i - 1] = j
        BY <1>3, <1>5, <2>1, <2>4, <3>2, <4>1
      <4>. QED BY <4>2 DEF In
    <3>. QED BY <2>2, <3>1, <3>2
  <2>7. order' = t
    BY <1>2, <1>9 DEF t
  <2>8. \A j \in Keys : cache'[j] = IF j = k THEN NewEntry(k, c)
                                    ELSE IF j = Head(newest) THEN Nothing ELSE cache[j]
    BY <1>2, <1>9
  <2>9. OrderTyped'
    <3>1. \A j \in Keys : cache'[j].body # NoCall <=> In(j, t)
      BY <1>6, <1>7, <2>3, <2>6, <2>8 DEF Nothing
    <3>. QED BY <2>4, <2>5, <2>7, <3>1, <1>5 DEF OrderTyped
  <2>. QED BY <1>7, <2>1, <2>2, <2>8, <2>9
<1>. QED BY <1>8, <1>9

\* What is refused goes, or the entry before it takes its place.
LEMMA InvalidateOrders ==
  ASSUME CacheTyped, OrderTyped, NEW k \in Keys, NEW c \in Calls, Invalidate(k, c)
  PROVE  OrderTyped'
<1>1. CASE cache' = cache /\ order' = order
  BY <1>1 DEF OrderTyped
<1>2. CASE /\ cache[k].body = c /\ cache[k].good # NoCall /\ order' = order
           /\ cache' = [cache EXCEPT ![k] = [body |-> cache[k].good, good |-> NoCall]]
  BY <1>2, HttpAssumption DEF OrderTyped, CacheTyped
<1>3. CASE /\ cache[k].body = c /\ cache' = [cache EXCEPT ![k] = Nothing]
           /\ order' = Without(order, k)
  <2>1. /\ order' \in Seq(Keys) /\ Ordered(order')
        /\ \A j \in Keys : In(j, order') <=> In(j, order) /\ j # k
        /\ In(k, order) => Len(order') = Len(order) - 1
    BY <1>3, WithoutOne DEF OrderTyped
  <2>2. Len(order') = Len(order) - 1
    BY <1>3, <2>1, HttpAssumption DEF OrderTyped
  <2>3. Len(order') <= CacheMax
    BY <2>2, HttpAssumption DEF OrderTyped
  <2>. QED BY <1>3, <2>1, <2>3 DEF OrderTyped, CacheTyped, Nothing
<1>. QED BY <1>1, <1>2, <1>3 DEF Invalidate

-----------------------------------------------------------------------------
(* A call has no answer until it is answered.  Quiet(k): a step after      *)
(* which no more fresh answers are there than before, and no flight but    *)
(* that of k.                                                              *)

Blank(x) == x.answer = "none" /\ x.verdict = "none" /\ x.body = NoCall

Resting == \A c \in Calls : call[c].stage # "answered" => Blank(call[c])

Quiet(k) ==
  /\ \A d \in Calls :
       /\ call[d].stage = "answered" => call'[d] = call[d]
       /\ call[d].stage # "answered" =>
            /\ call'[d].answer # "fresh" /\ call'[d].verdict = "none"
            /\ call'[d].stage # "answered" => Blank(call'[d])
  /\ \A j \in Keys \ {k} : flight'[j] # NoCall => flight[j] # NoCall

LEMMA QuietRests ==
  ASSUME Resting, NEW k, Quiet(k)
  PROVE  Resting'
  BY DEF Resting, Quiet, Blank

\* What a call that ends leaves behind, whatever its answer.
LEMMA FinishLeaves ==
  ASSUME Flights, NEW c \in Calls, NEW x, Ready(c, x), NEW answer, NEW body,
         Finish(c, x, answer, body)
  PROVE  LET ends(d) == d = c \/ (call[d].stage = "joined" /\ call[d].leader = c) IN
         /\ call[c].stage # "answered"
         /\ \A d \in Calls : ends(d) =>
              /\ call[d].stage # "answered" /\ call'[d].stage = "answered"
              /\ call'[d].key = x.key /\ call'[d].answer = answer
              /\ call'[d].body = body /\ call'[d].verdict = "none"
         /\ \A d \in Calls : ~ends(d) => call'[d] = call[d]
         /\ flight' = [flight EXCEPT ![x.key] = NoCall]
<1> DEFINE over == Answered(x, answer, body)
<1>1. /\ over.stage = "answered" /\ over.key = x.key /\ over.answer = answer
      /\ over.body = body /\ over.verdict = "none"
  BY DEF Answered, NewCall
<1>. HIDE DEF over
<1>2. \A d \in Calls : call'[d] =
        IF d = c \/ (call[d].stage = "joined" /\ call[d].leader = c) THEN over ELSE call[d]
  BY Zenon DEF Finish, over
<1>3. call[c].stage # "answered"
  BY DEF Ready, Executing, Waiting
<1>4. flight' = [flight EXCEPT ![x.key] = NoCall]
  BY DEF Finish, Lands
<1>. QED BY <1>1, <1>2, <1>3, <1>4

LEMMA FinishQuiet ==
  ASSUME Flights, Resting, NEW c \in Calls, NEW x, Ready(c, x), NEW answer \in Answer \ {"fresh"},
         NEW body, Finish(c, x, answer, body)
  PROVE  Quiet(x.key)
<1> DEFINE ends(d) == d = c \/ (call[d].stage = "joined" /\ call[d].leader = c)
<1>1. /\ \A d \in Calls : ends(d) =>
           /\ call[d].stage # "answered" /\ call'[d].stage = "answered"
           /\ call'[d].answer = answer /\ call'[d].verdict = "none"
      /\ \A d \in Calls : ~ends(d) => call'[d] = call[d]
      /\ flight' = [flight EXCEPT ![x.key] = NoCall]
  BY FinishLeaves
<1>. HIDE DEF ends
<1>2. \A j \in Keys \ {x.key} : flight'[j] # NoCall => flight[j] # NoCall
  BY <1>1 DEF Flights
<1>3. ASSUME NEW d \in Calls
      PROVE  /\ call[d].stage = "answered" => call'[d] = call[d]
             /\ call[d].stage # "answered" =>
                  /\ call'[d].answer # "fresh" /\ call'[d].verdict = "none"
                  /\ call'[d].stage # "answered" => Blank(call'[d])
  BY <1>1 DEF Resting, Blank
<1>. QED BY <1>2, <1>3 DEF Quiet

LEMMA AwaitQuiet ==
  ASSUME Flights, Resting, NEW c \in Calls, NEW x, Ready(c, x), Blank(x), NEW stage \in Executing,
         Await(c, x, stage)
  PROVE  Quiet(x.key)
<1> DEFINE y == [x EXCEPT !.stage = stage]
<1>1. y.stage # "answered" /\ Blank(y)
  BY DEF Ready, CallType, Blank, Executing, Waiting
<1>. HIDE DEF y
<1>2. call' = [call EXCEPT ![c] = y] /\ flight' = [flight EXCEPT ![x.key] = c]
  BY Zenon DEF Await, y
<1>3. call[c].stage # "answered"
  BY DEF Ready, Executing, Waiting
<1>4. \A d \in Calls : call'[d] = IF d = c THEN y ELSE call[d]
  BY <1>2 DEF Flights
<1>5. \A j \in Keys \ {x.key} : flight'[j] # NoCall => flight[j] # NoCall
  BY <1>2 DEF Flights
<1>. QED BY <1>1, <1>3, <1>4, <1>5 DEF Quiet, Resting, Blank

LEMMA ServeStaleQuiet ==
  ASSUME Flights, Resting, NEW c \in Calls, NEW x, Ready(c, x), ServeStale(c, x)
  PROVE  Quiet(x.key)
  BY FinishQuiet DEF ServeStale, Error, Answer

LEMMA LimitsQuiet ==
  ASSUME Flights, Resting, NEW c \in Calls, NEW x, Ready(c, x), Blank(x),
         NEW waits \in SUBSET {"limited", "sharing"}, Limits(c, x, waits)
  PROVE  Quiet(x.key)
<1>1. CASE Await(c, x, "fetching")
  BY <1>1, AwaitQuiet DEF Executing
<1>2. CASE ServeStale(c, x)
  BY <1>2, ServeStaleQuiet
<1>3. CASE \E stage \in waits : Await(c, x, stage)
  BY <1>3, AwaitQuiet DEF Executing, Waiting
<1>. QED BY <1>1, <1>2, <1>3 DEF Limits

LEMMA PassBreakerQuiet ==
  ASSUME Flights, Resting, NEW c \in Calls, NEW x, Ready(c, x), Blank(x), PassBreaker(c, x)
  PROVE  Quiet(x.key)
<1> DEFINE b == host[HostOf[x.key]]
           y == [x EXCEPT !.probe = b.circuit = "halfOpen"]
<1>1. Ready(c, y) /\ Blank(y) /\ y.key = x.key
  BY DEF Ready, CallType, Blank
<1>2. CASE ServeStale(c, x)
  BY <1>2, ServeStaleQuiet
<1>3. CASE Limits(c, y, {"limited", "sharing"})
  BY <1>1, <1>3, LimitsQuiet
<1>. QED BY <1>2, <1>3, Zenon DEF PassBreaker

LEMMA RequestQuiet ==
  ASSUME IInv, Resting, NEW c \in Calls, NEW k \in Keys, Request(c, k)
  PROVE  Quiet(k)
<1> DEFINE x == [call[c] EXCEPT !.key = k, !.cached = cache[k].body]
<1>1. /\ call[c] \in CallType /\ call[c].stage = "none" /\ Blank(call[c])
      /\ cache[k].body \in Calls \union {NoCall}
  BY DEF IInv, Flights, CacheTyped, Request, Resting
<1>2. CASE flight[k] = NoCall /\ Execute(c, x)
  <2>1. Ready(c, x) /\ Blank(x) /\ x.key = k
    BY <1>1, <1>2 DEF Ready, CallType, Blank
  <2>. HIDE DEF x
  <2>2. CASE ServeStale(c, x)
    BY <2>1, <2>2, ServeStaleQuiet DEF IInv
  <2>3. CASE Await(c, x, "pacing")
    BY <2>1, <2>3, AwaitQuiet DEF IInv, Executing, Waiting
  <2>4. CASE PassBreaker(c, x)
    BY <2>1, <2>4, PassBreakerQuiet DEF IInv
  <2>. QED BY <1>2, <2>2, <2>3, <2>4, Zenon DEF Execute
<1>3. CASE /\ flight[k] # NoCall
           /\ call' = [call EXCEPT ![c] = [@ EXCEPT !.stage = "joined", !.key = k,
                                                    !.leader = flight[k]]]
           /\ flight' = flight
  <2> DEFINE y == [call[c] EXCEPT !.stage = "joined", !.key = k, !.leader = flight[k]]
  <2>1. y.stage = "joined" /\ Blank(y)
    BY <1>1 DEF CallType, Blank
  <2>. HIDE DEF y
  <2>2. call' = [call EXCEPT ![c] = y]
    BY <1>3, Zenon DEF y
  <2>3. \A d \in Calls : call'[d] = IF d = c THEN y ELSE call[d]
    BY <2>2 DEF IInv, Flights
  <2>. QED BY <1>1, <1>3, <2>1, <2>3 DEF Quiet, Resting, Blank
<1>. QED BY <1>2, <1>3, Zenon DEF Request

\* The call of a Progress step is on its way, and has no answer yet.
LEMMA UnderWay ==
  ASSUME Flights, Resting, NEW c \in Calls, Progress(c)
  PROVE  Ready(c, call[c]) /\ Blank(call[c]) /\ call[c].key \in Keys
<1>1. call[c].stage \in Executing
  BY DEF Progress, Wakes, Succeeds, AskedToWait, Refused, Fails, Cancelled, Executing
<1>. QED BY <1>1, OwnFlight DEF Ready, Resting, Executing, Waiting

\* Only a 200 makes a fresh answer, and only it touches the cache.
FreshAnswer(c) == Finish(c, call[c], "fresh", c) /\ Store(call[c].key, c)

LEMMA ProgressQuiet ==
  ASSUME Flights, Resting, NEW c \in Calls, Progress(c), ~FreshAnswer(c)
  PROVE  Quiet(call[c].key) /\ UNCHANGED <<cache, order>>
<1> DEFINE x == call[c]
<1>1. Ready(c, x) /\ Blank(x)
  BY UnderWay
<1>2. ASSUME Error(c, x) \/ ServeStale(c, x) PROVE Quiet(x.key)
  BY <1>1, <1>2, FinishQuiet, ServeStaleQuiet DEF Error, Answer
<1>3. UNCHANGED <<cache, order>>
  BY Zenon DEF Progress, Wakes, Succeeds, FreshAnswer, AskedToWait, Refused, Fails, Cancelled,
               CacheUnchanged
<1>4. ASSUME Wakes(c) PROVE Quiet(x.key)
  <2>1. CASE PassBreaker(c, x)
    BY <1>1, <2>1, PassBreakerQuiet
  <2>2. CASE Limits(c, x, {"sharing"}) \/ Limits(c, x, {})
    BY <1>1, <2>2, LimitsQuiet
  <2>3. CASE x.stage = "backoff" /\ Await(c, [x EXCEPT !.attempt = @ + 1], "fetching")
    <3> DEFINE y == [x EXCEPT !.attempt = @ + 1]
    <3>1. x.attempt < MaxRetries
      BY <2>3 DEF Flights, Named
    <3>2. Ready(c, y) /\ Blank(y) /\ y.key = x.key
      BY <1>1, <3>1, HttpAssumption DEF Ready, CallType, Blank
    <3>. HIDE DEF y
    <3>3. Await(c, y, "fetching")
      BY <2>3, Zenon DEF y
    <3>. QED BY <3>2, <3>3, AwaitQuiet DEF Executing
  <2>. QED BY <1>2, <1>4, <2>1, <2>2, <2>3, Zenon DEF Wakes
<1>5. ASSUME Succeeds(c) PROVE Quiet(x.key)
  <2>1. Finish(c, x, "stored", x.cached)
    BY <1>5, Zenon DEF Succeeds, FreshAnswer
  <2>. QED BY <1>1, <2>1, FinishQuiet DEF Answer
<1>6. ASSUME AskedToWait(c) \/ Refused(c) \/ Cancelled(c) PROVE Quiet(x.key)
  BY <1>2, <1>6, Zenon DEF AskedToWait, Refused, Cancelled
<1>7. ASSUME Fails(c) PROVE Quiet(x.key)
  <2>1. CASE Await(c, x, "backoff")
    BY <1>1, <2>1, AwaitQuiet DEF Executing, Waiting
  <2>. QED BY <1>2, <1>7, <2>1, Zenon DEF Fails
<1>. QED BY <1>3, <1>4, <1>5, <1>6, <1>7 DEF Progress

\* Cut and Judge.
LEMMA CutQuiet ==
  ASSUME Flights, Resting, NEW c \in Calls, NEW reason, Cut(c, reason), NEW k
  PROVE  Quiet(k)
<1> DEFINE x == [call[c] EXCEPT !.cut = reason]
<1>1. x.stage = call[c].stage /\ x.stage # "answered" /\ Blank(x)
  BY DEF Flights, CallType, Cut, Resting, Blank, Executing, Waiting
<1>2. call' = [call EXCEPT ![c] = x] /\ UNCHANGED flight
  BY Zenon DEF Cut
<1>. HIDE DEF x
<1>3. \A d \in Calls : call'[d] = IF d = c THEN x ELSE call[d]
  BY <1>2 DEF Flights
<1>. QED BY <1>1, <1>2, <1>3 DEF Quiet, Resting, Blank

\* Only the readers of the body get a verdict, and nothing else of them changes.
LEMMA JudgeLeaves ==
  ASSUME Flights, Resting, NEW c \in Calls, NEW verdict, Judge(c, verdict)
  PROVE  /\ call[c].key \in Keys /\ call[c].stage = "answered"
         /\ \A d \in Calls :
              /\ call'[d].stage = call[d].stage /\ call'[d].answer = call[d].answer
              /\ call'[d].body = call[d].body /\ call'[d].key = call[d].key
              /\ call'[d].verdict = IF call[d].answer = "fresh" /\ call[d].body = c
                                    THEN verdict ELSE call[d].verdict
         /\ UNCHANGED flight
         /\ Resting'
<1>1. call[c].stage = "answered" /\ call[c].key \in Keys
  BY DEF Judge, Resting, Blank, Flights, Named
<1>2. UNCHANGED flight
  BY Zenon DEF Judge
<1>3. ASSUME NEW d \in Calls
      PROVE  /\ call'[d].stage = call[d].stage /\ call'[d].answer = call[d].answer
             /\ call'[d].body = call[d].body /\ call'[d].key = call[d].key
             /\ call'[d].verdict = IF call[d].answer = "fresh" /\ call[d].body = c
                                   THEN verdict ELSE call[d].verdict
  <2> DEFINE y == [call[d] EXCEPT !.verdict = verdict]
  <2>1. /\ y.stage = call[d].stage /\ y.answer = call[d].answer /\ y.body = call[d].body
        /\ y.key = call[d].key /\ y.verdict = verdict
    BY DEF Flights, CallType
  <2>. HIDE DEF y
  <2>2. call'[d] = IF call[d].answer = "fresh" /\ call[d].body = c THEN y ELSE call[d]
    BY Zenon DEF Judge, y
  <2>. QED BY <2>1, <2>2
<1>4. Resting'
  BY <1>3 DEF Resting, Blank
<1>. QED BY <1>1, <1>2, <1>3, <1>4

\* No step gives a call an answer before it is answered.
LEMMA RestingStays ==
  ASSUME IInv, Resting, [Next]_vars
  PROVE  Resting'
<1>. USE DEF IInv
<1>1. ASSUME NEW c \in Calls, NEW k \in Keys, Request(c, k) PROVE Resting'
  BY <1>1, RequestQuiet, QuietRests
<1>2. ASSUME NEW c \in Calls, NEW reason \in {"abort", "budget"}, Cut(c, reason) PROVE Resting'
  BY <1>2, CutQuiet, QuietRests
<1>3. ASSUME NEW c \in Calls, NEW verdict \in {"accepted", "refused"}, Judge(c, verdict)
      PROVE  Resting'
  BY <1>3, JudgeLeaves
<1>4. ASSUME NEW c \in Calls, Progress(c) PROVE Resting'
  <2>1. CASE FreshAnswer(c)
    <3>1. Ready(c, call[c])
      BY <1>4, UnderWay
    <3>. QED BY <2>1, <3>1, FinishLeaves DEF FreshAnswer, Resting, Blank
  <2>. QED BY <1>4, <2>1, ProgressQuiet, QuietRests
<1>5. ASSUME UNCHANGED call PROVE Resting'
  BY <1>5 DEF Resting, Blank
<1>. QED BY <1>1, <1>2, <1>3, <1>4, <1>5
       DEF Next, CircuitCools, RetryAfterPasses, SetOnline, vars

-----------------------------------------------------------------------------
(* Every variable keeps its type.                                          *)

HostTyped == host \in [Hosts -> HostType]

\* What an outcome makes of a breaker is a breaker, and so is the host that has it.
LEMMA BreakerTyped ==
  ASSUME NEW b \in HostType
  PROVE  /\ Let(b) \in HostType /\ RecordSuccess(b) \in HostType
         /\ RecordFailure(b) \in HostType
         /\ \A paced \in BOOLEAN : [b EXCEPT !.paced = paced] \in HostType
         /\ [b EXCEPT !.blocked = TRUE, !.paced = TRUE] \in HostType
<1>1. Let(b) \in HostType
  BY DEF Let, HostType
<1>2. RecordSuccess(b) \in HostType
  <2>1. 0 \in 0..(FailureThreshold - 1)
    BY HttpAssumption
  <2>. QED BY <2>1 DEF RecordSuccess, HostType
<1>3. RecordFailure(b) \in HostType
  <2> DEFINE trips == b.circuit # "closed" \/ b.failures + 1 >= FailureThreshold
             failures == IF trips THEN 0 ELSE b.failures + 1
             circuit == IF trips THEN "open" ELSE b.circuit
  <2>1. failures \in 0..(FailureThreshold - 1) /\ circuit \in {"closed", "open", "halfOpen"}
    BY HttpAssumption DEF HostType
  <2>2. RecordFailure(b)
          = [b EXCEPT !.probing = FALSE, !.failures = failures, !.circuit = circuit]
    BY DEF RecordFailure, HostType
  <2>. HIDE DEF failures, circuit
  <2>. QED BY <2>1, <2>2 DEF HostType
<1>. QED BY <1>1, <1>2, <1>3 DEF HostType

LEMMA SetHostTyped ==
  ASSUME HostTyped, NEW x, NEW b \in HostType, SetHost(x, b)
  PROVE  HostTyped'
  BY DEF HostTyped, SetHost

LEMMA PassBreakerTyped ==
  ASSUME HostTyped, NEW c, NEW x, x.key \in Keys, PassBreaker(c, x)
  PROVE  HostTyped'
<1>1. host[HostOf[x.key]] \in HostType
  BY HttpAssumption DEF HostTyped
<1>2. CASE UNCHANGED host
  BY <1>2 DEF HostTyped
<1>3. CASE SetHost(x, Let(host[HostOf[x.key]]))
  BY <1>1, <1>3, BreakerTyped, SetHostTyped
<1>. QED BY <1>2, <1>3, Zenon DEF PassBreaker

LEMMA RequestTyped ==
  ASSUME IInv, HostTyped, NEW c \in Calls, NEW k \in Keys, Request(c, k)
  PROVE  HostTyped'
<1> DEFINE x == [call[c] EXCEPT !.key = k, !.cached = cache[k].body]
<1>1. x.key = k
  BY DEF IInv, Flights, CallType
<1>. HIDE DEF x
<1>2. CASE UNCHANGED host
  BY <1>2 DEF HostTyped
<1>3. CASE Execute(c, x)
  <2>1. CASE PassBreaker(c, x)
    BY <1>1, <2>1, PassBreakerTyped
  <2>. QED BY <1>2, <1>3, <2>1, Zenon DEF Execute
<1>. QED BY <1>2, <1>3, Zenon DEF Request, x

LEMMA ProgressTyped ==
  ASSUME IInv, HostTyped, NEW c \in Calls, Progress(c)
  PROVE  HostTyped'
<1> DEFINE x == call[c]
           b == host[HostOf[x.key]]
<1>1. x.key \in Keys
  BY DEF IInv, Flights, Named, Progress, Wakes, Succeeds, AskedToWait, Refused, Fails,
         Cancelled, Waiting
<1>2. b \in HostType
  BY <1>1, HttpAssumption DEF HostTyped
<1>3. CASE UNCHANGED host
  BY <1>3 DEF HostTyped
<1>4. CASE Wakes(c)
  <2>1. CASE PassBreaker(c, x)
    BY <1>1, <2>1, PassBreakerTyped
  <2>. QED BY <1>3, <1>4, <2>1, Zenon DEF Wakes
<1>5. CASE Succeeds(c)
  <2>1. RecordSuccess(b) \in HostType /\ RecordSuccess(b).paced \in BOOLEAN
    BY <1>2, BreakerTyped DEF HostType
  <2>2. PICK paced \in {RecordSuccess(b).paced, FALSE} : SetHost(x, [RecordSuccess(b) EXCEPT !.paced = paced])
    BY <1>5, Zenon DEF Succeeds
  <2>3. [RecordSuccess(b) EXCEPT !.paced = paced] \in HostType
    BY <2>1, BreakerTyped
  <2>. QED BY <2>2, <2>3, SetHostTyped
<1>6. CASE AskedToWait(c)
  BY <1>2, <1>6, BreakerTyped, SetHostTyped DEF AskedToWait
<1>7. CASE Fails(c)
  BY <1>2, <1>7, BreakerTyped, SetHostTyped DEF Fails
<1>8. CASE Refused(c) \/ Cancelled(c)
  BY <1>3, <1>8, Zenon DEF Refused, Cancelled
<1>. QED BY <1>4, <1>5, <1>6, <1>7, <1>8 DEF Progress

TInv == IInv /\ Resting /\ HostTyped /\ OrderTyped /\ online \in BOOLEAN

LEMMA InitTInv == Init => TInv
<1> SUFFICES ASSUME Init PROVE TInv
  OBVIOUS
<1>1. HostTyped
  BY HttpAssumption DEF Init, HostTyped, HostType, NewHost
<1>2. order \in Seq(Keys) /\ Len(order) = 0
  BY DEF Init
<1>3. OrderTyped
  BY <1>2, HttpAssumption DEF Init, OrderTyped, Ordered, In, Nothing
<1>4. Resting
  BY DEF Init, Resting, Blank, NewCall
<1>. QED BY <1>1, <1>3, <1>4, InitIInv DEF TInv, Init

LEMMA NextTInv == TInv /\ [Next]_vars => TInv'
<1> SUFFICES ASSUME TInv, [Next]_vars PROVE TInv'
  OBVIOUS
<1>1. IInv /\ IInv' /\ Resting'
  BY NextIInv, RestingStays DEF TInv
<1>2. ASSUME UNCHANGED <<cache, order>> PROVE OrderTyped'
  BY <1>2 DEF TInv, OrderTyped
<1>3. ASSUME UNCHANGED host PROVE HostTyped'
  BY <1>3 DEF TInv, HostTyped
<1>4. ASSUME NEW c \in Calls, NEW k \in Keys, Request(c, k) PROVE TInv'
  <2>1. UNCHANGED <<cache, order, online>>
    BY <1>4, Zenon DEF Request, CacheUnchanged
  <2>. QED BY <1>1, <1>2, <1>4, <2>1, RequestTyped DEF TInv
<1>5. ASSUME NEW c \in Calls, NEW reason \in {"abort", "budget"}, Cut(c, reason) PROVE TInv'
  BY <1>1, <1>2, <1>3, <1>5 DEF TInv, Cut, CacheUnchanged
<1>6. ASSUME NEW c \in Calls, NEW verdict \in {"accepted", "refused"}, Judge(c, verdict)
      PROVE  TInv'
  <2>1. UNCHANGED <<host, online>>
    BY <1>6, Zenon DEF Judge
  <2>2. OrderTyped'
    <3>1. CASE Invalidate(call[c].key, c)
      <4>1. call[c].key \in Keys
        BY <1>1, <1>6, JudgeLeaves DEF TInv, IInv
      <4>. QED BY <1>1, <3>1, <4>1, InvalidateOrders DEF TInv, IInv
    <3>. QED BY <1>2, <1>6, <3>1, Zenon DEF Judge
  <2>. QED BY <1>1, <1>3, <2>1, <2>2 DEF TInv
<1>7. ASSUME NEW c \in Calls, Progress(c) PROVE TInv'
  <2>1. UNCHANGED online
    BY <1>7, Zenon DEF Progress, Wakes, Succeeds, AskedToWait, Refused, Fails, Cancelled
  <2>2. OrderTyped'
    <3>1. CASE Succeeds(c)
      <4>1. call[c].key \in Keys
        BY <1>1, <3>1 DEF Succeeds, IInv, Flights, Named
      <4>2. Store(call[c].key, c) \/ UNCHANGED <<cache, order>>
        BY <3>1, Zenon DEF Succeeds, CacheUnchanged
      <4>. QED BY <1>1, <1>2, <4>1, <4>2, StoreOrders DEF TInv, IInv
    <3>2. CASE ~Succeeds(c)
      <4>1. UNCHANGED <<cache, order>>
        BY <1>7, <3>2, Zenon DEF Progress, Wakes, AskedToWait, Refused, Fails, Cancelled,
                                 CacheUnchanged
      <4>. QED BY <1>2, <4>1
    <3>. QED BY <3>1, <3>2
  <2>. QED BY <1>1, <1>7, <2>1, <2>2, ProgressTyped DEF TInv
<1>8. ASSUME NEW h \in Hosts, CircuitCools(h) \/ RetryAfterPasses(h) PROVE TInv'
  <2>1. [host[h] EXCEPT !.circuit = "halfOpen"] \in HostType
    BY DEF TInv, HostTyped, HostType
  <2>2. [host[h] EXCEPT !.blocked = FALSE] \in HostType
    BY DEF TInv, HostTyped, HostType
  <2>3. \/ host' = [host EXCEPT ![h] = [host[h] EXCEPT !.circuit = "halfOpen"]]
        \/ host' = [host EXCEPT ![h] = [host[h] EXCEPT !.blocked = FALSE]]
    BY <1>8 DEF TInv, HostTyped, CircuitCools, RetryAfterPasses
  <2>4. HostTyped'
    BY <2>1, <2>2, <2>3 DEF TInv, HostTyped
  <2>. QED BY <1>1, <1>2, <1>8, <2>4 DEF TInv, CircuitCools, RetryAfterPasses, CacheUnchanged
<1>9. ASSUME NEW up \in BOOLEAN, SetOnline(up) PROVE TInv'
  BY <1>1, <1>2, <1>3, <1>9 DEF TInv, SetOnline, CacheUnchanged
<1>10. CASE UNCHANGED vars
  BY <1>1, <1>2, <1>3, <1>10 DEF TInv, vars
<1>. QED BY <1>4, <1>5, <1>6, <1>7, <1>8, <1>9, <1>10 DEF Next

\* Every variable keeps its type, and the order of the cache is that of the keys stored, which
\* are never more than its limit.
THEOREM TypeOKHolds == Spec => []TypeOK
<1>1. TInv => TypeOK
  BY DEF TInv, IInv, Flights, CacheTyped, HostTyped, OrderTyped, In, TypeOK
<1>. QED BY <1>1, InitTInv, NextTInv, PTL DEF Spec

-----------------------------------------------------------------------------
(* The verdicts on what is stored, when no key is Deliberate: what a new   *)
(* body replaces has been judged by then, so that what is kept aside was   *)
(* accepted.                                                               *)

NoneDeliberate == Deliberate = {}

\* b is nothing, or the body of a fresh answer for k, named after the call that fetched it.
Owned(b, k) ==
  \/ b = NoCall
  \/ /\ b \in Calls /\ call[b].stage = "answered" /\ call[b].answer = "fresh"
     /\ call[b].body = b /\ call[b].key = k

StoredWell(k) ==
  /\ Owned(cache[k].body, k) /\ Owned(cache[k].good, k)
  /\ Verdict(cache[k].body) # "refused"
  /\ cache[k].good # NoCall => Verdict(cache[k].good) = "accepted" /\ cache[k].body # NoCall

FlightJudged(k) == flight[k] # NoCall => Judged(k)

VInv ==
  /\ IInv /\ Resting /\ OrderTyped
  /\ \A k \in Keys : StoredWell(k) /\ FlightJudged(k)

\* A quiet step leaves the verdicts of what is stored alone.
LEMMA QuietVerdicts ==
  ASSUME VInv, NEW k, Quiet(k), UNCHANGED cache, NEW j \in Keys
  PROVE  /\ StoredWell(j)' /\ (Judged(j) => Judged(j)')
         /\ Verdict(cache[j].body)' = Verdict(cache[j].body)
         /\ Verdict(cache[j].good)' = Verdict(cache[j].good)
<1>1. \A b \in Calls : call[b].stage = "answered" => call'[b] = call[b]
  BY DEF Quiet
<1>2. StoredWell(j)
  BY DEF VInv
<1>3. /\ Verdict(cache[j].body)' = Verdict(cache[j].body)
      /\ Verdict(cache[j].good)' = Verdict(cache[j].good)
  BY <1>1, <1>2 DEF StoredWell, Owned, Verdict
<1>4. Owned(cache[j].body, j)' /\ Owned(cache[j].good, j)'
  BY <1>1, <1>2 DEF StoredWell, Owned
<1>5. Judged(j) => Judged(j)'
  BY DEF Quiet, Judged
<1>. QED BY <1>2, <1>3, <1>4, <1>5 DEF StoredWell

\* A flight that is left after a quiet step was there, or is that of a key that is judged.
LEMMA QuietKeeps ==
  ASSUME VInv, IInv', OrderTyped', NEW k \in Keys, Quiet(k), UNCHANGED cache, Judged(k)
  PROVE  VInv'
<1>1. Resting'
  BY QuietRests DEF VInv
<1>2. ASSUME NEW j \in Keys PROVE StoredWell(j)' /\ FlightJudged(j)'
  BY QuietVerdicts DEF VInv, FlightJudged, Quiet
<1>. QED BY <1>1, <1>2 DEF VInv

\* A fresh answer: what it replaces was accepted, or is nothing.
LEMMA FreshKeeps ==
  ASSUME VInv, IInv', NEW c \in Calls, Progress(c), FreshAnswer(c)
  PROVE  /\ VInv'
         /\ \A k \in Keys : Verdict(Fallback(k)) = "accepted" =>
              \/ Verdict(Fallback(k))' = "accepted"
              \/ cache[k]' = Nothing /\ Len(order) = CacheMax /\ order[1] = k
<1> DEFINE ends(d) == d = c \/ (call[d].stage = "joined" /\ call[d].leader = c)
<1>0. PICK k \in Keys : k = call[c].key
  BY UnderWay DEF VInv, IInv
<1>1. Ready(c, call[c]) /\ k \in Keys /\ k = call[c].key
  BY <1>0, UnderWay DEF VInv, IInv
<1>2. /\ \A d \in Calls : ends(d) =>
           /\ call[d].stage # "answered" /\ call'[d].stage = "answered"
           /\ call'[d].key = k /\ call'[d].answer = "fresh"
           /\ call'[d].body = c /\ call'[d].verdict = "none"
      /\ \A d \in Calls : ~ends(d) => call'[d] = call[d]
      /\ flight' = [flight EXCEPT ![k] = NoCall]
  BY <1>1, FinishLeaves DEF FreshAnswer, VInv, IInv
<1>3. /\ OrderTyped'
      /\ cache'[k] = [body |-> c, good |-> cache[k].body]
      /\ \A j \in Keys \ {k} :
           \/ cache'[j] = cache[j]
           \/ cache'[j] = Nothing /\ Len(order) = CacheMax /\ order[1] = j
  BY <1>1, StoreOrders DEF FreshAnswer, VInv, IInv
<1>4. ends(c) /\ c # NoCall
  BY HttpAssumption
<1>. HIDE DEF ends
<1>5. \A b \in Calls : call[b].stage = "answered" => call'[b] = call[b]
  BY <1>2
<1>6. ASSUME NEW j \in Keys, NEW b, Owned(b, j)
      PROVE  Owned(b, j)' /\ Verdict(b)' = Verdict(b)
  BY <1>5, <1>6 DEF Owned, Verdict
<1>7. Judged(k)
  <2>1. call[c].stage # "none"
    BY DEF Progress, Wakes, Succeeds, AskedToWait, Refused, Fails, Cancelled, Waiting
  <2>2. flight[k] = c
    BY <1>1, <2>1 DEF Ready
  <2>. QED BY <1>1, <1>4, <2>2 DEF VInv, FlightJudged
<1>8. cache[k].body # NoCall => Verdict(cache[k].body) = "accepted"
  <2>1. StoredWell(k)
    BY <1>1 DEF VInv
  <2>2. ASSUME cache[k].body # NoCall PROVE Verdict(cache[k].body) = "accepted"
    <3> DEFINE b == cache[k].body
    <3>1. b \in Calls /\ call[b].stage = "answered" /\ call[b].key = k /\ call[b].answer = "fresh"
      BY <2>1, <2>2 DEF StoredWell, Owned
    <3>2. call[b].verdict # "none" /\ call[b].verdict # "refused"
      BY <1>7, <2>1, <2>2, <3>1 DEF Judged, StoredWell, Verdict
    <3>3. call[b].verdict \in {"none", "accepted", "refused"}
      BY <3>1 DEF VInv, IInv, Flights, CallType
    <3>. QED BY <2>2, <3>2, <3>3 DEF Verdict
  <2>. QED BY <2>2
<1>9. StoredWell(k)'
  <2>1. Owned(c, k)' /\ Verdict(c)' = "none"
    BY <1>2, <1>4 DEF Owned, Verdict
  <2>2. Owned(cache[k].body, k)
    BY <1>1 DEF VInv, StoredWell
  <2>3. PICK g : g = cache[k].body
    OBVIOUS
  <2>4. Owned(g, k)' /\ Verdict(g)' = Verdict(g)
    BY <1>6, <2>2, <2>3
  <2>5. cache'[k].body = c /\ cache'[k].good = g
    BY <1>3, <2>3
  <2>. QED BY <1>4, <1>8, <2>1, <2>3, <2>4, <2>5 DEF StoredWell, Owned, Verdict
<1>10. ASSUME NEW j \in Keys, j # k PROVE StoredWell(j)' /\ FlightJudged(j)'
  <2>1. StoredWell(j) /\ FlightJudged(j)
    BY <1>10 DEF VInv
  <2>2. StoredWell(j)'
    <3>1. CASE cache'[j] = cache[j]
      BY <1>6, <2>1, <3>1 DEF StoredWell
    <3>2. CASE cache'[j] = Nothing
      BY <3>2 DEF StoredWell, Owned, Verdict, Nothing
    <3>. QED BY <1>3, <1>10, <3>1, <3>2
  <2>3. FlightJudged(j)'
    <3>1. flight'[j] = flight[j]
      BY <1>1, <1>2, <1>10 DEF VInv, IInv, Flights
    <3>. QED BY <1>2, <1>10, <2>1, <3>1 DEF FlightJudged, Judged
  <2>. QED BY <2>2, <2>3
<1>11. FlightJudged(k)'
  BY <1>1, <1>2 DEF FlightJudged, VInv, IInv, Flights
<1>12. Resting'
  BY <1>2 DEF VInv, Resting, Blank
<1>13. VInv'
  BY <1>3, <1>9, <1>10, <1>11, <1>12 DEF VInv
<1>14. ASSUME NEW j \in Keys, Verdict(Fallback(j)) = "accepted"
       PROVE  \/ Verdict(Fallback(j))' = "accepted"
              \/ cache[j]' = Nothing /\ Len(order) = CacheMax /\ order[1] = j
  <2>1. StoredWell(j)
    BY DEF VInv
  <2>2. CASE j = k
    <3>1. cache[k].body # NoCall
      BY <1>14, <2>1, <2>2 DEF StoredWell, Fallback, Verdict
    <3>2. PICK g : g = cache[k].body
      OBVIOUS
    <3>3. Verdict(g)' = "accepted"
      BY <1>6, <1>8, <2>1, <2>2, <3>1, <3>2 DEF StoredWell
    <3>4. Verdict(c)' = "none"
      BY <1>2, <1>4 DEF Verdict
    <3>5. cache'[j].body = c /\ cache'[j].good = g
      BY <1>3, <2>2, <3>2
    <3>. QED BY <3>3, <3>4, <3>5 DEF Fallback, Verdict
  <2>3. CASE j # k /\ cache'[j] = cache[j]
    <3>1. /\ Verdict(cache[j].body)' = Verdict(cache[j].body)
          /\ Verdict(cache[j].good)' = Verdict(cache[j].good)
      BY <1>6, <2>1, <2>3 DEF StoredWell
    <3>. QED BY <1>14, <2>3, <3>1 DEF Fallback
  <2>. QED BY <1>3, <2>2, <2>3
<1>. QED BY <1>13, <1>14

\* A verdict: a refused body gives way to the accepted one before it.
LEMMA VerdictKeeps ==
  ASSUME VInv, IInv', NEW c \in Calls, NEW verdict \in {"accepted", "refused"}, Judge(c, verdict)
  PROVE  /\ VInv'
         /\ \A k \in Keys :
              Verdict(Fallback(k)) = "accepted" => Verdict(Fallback(k))' = "accepted"
<1>0. PICK k \in Keys : k = call[c].key
  BY JudgeLeaves DEF VInv, IInv
<1>1. /\ k \in Keys /\ k = call[c].key /\ call[c].stage = "answered"
      /\ \A d \in Calls :
           /\ call'[d].stage = call[d].stage /\ call'[d].answer = call[d].answer
           /\ call'[d].body = call[d].body /\ call'[d].key = call[d].key
           /\ call'[d].verdict = IF call[d].answer = "fresh" /\ call[d].body = c
                                 THEN verdict ELSE call[d].verdict
      /\ UNCHANGED flight
      /\ Resting'
  BY <1>0, JudgeLeaves DEF VInv, IInv
<1>2. call[c].answer = "fresh" /\ call[c].body = c /\ call[c].verdict = "none" /\ c # NoCall
  BY HttpAssumption DEF Judge
<1>3. ASSUME NEW j \in Keys, NEW b, Owned(b, j)
      PROVE  Owned(b, j)' /\ Verdict(b)' = IF b = c THEN verdict ELSE Verdict(b)
  BY <1>1, <1>2, <1>3 DEF Owned, Verdict
<1>4. OrderTyped'
  <2>1. CASE Invalidate(k, c)
    BY <1>1, <2>1, InvalidateOrders DEF VInv, IInv
  <2>2. CASE UNCHANGED <<cache, order>>
    BY <2>2 DEF VInv, OrderTyped
  <2>. QED BY <1>0, <2>1, <2>2 DEF Judge
<1>5. ASSUME NEW j \in Keys
      PROVE  \/ cache'[j] = cache[j] /\ (cache[j].body = c => verdict = "accepted")
             \/ /\ cache[j].body = c /\ verdict = "refused"
                /\ cache'[j] = [body |-> cache[j].good, good |-> NoCall]
  <2>1. StoredWell(j)
    BY DEF VInv
  <2>2. cache[j].body = c => j = k
    BY <1>1, <1>2, <2>1 DEF StoredWell, Owned
  <2>3. CASE verdict = "accepted"
    BY <2>3 DEF Judge
  <2>4. CASE verdict = "refused" /\ cache[k].body # c
    <3>1. UNCHANGED cache
      BY <1>0, <2>4 DEF Judge, Invalidate
    <3>. QED BY <2>2, <2>4, <3>1
  <2>5. CASE verdict = "refused" /\ cache[k].body = c
    <3>1. cache' = [cache EXCEPT ![k] = [body |-> cache[k].good, good |-> NoCall]]
      BY <1>0, <2>5 DEF Judge, Invalidate, Nothing
    <3>. QED BY <1>1, <2>2, <2>5, <3>1 DEF VInv, IInv, CacheTyped
  <2>. QED BY <2>3, <2>4, <2>5
<1>6. ASSUME NEW j \in Keys PROVE StoredWell(j)' /\ FlightJudged(j)'
  <2>1. StoredWell(j) /\ FlightJudged(j)
    BY DEF VInv
  <2>2. cache[j].good # c
    BY <1>2, <2>1 DEF StoredWell, Verdict
  <2>3. FlightJudged(j)'
    BY <1>1, <2>1 DEF FlightJudged, Judged
  <2>4. CASE cache'[j] = cache[j] /\ (cache[j].body = c => verdict = "accepted")
    BY <1>3, <2>1, <2>2, <2>3, <2>4 DEF StoredWell
  <2>5. CASE cache'[j] = [body |-> cache[j].good, good |-> NoCall]
    <3>1. PICK g : g = cache[j].good
      OBVIOUS
    <3>2. Owned(g, j)' /\ Verdict(g)' = Verdict(g) /\ Verdict(g) # "refused"
      BY <1>3, <2>1, <2>2, <3>1 DEF StoredWell, Verdict
    <3>3. cache'[j].body = g /\ cache'[j].good = NoCall
      BY <2>5, <3>1
    <3>. QED BY <2>3, <3>2, <3>3 DEF StoredWell, Owned, Verdict
  <2>. QED BY <1>5, <2>4, <2>5
<1>7. VInv'
  BY <1>1, <1>4, <1>6 DEF VInv
<1>8. ASSUME NEW j \in Keys, Verdict(Fallback(j)) = "accepted"
      PROVE  Verdict(Fallback(j))' = "accepted"
  <2>1. StoredWell(j)
    BY DEF VInv
  <2>2. cache[j].good # c
    BY <1>2, <2>1 DEF StoredWell, Verdict
  <2>3. CASE cache'[j] = cache[j] /\ (cache[j].body = c => verdict = "accepted")
    BY <1>3, <1>8, <2>1, <2>2, <2>3 DEF StoredWell, Fallback
  <2>4. CASE /\ cache[j].body = c /\ verdict = "refused"
             /\ cache'[j] = [body |-> cache[j].good, good |-> NoCall]
    <3>1. Verdict(cache[j].body) = "none"
      BY <1>2, <2>4 DEF Verdict
    <3>2. Verdict(cache[j].good) = "accepted"
      BY <1>8, <3>1 DEF Fallback
    <3>3. PICK g : g = cache[j].good
      OBVIOUS
    <3>4. Verdict(g)' = "accepted"
      BY <1>3, <2>1, <2>2, <3>2, <3>3 DEF StoredWell
    <3>5. cache'[j].body = g
      BY <2>4, <3>3
    <3>. QED BY <3>4, <3>5 DEF Fallback, Verdict
  <2>. QED BY <1>5, <2>3, <2>4
<1>. QED BY <1>7, <1>8

\* The steps between a request and its answer, and those of the host and the network.
LEMMA NextVInv ==
  ASSUME NoneDeliberate, VInv, [Next]_vars
  PROVE  /\ VInv'
         /\ \A k \in Keys : Verdict(Fallback(k)) = "accepted" =>
              \/ Verdict(Fallback(k))' = "accepted"
              \/ cache[k]' = Nothing /\ Len(order) = CacheMax /\ order[1] = k
<1>1. IInv'
  BY NextIInv DEF VInv
<1>2. ASSUME UNCHANGED <<cache, order>> PROVE OrderTyped'
  BY <1>2 DEF VInv, OrderTyped
<1>3. ASSUME NEW k, Quiet(k), UNCHANGED cache, NEW j \in Keys, Verdict(Fallback(j)) = "accepted"
      PROVE  Verdict(Fallback(j))' = "accepted"
  BY <1>3, QuietVerdicts DEF Fallback
<1>4. ASSUME NEW c \in Calls, NEW k \in Keys, Request(c, k)
      PROVE  VInv' /\ Quiet(k) /\ UNCHANGED cache
  <2>1. Judged(k) /\ UNCHANGED <<cache, order>>
    BY <1>4 DEF Request, NoneDeliberate, CacheUnchanged
  <2>2. Quiet(k)
    BY <1>4, RequestQuiet DEF VInv
  <2>. QED BY <1>1, <1>2, <2>1, <2>2, QuietKeeps
<1>5. ASSUME NEW c \in Calls, Progress(c), ~FreshAnswer(c)
      PROVE  VInv' /\ Quiet(call[c].key) /\ UNCHANGED cache
  <2>1. Quiet(call[c].key) /\ UNCHANGED <<cache, order>>
    BY <1>5, ProgressQuiet DEF VInv, IInv
  <2>2. Ready(c, call[c]) /\ call[c].key \in Keys /\ call[c].stage # "none"
    BY <1>5, UnderWay DEF VInv, IInv, Progress, Wakes, Succeeds, AskedToWait, Refused, Fails,
                          Cancelled, Waiting
  <2>3. Judged(call[c].key)
    BY <2>2, HttpAssumption DEF Ready, VInv, FlightJudged
  <2>. QED BY <1>1, <1>2, <2>1, <2>2, <2>3, QuietKeeps
<1>6. ASSUME NEW c \in Calls, NEW reason \in {"abort", "budget"}, Cut(c, reason)
      PROVE  VInv' /\ Quiet(call[c].key) /\ UNCHANGED cache
  <2>1. Quiet(call[c].key) /\ UNCHANGED <<cache, order>>
    BY <1>6, CutQuiet DEF VInv, IInv, Cut, CacheUnchanged
  <2>2. Ready(c, call[c]) /\ call[c].key \in Keys /\ call[c].stage # "none"
    BY <1>6, OwnFlight DEF VInv, IInv, Cut, Ready, Executing, Waiting
  <2>3. Judged(call[c].key)
    BY <2>2, HttpAssumption DEF Ready, VInv, FlightJudged
  <2>. QED BY <1>1, <1>2, <2>1, <2>2, <2>3, QuietKeeps
<1>7. ASSUME UNCHANGED <<call, flight, cache, order>>
      PROVE  VInv' /\ \A j \in Keys : Fallback(j)' = Fallback(j) /\ Verdict(Fallback(j))' = Verdict(Fallback(j))
  BY <1>1, <1>2, <1>7
     DEF VInv, Resting, Blank, StoredWell, Owned, FlightJudged, Judged, Verdict, Fallback
<1>8. CASE \E c \in Calls, k \in Keys : Request(c, k)
  BY <1>3, <1>4, <1>8
<1>9. CASE \E c \in Calls : Progress(c)
  BY <1>1, <1>3, <1>5, <1>9, FreshKeeps
<1>10. CASE \E c \in Calls, reason \in {"abort", "budget"} : Cut(c, reason)
  BY <1>3, <1>6, <1>10
<1>11. CASE \E c \in Calls, verdict \in {"accepted", "refused"} : Judge(c, verdict)
  BY <1>1, <1>11, VerdictKeeps
<1>12. CASE \/ \E h \in Hosts : CircuitCools(h) \/ RetryAfterPasses(h)
            \/ \E up \in BOOLEAN : SetOnline(up)
            \/ UNCHANGED vars
  <2>1. UNCHANGED <<call, flight, cache, order>>
    BY <1>12 DEF CircuitCools, RetryAfterPasses, SetOnline, CacheUnchanged, vars
  <2>. QED BY <1>7, <2>1
<1>. QED BY <1>8, <1>9, <1>10, <1>11, <1>12 DEF Next

LEMMA InitVInv == Init => VInv
<1> SUFFICES ASSUME Init PROVE VInv
  OBVIOUS
<1>1. TInv
  BY InitTInv
<1>2. \A k \in Keys : StoredWell(k) /\ FlightJudged(k)
  BY DEF Init, StoredWell, Owned, Verdict, Nothing, FlightJudged
<1>. QED BY <1>1, <1>2 DEF TInv, VInv

\* When every key's answer is judged before the key is asked for again, what a reader refused
\* is neither served nor restored, whoever else asked, joined or was evicted in between.
THEOREM RefusedBodyIsGoneHolds ==
  ASSUME NoneDeliberate
  PROVE  Spec => []RefusedBodyIsGone
<1>1. VInv /\ [Next]_vars => VInv'
  BY NextVInv
<1>2. VInv => RefusedBodyIsGone
  BY DEF VInv, StoredWell, RefusedBodyIsGone, Verdict
<1>. QED BY <1>1, <1>2, InitVInv, PTL DEF Spec

\* A source that has answered well keeps an accepted body, until its key is the oldest of a
\* full cache.
THEOREM AcceptedBodyIsKeptHolds ==
  ASSUME NoneDeliberate
  PROVE  Spec => AcceptedBodyIsKept
<1>1. VInv /\ [Next]_vars => VInv'
  BY NextVInv
<1>2. VInv /\ [Next]_vars =>
        [\A k \in Keys : Verdict(Fallback(k)) = "accepted" =>
           \/ Verdict(Fallback(k))' = "accepted"
           \/ cache[k]' = Nothing /\ Len(order) = CacheMax /\ order[1] = k]_vars
  BY NextVInv
<1>. QED BY <1>1, <1>2, InitVInv, PTL DEF Spec, AcceptedBodyIsKept

=============================================================================

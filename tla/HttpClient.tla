----------------------------- MODULE HttpClient -----------------------------
(***************************************************************************)
(* The HTTP client of one provider (packages/core/src/http.ts) with the    *)
(* circuit breaker and the single flight of resilience.ts: what a request  *)
(* waits for, what is answered from the cache, what is retried, and what   *)
(* each outcome leaves behind for the next request to the same host.       *)
(*                                                                         *)
(* A step is what runs between two awaits of `execute`.  Durations are     *)
(* left out: a wait may end, a host's Retry-After may pass, a circuit may  *)
(* cool and a stored body may have grown too old at any time.  The rate    *)
(* limiters and the pace kept after a 429 answer "now", "wait" or "too     *)
(* long" as they please.  Which error a call ends with is left out too.    *)
(*                                                                         *)
(*   call     each call of request(), with the state of its execution      *)
(*   flight   the call whose execution is in flight for each cache key     *)
(*   host     per host: its breaker, and how it has asked to be treated    *)
(*   cache, order   the stored bodies, and their keys, oldest first        *)
(*   online   the application's own network switch                         *)
(***************************************************************************)
EXTENDS Naturals, Sequences, FiniteSets

CONSTANTS
  Calls,             \* calls of request(); a body is named after the call that fetched it
  NoCall,            \* no call, and no body
  Keys,              \* cache keys: a method and a URL
  Hosts,
  HostOf,            \* the host a key's URL names
  Deliberate,        \* keys whose answers are judged only after other awaits
  FailureThreshold,  \* failures in a row that open a circuit
  MaxRetries,
  CacheMax           \* entries the cache keeps

ASSUME HttpAssumption ==
  /\ NoCall \notin Calls
  /\ HostOf \in [Keys -> Hosts]
  /\ FailureThreshold \in Nat \ {0}
  /\ MaxRetries \in Nat
  /\ CacheMax \in Nat \ {0}

VARIABLES call, flight, host, cache, order, online

vars == <<call, flight, host, cache, order, online>>

Waiting == {"pacing", "limited", "sharing", "backoff"}
Executing == Waiting \union {"fetching"}

Answer == {"none", "fresh", "stored", "error"}

(***************************************************************************)
(*   cut      the caller's signal: aborted by it, or by the poll's budget  *)
(*   probe    the execution was let through by a half-open circuit         *)
(*   cached   the entry the execution found when it began                  *)
(*   body     the body of the answer; `verdict` what its reader made of it *)
(***************************************************************************)
CallType ==
  [stage : {"none", "joined", "answered"} \union Executing,
   key : Keys \union {"none"}, leader : Calls \union {NoCall},
   cut : {"no", "abort", "budget"}, probe : BOOLEAN, attempt : 0..MaxRetries,
   cached : Calls \union {NoCall}, answer : Answer, body : Calls \union {NoCall},
   verdict : {"none", "accepted", "refused"}]

NewCall == [stage |-> "none", key |-> "none", leader |-> NoCall, cut |-> "no",
            probe |-> FALSE, attempt |-> 0, cached |-> NoCall, answer |-> "none",
            body |-> NoCall, verdict |-> "none"]

HostType ==
  [failures : 0..(FailureThreshold - 1), circuit : {"closed", "open", "halfOpen"},
   probing : BOOLEAN, blocked : BOOLEAN, paced : BOOLEAN]

NewHost == [failures |-> 0, circuit |-> "closed", probing |-> FALSE, blocked |-> FALSE,
            paced |-> FALSE]

\* An entry: its body, and the body it replaced (previousGood).
Nothing == [body |-> NoCall, good |-> NoCall]

Init ==
  /\ call = [c \in Calls |-> NewCall]
  /\ flight = [k \in Keys |-> NoCall]
  /\ host = [h \in Hosts |-> NewHost]
  /\ cache = [k \in Keys |-> Nothing]
  /\ order = <<>>
  /\ online = TRUE

-----------------------------------------------------------------------------
(* The circuit breaker of a host.                                          *)

Allows(b) == b.circuit = "closed" \/ (b.circuit = "halfOpen" /\ ~b.probing)

Let(b) == IF b.circuit = "halfOpen" THEN [b EXCEPT !.probing = TRUE] ELSE b

RecordSuccess(b) == [b EXCEPT !.failures = 0, !.circuit = "closed", !.probing = FALSE]

RecordFailure(b) ==
  LET trips == b.circuit # "closed" \/ b.failures + 1 >= FailureThreshold
  IN  [b EXCEPT !.probing = FALSE,
                !.failures = IF trips THEN 0 ELSE @ + 1,
                !.circuit = IF trips THEN "open" ELSE @]

-----------------------------------------------------------------------------
(* The response cache.                                                     *)

\* The order closes up where a key, which is in it once, is taken out.
Without(s, k) ==
  IF \A i \in DOMAIN s : s[i] # k THEN s
  ELSE LET at == CHOOSE i \in DOMAIN s : s[i] = k
       IN  [i \in 1..(Len(s) - 1) |-> IF i < at THEN s[i] ELSE s[i + 1]]

\* Faulty variant: the entry a new body replaces is not kept aside.
KeepsNoGood(k, c) == [body |-> c, good |-> NoCall]

NewEntry(k, c) == [body |-> c, good |-> cache[k].body]

\* Faulty variant: the cache grows without end.
StoresForGood(k, c) ==
  /\ order' = Append(Without(order, k), k)
  /\ cache' = [cache EXCEPT ![k] = NewEntry(k, c)]

\* A body is stored as the newest; the oldest key goes when there are too many.
Store(k, c) ==
  LET newest == Append(Without(order, k), k)
      full == Len(newest) > CacheMax
  IN  /\ order' = IF full THEN Tail(newest) ELSE newest
      /\ cache' = [j \in Keys |->
           IF j = k THEN NewEntry(k, c)
           ELSE IF full /\ j = Head(newest) THEN Nothing ELSE cache[j]]

\* Faulty variant: a refused body is dropped only when there is one to restore.
RestoreGood(k, c) ==
  IF cache[k].body # c \/ cache[k].good = NoCall THEN UNCHANGED <<cache, order>>
  ELSE /\ cache' = [cache EXCEPT ![k] = [body |-> cache[k].good, good |-> NoCall]]
       /\ UNCHANGED order

\* invalidate(): the entry before it is restored, if the refused one is still the newest.
Invalidate(k, c) ==
  IF cache[k].body # c THEN UNCHANGED <<cache, order>>
  ELSE IF cache[k].good # NoCall
  THEN /\ cache' = [cache EXCEPT ![k] = [body |-> cache[k].good, good |-> NoCall]]
       /\ UNCHANGED order
  ELSE /\ cache' = [cache EXCEPT ![k] = Nothing]
       /\ order' = Without(order, k)

CacheUnchanged == UNCHANGED <<cache, order>>

-----------------------------------------------------------------------------
(* Pieces of execute: x is the record of call c as far as it has got, b    *)
(* the record of its host.                                                 *)

SetHost(x, b) == host' = [host EXCEPT ![HostOf[x.key]] = b]

\* Faulty variant: a flight is never taken off the table.
StaysInFlight(k, c) == flight' = [flight EXCEPT ![k] = c]

Lands(k, c) == flight' = [flight EXCEPT ![k] = NoCall]

\* An answered call: what its execution waited for no longer matters.
Answered(x, answer, body) ==
  [NewCall EXCEPT !.stage = "answered", !.key = x.key, !.answer = answer, !.body = body]

\* Faulty variant: only the first caller gets the answer.
FinishAlone(c, x, answer, body) ==
  /\ call' = [call EXCEPT ![c] = Answered(x, answer, body)]
  /\ Lands(x.key, c)

\* The execution of c ends: everyone who waits for it gets its answer.
Finish(c, x, answer, body) ==
  /\ call' = [d \in Calls |->
       IF d = c \/ (call[d].stage = "joined" /\ call[d].leader = c)
       THEN Answered(x, answer, body) ELSE call[d]]
  /\ Lands(x.key, c)

Error(c, x) == Finish(c, x, "error", NoCall)

\* An error, covered by the stored body if that is not too old and the caller allows it.
ServeStale(c, x) ==
  Error(c, x) \/ (x.cached # NoCall /\ Finish(c, x, "stored", x.cached))

Await(c, x, stage) ==
  /\ call' = [call EXCEPT ![c] = [x EXCEPT !.stage = stage]]
  /\ flight' = [flight EXCEPT ![x.key] = c]

\* The client's own limiter and the host's shared budget: wait, give up, or send.
Limits(c, x, waits) ==
  Await(c, x, "fetching") \/ ServeStale(c, x) \/ \E stage \in waits : Await(c, x, stage)

PassBreaker(c, x) ==
  LET b == host[HostOf[x.key]] IN
  \/ ~Allows(b) /\ ServeStale(c, x) /\ UNCHANGED host
  \/ /\ Allows(b)
     /\ Limits(c, [x EXCEPT !.probe = b.circuit = "halfOpen"], {"limited", "sharing"})
     /\ SetHost(x, Let(b))

\* execute up to its first await.
Execute(c, x) ==
  LET b == host[HostOf[x.key]] IN
  \/ (~online \/ b.blocked) /\ ServeStale(c, x) /\ UNCHANGED host
  \/ /\ online /\ ~b.blocked /\ b.paced
     /\ ServeStale(c, x) \/ Await(c, x, "pacing")
     /\ UNCHANGED host
  \/ online /\ ~b.blocked /\ PassBreaker(c, x)

-----------------------------------------------------------------------------
\* A provider asks. Its last answer for the key has been judged, unless it takes its time.
Judged(k) ==
  \A d \in Calls : call[d].stage = "answered" /\ call[d].key = k /\ call[d].answer = "fresh"
                   => call[d].verdict # "none"

Request(c, k) ==
  LET x == [call[c] EXCEPT !.key = k, !.cached = cache[k].body] IN
  /\ call[c].stage = "none"
  /\ k \notin Deliberate => Judged(k)
  /\ \/ /\ flight[k] # NoCall
        /\ call' = [call EXCEPT ![c] = [@ EXCEPT !.stage = "joined", !.key = k,
                                                 !.leader = flight[k]]]
        /\ UNCHANGED <<flight, host>>
     \/ flight[k] = NoCall /\ Execute(c, x)
  /\ CacheUnchanged /\ UNCHANGED online

\* The signal of a request in flight is aborted; only that of its first caller is looked at.
Cut(c, reason) ==
  /\ call[c].stage \in Executing /\ call[c].cut = "no"
  /\ call' = [call EXCEPT ![c] = [@ EXCEPT !.cut = reason]]
  /\ UNCHANGED <<flight, host, online>> /\ CacheUnchanged

\* A wait is over; one that was cut short ends the call.
Wakes(c) ==
  LET x == call[c] IN
  /\ x.stage \in Waiting
  /\ \/ x.cut # "no" /\ Error(c, x) /\ UNCHANGED host
     \/ x.cut = "no" /\ x.stage = "pacing" /\ PassBreaker(c, x)
     \/ x.cut = "no" /\ x.stage = "limited" /\ Limits(c, x, {"sharing"}) /\ UNCHANGED host
     \/ x.cut = "no" /\ x.stage = "sharing" /\ Limits(c, x, {}) /\ UNCHANGED host
     \/ /\ x.cut = "no" /\ x.stage = "backoff"
        /\ Await(c, [x EXCEPT !.attempt = @ + 1], "fetching")
        /\ UNCHANGED host
  /\ CacheUnchanged /\ UNCHANGED online

\* 200: the body is stored and returned. 304: the stored one is, and is new again. The gap
\* kept after a 429 narrows, until there is none.
Succeeds(c) ==
  LET x == call[c]
      b == RecordSuccess(host[HostOf[x.key]])
  IN
  /\ x.stage = "fetching"
  /\ \E paced \in {b.paced, FALSE} : SetHost(x, [b EXCEPT !.paced = paced])
  /\ \/ Finish(c, x, "fresh", c) /\ Store(x.key, c)
     \/ x.cached # NoCall /\ Finish(c, x, "stored", x.cached) /\ CacheUnchanged
  /\ UNCHANGED online

\* 429: the host is left alone until the time it gave, and paced from then on.
AskedToWait(c) ==
  LET x == call[c] IN
  /\ x.stage = "fetching"
  /\ SetHost(x, [host[HostOf[x.key]] EXCEPT !.blocked = TRUE, !.paced = TRUE])
  /\ ServeStale(c, x)
  /\ CacheUnchanged /\ UNCHANGED online

\* A 4xx, a redirect, a missing or refused key, a body too large: not retried.
Refused(c) ==
  /\ call[c].stage = "fetching"
  /\ ServeStale(c, call[c])
  /\ UNCHANGED <<host, online>> /\ CacheUnchanged

\* The network, a timeout (that of the poll's budget too), a 5xx: retried a few times.
Fails(c) ==
  LET x == call[c] IN
  /\ x.stage = "fetching" /\ x.cut # "abort"
  /\ SetHost(x, RecordFailure(host[HostOf[x.key]]))
  /\ IF x.cut = "no" /\ x.attempt < MaxRetries
     THEN Await(c, x, "backoff")
     ELSE ServeStale(c, x)
  /\ CacheUnchanged /\ UNCHANGED online

\* The caller has gone.
Cancelled(c) ==
  /\ call[c].stage = "fetching" /\ call[c].cut = "abort"
  /\ Error(c, call[c])
  /\ UNCHANGED <<host, online>> /\ CacheUnchanged

\* Who got a fresh body reads it, or cannot make sense of it and invalidates it; callers who
\* share an answer share its body.
Judge(c, verdict) ==
  LET readers == {d \in Calls : call[d].answer = "fresh" /\ call[d].body = c} IN
  /\ call[c].answer = "fresh" /\ call[c].body = c /\ call[c].verdict = "none"
  /\ call' = [d \in Calls |->
       IF d \in readers THEN [call[d] EXCEPT !.verdict = verdict] ELSE call[d]]
  /\ IF verdict = "refused" THEN Invalidate(call[c].key, c) ELSE UNCHANGED <<cache, order>>
  /\ UNCHANGED <<flight, host, online>>

\* Time passes.
CircuitCools(h) ==
  /\ host[h].circuit = "open"
  /\ host' = [host EXCEPT ![h].circuit = "halfOpen"]
  /\ UNCHANGED <<call, flight, online>> /\ CacheUnchanged

RetryAfterPasses(h) ==
  /\ host[h].blocked
  /\ host' = [host EXCEPT ![h].blocked = FALSE]
  /\ UNCHANGED <<call, flight, online>> /\ CacheUnchanged

SetOnline(up) ==
  /\ online # up
  /\ online' = up
  /\ UNCHANGED <<call, flight, host>> /\ CacheUnchanged

Progress(c) ==
  Wakes(c) \/ Succeeds(c) \/ AskedToWait(c) \/ Refused(c) \/ Fails(c) \/ Cancelled(c)

Next ==
  \/ \E c \in Calls :
       \/ \E k \in Keys : Request(c, k)
       \/ \E reason \in {"abort", "budget"} : Cut(c, reason)
       \/ \E verdict \in {"accepted", "refused"} : Judge(c, verdict)
       \/ Progress(c)
  \/ \E h \in Hosts : CircuitCools(h) \/ RetryAfterPasses(h)
  \/ \E up \in BOOLEAN : SetOnline(up)

Spec == Init /\ [][Next]_vars

\* Every wait ends and every request sent is answered (each fetch has a timeout).
FairSpec == Spec /\ \A c \in Calls : WF_vars(Progress(c))

-----------------------------------------------------------------------------
\* The type of every variable.
TypeOK ==
  /\ call \in [Calls -> CallType]
  /\ flight \in [Keys -> Calls \union {NoCall}]
  /\ host \in [Hosts -> HostType]
  /\ cache \in [Keys -> [body : Calls \union {NoCall}, good : Calls \union {NoCall}]]
  /\ order \in Seq(Keys) /\ Len(order) <= CacheMax
  /\ \A k \in Keys : cache[k].body # NoCall <=> \E i \in 1..Len(order) : order[i] = k
  /\ online \in BOOLEAN

\* The table of flights names, for each key, the one execution in flight, and a call that
\* waits for another's answer waits for one that is still to come (SingleFlight).
FlightsAreExact ==
  /\ \A c \in Calls : call[c].stage \in Executing <=> \E k \in Keys : flight[k] = c
  /\ \A k \in Keys : flight[k] # NoCall => call[flight[k]].key = k
  /\ \A c \in Calls : call[c].stage = "joined" => flight[call[c].key] = call[c].leader

Verdict(b) == IF b = NoCall THEN "none" ELSE call[b].verdict

\* A body its reader could not make sense of is in the cache no more, neither to be served
\* nor to be restored (invalidate), if answers are judged before the key is asked for again.
RefusedBodyIsGone ==
  \A k \in Keys : Verdict(cache[k].body) # "refused" /\ Verdict(cache[k].good) # "refused"

\* The body to fall back on when the newest is refused.
Fallback(k) == IF Verdict(cache[k].body) = "accepted" THEN cache[k].body ELSE cache[k].good

\* A source that has once answered well keeps an accepted body to fall back on, however many
\* bad answers follow, until its key is the oldest of a full cache.
AcceptedBodyIsKept ==
  [][\A k \in Keys : Verdict(Fallback(k)) = "accepted" =>
       \/ Verdict(Fallback(k))' = "accepted"
       \/ cache[k]' = Nothing /\ Len(order) = CacheMax /\ order[1] = k]_vars

\* A half-open circuit that lets nobody through waits for a request that is on its way: the
\* host is asked again in the end ("then allows one probe").
ProbeIsInFlight ==
  \A h \in Hosts : host[h].circuit = "halfOpen" /\ host[h].probing =>
    \E c \in Calls : call[c].stage \in Executing /\ call[c].probe /\ HostOf[call[c].key] = h

-----------------------------------------------------------------------------
Waiters(k) == {c \in Calls : call[c].stage \in Executing \union {"joined"} /\ call[c].key = k}

Got(c) ==
  IF call[c].stage = "answered"
  THEN [key |-> call[c].key, answer |-> call[c].answer, body |-> call[c].body]
  ELSE [key |-> "none", answer |-> "none", body |-> NoCall]

SA == INSTANCE SharedAnswers WITH
        waiting <- [k \in Keys |-> Waiters(k)], got <- [c \in Calls |-> Got(c)]

\* Who asks for a key together is answered together, with one answer that was fetched under
\* that key, and in the end: the client implements SharedAnswers (SingleFlight.run, execute).
AnswersAreShared == SA!Spec
=============================================================================

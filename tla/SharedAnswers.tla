---------------------------- MODULE SharedAnswers ----------------------------
(***************************************************************************)
(* What the HTTP client promises whoever calls request(): who asks for a   *)
(* key while others wait for it waits with them; all of them are answered  *)
(* in one step, with one answer, and none is left waiting.  A body is one  *)
(* that was fetched under this key, by one of those who waited, or, served *)
(* from the store, by one who was answered with it before.  Nothing is     *)
(* said of how: of flights, retries, breakers, limiters or the cache.      *)
(***************************************************************************)
CONSTANTS Calls, Keys, NoCall

VARIABLES
  waiting,  \* for each key, the calls that wait for its answer
  got       \* the answer of each call

svars == <<waiting, got>>

NotYet == [key |-> "none", answer |-> "none", body |-> NoCall]

\* The answers there may be for k, if those in `asking` are who may fetch it.
Answers(k, asking) ==
  {[key |-> k, answer |-> "error", body |-> NoCall]}
    \union {[key |-> k, answer |-> "fresh", body |-> b] : b \in asking}
    \union {[key |-> k, answer |-> "stored", body |-> b] :
              b \in {d \in Calls : got[d] = [key |-> k, answer |-> "fresh", body |-> d]}}

Init ==
  /\ waiting = [k \in Keys |-> {}]
  /\ got = [c \in Calls |-> NotYet]

Unasked(c) == got[c] = NotYet /\ \A k \in Keys : c \notin waiting[k]

Ask(c, k) ==
  /\ Unasked(c)
  /\ waiting' = [waiting EXCEPT ![k] = @ \union {c}]
  /\ UNCHANGED got

\* Refused before anything is sent, when nobody waits for the key.
AnswerAtOnce(c, k) ==
  /\ Unasked(c) /\ waiting[k] = {}
  /\ \E a \in Answers(k, {}) : got' = [got EXCEPT ![c] = a]
  /\ UNCHANGED waiting

Settle(k) ==
  /\ waiting[k] # {}
  /\ \E a \in Answers(k, waiting[k]) :
       got' = [c \in Calls |-> IF c \in waiting[k] THEN a ELSE got[c]]
  /\ waiting' = [waiting EXCEPT ![k] = {}]

Next ==
  \/ \E c \in Calls, k \in Keys : Ask(c, k) \/ AnswerAtOnce(c, k)
  \/ \E k \in Keys : Settle(k)

Spec == Init /\ [][Next]_svars /\ \A k \in Keys : WF_svars(Settle(k))
=============================================================================

------------------------------ MODULE KVStore -------------------------------
(***************************************************************************)
(* What the tree promises its caller: an ordered map from keys to values.  *)
(* A call carries one request or, from the engine, a batch of them.  The   *)
(* map changes once per call, in a single step, by all the requests of the *)
(* call or by none.                                                        *)
(***************************************************************************)
EXTENDS Integers, SequencesExt

CONSTANTS
  Key, Val,
  TooLarge,    \* pairs the tree refuses
  Calls,       \* sequences of requests [op, key, val]
  EnvFailures  \* errors of the file system a call may end with

VARIABLES
  store,    \* a function from the keys present to their values
  call,     \* the requests of the current call
  outcome   \* "pending", "applied" once the map has changed, or the reply

vars == <<store, call, outcome>>

ErrOverflow    == "key+value too large"
ErrKeyNotFound == "key not found"

With(s, k, v) == [j \in DOMAIN s \cup {k} |-> IF j = k THEN v ELSE s[j]]
Without(s, k) == [j \in DOMAIN s \ {k} |-> s[j]]

Perform(s, r) ==
  IF r.op = "insert" THEN With(s, r.key, r.val) ELSE Without(s, r.key)

PerformAll(s, rs) == FoldLeft(Perform, s, rs)

(* What a request that is reached in state s is refused for.               *)
Refusals(s, r) ==
  (IF r.op = "insert" /\ <<r.key, r.val>> \in TooLarge THEN {ErrOverflow} ELSE {})
    \cup (IF r.op = "delete" /\ r.key \notin DOMAIN s THEN {ErrKeyNotFound} ELSE {})

RefusedAt(rs, i) == Refusals(PerformAll(store, SubSeq(rs, 1, i - 1)), rs[i])

(* The first request that is refused ends the call.                        *)
RefusalsOf(rs) ==
  UNION {RefusedAt(rs, i) : i \in {j \in DOMAIN rs : \A h \in 1 .. j - 1 : RefusedAt(rs, h) = {}}}

Init == store = << >> /\ call = << >> /\ outcome = "nil"

Invoke ==
  /\ outcome \notin {"pending", "applied"}
  /\ call' \in Calls
  /\ outcome' = "pending"
  /\ UNCHANGED store

Apply ==
  /\ outcome = "pending"
  /\ RefusalsOf(call) = {}
  /\ store' = PerformAll(store, call)
  /\ outcome' = "applied"
  /\ UNCHANGED call

(* The reply may be an error although the map has changed: the second      *)
(* barrier can fail.                                                       *)
Return ==
  /\ outcome = "applied"
  /\ outcome' \in {"nil"} \cup EnvFailures
  /\ call' = << >>
  /\ UNCHANGED store

Reject ==
  /\ outcome = "pending"
  /\ outcome' \in RefusalsOf(call) \cup EnvFailures
  /\ call' = << >>
  /\ UNCHANGED store

Next == Invoke \/ Apply \/ Return \/ Reject

Spec == Init /\ [][Next]_vars

=============================================================================

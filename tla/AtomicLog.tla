----------------------------- MODULE AtomicLog ------------------------------
(***************************************************************************)
(* What the engine promises its callers, without a queue, a batch or a     *)
(* page: a request takes effect at one instant between its call and its    *)
(* reply, and the reply tells whether it did.  Several requests may take   *)
(* effect together.  The promise ends when the tree is lost, and says what *)
(* must have happened before it can be.                                    *)
(***************************************************************************)
EXTENDS Integers, SequencesExt

CONSTANTS Request, Deletes

VARIABLES
  called,  \* requests whose Insert or Delete has been called
  log,     \* requests that have taken effect, in order
  told,    \* told[r]: the outcome each answered request was given
  lost,    \* not all of the log is in effect any more
  full     \* an insert has found no space

vars == <<called, log, told, lost, full>>

Pending == called \ DOMAIN told

Init == called = {} /\ log = << >> /\ told = << >> /\ lost = FALSE /\ full = FALSE

Call ==
  \E r \in Request \ called : called' = called \cup {r} /\ UNCHANGED <<log, told, lost, full>>

(* What may cost the tree: a request that was refused, a Delete behind     *)
(* another request, an insert without space.                               *)
Excused ==
  \/ \E r \in DOMAIN told : told[r] = "refused"
  \/ \E i \in 2 .. Len(log) : log[i] \in Deletes
  \/ full

MayBeLost == lost' \in BOOLEAN /\ (lost' => lost \/ Excused)

(* A new tree may again be whole: it has no more of the lost pages.        *)
TakeEffect ==
  /\ IsStrictPrefix(log, log') /\ IsInjective(log')
  /\ ToSet(log') \ ToSet(log) \subseteq Pending
  /\ MayBeLost
  /\ UNCHANGED <<called, told, full>>

Spoil ==
  /\ MayBeLost /\ full' \in {full, TRUE}
  /\ UNCHANGED <<called, log, told>>

(* "unforced": in effect, but a crash may undo it.  "nil" is no promise    *)
(* about the barriers of later requests, which copy what they find.        *)
Answers(r) ==
  IF lost THEN {"nil", "unforced", "refused"}
  ELSE IF r \in ToSet(log) THEN {"nil", "unforced"} ELSE {"refused"}

Reply ==
  \E r \in Pending : \E answer \in Answers(r) :
    /\ told' = [q \in DOMAIN told \cup {r} |-> IF q = r THEN answer ELSE told[q]]
    /\ UNCHANGED <<called, log, lost, full>>

Next == Call \/ TakeEffect \/ Spoil \/ Reply

Spec == Init /\ [][Next]_vars
=============================================================================

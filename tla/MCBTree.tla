------------------------------- MODULE MCBTree ------------------------------
(***************************************************************************)
(* Workloads for BTree.  Page and pair sizes are those of the build, so a  *)
(* node has room for three pairs of the largest size.                      *)
(***************************************************************************)
EXTENDS BTree

CONSTANTS
  Keys,    \* number of keys
  Calls,   \* number of calls after those of the script, if there is one
  BatchMax \* requests of a batch

MCKey == 1 .. Keys
MCVal == MCKey

(* A value tells which key it was stored under. *)
Ins(k) == [op |-> "insert", key |-> k, val |-> k]
Del(k) == [op |-> "delete", key |-> k, val |-> k]
Direct(r) == [direct |-> TRUE, reqs |-> <<r>>]
Batch(rs) == [direct |-> FALSE, reqs |-> rs]

Inserts  == {Ins(k) : k \in Key}
Deletes  == {Del(k) : k \in Key}
DirectOps == {Direct(r) : r \in Inserts \cup Deletes}
Batches  == {Batch(rs) : rs \in UNION {[1 .. n -> Inserts \cup Deletes] : n \in 1 .. BatchMax}}
(* Batches that delete in their first request only. *)
HeadDeletes == {b \in Batches : \A i \in 2 .. Len(b.reqs) : b.reqs[i].op = "insert"}

(* An insert, and behind it perhaps a Delete of a key nobody inserts. *)
InsertThenMissing ==
  {b \in Batches : \A i \in DOMAIN b.reqs :
     IF i = 1 THEN b.reqs[i] \in {Ins(k) : k \in Key \ {Keys}} ELSE b.reqs[i] = Del(Keys)}

(* Insertion order of TestBtreeFillUntilRootSplits2Level, as ranks: three  *)
(* levels.                                                                 *)
Script == <<5, 9, 10, 11, 8, 7, 2, 1, 3, 4, 6>>
Load == [i \in DOMAIN Script |-> {Direct(Ins(Script[i]))}]

AnyDirect    == [i \in 1 .. Calls |-> DirectOps]
AnyInserts   == [i \in 1 .. Calls |-> {Direct(r) : r \in Inserts}]
AnyHeadDelete == [i \in 1 .. Calls |-> HeadDeletes]
AnyBatch     == [i \in 1 .. Calls |-> Batches]
AnyRefused   == [i \in 1 .. Calls |-> InsertThenMissing]
LoadThenAny  == Load \o AnyDirect

LargestPairs == [kv \in Key \X Val |-> 1344]
(* Every other pair is small; the last key is too large to be accepted. *)
MixedPairs == [kv \in Key \X Val |-> IF kv[1] = Keys THEN 1345
                                     ELSE IF kv[1] % 2 = 0 THEN 10 ELSE 1344]
(* Two large pairs and this small one: 2746 bytes, not yet an overflow. *)
CloseFit == [kv \in Key \X Val |-> IF kv[1] = 1 THEN 20 ELSE 1344]
=============================================================================

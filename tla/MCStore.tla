------------------------------ MODULE MCStore -------------------------------
(***************************************************************************)
(* Readers and a disk for the tree.  The first call loads four of the      *)
(* largest pairs, so that the root has children; its first three go to a   *)
(* root that is a leaf.                                                    *)
(***************************************************************************)
EXTENDS MCBTree, Store

CONSTANTS r1

LoadBatch == Batch([i \in 1 .. 4 |-> Ins(i)])

LoadThenCalls == <<{LoadBatch}>> \o [i \in 1 .. Calls |-> HeadDeletes \cup DirectOps]
=============================================================================

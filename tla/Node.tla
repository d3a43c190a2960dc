-------------------------------- MODULE Node --------------------------------
(***************************************************************************)
(* Package nodemanager: one node of the tree, without the bytes.           *)
(*                                                                         *)
(*   type   "leaf" or "internal"                                           *)
(*   kvs    the pairs <<key, value>> in slot order, GetNKeys() of them     *)
(*   ptr    the child page numbers, one more than the pairs; 0 in a leaf   *)
(*   ok     FALSE: InsertKV has panicked, or the bytes are not a node's    *)
(*                                                                         *)
(* Slots are numbered from 0 as in the code.                               *)
(***************************************************************************)
EXTENDS PageLayout, SequencesExt

CONSTANTS
  Key,    \* ordered like bytes.Compare orders the keys they stand for
  Val,
  KVLen   \* KVLen[<<k, v>>] is len(k) + len(v)

ASSUME NodeAssumption ==
  /\ Key \subseteq Nat
  /\ KVLen \in [Key \X Val -> Nat]

Word == 65536   \* sizes and offsets are uint16

Nodes == [type : {"leaf", "internal"}, kvs : Seq(Key \X Val), ptr : Seq(Nat), ok : BOOLEAN]

(* A page of zeros is an empty leaf: NodeTypeLeaf is 0.                    *)
NewNode == [type |-> "leaf", kvs |-> << >>, ptr |-> <<0>>, ok |-> TRUE]
Garbage == [NewNode EXCEPT !.ok = FALSE]

GetNKeys(n)    == Len(n.kvs)
GetKV(n, i)    == n.kvs[i + 1]
GetPtr(n, i)   == n.ptr[i + 1]
SetPtr(n, i, p) == [n EXCEPT !.ptr[i + 1] = p]

Cost(kv) == KVLen[kv] + KVOverhead

(* With no pair the index of the last one wraps to 65535, its offset is    *)
(* read from the low half of the only pointer, and its length field says   *)
(* zero: the pointer counts as part of the size.                           *)
GetSize(n) ==
  IF n.kvs = << >>
  THEN (HeaderSize + PointerSize + GetPtr(n, 0) + KeyLenSize + ValLenSize) % Word
  ELSE FoldLeft(LAMBDA size, kv : size + Cost(kv), HeaderSize + PointerSize, n.kvs)

(* Deviations: full only when nothing fits; a node may lose its last pair. *)
OverflowAtPage(n) == GetSize(n) >= PageSize
UnderflowEmpty(n) == GetNKeys(n) <= 0

Overflow(n)  == GetSize(n) > PageSize - MaxAllowedKVLen
Underflow(n) == GetNKeys(n) <= 1

(* The first slot whose key is not smaller, or the one past the last.      *)
FindIndex(n, k) ==
  LET i == SelectInSeq(n.kvs, LAMBDA kv : k <= kv[1])
  IN IF i = 0 THEN GetNKeys(n) ELSE i - 1

ContainsKey(n, k) ==
  LET i == FindIndex(n, k) IN i < GetNKeys(n) /\ GetKV(n, i)[1] = k

(* The pair and a null pointer to its left go to the slot FindIndex gives. *)
InsertKV(n, kv) ==
  LET i == FindIndex(n, kv[1])
  IN IF (GetSize(n) + Cost(kv)) % Word >= PageSize
     THEN [n EXCEPT !.ok = FALSE]
     ELSE [n EXCEPT !.kvs = InsertAt(@, i + 1, kv), !.ptr = InsertAt(@, i + 1, 0)]

(* Deviation: the pointer to the right of the pair goes.                   *)
DeleteKVRight(n, i) ==
  [n EXCEPT !.kvs = RemoveAt(@, i + 1), !.ptr = RemoveAt(@, i + 2)]

(* The pair goes, and always the pointer to its left with it.              *)
DeleteKV(n, i) ==
  [n EXCEPT !.kvs = RemoveAt(@, i + 1), !.ptr = RemoveAt(@, i + 1)]

UpdateKV(n, i, kv) == InsertKV(DeleteKV(n, i), kv)

(* Pairs inserted one by one.                                              *)
InsertAll(n, kvs) == FoldLeft(InsertKV, n, kvs)

(* A half is an empty page of the same type, filled pair by pair.          *)
Half(n, first, last) ==
  [InsertAll([NewNode EXCEPT !.type = n.type], SubSeq(n.kvs, first, last))
     EXCEPT !.ptr = SubSeq(n.ptr, first, last + 1)]

(* Deviation: the median goes up and stays.                                *)
SplitKeepsMedian(n) ==
  LET median == GetNKeys(n) \div 2
  IN [left   |-> Half(n, 1, median),
      right  |-> Half(n, median + 1, GetNKeys(n)),
      median |-> median]

Split(n) ==
  LET median == GetNKeys(n) \div 2
  IN [left   |-> Half(n, 1, median),
      right  |-> Half(n, median + 2, GetNKeys(n)),
      median |-> median]

=============================================================================

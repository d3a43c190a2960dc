-------------------------------- MODULE Tree --------------------------------
(***************************************************************************)
(* Package btree, one level of the tree at a time: what splits, rotations  *)
(* and merges do to a node and its children, and the walks from a root.    *)
(*                                                                         *)
(* A repair of a child returns                                             *)
(*   [pm |-> ..., node |-> the parent in memory, retired |-> the pages     *)
(*    appended to BTree.freelist, err |-> ...]                             *)
(***************************************************************************)
EXTENDS Node, MasterPage

ErrOverflow    == "key+value too large"
ErrKeyNotFound == "key not found"

(* loadAsNode.  The master page is read like any other; what comes of      *)
(* taking it for a node is not followed any further.                       *)
LoadAsNode(m, p) ==
  IF InBounds(m, p) /\ Slot(p) # 0 THEN m.page[Slot(p)] ELSE Garbage

Repaired(m, n, retired, err) ==
  [pm |-> m, node |-> n, retired |-> retired, err |-> IF n.ok THEN err ELSE Panicked]

(* Two children are persisted unless building one of them has panicked.    *)
PersistPair(m, v, w) ==
  IF v.ok /\ w.ok THEN CopyPair(m, v, w)
  ELSE [pm |-> m, first |-> 0, second |-> 0, err |-> Panicked]

-----------------------------------------------------------------------------
(* Insertion: a full node is split before it is entered.                   *)

SplitRoot(m, n) ==
  LET s  == Split(n)
      c  == PersistPair(m, s.right, s.left)
      up == InsertKV([NewNode EXCEPT !.type = "internal"], GetKV(n, s.median))
  IN Repaired(c.pm, SetPtr(SetPtr(up, 0, c.second), 1, c.first), << >>, c.err)

SplitChild(m, n, k) ==
  LET i     == FindIndex(n, k)
      child == LoadAsNode(m, GetPtr(n, i))
      s     == Split(child)
      c     == PersistPair(m, s.right, s.left)
      up    == InsertKV(n, GetKV(child, s.median))
  IN CASE ~child.ok -> Repaired(m, n, << >>, Panicked)
       [] child.ok /\ ~Overflow(child) -> Repaired(m, n, << >>, NoError)
       [] OTHER -> Repaired(c.pm, SetPtr(SetPtr(up, i, c.second), i + 1, c.first),
                            <<GetPtr(n, i)>>, c.err)

-----------------------------------------------------------------------------
(* Deletion: a node with one pair borrows from a sibling, or is merged     *)
(* with one, before it is entered.                                         *)

RotateRight(m, parent, left, child, i) ==
  LET last    == GetNKeys(left) - 1
      down    == InsertKV(child, GetKV(parent, i - 1))
      fuller  == IF left.type = "internal" THEN SetPtr(down, 0, GetPtr(left, last + 1)) ELSE down
      up      == UpdateKV(parent, i - 1, GetKV(left, last))
      thinner == SetPtr(DeleteKV(left, last), last, GetPtr(left, last))
      c       == PersistPair(m, thinner, fuller)
  IN Repaired(c.pm, SetPtr(SetPtr(up, i - 1, c.first), i, c.second),
              <<GetPtr(parent, i - 1), GetPtr(parent, i)>>, c.err)

RotateLeft(m, parent, child, right, i) ==
  LET n       == GetNKeys(child)
      down    == SetPtr(InsertKV(child, GetKV(parent, i)), n, GetPtr(child, n))
      fuller  == IF right.type = "internal" THEN SetPtr(down, n + 1, GetPtr(right, 0)) ELSE down
      up      == UpdateKV(parent, i, GetKV(right, 0))
      c       == PersistPair(m, fuller, DeleteKV(right, 0))
  IN Repaired(c.pm, SetPtr(SetPtr(up, i, c.first), i + 1, c.second),
              <<GetPtr(parent, i), GetPtr(parent, i + 1)>>, c.err)

(* The pages a merge or a rotation gives up, and a deviation: the same one *)
(* twice.                                                                  *)
SamePageTwice(parent, i) == <<GetPtr(parent, i), GetPtr(parent, i)>>
Siblings(parent, i) == <<GetPtr(parent, i), GetPtr(parent, i + 1)>>

(* The separator and the pairs of the right child are inserted into the    *)
(* left one; in an internal node the right child's pointers follow.        *)
MergeChildren(m, parent, i) ==
  LET left   == LoadAsNode(m, GetPtr(parent, i))
      right  == LoadAsNode(m, GetPtr(parent, i + 1))
      n      == GetNKeys(left)
      down   == SetPtr(InsertKV(left, GetKV(parent, i)), n, GetPtr(left, n))
      pairs  == InsertAll(down, right.kvs)
      merged == IF right.type = "internal"
                THEN [pairs EXCEPT !.ptr = SubSeq(@, 1, n + 1) \o right.ptr]
                ELSE pairs
      c      == IF merged.ok /\ right.ok THEN CopyToNewPage(m, merged) ELSE Failed(m, Panicked)
  IN Repaired(c.pm, SetPtr(DeleteKV(parent, i), i, c.page), Siblings(parent, i), c.err)

FillChild(m, n, k) ==
  LET i        == FindIndex(n, k)
      child    == LoadAsNode(m, GetPtr(n, i))
      left     == LoadAsNode(m, GetPtr(n, i - 1))
      right    == LoadAsNode(m, GetPtr(n, i + 1))
      canRight == i > 0 /\ ~Underflow(left)
      canLeft  == i < GetNKeys(n) /\ ~Underflow(right)
  IN CASE ~child.ok -> Repaired(m, n, << >>, Panicked)
       [] child.ok /\ ~Underflow(child) -> Repaired(m, n, << >>, NoError)
       [] child.ok /\ Underflow(child) /\ canRight -> RotateRight(m, n, left, child, i)
       [] child.ok /\ Underflow(child) /\ ~canRight /\ canLeft ->
            RotateLeft(m, n, child, right, i)
       [] OTHER -> MergeChildren(m, n, IF i > 0 THEN i - 1 ELSE i)

-----------------------------------------------------------------------------
(* Walks.  Pages are followed from n, which may be a node in memory.       *)

(* The pages that pointers lead to from page r, r among them; to lists the *)
(* pages that each page points to.                                         *)
Closure(to, r) ==
  LET from[S \in SUBSET PageNums] ==
        LET more == S \cup (PageNums \cap UNION {to[p] : p \in S})
        IN IF more = S THEN S ELSE from[more]
  IN from[{r}]

(* Deviation: the walk to the predecessor stops at the first node.         *)
PredecessorInNode(m, n) == Last(n.kvs)

(* Where the walks to the last and to the first leaf go after page p.      *)
LastChild(m) ==
  [p \in PageNums |-> IF m.page[p].type = "leaf" THEN {} ELSE {Last(m.page[p].ptr)}]
FirstChild(m) ==
  [p \in PageNums |-> IF m.page[p].type = "leaf" THEN {} ELSE {Head(m.page[p].ptr)}]

(* The leaf where such a walk from page r ends.                            *)
LeafFrom(m, to, r) ==
  LET leaves == {c \in {m.page[p] : p \in Closure(to, r)} : c.type = "leaf"}
  IN CHOOSE c \in leaves : TRUE

InorderPredecessor(m, n) ==
  Last((IF n.type = "leaf" THEN n ELSE LeafFrom(m, LastChild(m), Last(n.ptr))).kvs)

InorderSuccessor(m, n) ==
  Head((IF n.type = "leaf" THEN n ELSE LeafFrom(m, FirstChild(m), Head(n.ptr))).kvs)

NotFound == <<"reached the end of the tree">>

(* The page that a search for k reads after page p.                       *)
SearchedAfter(m, k) ==
  [p \in PageNums |->
    LET n == m.page[p]
    IN IF n.type = "leaf" \/ ContainsKey(n, k) THEN {} ELSE {GetPtr(n, FindIndex(n, k))}]

(* The pair on the page where a search from page r ends.                  *)
Search(m, r, k) ==
  LET found == {n \in {m.page[p] : p \in Closure(SearchedAfter(m, k), r)} : ContainsKey(n, k)}
  IN IF found = {} THEN NotFound
     ELSE LET n == CHOOSE n \in found : TRUE IN GetKV(n, FindIndex(n, k))

=============================================================================

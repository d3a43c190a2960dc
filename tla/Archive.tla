------------------------------ MODULE Archive -------------------------------
(***************************************************************************)
(* Package archive: an earlier B-tree of numbers in memory, of any degree. *)
(* A node is [keys, children, isLeaf]; it has one parent, and no slice of  *)
(* the code is written through two of its names, so nodes are values.      *)
(* Positions are counted from 1.                                           *)
(*                                                                         *)
(* Both operations repair a child before they enter it, so that they pass  *)
(* the tree once, from the root down.                                      *)
(***************************************************************************)
EXTENDS Integers, SequencesExt, FiniteSetsExt

CONSTANTS
  Key,     \* numbers
  Degrees  \* degrees the tree may be created with

ASSUME ArchiveAssumption == Key \subseteq Nat /\ Degrees \subseteq Nat \ {0, 1}

VARIABLES root, degree

vars == <<root, degree>>

CreateNode(isLeaf) == [keys |-> << >>, children |-> << >>, isLeaf |-> isLeaf]

Has(n, k)   == Contains(n.keys, k)
Full(n)     == Len(n.keys) = 2 * degree - 1

(* Deviation: a node with one key less than it needs counts as rich.       *)
SpareAtLimit(n) == Len(n.keys) >= degree - 1
Spare(n)        == Len(n.keys) > degree - 1

CalculateAppropriateIdx(keys, k) ==
  LET i == SelectInSeq(keys, LAMBDA x : k <= x) IN IF i = 0 THEN Len(keys) + 1 ELSE i

RECURSIVE Search(_, _)
Search(n, k) ==
  \/ Has(n, k)
  \/ ~n.isLeaf /\ Search(n.children[CalculateAppropriateIdx(n.keys, k)], k)

-----------------------------------------------------------------------------
InsertInNode(n, ks) == [n EXCEPT !.keys = SortSeq(@ \o ks, <)]

(* Keys and, in an internal node, children around the median.              *)
Median(n) == Len(n.keys) \div 2 + 1

Part(n, first, last) ==
  [n EXCEPT !.keys = SubSeq(@, first, last),
            !.children = IF n.isLeaf THEN @ ELSE SubSeq(@, first, last + 1)]

Left(n)  == Part(n, 1, Median(n) - 1)
Right(n) == Part(n, Median(n) + 1, Len(n.keys))

SplitRoot(n) ==
  [CreateNode(FALSE) EXCEPT !.keys = <<n.keys[Median(n)]>>, !.children = <<Left(n), Right(n)>>]

Split(n, i) ==
  LET c == n.children[i]
  IN [InsertInNode(n, <<c.keys[Median(c)]>>)
        EXCEPT !.children = InsertAt([@ EXCEPT ![i] = Left(c)], i + 1, Right(c))]

RECURSIVE InsertInSubtree(_, _)
InsertInSubtree(n, k) ==
  LET i == CalculateAppropriateIdx(n.keys, k)
      s == IF ~n.isLeaf /\ Full(n.children[i]) THEN Split(n, i) ELSE n
  IN IF n.isLeaf THEN InsertInNode(n, <<k>>)
     ELSE [s EXCEPT !.children[CalculateAppropriateIdx(s.keys, k)] = InsertInSubtree(@, k)]

Inserted(k) ==
  IF Search(root, k) THEN root
  ELSE InsertInSubtree(IF Full(root) THEN SplitRoot(root) ELSE root, k)

-----------------------------------------------------------------------------
(* Child i takes a key from its left or right sibling, through the parent, *)
(* and the subtree next to that key.                                       *)
PreemptiveRightRotate(p, i) ==
  LET l == p.children[i - 1]
      c == p.children[i]
  IN [p EXCEPT !.keys[i - 1] = Last(l.keys),
               !.children[i - 1] = [l EXCEPT !.keys = Front(@),
                                             !.children = IF l.isLeaf THEN @ ELSE Front(@)],
               !.children[i] = [c EXCEPT !.keys = <<p.keys[i - 1]>> \o @,
                                         !.children = IF l.isLeaf THEN @ ELSE <<Last(l.children)>> \o @]]

PreemptiveLeftRotate(p, i) ==
  LET r == p.children[i + 1]
      c == p.children[i]
  IN [p EXCEPT !.keys[i] = Head(r.keys),
               !.children[i + 1] = [r EXCEPT !.keys = Tail(@),
                                             !.children = IF r.isLeaf THEN @ ELSE Tail(@)],
               !.children[i] = [c EXCEPT !.keys = Append(@, p.keys[i]),
                                         !.children = IF r.isLeaf THEN @ ELSE Append(@, Head(r.children))]]

(* Children i and i + 1 and the key between them become one node.          *)
Merge(p, i) ==
  LET l == p.children[i]
      r == p.children[i + 1]
  IN [p EXCEPT !.keys = RemoveAt(@, i),
               !.children = RemoveAt([@ EXCEPT ![i] =
                 [l EXCEPT !.keys = Append(@, p.keys[i]) \o r.keys, !.children = @ \o r.children]],
                 i + 1)]

PreemptiveLeftCombine(p, i)  == Merge(p, i - 1)
PreemptiveRightCombine(p, i) == Merge(p, i)

PreemptiveFix(p, i) ==
  LET hasLeft  == i > 1
      hasRight == i < Len(p.children)
  IN CASE hasLeft /\ Spare(p.children[i - 1]) -> PreemptiveRightRotate(p, i)
       [] ~(hasLeft /\ Spare(p.children[i - 1])) /\ hasRight /\ Spare(p.children[i + 1]) ->
            PreemptiveLeftRotate(p, i)
       [] hasLeft /\ ~Spare(p.children[i - 1])
            /\ ~(hasRight /\ Spare(p.children[i + 1])) -> PreemptiveLeftCombine(p, i)
       [] ~hasLeft /\ hasRight /\ ~Spare(p.children[i + 1]) -> PreemptiveRightCombine(p, i)
       [] OTHER -> p

(* Deviation: the last key of the node itself.                             *)
LastOfNode(n) == Last(n.keys)

RECURSIVE InorderPredecessor(_)
InorderPredecessor(n) ==
  IF n.isLeaf THEN Last(n.keys) ELSE InorderPredecessor(Last(n.children))

RECURSIVE InorderSuccessor(_)
InorderSuccessor(n) ==
  IF n.isLeaf THEN Head(n.keys) ELSE InorderSuccessor(Head(n.children))

DeleteFromLeafNode(n, k) == [n EXCEPT !.keys = RemoveFirst(@, k)]

(* The node that is entered next, with the key that is deleted from it.    *)
Descent(n, i, k) == [node |-> n, child |-> i, key |-> k]

DeleteFromInternalNode(n, k) ==
  LET i    == SelectInSeq(n.keys, LAMBDA x : x = k)
      pred == InorderPredecessor(n.children[i])
      succ == InorderSuccessor(n.children[i + 1])
  IN CASE Spare(n.children[i]) -> Descent([n EXCEPT !.keys[i] = pred], i, pred)
       [] ~Spare(n.children[i]) /\ Spare(n.children[i + 1]) ->
            Descent([n EXCEPT !.keys[i] = succ], i + 1, succ)
       [] OTHER -> Descent(Merge(n, i), i, k)

Refilled(n, k) ==
  LET i == CalculateAppropriateIdx(n.keys, k)
      f == IF Spare(n.children[i]) THEN n ELSE PreemptiveFix(n, i)
  IN Descent(f, CalculateAppropriateIdx(f.keys, k), k)

RECURSIVE DeleteIn(_, _)
DeleteIn(n, k) ==
  LET d == IF Has(n, k) THEN DeleteFromInternalNode(n, k) ELSE Refilled(n, k)
  IN IF n.isLeaf THEN DeleteFromLeafNode(n, k)
     ELSE [d.node EXCEPT !.children[d.child] = DeleteIn(@, d.key)]

Collapsed(n) == IF n.keys = << >> /\ ~n.isLeaf THEN n.children[1] ELSE n

Deleted(k) == Collapsed(DeleteIn(root, k))

-----------------------------------------------------------------------------
Init == degree \in Degrees /\ root = CreateNode(TRUE)

Insert(k) == root' = Inserted(k) /\ UNCHANGED degree
Delete(k) == root' = Deleted(k) /\ UNCHANGED degree

Next == \E k \in Key : Insert(k) \/ Delete(k)

Spec == Init /\ [][Next]_vars

-----------------------------------------------------------------------------
RECURSIVE InOrder(_)
InOrder(n) ==
  IF n.isLeaf THEN n.keys
  ELSE FlattenSeq([i \in DOMAIN n.children |->
         IF i = 1 THEN InOrder(n.children[1]) ELSE <<n.keys[i - 1]>> \o InOrder(n.children[i])])

KeysOf(n) == ToSet(InOrder(n))

RECURSIVE Depths(_)
Depths(n) ==
  IF n.isLeaf THEN {0} ELSE {d + 1 : d \in UNION {Depths(n.children[i]) : i \in DOMAIN n.children}}

RECURSIVE Below(_)
Below(n) == ToSet(n.children) \cup UNION {Below(n.children[i]) : i \in DOMAIN n.children}

(* auditTreeProperties, of every tree the operations lead to: keys in      *)
(* order across the nodes, leaves at one depth, one child more than keys,  *)
(* and every node but the root between degree - 1 and 2 * degree - 1 keys. *)
Audited ==
  /\ \A i, j \in DOMAIN InOrder(root) : i < j => InOrder(root)[i] < InOrder(root)[j]
  /\ Cardinality(Depths(root)) = 1
  /\ \A n \in Below(root) : Len(n.keys) >= degree - 1
  /\ \A n \in Below(root) \cup {root} :
       /\ Len(n.keys) <= 2 * degree - 1
       /\ Len(n.children) = IF n.isLeaf THEN 0 ELSE Len(n.keys) + 1

(* On any of these trees, Search finds what the tree holds, Insert adds    *)
(* its key, and Delete removes its key and no other, wherever in the tree  *)
(* it is, and if it is absent too.                                         *)
OperationsAgree ==
  \A k \in Key :
    /\ Search(root, k) <=> k \in KeysOf(root)
    /\ KeysOf(Inserted(k)) = KeysOf(root) \cup {k}
    /\ KeysOf(Deleted(k)) = KeysOf(root) \ {k}
=============================================================================

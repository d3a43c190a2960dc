-------------------------------- MODULE BTreeProofs -------------------------
(***************************************************************************)
(* For every workload, every page size and whatever fails: the tree writes *)
(* only pages that Allocate may give away. What pages hold, and whether    *)
(* their pointers make a tree, plays no part in that. Then the pages of a  *)
(* tree, described one by one: which pairs are on a page and below it, and *)
(* that a split, a rotation or a merge of one level, with the pages it     *)
(* writes, keeps them.                                                     *)
(***************************************************************************)
EXTENDS BTree, TreeProofs

(* A list, of whatever.                                                    *)
IsList(s) == \E S : s \in Seq(S)

(* A page manager, whatever its fields hold.                               *)
Shaped(m) ==
  /\ m = [cur |-> m.cur, end |-> m.end, mapped |-> m.mapped, flen |-> m.flen,
          root |-> m.root, free |-> m.free, page |-> m.page]
  /\ m.page = [p \in PageNums |-> m.page[p]]
  /\ IsList(m.free)

(* Its cursor is within reach of a 32-bit offset.                          *)
Addressed(m) == Shaped(m) /\ m.cur \in Nat /\ m.cur < AddrPages

(* n is m after some allocations and writes.                               *)
Fresh(m, n) ==
  /\ Addressed(n) /\ n.cur >= m.cur
  /\ Range(n.free) \subseteq Range(m.free)
  /\ \A p \in PageNums :
        n.page[p] = m.page[p] \/ p >= m.cur \/ \E f \in Range(m.free) : p = Slot(f)

(* n is m after an allocation that answers page, or err.                   *)
Allocated(m, n, page, err) ==
  /\ Shaped(n) /\ n.page = m.page
  /\ Range(n.free) \subseteq Range(m.free)
  /\ \/ n.cur = m.cur /\ (err = NoError => page \in Range(m.free))
     \/ n.cur = m.cur + 1 /\ page = m.cur /\ err = NoError

(* The outcome of a part that does not end the process.                    *)
Safe(r) == r.err \notin {Panicked, Clobber}

-----------------------------------------------------------------------------
(* A page manager with its cursor moved on, with another free list, with a *)
(* page written.                                                           *)
LEMMA CursorOf ==
  ASSUME NEW m, Shaped(m), NEW c
  PROVE  \A n : n = [m EXCEPT !.cur = c] =>
            Shaped(n) /\ n.page = m.page /\ n.free = m.free /\ n.cur = c
  BY DEF Shaped

(* A page manager whose free list alone is replaced: ReadOrCreate shortens *)
(* it, ReleasePages lengthens it.                                          *)
LEMMA FreeListOf ==
  ASSUME NEW m, Shaped(m), NEW s, IsList(s)
  PROVE  \A n : n = [m EXCEPT !.free = s] =>
            Shaped(n) /\ n.page = m.page /\ n.free = s /\ n.cur = m.cur
  BY DEF Shaped

(* A page manager in which one page is written, as WritePage does.         *)
LEMMA PageOf ==
  ASSUME NEW m, Shaped(m), NEW q, NEW v
  PROVE  \A n : n = [m EXCEPT !.page[q] = v] =>
            /\ Shaped(n) /\ n.free = m.free /\ n.cur = m.cur
            /\ \A p \in PageNums : p # q => n.page[p] = m.page[p]
  BY DEF Shaped

(* Whatever Allocate answers, it gives away a free page or the next one.   *)
LEMMA AllocateAllocates ==
  ASSUME NEW m, Shaped(m)
  PROVE  Allocated(m, Allocate(m).pm, Allocate(m).page, Allocate(m).err)
<1> DEFINE a == Allocate(m)
           x == ExtendFile(m)
           len == ExtendedLength(m)
           end == m.end + PreAllocatePageNum
           Gives(r) == Allocated(m, r.pm, r.page, r.err)
<1>1. ASSUME NEW n, Shaped(n), n.page = m.page, n.free = m.free, n.cur = m.cur
      PROVE  /\ \A err : err # NoError => Gives(Failed(n, err))
             /\ Gives(NextPage(n))
  <2>1. ASSUME NEW err, err # NoError PROVE Gives(Failed(n, err))
    BY <1>1, <2>1 DEF Failed, Allocated
  <2>2. NextPage(n).pm = [n EXCEPT !.cur = n.cur + 1] /\ NextPage(n).page = n.cur
        /\ NextPage(n).err = NoError
    BY DEF NextPage
  <2>3. Gives(NextPage(n))
    BY <1>1, <2>2, CursorOf DEF Allocated
  <2> QED
    BY <2>1, <2>3
<1>2. NoSpace # NoError /\ NoMap # NoError /\ Panicked # NoError
  BY DEF NoSpace, NoMap, Panicked, NoError
<1>3. Gives(x)
  <2> DEFINE u == [m EXCEPT !.flen = len, !.mapped = 0]
             g == [m EXCEPT !.flen = len, !.mapped = len, !.end = end]
  <2>1. x = Failed(m, NoSpace) \/ x = Failed(u, NoMap) \/ x = NextPage(g)
    BY DEF ExtendFile
  <2>2. ASSUME NEW n, n = u
        PROVE  Shaped(n) /\ n.page = m.page /\ n.free = m.free /\ n.cur = m.cur
    BY <2>2 DEF Shaped
  <2>3. ASSUME NEW n, n = g
        PROVE  Shaped(n) /\ n.page = m.page /\ n.free = m.free /\ n.cur = m.cur
    BY <2>3 DEF Shaped
  <2> HIDE DEF x, u, g, Gives
  <2> QED
    BY <2>1, <2>2, <2>3, <1>1, <1>2
<1>4. ASSUME m.free # << >>
      PROVE  Gives(AllocateViaFreeList(m))
  <2>1. PICK S : m.free \in Seq(S)
    BY DEF Shaped, IsList
  <2>2. Tail(m.free) \in Seq(S) /\ Head(m.free) \in Range(m.free)
        /\ Range(Tail(m.free)) \subseteq Range(m.free)
    BY <1>4, <2>1, TailInRange
  <2>3. \A n : n = [m EXCEPT !.free = Tail(m.free)] =>
              Shaped(n) /\ n.page = m.page /\ n.free = Tail(m.free) /\ n.cur = m.cur
    BY <2>2, FreeListOf DEF IsList
  <2>4. /\ AllocateViaFreeList(m).pm = [m EXCEPT !.free = Tail(m.free)]
        /\ AllocateViaFreeList(m).page = Head(m.free)
    BY DEF AllocateViaFreeList
  <2> QED
    BY <2>2, <2>3, <2>4 DEF Allocated
<1>5. \/ a = Failed(m, Panicked)
      \/ m.free # << >> /\ a = AllocateViaFreeList(m)
      \/ a = NextPage(m)
      \/ a = x
  BY DEF Allocate
<1> HIDE DEF a, x, Gives
<1>6. Gives(a)
  BY <1>1, <1>2, <1>3, <1>4, <1>5
<1> QED
  BY <1>6 DEF a, Gives

(* Persisting a node writes a page that was free or beyond the cursor.     *)
LEMMA CopyIsFresh ==
  ASSUME NEW m, Addressed(m), NEW v, Safe(CopyToNewPage(m, v))
  PROVE  Fresh(m, CopyToNewPage(m, v).pm)
<1> DEFINE a == Allocate(m)
           r == CopyToNewPage(m, v)
<1>1. /\ Shaped(a.pm) /\ a.pm.page = m.page /\ Range(a.pm.free) \subseteq Range(m.free)
      /\ \/ a.pm.cur = m.cur /\ (a.err = NoError => a.page \in Range(m.free))
         \/ a.pm.cur = m.cur + 1 /\ a.page = m.cur /\ a.err = NoError
  BY AllocateAllocates DEF Allocated, Addressed
<1>2. m.cur \in Nat /\ m.cur < AddrPages /\ AddrPages \in Nat
  BY PageManagerAssumption DEF Addressed
<1> HIDE DEF a
<1>3. CASE a.err # NoError
  <2>1. r.pm = a.pm
    BY <1>3 DEF CopyToNewPage, Store, a
  <2> QED
    BY <2>1, <1>1, <1>2, <1>3 DEF Fresh, Addressed
<1>4. CASE a.err = NoError
  <2>1. r = Write(a.pm, a.page, v) /\ Safe(r)
    BY <1>4 DEF CopyToNewPage, Store, a
  <2>2. /\ Slot(a.page) + 1 < AddrPages
        /\ r.pm = [a.pm EXCEPT !.page[Slot(a.page)] = v]
    BY <2>1 DEF Write, Failed, Safe, InBounds
  <2>3. /\ Shaped(r.pm) /\ r.pm.free = a.pm.free /\ r.pm.cur = a.pm.cur
        /\ \A p \in PageNums : p # Slot(a.page) => r.pm.page[p] = m.page[p]
    BY <2>2, <1>1, PageOf
  <2>4. a.page = m.cur => Slot(a.page) = m.cur
    BY <1>2 DEF Slot
  <2> QED
    BY <2>2, <2>3, <2>4, <1>1, <1>2, <1>4 DEF Fresh, Addressed
<1> QED
  BY <1>3, <1>4

(* One after the other.                                                    *)
LEMMA FreshTransitive ==
  ASSUME NEW l, NEW m, NEW n, Addressed(l), Fresh(l, m), Fresh(m, n)
  PROVE  Fresh(l, n)
<1>1. l.cur \in Nat /\ m.cur \in Nat /\ n.cur \in Nat /\ m.cur >= l.cur /\ n.cur >= m.cur
  BY DEF Fresh, Addressed
<1>2. ASSUME NEW p \in PageNums
      PROVE  n.page[p] = l.page[p] \/ p >= l.cur \/ \E f \in Range(l.free) : p = Slot(f)
  <2>1. p \in Nat
    BY PageManagerAssumption DEF PageNums
  <2> QED
    BY <2>1, <1>1 DEF Fresh
<1> QED
  BY <1>1, <1>2 DEF Fresh

(* So does persisting two nodes.                                           *)
LEMMA PairIsFresh ==
  ASSUME NEW m, Addressed(m), NEW v, NEW w, Safe(CopyPair(m, v, w))
  PROVE  Fresh(m, CopyPair(m, v, w).pm)
<1> DEFINE a == CopyToNewPage(m, v)
           b == CopyToNewPage(a.pm, w)
           r == CopyPair(m, v, w)
<1>1. CASE a.err = NoError
  <2>1. r.pm = b.pm /\ r.err = b.err
    BY <1>1 DEF CopyPair, Second, Paired
  <2>2. Safe(a) /\ Safe(b)
    BY <1>1, <2>1 DEF NoError, Panicked, Clobber, Safe
  <2>3. Fresh(m, a.pm)
    BY <2>2, CopyIsFresh
  <2>4. Fresh(a.pm, b.pm)
    BY <2>2, <2>3, CopyIsFresh DEF Fresh
  <2> QED
    BY <2>1, <2>3, <2>4, FreshTransitive
<1>2. CASE a.err # NoError
  <2>1. r.pm = a.pm /\ r.err = a.err
    BY <1>2 DEF CopyPair, Second, Paired
  <2> QED
    BY <2>1, CopyIsFresh DEF Safe
<1> QED
  BY <1>1, <1>2

-----------------------------------------------------------------------------
(* n is m after no node is persisted, one or two.                          *)
Copies(m, n) ==
  \/ n = m
  \/ \E v : Safe(CopyToNewPage(m, v)) /\ n = CopyToNewPage(m, v).pm
  \/ \E v, w : Safe(CopyPair(m, v, w)) /\ n = CopyPair(m, v, w).pm

(* What is persisted, is on pages that Allocate may give away.             *)
Advances(m, n) == Fresh(m, n) /\ Copies(m, n)

(* One node does that to a page manager.                                   *)
LEMMA CopyGrows ==
  ASSUME NEW m, Addressed(m), NEW v, Safe(CopyToNewPage(m, v))
  PROVE  Advances(m, CopyToNewPage(m, v).pm)
  BY CopyIsFresh, Zenon DEF Advances, Copies

(* So do two.                                                              *)
LEMMA PairGrows ==
  ASSUME NEW m, Addressed(m), NEW v, NEW w, Safe(CopyPair(m, v, w))
  PROVE  Advances(m, CopyPair(m, v, w).pm)
  BY PairIsFresh, Zenon DEF Advances, Copies

(* What a part of an operation, r, leaves of page manager m.               *)
Made(m, r) == Safe(r) => Advances(m, r.pm) /\ IsList(r.retired)

(* Lists of retired pages.                                                 *)
LEMMA ShortLists ==
  /\ IsList(<< >>)
  /\ \A x : IsList(<<x>>)
  /\ \A x, y : IsList(<<x, y>>)
<1>1. ASSUME NEW x, NEW y PROVE << >> \in Seq({x, y}) /\ <<x>> \in Seq({x, y}) /\ <<x, y>> \in Seq({x, y})
  OBVIOUS
<1> QED
  BY <1>1 DEF IsList

(* Retired pages of two repairs, one after the other, are a list.          *)
LEMMA ConcatIsList ==
  ASSUME NEW s, NEW t, IsList(s), IsList(t)
  PROVE  IsList(s \o t)
<1>1. PICK S, T : s \in Seq(S) /\ t \in Seq(T)
  BY DEF IsList
<1>2. s \in Seq(S \cup T) /\ t \in Seq(S \cup T)
  BY <1>1
<1>3. s \o t \in Seq(S \cup T)
  BY <1>2
<1> QED
  BY <1>3 DEF IsList

(* A page manager no call touched: nothing was handed out and nothing      *)
(* written.                                                                *)
LEMMA NothingMade ==
  ASSUME NEW m, Addressed(m)
  PROVE  Advances(m, m)
<1>1. m.cur \in Nat
  BY DEF Addressed
<1> QED
  BY <1>1 DEF Fresh, Advances, Copies

(* A repair leaves what the persisting of the nodes has left.              *)
LEMMA RepairMade ==
  ASSUME NEW m, NEW c, Safe(c) => Advances(m, c.pm), NEW n, NEW ps, IsList(ps)
  PROVE  Made(m, Repaired(c.pm, n, ps, c.err))
  BY DEF Made, Repaired, Safe

(* A repair that finds nothing to do writes no page and retires none.      *)
LEMMA NoRepairMade ==
  ASSUME NEW m, Addressed(m), NEW n, NEW err
  PROVE  Made(m, Repaired(m, n, << >>, err))
  BY NothingMade, ShortLists DEF Made, Repaired

(* The two halves of a split or rotation go to pages allocated for them.   *)
LEMMA PersistPairFresh ==
  ASSUME NEW m, Addressed(m), NEW v, NEW w
  PROVE  Safe(PersistPair(m, v, w)) => Advances(m, PersistPair(m, v, w).pm)
<1>1. CASE PersistPair(m, v, w) = CopyPair(m, v, w)
  BY <1>1, PairGrows
<1>2. CASE PersistPair(m, v, w).err = Panicked
  BY <1>2 DEF Safe
<1> QED
  BY <1>1, <1>2 DEF PersistPair

(* splitRoot writes its two halves to pages allocated for them.            *)
LEMMA SplitRootMade ==
  ASSUME NEW m, Addressed(m), NEW n
  PROVE  Made(m, SplitRoot(m, n))
<1> DEFINE c(v, w) == PersistPair(m, v, w)
<1>1. \E v, w, up : SplitRoot(m, n) = Repaired(c(v, w).pm, up, << >>, c(v, w).err)
  BY Zenon DEF SplitRoot
<1> QED
  BY <1>1, PersistPairFresh, RepairMade, ShortLists

(* splitChild writes its two halves to pages allocated for them and        *)
(* retires the full child.                                                 *)
LEMMA SplitChildMade ==
  ASSUME NEW m, Addressed(m), NEW n, NEW k
  PROVE  Made(m, SplitChild(m, n, k))
<1> DEFINE c(v, w) == PersistPair(m, v, w)
<1>1. \/ SplitChild(m, n, k) = Repaired(m, n, << >>, Panicked)
      \/ SplitChild(m, n, k) = Repaired(m, n, << >>, NoError)
      \/ \E v, w, up, p : SplitChild(m, n, k) = Repaired(c(v, w).pm, up, <<p>>, c(v, w).err)
  BY Zenon DEF SplitChild
<1> QED
  BY <1>1, PersistPairFresh, RepairMade, NoRepairMade, ShortLists

(* rotateRight writes the sibling and the child to pages allocated for     *)
(* them.                                                                   *)
LEMMA RotateRightMade ==
  ASSUME NEW m, Addressed(m), NEW parent, NEW left, NEW child, NEW i
  PROVE  Made(m, RotateRight(m, parent, left, child, i))
<1> DEFINE c(v, w) == PersistPair(m, v, w)
<1>1. \E v, w, up, p, q : RotateRight(m, parent, left, child, i) =
                            Repaired(c(v, w).pm, up, <<p, q>>, c(v, w).err)
  BY Zenon DEF RotateRight
<1> QED
  BY <1>1, PersistPairFresh, RepairMade, ShortLists

(* rotateLeft writes the child and the sibling to pages allocated for      *)
(* them.                                                                   *)
LEMMA RotateLeftMade ==
  ASSUME NEW m, Addressed(m), NEW parent, NEW child, NEW right, NEW i
  PROVE  Made(m, RotateLeft(m, parent, child, right, i))
<1> DEFINE c(v, w) == PersistPair(m, v, w)
<1>1. \E v, w, up, p, q : RotateLeft(m, parent, child, right, i) =
                            Repaired(c(v, w).pm, up, <<p, q>>, c(v, w).err)
  BY Zenon DEF RotateLeft
<1> QED
  BY <1>1, PersistPairFresh, RepairMade, ShortLists

(* mergeChildren writes the merged node to a page allocated for it.        *)
LEMMA MergeChildrenMade ==
  ASSUME NEW m, Addressed(m), NEW parent, NEW i
  PROVE  Made(m, MergeChildren(m, parent, i))
<1>1. \E c, up, p, q : /\ MergeChildren(m, parent, i) = Repaired(c.pm, up, <<p, q>>, c.err)
                       /\ c = Failed(m, Panicked) \/ \E v : c = CopyToNewPage(m, v)
  BY Zenon DEF MergeChildren, Siblings
<1>2. ~Safe(Failed(m, Panicked))
  BY DEF Safe, Failed
<1> QED
  BY <1>1, <1>2, CopyGrows, RepairMade, ShortLists

(* fillChild, whichever of the repairs it chooses, writes pages allocated  *)
(* for it.                                                                 *)
LEMMA FillChildMade ==
  ASSUME NEW m, Addressed(m), NEW n, NEW k
  PROVE  Made(m, FillChild(m, n, k))
<1>1. \/ \E err : FillChild(m, n, k) = Repaired(m, n, << >>, err)
      \/ \E left, child, i : FillChild(m, n, k) = RotateRight(m, n, left, child, i)
      \/ \E child, right, i : FillChild(m, n, k) = RotateLeft(m, n, child, right, i)
      \/ \E i : FillChild(m, n, k) = MergeChildren(m, n, i)
  BY Zenon DEF FillChild
<1> QED
  BY <1>1, NoRepairMade, RotateRightMade, RotateLeftMade, MergeChildrenMade

-----------------------------------------------------------------------------
(* Inductive: nothing is needed but that the cursor stays in reach.        *)
WInv == Addressed(pm) /\ IsList(freelist)

(* A step in which part r of an operation runs.                            *)
Runs(r) == Made(pm, r) /\ (UNCHANGED tree \/ (Safe(r) /\ Keep(r)))

(* It keeps the invariant and writes fresh pages only.                     *)
LEMMA RunsFresh ==
  ASSUME WInv, NEW r, Runs(r)
  PROVE  WInv' /\ Advances(pm, pm')
<1>1. CASE UNCHANGED tree
  BY <1>1, NothingMade DEF WInv, tree, Addressed, Shaped
<1>2. CASE Safe(r) /\ Keep(r)
  <2>1. /\ Advances(pm, r.pm) /\ IsList(r.retired)
        /\ pm' = r.pm /\ freelist' = freelist \o r.retired
    BY <1>2 DEF Runs, Made, Keep
  <2>2. IsList(freelist \o r.retired)
    BY <2>1, ConcatIsList DEF WInv
  <2> QED
    BY <2>1, <2>2 DEF WInv, Fresh, Advances
<1> QED
  BY <1>1, <1>2 DEF Runs

(* The frame of an action of an operation: it installs the page manager of *)
(* the part it ran and drops the pages that part retired.                  *)
LEMMA StepRuns ==
  ASSUME NEW r, Made(pm, r), NEW dropped, NEW ACTION then, Step(r, dropped, then)
  PROVE  Runs(r)
  BY DEF Step, Runs, Safe, Break

(* A node persisted with the pages it retires.                             *)
LEMMA RetiringMade ==
  ASSUME WInv, NEW r, Safe(r) => Advances(pm, r.pm), NEW ps, IsList(ps)
  PROVE  Made(pm, Retiring(r, ps))
  BY DEF Made, Retiring, Safe

(* A node copied on write goes to a page allocated for it.                 *)
LEMMA PersistedFresh ==
  ASSUME WInv, NEW n
  PROVE  Safe(Persisted(n)) => Advances(pm, Persisted(n).pm)
<1>1. ~Safe(Failed(pm, Panicked))
  BY DEF Safe, Failed
<1> QED
  BY <1>1, CopyGrows DEF WInv, Persisted

(* The leaf step of an insertion is one part run from the state it found.  *)
LEMMA InsertIntoLeafRuns ==
  ASSUME WInv, InsertIntoLeaf
  PROVE  \E r : Runs(r)
<1> DEFINE r == Retiring(Persisted(InsertKV(node, Pair)), << >>)
<1>1. Made(pm, r)
  BY RetiringMade, PersistedFresh, ShortLists
<1>2. Step(r, Swallowed, Returned(r) /\ UNCHANGED stack)
  BY DEF InsertIntoLeaf
<1> HIDE DEF r
<1> QED
  BY <1>1, <1>2, StepRuns

(* So is the start of an insertion, which may split the root.              *)
LEMMA StartInsertRuns ==
  ASSUME WInv, StartInsert
  PROVE  \E r : Runs(r)
<1> DEFINE s   == SplitIfFull(LoadAsNode(pm, base))
           old == IF direct \/ s.err # NoError THEN << >> ELSE <<base>>
           r   == [s EXCEPT !.retired = old]
<1>1. \/ Keep(Repaired(pm, NewNode, << >>, NoError))
      \/ Step(r, FALSE,
               /\ pc' = "insert" /\ node' = s.node /\ key' = Head(todo).key
               /\ UNCHANGED <<stack, ret>> /\ Same)
  BY Zenon DEF StartInsert
<1>2. Made(pm, s)
  BY SplitRootMade, NoRepairMade DEF WInv, SplitIfFull
<1>3. r.err = s.err /\ r.pm = s.pm /\ r.retired = old
  BY DEF SplitIfFull, SplitRoot, Repaired
<1>4. IsList(old)
  BY ShortLists
<1>5. Made(pm, r)
  BY <1>2, <1>3, <1>4 DEF Made, Safe
<1>6. CASE Keep(Repaired(pm, NewNode, << >>, NoError))
  <2>1. Safe(Repaired(pm, NewNode, << >>, NoError))
    BY DEF Safe, Repaired, NewNode, NoError, Panicked, Clobber
  <2>2. Made(pm, Repaired(pm, NewNode, << >>, NoError))
    BY NoRepairMade DEF WInv
  <2> QED
    BY <1>6, <2>1, <2>2 DEF Runs
<1> HIDE DEF r
<1> QED
  BY <1>1, <1>5, <1>6, StepRuns

(* So is the start of a deletion.                                          *)
LEMMA StartDeleteRuns ==
  ASSUME WInv, StartDelete
  PROVE  \E r : Runs(r)
<1> DEFINE n == LoadAsNode(pm, base)
           r == Repaired(pm, n, << >>, NoError)
<1>1. Step(r, FALSE, /\ pc' = "delete" /\ node' = n /\ key' = Head(todo).key
                     /\ UNCHANGED <<stack, ret>> /\ Same)
  BY Zenon DEF StartDelete
<1>2. Made(pm, r)
  BY NoRepairMade DEF WInv
<1> HIDE DEF r
<1> QED
  BY <1>1, <1>2, StepRuns

(* The child is given up after the split of it: its page joins the list.   *)
LEMMA InsertIntoInternalRuns ==
  ASSUME WInv, InsertIntoInternal
  PROVE  \E r : Runs(r)
<1> DEFINE s     == SplitChild(pm, node, key)
           i     == FindIndex(s.node, key)
           child == LoadAsNode(s.pm, GetPtr(s.node, i))
           r     == IF s.err # NoError THEN s
                    ELSE Repaired(s.pm, child, Append(s.retired, GetPtr(s.node, i)), NoError)
<1>1. Step(r, Swallowed,
          /\ node' = child
          /\ stack' = Append(stack, [node |-> s.node, slot |-> i, retire |-> FALSE])
          /\ UNCHANGED <<pc, key, ret>> /\ Same)
  BY Zenon DEF InsertIntoInternal
<1>2. Made(pm, s)
  BY SplitChildMade DEF WInv
<1>3. Made(pm, r)
  <2>1. CASE s.err # NoError
    BY <2>1, <1>2
  <2>2. CASE s.err = NoError
    <3>1. Advances(pm, s.pm) /\ IsList(s.retired)
      BY <2>2, <1>2 DEF Made, Safe, NoError, Panicked, Clobber
    <3>2. \A p : IsList(Append(s.retired, p))
      <4>1. ASSUME NEW p PROVE IsList(Append(s.retired, p))
        <5>1. PICK S : s.retired \in Seq(S)
          BY <3>1 DEF IsList
        <5>2. s.retired \in Seq(S \cup {p}) /\ p \in S \cup {p}
          BY <5>1
        <5>3. Append(s.retired, p) \in Seq(S \cup {p})
          BY <5>2
        <5> QED
          BY <5>3 DEF IsList
      <4> QED
        BY <4>1
    <3> QED
      BY <2>2, <3>1, <3>2 DEF Made, Repaired
  <2> QED
    BY <2>1, <2>2
<1> HIDE DEF r
<1> QED
  BY <1>1, <1>3, StepRuns

(* So is the visit of a node on the way to the key, with the repair of its *)
(* child.                                                                  *)
LEMMA DeleteFromInternalRuns ==
  ASSUME WInv, DeleteFromInternal
  PROVE  \E r : Runs(r)
<1> DEFINE f     == FillChild(pm, node, key)
           i     == FindIndex(f.node, key)
           child == LoadAsNode(f.pm, GetPtr(f.node, i))
           r     == IF f.err # NoError \/ child.ok THEN f ELSE [f EXCEPT !.err = Panicked]
<1>1. \/ Step(f, FALSE, node' = f.node /\ UNCHANGED <<pc, key, stack, ret>> /\ Same)
      \/ Step(r, FALSE,
          /\ node' = child
          /\ stack' = Append(stack, [node |-> f.node, slot |-> i, retire |-> TRUE])
          /\ UNCHANGED <<pc, key, ret>> /\ Same)
  BY Zenon DEF DeleteFromInternal
<1>2. Made(pm, f)
  BY FillChildMade DEF WInv
<1>3. Made(pm, r)
  BY <1>2 DEF Made, Safe
<1> HIDE DEF r, f
<1> QED
  BY <1>1, <1>2, <1>3, StepRuns

(* So is the replacement of a key found in an internal node.               *)
LEMMA DeleteKeyFromInternalRuns ==
  ASSUME WInv, DeleteKeyFromInternal
  PROVE  \E r : Runs(r)
<1>1. ASSUME NEW child, NEW kv, NEW updated, NEW slot, Borrow(child, kv, updated, slot)
      PROVE  \E r : Runs(r)
  <2> DEFINE r == Repaired(pm, updated, <<GetPtr(node, slot)>>, NoError)
  <2>1. Made(pm, r)
    BY NothingMade, ShortLists DEF Made, Repaired, WInv
  <2>2. Step(r, FALSE,
          /\ node' = child /\ key' = kv[1]
          /\ stack' = Append(stack, [node |-> updated, slot |-> slot, retire |-> FALSE])
          /\ UNCHANGED <<pc, ret>> /\ Same)
    BY <1>1, Zenon DEF Borrow
  <2> HIDE DEF r
  <2> QED
    BY <2>1, <2>2, StepRuns
<1> DEFINE i == FindIndex(node, key)
           m == MergeChildren(pm, node, i)
<1>2. \/ \E child, kv, updated, slot : Borrow(child, kv, updated, slot)
      \/ Step(m, FALSE, node' = m.node /\ UNCHANGED <<pc, key, stack, ret>> /\ Same)
  BY Zenon DEF DeleteKeyFromInternal
<1>3. Made(pm, m)
  BY MergeChildrenMade DEF WInv
<1> HIDE DEF m
<1> QED
  BY <1>1, <1>2, <1>3, StepRuns

(* So is the removal of a pair from its leaf.                              *)
LEMMA DeleteFromLeafRuns ==
  ASSUME WInv, DeleteFromLeaf
  PROVE  \E r : Runs(r)
<1> DEFINE p == IF ContainsKey(node, key)
                THEN Persisted(DeleteKV(node, FindIndex(node, key)))
                ELSE Failed(pm, ErrKeyNotFound)
           r == Retiring(p, << >>)
<1>1. Safe(p) => Advances(pm, p.pm)
  <2>1. Failed(pm, ErrKeyNotFound).pm = pm
    BY DEF Failed
  <2> QED
    BY <2>1, PersistedFresh, NothingMade DEF WInv
<1> HIDE DEF p
<1>2. Made(pm, r)
  BY <1>1, RetiringMade, ShortLists
<1>3. Step(r, FALSE, Returned(r) /\ UNCHANGED stack)
  BY Zenon DEF DeleteFromLeaf, p
<1> HIDE DEF r
<1> QED
  BY <1>2, <1>3, StepRuns

(* So is the copy of a parent on the way up.                               *)
LEMMA PropagateUpRuns ==
  ASSUME WInv, PropagateUp
  PROVE  \E r : Runs(r)
<1> DEFINE f   == Last(stack)
           old == IF f.retire THEN <<GetPtr(f.node, f.slot)>> ELSE << >>
           r   == Retiring(Persisted(SetPtr(f.node, f.slot, ret)), old)
<1>1. IsList(old)
  BY ShortLists
<1>2. Made(pm, r)
  BY <1>1, RetiringMade, PersistedFresh
<1>3. Step(r, Swallowed, Returned(r) /\ stack' = Front(stack))
  BY Zenon DEF PropagateUp
<1> HIDE DEF r
<1> QED
  BY <1>2, <1>3, StepRuns

(* So is the end of an operation: the collapse of the root, the new root,  *)
(* the release of the retired pages.                                       *)
LEMMA FinishRuns ==
  ASSUME WInv, Finish
  PROVE  \E r : Runs(r)
<1> DEFINE n   == LoadAsNode(pm, ret)
           del == Head(todo).op = "delete"
           old == IF del /\ ~direct THEN <<root>> ELSE << >>
           r   == Repaired(pm, IF del THEN n ELSE NewNode, old, NoError)
<1>1. IsList(old)
  BY ShortLists
<1>2. Made(pm, r)
  BY <1>1, NothingMade DEF Made, Repaired, WInv
<1>3. Step(r, FALSE,
          /\ ret' = IF del /\ Collapses(n) THEN GetPtr(n, 0) ELSE ret
          /\ pc' = "next"
          /\ Unwind /\ Same)
  BY Zenon DEF Finish
<1> HIDE DEF r
<1> QED
  BY <1>2, <1>3, StepRuns

(* A commit writes no page but the master page.                            *)
LEMMA CommitFresh ==
  ASSUME WInv, Commit
  PROVE  WInv' /\ pm'.page = pm.page
<1>1. CASE UNCHANGED tree
  BY <1>1 DEF WInv, tree, Addressed, Shaped
<1>2. CASE pm' = HandleMasterPage(pm, RetiredAtCommit, base) /\ freelist' = << >>
  <2> DEFINE free == IF Len(pm.free) + Len(RetiredAtCommit) < FreeSlots
                     THEN pm.free \o RetiredAtCommit ELSE pm.free
  <2>1. pm' = [pm EXCEPT !.root = base, !.free = free]
    BY <1>2 DEF HandleMasterPage
  <2>2. IsList(RetiredAtCommit)
    <3>1. Append(freelist, root) = freelist \o <<root>>
      BY DEF WInv, IsList
    <3> QED
      BY <3>1, ShortLists, ConcatIsList DEF RetiredAtCommit, WInv
  <2>3. IsList(free)
    BY <2>2, ConcatIsList DEF WInv, Addressed, Shaped
  <2> HIDE DEF free
  <2>4. Shaped(pm') /\ pm'.page = pm.page /\ pm'.cur = pm.cur
    BY <2>1, <2>3 DEF WInv, Addressed, Shaped
  <2>5. IsList(freelist')
    BY <1>2, ShortLists
  <2> QED
    BY <2>4, <2>5 DEF WInv, Addressed
<1> QED
  BY <1>1, <1>2, Zenon DEF Commit, Break

(* Every step keeps the invariant; but for the commit, it persists no node *)
(* or one or two, on fresh pages.                                          *)
LEMMA NextGrows ==
  ASSUME WInv, [Next]_vars
  PROVE  WInv' /\ (Commit \/ Advances(pm, pm'))
<1>1. CASE \E r : Runs(r)
  BY <1>1, RunsFresh
<1>2. CASE UNCHANGED tree
  BY <1>2, NothingMade DEF WInv, tree, Addressed, Shaped
<1>3. CASE Commit
  BY <1>3, CommitFresh
<1>4. ASSUME Invoke \/ NextRequest \/ Fsync \/ Barrier2 \/ Stopped \/ UNCHANGED vars
      PROVE  UNCHANGED tree
  <2>1. UNCHANGED vars => UNCHANGED tree
    BY DEF vars
  <2>2. Invoke \/ NextRequest \/ Fsync \/ Barrier2 => UNCHANGED tree
    BY Zenon DEF Invoke, NextRequest, Fsync, Barrier2
  <2> QED
    BY <1>4, <2>1, <2>2 DEF Stopped
<1>5. CASE StartInsert \/ InsertIntoInternal \/ InsertIntoLeaf
  BY <1>1, <1>5, StartInsertRuns, InsertIntoInternalRuns, InsertIntoLeafRuns
<1>6. CASE StartDelete \/ DeleteFromInternal \/ DeleteKeyFromInternal \/ DeleteFromLeaf
  BY <1>1, <1>6, StartDeleteRuns, DeleteFromInternalRuns, DeleteKeyFromInternalRuns,
     DeleteFromLeafRuns
<1>7. CASE PropagateUp \/ Finish
  BY <1>1, <1>7, PropagateUpRuns, FinishRuns
<1> QED
  BY <1>2, <1>3, <1>4, <1>5, <1>6, <1>7, Zenon DEF Next, Serve

(* So every step writes fresh pages only.                                  *)
LEMMA NextFresh ==
  ASSUME WInv, [Next]_vars
  PROVE  WInv' /\ \A p \in PageNums \ Allocatable : pm'.page[p] = pm.page[p]
<1>1. CASE Advances(pm, pm')
  BY <1>1, NextGrows DEF Advances, Fresh, Allocatable
<1>2. CASE Commit
  BY <1>2, CommitFresh
<1> QED
  BY <1>1, <1>2, NextGrows

(* A new store.                                                            *)
LEMMA InitWInv ==
  Init => WInv
<1> SUFFICES ASSUME Init PROVE WInv
  OBVIOUS
<1> DEFINE file == NewFile(NewNode)
           m == NewPageManager(file)
           a == Allocate(m)
           b == Allocate(a.pm)
<1>1. pm = LoadOrCreateRoot(m).pm /\ LoadOrCreateRoot(m).err = NoError /\ freelist = << >>
  BY DEF Init, InitWith
<1>2. Shaped(m) /\ m.cur = 0 /\ m.end = 0
  <2>1. Shaped(file)
    <3>1. /\ file = [cur |-> 0, end |-> 0, mapped |-> 0, flen |-> 0,
                      root |-> 0, free |-> << >>, page |-> [p \in PageNums |-> NewNode]]
      BY DEF NewFile
    <3> HIDE DEF file
    <3>2. /\ file.cur = 0 /\ file.end = 0 /\ file.mapped = 0 /\ file.flen = 0
          /\ file.root = 0 /\ file.free = << >> /\ file.page = [p \in PageNums |-> NewNode]
      BY <3>1
    <3>3. file.page = [p \in PageNums |-> file.page[p]]
      BY <3>2
    <3> QED
      BY <3>1, <3>2, <3>3, ShortLists DEF Shaped
  <2>2. m = [file EXCEPT !.cur = 0, !.end = 0, !.mapped = 0]
    BY DEF NewPageManager
  <2> HIDE DEF file, m
  <2> QED
    BY <2>1, <2>2 DEF Shaped
<1>3. LoadOrCreateRoot(m) = IF a.err = NoError THEN b ELSE a
  BY <1>2 DEF LoadOrCreateRoot, ReadsEOF
<1> HIDE DEF m
<1>4. Shaped(a.pm) /\ (a.pm.cur = 0 \/ a.pm.cur = 1)
  BY <1>2, AllocateAllocates DEF Allocated
<1>5. Shaped(b.pm) /\ (b.pm.cur = a.pm.cur \/ b.pm.cur = a.pm.cur + 1)
  BY <1>4, AllocateAllocates DEF Allocated
<1> HIDE DEF a, b
<1>6. Shaped(pm) /\ pm.cur \in 0 .. 2
  BY <1>1, <1>3, <1>4, <1>5
<1> QED
  BY <1>1, <1>6, ShortLists, PageManagerAssumption DEF WInv, Addressed

-----------------------------------------------------------------------------
(* Every step of Insert, Delete and the batch, with any workload and       *)
(* whatever fails, leaves alone the pages Allocate cannot give away: no    *)
(* node is mutated in place (copyToNewPage).                               *)
THEOREM NothingWrittenInPlace ==
  Spec => FreshWrites
<1>1. WInv /\ [Next]_vars => WInv'
  BY NextFresh
<1>2. WInv /\ [Next]_vars =>
        [\A p \in PageNums \ Allocatable : pm'.page[p] = pm.page[p]]_vars
  BY NextFresh
<1> QED
  BY <1>1, <1>2, InitWInv, PTL DEF Spec, FreshWrites

(* The pages of the committed tree are written only if they could be given *)
(* away before: as long as none of them is free, no step writes one.       *)
THEOREM TreeCopiesOnWrite ==
  Spec /\ []LiveKept => CopyOnWrite
<1>1. WInv /\ [Next]_vars => WInv'
  BY NextFresh
<1>2. WInv /\ LiveKept /\ [Next]_vars => [\A p \in Live : pm'.page[p] = pm.page[p]]_vars
  BY NextFresh DEF LiveKept
<1> QED
  BY <1>1, <1>2, InitWInv, PTL DEF Spec, CopyOnWrite

-----------------------------------------------------------------------------
(* A step that keeps the discipline is a step of CowStore.                 *)
LEMMA DisciplinedStepIsNext ==
  ASSUME Cow!IInv,
         [(\E vs \in NodesWritten : CowWork(vs)) \/ CowCommit]_<<pm, root, freelist>>
  PROVE  [Cow!Next]_(Cow!vars)
<1>1. ASSUME NEW vs, CowWork(vs) PROVE Cow!Next
  BY <1>1, Cow!DisciplinedStep, PageLayoutAssumption, PageManagerAssumption
     DEF CowWork, Cow!MasterHeaderSize, Cow!PointerSize, MasterHeaderSize, PointerSize
<1>2. CASE CowCommit
  BY <1>2, Cow!DisciplinedStep, PageLayoutAssumption, PageManagerAssumption
     DEF CowCommit, Cow!MasterHeaderSize, Cow!PointerSize, MasterHeaderSize, PointerSize
<1>3. CASE UNCHANGED <<pm, root, freelist>>
  BY <1>3 DEF Cow!vars, Live
<1> QED
  BY <1>1, <1>2, <1>3

(* A page of zeros is a node, so the tree starts as CowStore does.         *)
LEMMA StartsAsCowStore ==
  Cow!InitWith(NewNode) => Cow!Init
<1>1. << >> \in Seq(Key \X Val) /\ <<0>> \in Seq(Nat)
  OBVIOUS
<1>2. NewNode \in Nodes
  BY <1>1 DEF NewNode, Nodes
<1> QED
  BY <1>2 DEF Cow!Init

(* Under the invariant of CowStore no live page is allocatable.            *)
LEMMA NoLivePageFree ==
  Cow!IInv => LiveKept
<1> SUFFICES ASSUME Cow!IInv PROVE LiveKept
  OBVIOUS
<1>1. ASSUME NEW p \in Live PROVE p \in PageNums /\ p \notin Allocatable
  <2>1. p \in Cow!PageNums /\ p < pm.cur /\ \A f \in Range(pm.free) : Cow!Slot(f) # p
    <3>1. \A q \in Live :
            q \in Cow!PageNums /\ q < pm.cur /\ \A f \in Cow!Range(pm.free) : Cow!Slot(f) # q
      BY Cow!LivePages, PageLayoutAssumption, PageManagerAssumption
         DEF Cow!MasterHeaderSize, Cow!PointerSize, MasterHeaderSize, PointerSize
    <3> QED
      BY <3>1, Zenon DEF Cow!Range, Range
  <2>2. pm.cur \in Nat
    BY DEF Cow!IInv, Cow!WellFormed, Cow!PageManagers
  <2>3. p \in PageNums /\ p \in Int
    BY <2>1, PageManagerAssumption DEF Cow!PageNums, PageNums
  <2>4. ~(p >= pm.cur)
    BY <2>1, <2>2, <2>3
  <2> QED
    BY <2>1, <2>3, <2>4, Zenon DEF Cow!Slot, Slot, Allocatable
<1>2. root \in Live
  BY DEF Cow!IInv, Cow!MasterNamesLiveRoot
<1> QED
  BY <1>1, <1>2 DEF LiveKept

(* As long as its steps keep the discipline, the tree has CowStore's       *)
(* inductive invariant.                                                    *)
LEMMA DisciplineKeepsInvariant ==
  CowImplemented => []Cow!IInv
<1>1. Cow!InitWith(NewNode) => Cow!IInv
  BY StartsAsCowStore, Cow!InitIInv, PageLayoutAssumption, PageManagerAssumption
     DEF Cow!MasterHeaderSize, Cow!PointerSize, MasterHeaderSize, PointerSize
<1>2. Cow!IInv /\ [Cow!Next]_(Cow!vars) => Cow!IInv'
  BY Cow!NextKeeps, PageLayoutAssumption, PageManagerAssumption
     DEF Cow!MasterHeaderSize, Cow!PointerSize, MasterHeaderSize, PointerSize
<1>3. Cow!IInv /\ [(\E vs \in NodesWritten : CowWork(vs)) \/ CowCommit]_<<pm, root, freelist>>
        => [Cow!Next]_(Cow!vars)
  BY DisciplinedStepIsNext
<1> QED
  BY <1>1, <1>2, <1>3, PTL DEF CowImplemented

(* As long as every step of the tree keeps the discipline of CowStore, its *)
(* behaviour is one of CowStore: all that is proved there holds of the     *)
(* pages of the tree.                                                      *)
THEOREM DisciplineImplementsCowStore ==
  CowImplemented => Cow!Spec
<1>1. Cow!InitWith(NewNode) => Cow!Init
  BY StartsAsCowStore
<1>2. Cow!IInv /\ [(\E vs \in NodesWritten : CowWork(vs)) \/ CowCommit]_<<pm, root, freelist>>
        => [Cow!Next]_(Cow!vars)
  BY DisciplinedStepIsNext
<1> QED
  BY <1>1, <1>2, DisciplineKeepsInvariant, PTL DEF CowImplemented, Cow!Spec

(* Then no page of the committed tree is ever free (insert, delete and     *)
(* their retirements, HandleMasterPage)...                                 *)
THEOREM DisciplineKeepsLivePages ==
  CowImplemented => []LiveKept
  BY DisciplineKeepsInvariant, NoLivePageFree, PTL

(* ... and none is ever written.                                           *)
THEOREM DisciplineCopiesOnWrite ==
  Spec /\ CowImplemented => CopyOnWrite
  BY DisciplineKeepsLivePages, TreeCopiesOnWrite, PTL

-----------------------------------------------------------------------------
(* The tree below a page, and its map, depend on the pages of that tree    *)
(* only.                                                                   *)
LEMMA ReachSame ==
  ASSUME NEW m, NEW n, NEW r \in PageNums,
         \A p \in Reach(m, r) : n.page[p] = m.page[p]
  PROVE  Reach(n, r) = Reach(m, r) /\ Contents(n, r) = Contents(m, r)
<1>1. Reach(m, r) \subseteq PageNums
  BY ClosureProperties DEF Reach
<1>2. \A p \in Reach(m, r) : Children(n)[p] = Children(m)[p]
  BY <1>1 DEF Children
<1>3. Reach(n, r) = Reach(m, r)
  BY <1>2, ClosureSame DEF Reach
<1>4. {ToSet(n.page[p].kvs) : p \in Reach(n, r)} = {ToSet(m.page[p].kvs) : p \in Reach(m, r)}
  BY <1>3
<1> DEFINE Map(kvs) == [k \in {kv[1] : kv \in kvs} |-> (CHOOSE kv \in kvs : kv[1] = k)[2]]
<1>5. /\ Contents(m, r) = Map(UNION {ToSet(m.page[p].kvs) : p \in Reach(m, r)})
      /\ Contents(n, r) = Map(UNION {ToSet(n.page[p].kvs) : p \in Reach(n, r)})
  BY DEF Contents
<1> HIDE DEF Map
<1> QED
  BY <1>3, <1>4, <1>5

(* No step that leaves the root where it is changes the map, if no page of *)
(* the committed tree is free.                                             *)
LEMMA MapStays ==
  ASSUME WInv, LiveKept, [Next]_vars, root' = root
  PROVE  Contents(pm', root') = Contents(pm, root)
<1>1. \A p \in Reach(pm, root) : pm'.page[p] = pm.page[p]
  BY NextFresh DEF LiveKept, Live
<1>2. root \in PageNums
  BY DEF LiveKept
<1>3. \A n : (\A p \in Reach(pm, root) : n.page[p] = pm.page[p])
              => Contents(n, root) = Contents(pm, root)
  BY <1>2, ReachSame
<1> QED
  BY <1>1, <1>3

(* As long as that is so, its map changes only when its root does: what a  *)
(* call persists, splits, rotates and merges on its way down shows to      *)
(* nobody before HandleMasterPage.                                         *)
THEOREM MapMovesWithRoot ==
  Spec /\ []LiveKept => [][root' = root => Contents(pm', root') = Contents(pm, root)]_vars
<1>1. WInv /\ [Next]_vars => WInv'
  BY NextFresh
<1>2. WInv /\ LiveKept /\ [Next]_vars
        => [root' = root => Contents(pm', root') = Contents(pm, root)]_vars
  BY MapStays
<1> QED
  BY <1>1, <1>2, InitWInv, PTL DEF Spec

-----------------------------------------------------------------------------
(* CowStore is about the same page manager.                                *)
LEMMA SameManager ==
  /\ \A p : Cow!Slot(p) = Slot(p)
  /\ \A m, p : Cow!InBounds(m, p) <=> InBounds(m, p)
  /\ \A m : Cow!Allocate(m) = Allocate(m)
  /\ \A m, p, v : Cow!Write(m, p, v) = Write(m, p, v)
  /\ \A m, v : Cow!CopyToNewPage(m, v) = CopyToNewPage(m, v)
<1>1. /\ Cow!NoError = NoError /\ Cow!NoSpace = NoSpace /\ Cow!NoMap = NoMap
      /\ Cow!Panicked = Panicked /\ Cow!Clobber = Clobber
  BY DEF Cow!NoError, NoError, Cow!NoSpace, NoSpace, Cow!NoMap, NoMap, Cow!Panicked, Panicked,
         Cow!Clobber, Clobber
<1>2. \A p : Cow!Slot(p) = Slot(p)
  BY DEF Cow!Slot, Slot
<1>3. \A m, p : Cow!InBounds(m, p) <=> InBounds(m, p)
  BY <1>2, Zenon DEF Cow!InBounds, InBounds
<1>4. \A m, e : Cow!Failed(m, e) = Failed(m, e)
  BY Zenon DEF Cow!Failed, Failed
<1>5. \A m : Cow!NextPage(m) = NextPage(m) /\ Cow!AllocateViaFreeList(m) = AllocateViaFreeList(m)
  BY <1>1, Zenon DEF Cow!NextPage, NextPage, Cow!AllocateViaFreeList, AllocateViaFreeList
<1>6. \A m : Cow!ExtendedLength(m) = ExtendedLength(m)
  BY <1>2, Zenon DEF Cow!ExtendedLength, ExtendedLength, Cow!Fallocated, Fallocated, Cow!Ftruncated,
     Ftruncated, Cow!Larger, Larger
<1>7. \A m : Cow!ExtendFile(m) = ExtendFile(m)
  BY <1>1, <1>4, <1>5, <1>6, Zenon DEF Cow!ExtendFile, ExtendFile
<1>8. \A m : Cow!Allocate(m) = Allocate(m)
  BY <1>1, <1>3, <1>4, <1>5, <1>7, Zenon DEF Cow!Allocate, Allocate
<1>9. \A m, p, v : Cow!Write(m, p, v) = Write(m, p, v)
  BY <1>1, <1>2, <1>3, <1>4, Zenon DEF Cow!Write, Write
<1>10. \A m, v : Cow!CopyToNewPage(m, v) = CopyToNewPage(m, v)
  BY <1>1, <1>8, <1>9, Zenon DEF Cow!CopyToNewPage, CopyToNewPage, Cow!Store, Store
<1> QED
  BY <1>2, <1>3, <1>8, <1>9, <1>10

-----------------------------------------------------------------------------
(* A tree is described page by page.  w[p] is what is known of page p of   *)
(* those the tree is made of: the node on it, how far above the leaves it  *)
(* is, and the pairs on it and below it.                                   *)

(* A pair that insertion accepts.                                          *)
Small(kv) == KVLen[kv] <= MaxAllowedKVLen

(* Key k belongs below the i-th pointer beside pairs kvs.                  *)
Between(kvs, i, k) ==
  /\ i > 1 => kvs[i - 1][1] < k
  /\ i <= Len(kvs) => k < kvs[i][1]

(* Page p, under the i-th pointer of a node d levels up, is a node of the  *)
(* level below with pairs of its own, and all that is below it belongs     *)
(* there.                                                                  *)
ChildFits(w, kvs, i, p, d) ==
  /\ p \in DOMAIN w /\ w[p].depth = d - 1 /\ w[p].node.kvs # << >>
  /\ \A kv \in w[p].pairs : Between(kvs, i, kv[1])

(* Pairs and pointers of a node d levels above the leaves, whose pointers  *)
(* at the places in S lead nowhere yet.                                    *)
FitsBut(w, kvs, ptr, S, d) ==
  /\ kvs \in Seq(KVs) /\ ptr \in Seq(Nat) /\ Len(ptr) = Len(kvs) + 1
  /\ InOrder(kvs) /\ \A x \in 1 .. Len(kvs) : Small(kvs[x])
  /\ d > 0 => \A i \in (1 .. Len(ptr)) \ S : ChildFits(w, kvs, i, ptr[i], d)

(* The pairs of such a node and those below its pointers, but for S.       *)
PairsBut(w, kvs, ptr, S, d) ==
  {kvs[x] : x \in 1 .. Len(kvs)}
    \cup (IF d > 0 THEN UNION {w[ptr[i]].pairs : i \in (1 .. Len(ptr)) \ S} ELSE {})

(* Node n, d levels above the leaves, with its pointers all in place.      *)
Fits(w, n, d) ==
  /\ n \in Nodes /\ n.ok /\ d \in Nat /\ (n.type = "leaf" <=> d = 0)
  /\ d = 0 => Nils(n.ptr)
  /\ FitsBut(w, n.kvs, n.ptr, {}, d)

(* The pairs of n and of the pages below it.                               *)
PairsOf(w, n, d) == PairsBut(w, n.kvs, n.ptr, {}, d)

(* No key has two values.                                                  *)
Functional(K) == \A a, b \in K : a[1] = b[1] => a = b

(* Every page of the description is a node that fits, and its pairs are    *)
(* those of the pages it leads to.                                         *)
World(w) ==
  \A p \in DOMAIN w :
    /\ Fits(w, w[p].node, w[p].depth)
    /\ w[p].pairs = PairsOf(w, w[p].node, w[p].depth)
    /\ w[p].pairs \subseteq KVs /\ Functional(w[p].pairs)

(* x has the pages of w, and more.                                         *)
Later(w, x) == DOMAIN w \subseteq DOMAIN x /\ \A p \in DOMAIN w : x[p] = w[p]

(* What is known of a page to which n has been written.                    *)
Entry(w, n, d) == [node |-> n, pairs |-> PairsOf(w, n, d), depth |-> d]

(* w with page q added.                                                    *)
Extended(w, q, e) == [p \in DOMAIN w \cup {q} |-> IF p = q THEN e ELSE w[p]]

(* Pages added to a world leave what was known of the others.              *)
LEMMA LaterFits ==
  ASSUME NEW w, NEW x, Later(w, x), NEW kvs, NEW ptr, NEW S, NEW d, FitsBut(w, kvs, ptr, S, d)
  PROVE  FitsBut(x, kvs, ptr, S, d) /\ PairsBut(x, kvs, ptr, S, d) = PairsBut(w, kvs, ptr, S, d)
<1>1. CASE d > 0
  <2>1. \A i \in (1 .. Len(ptr)) \ S : ptr[i] \in DOMAIN w /\ x[ptr[i]] = w[ptr[i]]
    BY <1>1 DEF FitsBut, ChildFits, Later
  <2>2. \A i \in (1 .. Len(ptr)) \ S : ChildFits(x, kvs, i, ptr[i], d)
    <3>1. \A i \in (1 .. Len(ptr)) \ S : ChildFits(w, kvs, i, ptr[i], d)
      BY <1>1 DEF FitsBut
    <3> QED
      BY <2>1, <3>1 DEF ChildFits, Later
  <2>3. FitsBut(x, kvs, ptr, S, d)
    BY <2>2, Zenon DEF FitsBut
  <2>4. {x[ptr[i]].pairs : i \in (1 .. Len(ptr)) \ S} = {w[ptr[i]].pairs : i \in (1 .. Len(ptr)) \ S}
    BY <2>1, Zenon
  <2> QED
    BY <2>3, <2>4, Zenon DEF PairsBut
<1>2. CASE ~(d > 0)
  BY <1>2, Zenon DEF FitsBut, PairsBut
<1> QED
  BY <1>1, <1>2

(* Worlds grow step by step.                                               *)
LEMMA LaterTransitive ==
  ASSUME NEW w, NEW x, NEW y, Later(w, x), Later(x, y)
  PROVE  Later(w, y)
  BY DEF Later

(* Where the pairs of two places of a node are.                            *)
LEMMA Placed ==
  ASSUME NEW kvs \in Seq(KVs), InOrder(kvs), NEW i \in 1 .. Len(kvs) + 1, NEW k \in Key,
         Between(kvs, i, k)
  PROVE  /\ \A x \in 1 .. Len(kvs) : x < i => kvs[x][1] < k
         /\ \A x \in 1 .. Len(kvs) : x >= i => k < kvs[x][1]
<1>1. k \in Nat /\ \A x \in 1 .. Len(kvs) : kvs[x][1] \in Nat
  BY KeysAreNumbers, NodeAssumption
<1>2. \A x, y \in 1 .. Len(kvs) : x < y => kvs[x][1] < kvs[y][1]
  BY DEF InOrder
<1>3. Len(kvs) \in Nat
  OBVIOUS
<1>4. ASSUME NEW x \in 1 .. Len(kvs), x < i PROVE kvs[x][1] < k
  <2>1. i - 1 \in 1 .. Len(kvs) /\ kvs[i - 1][1] < k
    BY <1>3, <1>4 DEF Between
  <2>2. CASE x = i - 1
    BY <2>1, <2>2
  <2>3. CASE x < i - 1
    <3>1. kvs[x][1] < kvs[i - 1][1]
      BY <1>2, <2>1, <2>3
    <3>2. kvs[x][1] \in Nat /\ kvs[i - 1][1] \in Nat
      BY <1>1, <2>1
    <3> QED
      BY <1>1, <2>1, <3>1, <3>2
  <2> QED
    BY <1>3, <1>4, <2>2, <2>3
<1>5. ASSUME NEW x \in 1 .. Len(kvs), x >= i PROVE k < kvs[x][1]
  <2>1. i \in 1 .. Len(kvs) /\ k < kvs[i][1]
    BY <1>3, <1>5 DEF Between
  <2>2. CASE x = i
    BY <2>1, <2>2
  <2>3. CASE x > i
    <3>1. kvs[i][1] < kvs[x][1]
      BY <1>2, <2>1, <2>3
    <3>2. kvs[x][1] \in Nat /\ kvs[i][1] \in Nat
      BY <1>1, <2>1
    <3> QED
      BY <1>1, <2>1, <3>1, <3>2
  <2> QED
    BY <1>3, <1>5, <2>2, <2>3
<1> QED
  BY <1>4, <1>5

(* The pairs below a node are pairs, and each of its keys is in one place. *)
LEMMA PairsFunctional ==
  ASSUME NEW w, World(w), NEW kvs, NEW ptr, NEW S, NEW d \in Nat, FitsBut(w, kvs, ptr, S, d)
  PROVE  PairsBut(w, kvs, ptr, S, d) \subseteq KVs /\ Functional(PairsBut(w, kvs, ptr, S, d))
<1> DEFINE Own   == {kvs[x] : x \in 1 .. Len(kvs)}
           I     == (1 .. Len(ptr)) \ S
           At(i) == w[ptr[i]].pairs
<1>1. kvs \in Seq(KVs) /\ Len(ptr) = Len(kvs) + 1 /\ InOrder(kvs) /\ Len(kvs) \in Nat
  BY DEF FitsBut
<1>2. \A x \in 1 .. Len(kvs) : kvs[x] \in KVs /\ kvs[x][1] \in Nat
  BY <1>1, KeysAreNumbers
<1>3. \A x, y \in 1 .. Len(kvs) : kvs[x][1] = kvs[y][1] => x = y
  <2> SUFFICES ASSUME NEW x \in 1 .. Len(kvs), NEW y \in 1 .. Len(kvs), kvs[x][1] = kvs[y][1], x # y
               PROVE  FALSE
    OBVIOUS
  <2>1. \A u, v \in 1 .. Len(kvs) : u < v => kvs[u][1] < kvs[v][1]
    BY <1>1 DEF InOrder
  <2>2. x < y \/ y < x
    OBVIOUS
  <2> QED
    BY <1>2, <2>1, <2>2
<1>4. CASE d > 0
  <2>1. \A i \in I : /\ At(i) \subseteq KVs /\ Functional(At(i))
                     /\ \A kv \in At(i) : Between(kvs, i, kv[1])
    BY <1>4 DEF FitsBut, ChildFits, World
  <2>2. \A i \in I : i \in 1 .. Len(kvs) + 1
    BY <1>1
  <2>3. ASSUME NEW i \in I, NEW kv \in At(i)
        PROVE  /\ kv \in KVs /\ kv[1] \in Nat
               /\ \A x \in 1 .. Len(kvs) : x < i => kvs[x][1] < kv[1]
               /\ \A x \in 1 .. Len(kvs) : x >= i => kv[1] < kvs[x][1]
    <3>1. kv \in KVs /\ kv[1] \in Key /\ Between(kvs, i, kv[1])
      BY <2>1 DEF KVs
    <3>2. i \in 1 .. Len(kvs) + 1
      BY <2>2
    <3>3. kv[1] \in Nat
      BY <3>1, NodeAssumption
    <3> QED
      BY <1>1, <3>1, <3>2, <3>3, Placed
  <2>4. ASSUME NEW i \in I, NEW j \in I, NEW a \in At(i), NEW b \in At(j), i < j
        PROVE  a[1] # b[1]
    <3>1. i \in 1 .. Len(kvs)
      BY <1>1, <2>2, <2>4
    <3>2. a[1] < kvs[i][1] /\ kvs[i][1] < b[1]
      BY <2>3, <2>4, <3>1
    <3> QED
      BY <1>2, <2>3, <3>1, <3>2
  <2>5. ASSUME NEW i \in I, NEW a \in At(i), NEW x \in 1 .. Len(kvs) PROVE a[1] # kvs[x][1]
    <3>1. x < i \/ x >= i
      BY <2>2
    <3> QED
      BY <1>2, <2>3, <3>1
  <2>6. PairsBut(w, kvs, ptr, S, d) = Own \cup UNION {At(i) : i \in I}
    BY <1>4 DEF PairsBut
  <2> HIDE DEF At, I
  <2>7. Own \cup UNION {At(i) : i \in I} \subseteq KVs
    BY <1>2, <2>3
  <2>8. ASSUME NEW a \in Own \cup UNION {At(i) : i \in I}, NEW b \in Own \cup UNION {At(i) : i \in I},
               a[1] = b[1]
        PROVE  a = b
    <3>1. CASE a \in Own /\ b \in Own
      BY <1>3, <2>8, <3>1
    <3>2. CASE a \in Own /\ b \notin Own
      BY <2>5, <2>8, <3>2
    <3>3. CASE a \notin Own /\ b \in Own
      BY <2>5, <2>8, <3>3
    <3>4. CASE a \notin Own /\ b \notin Own
      <4>1. PICK i \in I, j \in I : a \in At(i) /\ b \in At(j)
        BY <2>8, <3>4
      <4>2. i \in Int /\ j \in Int
        BY <2>2
      <4>3. i = j
        BY <2>4, <2>8, <4>1, <4>2
      <4> QED
        BY <2>1, <2>8, <4>1, <4>3 DEF Functional
    <3> QED
      BY <3>1, <3>2, <3>3, <3>4
  <2> QED
    BY <2>6, <2>7, <2>8 DEF Functional
<1>5. CASE ~(d > 0)
  <2>1. PairsBut(w, kvs, ptr, S, d) = Own
    BY <1>5 DEF PairsBut
  <2>2. ASSUME NEW a \in Own, NEW b \in Own, a[1] = b[1] PROVE a = b
    BY <1>3, <2>2
  <2> QED
    BY <1>2, <2>1, <2>2 DEF Functional
<1> QED
  BY <1>4, <1>5

(* x is a world with page q more than w.                                   *)
Grown(w, x, q, e) == World(x) /\ Later(w, x) /\ DOMAIN x = DOMAIN w \cup {q} /\ x[q] = e

(* A page that a node is written to is part of the world.                  *)
LEMMA ExtendWorld ==
  ASSUME NEW w, World(w), NEW q, q \notin DOMAIN w, NEW n, NEW d, Fits(w, n, d)
  PROVE  Grown(w, Extended(w, q, Entry(w, n, d)), q, Entry(w, n, d))
<1> DEFINE e == Entry(w, n, d)
           x == Extended(w, q, e)
<1>1. DOMAIN x = DOMAIN w \cup {q} /\ x[q] = e /\ \A p \in DOMAIN w : x[p] = w[p]
  BY DEF Extended
<1>2. e.node = n /\ e.pairs = PairsOf(w, n, d) /\ e.depth = d
  BY DEF Entry
<1> HIDE DEF e, x
<1>3. Later(w, x)
  BY <1>1 DEF Later
<1>4. \A v, c : Fits(w, v, c) => Fits(x, v, c) /\ PairsOf(x, v, c) = PairsOf(w, v, c)
  BY <1>3, LaterFits DEF Fits, PairsOf
<1>5. PairsOf(w, n, d) \subseteq KVs /\ Functional(PairsOf(w, n, d))
  BY PairsFunctional DEF Fits, PairsOf
<1>6. ASSUME NEW p \in DOMAIN x
      PROVE  /\ Fits(x, x[p].node, x[p].depth)
             /\ x[p].pairs = PairsOf(x, x[p].node, x[p].depth)
             /\ x[p].pairs \subseteq KVs /\ Functional(x[p].pairs)
  <2>1. CASE p = q
    BY <1>1, <1>2, <1>4, <1>5, <2>1, Zenon
  <2>2. CASE p # q
    <3>1. p \in DOMAIN w /\ x[p] = w[p]
      BY <1>1, <2>2
    <3>2. Fits(w, w[p].node, w[p].depth) /\ w[p].pairs = PairsOf(w, w[p].node, w[p].depth)
      BY <3>1, Zenon DEF World
    <3>3. w[p].pairs \subseteq KVs /\ Functional(w[p].pairs)
      BY <3>1, Zenon DEF World
    <3> QED
      BY <3>1, <3>2, <3>3, <1>4, Zenon
  <2> QED
    BY <2>1, <2>2
<1> QED
  BY <1>1, <1>3, <1>6, Zenon DEF World, Grown, x, e

-----------------------------------------------------------------------------
(* c is list a, then kv, then list b.                                      *)
Joins(c, a, kv, b) ==
  /\ a \in Seq(KVs) /\ b \in Seq(KVs) /\ kv \in KVs
  /\ c \in Seq(KVs) /\ Len(c) = Len(a) + Len(b) + 1
  /\ Len(a) \in Nat /\ Len(b) \in Nat
  /\ \A x \in 1 .. Len(a) : c[x] = a[x]
  /\ c[Len(a) + 1] = kv
  /\ \A x \in 1 .. Len(b) : c[Len(a) + 1 + x] = b[x]

(* Two lists around a pair are joined by it.                               *)
LEMMA WithPairBetween ==
  ASSUME NEW a \in Seq(KVs), NEW b \in Seq(KVs), NEW kv \in KVs
  PROVE  Joins((a \o <<kv>>) \o b, a, kv, b)
<1>1. <<kv>> \in Seq(KVs) /\ Len(<<kv>>) = 1 /\ <<kv>>[1] = kv
  OBVIOUS
<1> DEFINE one == <<kv>>
           h == a \o one
           c == h \o b
<1>2. Len(a) \in Nat /\ Len(b) \in Nat
  OBVIOUS
<1>3. /\ h \in Seq(KVs) /\ Len(h) = Len(a) + Len(one)
      /\ \A x \in 1 .. Len(a) + Len(one) : h[x] = IF x <= Len(a) THEN a[x] ELSE one[x - Len(a)]
  BY <1>1, ConcatProperties
<1> HIDE DEF one
<1>4. /\ Len(h) = Len(a) + 1 /\ \A x \in 1 .. Len(a) : h[x] = a[x]
  <2>1. Len(one) = 1 /\ one[1] = kv
    BY <1>1 DEF one
  <2> QED
    BY <1>2, <1>3, <2>1
<1>5. h[Len(a) + 1] = kv
  <2>1. Len(one) = 1 /\ one[1] = kv
    BY <1>1 DEF one
  <2>2. Len(a) + 1 \in 1 .. Len(a) + Len(one) /\ ~(Len(a) + 1 <= Len(a)) /\ (Len(a) + 1) - Len(a) = 1
    BY <1>2, <2>1
  <2> QED
    BY <1>3, <2>1, <2>2
<1>6. c = (a \o <<kv>>) \o b
  BY DEF one
<1> HIDE DEF h
<1>7. /\ c \in Seq(KVs) /\ Len(c) = Len(h) + Len(b)
      /\ \A x \in 1 .. Len(h) + Len(b) : c[x] = IF x <= Len(h) THEN h[x] ELSE b[x - Len(h)]
  <2>1. h \in Seq(KVs) /\ b \in Seq(KVs)
    BY <1>3
  <2>2. \A s, t \in Seq(KVs) :
          /\ s \o t \in Seq(KVs) /\ Len(s \o t) = Len(s) + Len(t)
          /\ \A x \in 1 .. Len(s) + Len(t) : (s \o t)[x] = IF x <= Len(s) THEN s[x] ELSE t[x - Len(s)]
    BY ConcatProperties, Zenon
  <2> QED
    BY <2>1, <2>2, Zenon
<1> HIDE DEF c
<1>8. Len(c) = Len(a) + Len(b) + 1
  BY <1>2, <1>4, <1>7
<1>9. \A x \in 1 .. Len(a) : c[x] = a[x]
  BY <1>2, <1>4, <1>7
<1>10. c[Len(a) + 1] = kv
  BY <1>2, <1>4, <1>5, <1>7
<1>11. \A x \in 1 .. Len(b) : c[Len(a) + 1 + x] = b[x]
  <2> TAKE x \in 1 .. Len(b)
  <2>1. /\ Len(a) + 1 + x \in 1 .. Len(h) + Len(b) /\ ~(Len(a) + 1 + x <= Len(h))
        /\ (Len(a) + 1 + x) - Len(h) = x
    BY <1>2, <1>4
  <2> QED
    BY <1>7, <2>1
<1> QED
  BY <1>2, <1>6, <1>7, <1>8, <1>9, <1>10, <1>11, Zenon DEF Joins

(* Where a key belongs among them.                                         *)
LEMMA BetweenOfJoined ==
  ASSUME NEW a, NEW b, NEW kv, NEW c, Joins(c, a, kv, b), NEW k
  PROVE  /\ \A i \in 1 .. Len(a) + 1 :
              Between(c, i, k) <=> Between(a, i, k) /\ (i = Len(a) + 1 => k < kv[1])
         /\ \A i \in 1 .. Len(b) + 1 :
              Between(c, Len(a) + 1 + i, k) <=> Between(b, i, k) /\ (i = 1 => kv[1] < k)
<1>1. /\ c \in Seq(KVs) /\ Len(c) = Len(a) + Len(b) + 1
      /\ Len(a) \in Nat /\ Len(b) \in Nat
      /\ \A x \in 1 .. Len(a) : c[x] = a[x]
      /\ c[Len(a) + 1] = kv
      /\ \A x \in 1 .. Len(b) : c[Len(a) + 1 + x] = b[x]
  BY Zenon DEF Joins
<1> DEFINE A == Len(a)
           B == Len(b)
<1>2. ASSUME NEW i \in 1 .. A + 1
      PROVE  Between(c, i, k) <=> Between(a, i, k) /\ (i = A + 1 => k < kv[1])
  <2>1. i > 1 => i - 1 \in 1 .. A /\ c[i - 1] = a[i - 1]
    BY <1>1
  <2>2. i <= A => i \in 1 .. A /\ c[i] = a[i] /\ i # A + 1
    BY <1>1
  <2>3. ~(i <= A) => i = A + 1 /\ c[i] = kv
    BY <1>1
  <2>4. i <= Len(c)
    BY <1>1
  <2> QED
    BY <2>1, <2>2, <2>3, <2>4 DEF Between
<1>3. ASSUME NEW i \in 1 .. B + 1
      PROVE  Between(c, A + 1 + i, k) <=> Between(b, i, k) /\ (i = 1 => kv[1] < k)
  <2>1. A + 1 + i > 1 /\ (A + 1 + i <= Len(c) <=> i <= B)
    BY <1>1
  <2>2. i <= B => c[A + 1 + i] = b[i]
    BY <1>1
  <2>3. i = 1 => c[(A + 1 + i) - 1] = kv
    BY <1>1
  <2>4. i > 1 => c[(A + 1 + i) - 1] = b[i - 1]
    <3> SUFFICES ASSUME i > 1 PROVE c[(A + 1 + i) - 1] = b[i - 1]
      OBVIOUS
    <3>1. i - 1 \in 1 .. B /\ (A + 1 + i) - 1 = A + 1 + (i - 1)
      BY <1>1
    <3> QED
      BY <1>1, <3>1
  <2>5. i = 1 \/ i > 1
    BY <1>1
  <2> QED
    BY <2>1, <2>2, <2>3, <2>4, <2>5 DEF Between
<1> QED
  BY <1>2, <1>3

(* The order of the two lists and of the whole.                            *)
LEMMA OrderOfJoined ==
  ASSUME NEW a, NEW b, NEW kv, NEW c, Joins(c, a, kv, b)
  PROVE  InOrder(c) <=> /\ InOrder(a) /\ InOrder(b)
                        /\ \A x \in 1 .. Len(a) : a[x][1] < kv[1]
                        /\ \A x \in 1 .. Len(b) : kv[1] < b[x][1]
<1> DEFINE A == Len(a)
           B == Len(b)
<1>1. /\ c \in Seq(KVs) /\ Len(c) = A + B + 1
      /\ A \in Nat /\ B \in Nat
      /\ \A x \in 1 .. A : c[x] = a[x]
      /\ c[A + 1] = kv
      /\ \A x \in 1 .. B : c[A + 1 + x] = b[x]
      /\ a \in Seq(KVs) /\ b \in Seq(KVs) /\ kv \in KVs
  BY Zenon DEF Joins
<1>2. /\ DOMAIN a = 1 .. A /\ DOMAIN b = 1 .. B /\ DOMAIN c = 1 .. A + B + 1
  BY <1>1
<1>3. /\ kv[1] \in Nat /\ \A x \in 1 .. A : a[x][1] \in Nat
      /\ \A x \in 1 .. B : b[x][1] \in Nat
  <2>1. kv[1] \in Nat
    BY <1>1, NodeAssumption DEF KVs
  <2>2. \A x \in 1 .. A : a[x][1] \in Nat
    BY <1>1, KeysAreNumbers
  <2>3. \A x \in 1 .. B : b[x][1] \in Nat
    BY <1>1, KeysAreNumbers
  <2> QED
    BY <2>1, <2>2, <2>3
<1>4. ASSUME InOrder(c)
      PROVE  /\ InOrder(a) /\ InOrder(b)
             /\ \A x \in 1 .. A : a[x][1] < kv[1]
             /\ \A x \in 1 .. B : kv[1] < b[x][1]
  <2>1. \A x, y \in 1 .. A + B + 1 : x < y => c[x][1] < c[y][1]
    BY <1>2, <1>4 DEF InOrder
  <2> HIDE DEF A, B
  <2>2. \A x, y \in 1 .. A : x < y => a[x][1] < a[y][1]
    BY <1>1, <2>1
  <2>3. ASSUME NEW x \in 1 .. B, NEW y \in 1 .. B, x < y PROVE b[x][1] < b[y][1]
    <3>1. A + 1 + x \in 1 .. A + B + 1 /\ A + 1 + y \in 1 .. A + B + 1 /\ A + 1 + x < A + 1 + y
      BY <1>1, <2>3
    <3>2. c[A + 1 + x] = b[x] /\ c[A + 1 + y] = b[y]
      BY <1>1
    <3> QED
      BY <2>1, <3>1, <3>2
  <2>4. \A x \in 1 .. A : a[x][1] < kv[1]
    BY <1>1, <2>1
  <2>5. ASSUME NEW x \in 1 .. B PROVE kv[1] < b[x][1]
    <3>1. A + 1 + x \in 1 .. A + B + 1 /\ A + 1 \in 1 .. A + B + 1 /\ A + 1 < A + 1 + x
      BY <1>1
    <3>2. c[A + 1 + x] = b[x] /\ c[A + 1] = kv
      BY <1>1
    <3> QED
      BY <2>1, <3>1, <3>2
  <2> QED
    BY <1>2, <2>2, <2>3, <2>4, <2>5 DEF InOrder
<1>5. ASSUME InOrder(a), InOrder(b), \A x \in 1 .. A : a[x][1] < kv[1],
             \A x \in 1 .. B : kv[1] < b[x][1]
      PROVE  InOrder(c)
  <2>1. /\ \A x, y \in 1 .. A : x < y => a[x][1] < a[y][1]
        /\ \A x, y \in 1 .. B : x < y => b[x][1] < b[y][1]
    BY <1>2, <1>5 DEF InOrder
  <2> SUFFICES ASSUME NEW x \in 1 .. A + B + 1, NEW y \in 1 .. A + B + 1, x < y
               PROVE  c[x][1] < c[y][1]
    BY <1>2 DEF InOrder
  <2> HIDE DEF A, B
  <2>2. \A z \in 1 .. A + B + 1 : \/ z \in 1 .. A /\ c[z] = a[z]
                                  \/ z = A + 1 /\ c[z] = kv
                                  \/ z - A - 1 \in 1 .. B /\ c[z] = b[z - A - 1]
    <3> TAKE z \in 1 .. A + B + 1
    <3> DEFINE u == z - A - 1
    <3>1. CASE z <= A
      BY <1>1, <3>1
    <3>2. CASE z = A + 1
      BY <1>1, <3>2
    <3>3. CASE z > A + 1
      <4>0. A \in Nat /\ B \in Nat /\ z \in Int /\ z <= A + B + 1
        <5>1. A \in Nat /\ B \in Nat
          BY <1>1
        <5> QED
          BY <5>1
      <4>1. u \in 1 .. B /\ A + 1 + u = z
        BY <3>3, <4>0
      <4> HIDE DEF u
      <4>2. c[A + 1 + u] = b[u]
        BY <1>1, <4>1
      <4> QED
        BY <4>1, <4>2 DEF u
    <3> QED
      BY <1>1, <3>1, <3>2, <3>3
  <2>3. CASE y \in 1 .. A /\ c[y] = a[y]
    <3>1. x \in 1 .. A
      BY <1>1, <2>3
    <3> QED
      BY <1>1, <2>1, <2>3, <3>1
  <2>4. CASE y = A + 1 /\ c[y] = kv
    <3>1. x \in 1 .. A
      BY <1>1, <2>4
    <3> QED
      BY <1>1, <1>5, <2>4, <3>1 DEF A
  <2>5. CASE y - A - 1 \in 1 .. B /\ c[y] = b[y - A - 1]
    <3> DEFINE z == y - A - 1
    <3>1. kv[1] < b[z][1] /\ b[z][1] \in Nat
      BY <1>3, <1>5, <2>5 DEF B
    <3>2. CASE x \in 1 .. A /\ c[x] = a[x]
      <4>1. a[x][1] < kv[1] /\ a[x][1] \in Nat
        BY <1>3, <1>5, <3>2 DEF A
      <4> QED
        BY <1>3, <2>5, <3>1, <3>2, <4>1
    <3>3. CASE x = A + 1 /\ c[x] = kv
      BY <2>5, <3>1, <3>3
    <3>4. CASE x - A - 1 \in 1 .. B /\ c[x] = b[x - A - 1]
      <4>1. x - A - 1 < z
        BY <1>1
      <4> QED
        BY <2>1, <2>5, <3>4, <4>1
    <3> QED
      BY <2>2, <3>2, <3>3, <3>4
  <2> QED
    BY <2>2, <2>3, <2>4, <2>5
<1> QED
  BY <1>4, <1>5

(* The pointers of two nodes one after the other.                          *)
LEMMA PointersJoined ==
  ASSUME NEW p \in Seq(Nat), NEW q \in Seq(Nat)
  PROVE  /\ p \o q \in Seq(Nat) /\ Len(p \o q) = Len(p) + Len(q) /\ Len(p) \in Nat /\ Len(q) \in Nat
         /\ \A i \in 1 .. Len(p) : (p \o q)[i] = p[i]
         /\ \A i \in 1 .. Len(q) : (p \o q)[Len(p) + i] = q[i]
<1>1. PICK N : N = Nat
  OBVIOUS
<1>2. p \in Seq(N) /\ q \in Seq(N) /\ Len(p) \in Nat /\ Len(q) \in Nat
  BY <1>1
<1>3. \A S : \A s, t \in Seq(S) :
          /\ s \o t \in Seq(S) /\ Len(s \o t) = Len(s) + Len(t)
          /\ \A x \in 1 .. Len(s) + Len(t) : (s \o t)[x] = IF x <= Len(s) THEN s[x] ELSE t[x - Len(s)]
  BY ConcatProperties, Zenon
<1> DEFINE r == p \o q
<1>4. /\ r \in Seq(N) /\ Len(r) = Len(p) + Len(q)
      /\ \A x \in 1 .. Len(p) + Len(q) : r[x] = IF x <= Len(p) THEN p[x] ELSE q[x - Len(p)]
  BY <1>2, <1>3, Zenon
<1> HIDE DEF r
<1>5. \A i \in 1 .. Len(p) : r[i] = p[i]
  BY <1>2, <1>4
<1>6. ASSUME NEW i \in 1 .. Len(q) PROVE r[Len(p) + i] = q[i]
  <2>1. Len(p) + i \in 1 .. Len(p) + Len(q) /\ ~(Len(p) + i <= Len(p)) /\ (Len(p) + i) - Len(p) = i
    BY <1>2
  <2> QED
    BY <1>4, <2>1
<1> QED
  BY <1>1, <1>2, <1>4, <1>5, <1>6 DEF r

(* The places of two lists with one place between them.                    *)
LEMMA Places ==
  ASSUME NEW A \in Nat, NEW B \in Nat
  PROVE  /\ \A z \in 1 .. A + B + 1 : z \in 1 .. A \/ z = A + 1 \/ \E x \in 1 .. B : z = A + 1 + x
         /\ \A x \in 1 .. A : x \in 1 .. A + B + 1
         /\ A + 1 \in 1 .. A + B + 1
         /\ \A x \in 1 .. B : A + 1 + x \in 1 .. A + B + 1
         /\ \A z \in 1 .. A + B + 2 : z \in 1 .. A + 1 \/ \E x \in 1 .. B + 1 : z = A + 1 + x
         /\ \A x \in 1 .. A + 1 : x \in 1 .. A + B + 2
         /\ \A x \in 1 .. B + 1 : A + 1 + x \in 1 .. A + B + 2
<1>1. ASSUME NEW z \in 1 .. A + B + 1, z > A + 1 PROVE \E x \in 1 .. B : z = A + 1 + x
  <2>1. z - A - 1 \in 1 .. B /\ z = A + 1 + (z - A - 1)
    BY <1>1
  <2> QED
    BY <2>1, Zenon
<1>2. ASSUME NEW z \in 1 .. A + B + 2, z > A + 1 PROVE \E x \in 1 .. B + 1 : z = A + 1 + x
  <2>1. z - A - 1 \in 1 .. B + 1 /\ z = A + 1 + (z - A - 1)
    BY <1>2
  <2> QED
    BY <2>1, Zenon
<1>3. \A z \in 1 .. A + B + 1 : z \in 1 .. A \/ z = A + 1 \/ z > A + 1
  OBVIOUS
<1>4. \A z \in 1 .. A + B + 2 : z \in 1 .. A + 1 \/ z > A + 1
  OBVIOUS
<1>5. /\ \A x \in 1 .. A : x \in 1 .. A + B + 1
      /\ A + 1 \in 1 .. A + B + 1
      /\ \A x \in 1 .. B : A + 1 + x \in 1 .. A + B + 1
      /\ \A x \in 1 .. A + 1 : x \in 1 .. A + B + 2
      /\ \A x \in 1 .. B + 1 : A + 1 + x \in 1 .. A + B + 2
  OBVIOUS
<1> QED
  BY <1>1, <1>2, <1>3, <1>4, <1>5, Zenon

(* The pointers of a node d levels up, where they count, are p, then q.    *)
Strung(d, r, p, q) ==
  /\ p \in Seq(Nat) /\ q \in Seq(Nat) /\ r \in Seq(Nat)
  /\ d > 0 => r = p \o q

(* Two nodes with a pair between them fit as one node would, and hold what *)
(* it holds: a cut can be moved without looking below the pointers.        *)
LikeJoined(w, c, r, a, p, kv, b, q, d) ==
  /\ FitsBut(w, c, r, {}, d) <=>
       /\ FitsBut(w, a, p, {}, d) /\ FitsBut(w, b, q, {}, d) /\ Small(kv)
       /\ \A u \in PairsBut(w, a, p, {}, d) : u[1] < kv[1]
       /\ \A u \in PairsBut(w, b, q, {}, d) : kv[1] < u[1]
  /\ PairsBut(w, c, r, {}, d) =
       PairsBut(w, a, p, {}, d) \cup {kv} \cup PairsBut(w, b, q, {}, d)

(* A node joined of two parts fits exactly when the parts do and the pair  *)
(* lies between all that they hold; its pairs are theirs and that one.     *)
LEMMA JoinedFits ==
  ASSUME NEW w, World(w), NEW a, NEW b, NEW kv, NEW c, Joins(c, a, kv, b),
         NEW d \in Nat, NEW r, NEW p, NEW q, Strung(d, r, p, q),
         Len(p) = Len(a) + 1, Len(q) = Len(b) + 1, Len(r) = Len(c) + 1
  PROVE  LikeJoined(w, c, r, a, p, kv, b, q, d)
<1> DEFINE A == Len(a)
           B == Len(b)
<1>0. p \in Seq(Nat) /\ q \in Seq(Nat) /\ r \in Seq(Nat) /\ (d > 0 => r = p \o q)
  BY Zenon DEF Strung
<1>1. /\ a \in Seq(KVs) /\ b \in Seq(KVs) /\ kv \in KVs
      /\ c \in Seq(KVs) /\ Len(c) = A + B + 1
      /\ A \in Nat /\ B \in Nat
      /\ \A x \in 1 .. A : c[x] = a[x]
      /\ c[A + 1] = kv
      /\ \A x \in 1 .. B : c[A + 1 + x] = b[x]
  BY Zenon DEF Joins
<1>2. /\ \A z \in 1 .. A + B + 1 : z \in 1 .. A \/ z = A + 1 \/ \E x \in 1 .. B : z = A + 1 + x
      /\ \A x \in 1 .. A : x \in 1 .. A + B + 1
      /\ A + 1 \in 1 .. A + B + 1
      /\ \A x \in 1 .. B : A + 1 + x \in 1 .. A + B + 1
      /\ \A z \in 1 .. A + B + 2 : z \in 1 .. A + 1 \/ \E x \in 1 .. B + 1 : z = A + 1 + x
      /\ \A x \in 1 .. A + 1 : x \in 1 .. A + B + 2
      /\ \A x \in 1 .. B + 1 : A + 1 + x \in 1 .. A + B + 2
  BY <1>1, Places, Zenon
<1>4. {c[x] : x \in 1 .. Len(c)} = {a[x] : x \in 1 .. A} \cup {kv} \cup {b[x] : x \in 1 .. B}
  <2> DEFINE whole == {c[x] : x \in 1 .. A + B + 1}
             parts == {a[x] : x \in 1 .. A} \cup {kv} \cup {b[x] : x \in 1 .. B}
  <2> HIDE DEF A, B
  <2>1. ASSUME NEW z \in 1 .. A + B + 1 PROVE c[z] \in parts
    <3>1. CASE z \in 1 .. A
      BY <1>1, <3>1, Zenon
    <3>2. CASE z = A + 1
      BY <1>1, <3>2, Zenon
    <3>3. CASE \E x \in 1 .. B : z = A + 1 + x
      <4>1. PICK x \in 1 .. B : z = A + 1 + x
        BY <3>3
      <4>2. c[z] = b[x]
        BY <1>1, <4>1, Zenon
      <4> QED
        BY <4>2, Zenon
    <3> QED
      BY <1>2, <3>1, <3>2, <3>3, Zenon
  <2>2. /\ \A x \in 1 .. A : a[x] \in whole
        /\ kv \in whole
        /\ \A x \in 1 .. B : b[x] \in whole
    <3>1. \A z \in 1 .. A + B + 1 : c[z] \in whole
      BY Zenon
    <3> HIDE DEF whole
    <3> QED
      BY <1>1, <1>2, <3>1, Zenon
  <2>3. whole \subseteq parts
    BY <2>1, Zenon
  <2>4. parts \subseteq whole
    <3> HIDE DEF whole
    <3> QED
      BY <2>2, Zenon
  <2>5. Len(c) = A + B + 1
    BY <1>1
  <2> QED
    BY <2>3, <2>4, <2>5, Zenon
<1>5. (\A x \in 1 .. Len(c) : Small(c[x])) <=>
        (\A x \in 1 .. A : Small(a[x])) /\ Small(kv) /\ (\A x \in 1 .. B : Small(b[x]))
  BY <1>4, Zenon
<1>6. InOrder(c) <=> /\ InOrder(a) /\ InOrder(b)
                     /\ \A x \in 1 .. A : a[x][1] < kv[1]
                     /\ \A x \in 1 .. B : kv[1] < b[x][1]
  BY OrderOfJoined
<1>7. CASE ~(d > 0)
  <2>1. /\ PairsBut(w, c, r, {}, d) = {c[x] : x \in 1 .. Len(c)}
        /\ PairsBut(w, a, p, {}, d) = {a[x] : x \in 1 .. A}
        /\ PairsBut(w, b, q, {}, d) = {b[x] : x \in 1 .. B}
    BY <1>7 DEF PairsBut
  <2>2. /\ FitsBut(w, c, r, {}, d) <=> InOrder(c) /\ \A x \in 1 .. Len(c) : Small(c[x])
        /\ FitsBut(w, a, p, {}, d) <=> InOrder(a) /\ \A x \in 1 .. A : Small(a[x])
        /\ FitsBut(w, b, q, {}, d) <=> InOrder(b) /\ \A x \in 1 .. B : Small(b[x])
    BY <1>0, <1>1, <1>7, Zenon DEF FitsBut
  <2>3. /\ (\A u \in PairsBut(w, a, p, {}, d) : u[1] < kv[1]) <=> \A x \in 1 .. A : a[x][1] < kv[1]
        /\ (\A u \in PairsBut(w, b, q, {}, d) : kv[1] < u[1]) <=> \A x \in 1 .. B : kv[1] < b[x][1]
    BY <2>1, Zenon
  <2> QED
    BY <1>4, <1>5, <1>6, <2>1, <2>2, <2>3, Zenon DEF LikeJoined
<1>8. CASE d > 0
  <2>1. /\ Len(r) = A + B + 2
        /\ \A i \in 1 .. A + 1 : r[i] = p[i]
        /\ \A i \in 1 .. B + 1 : r[A + 1 + i] = q[i]
    <3>1. /\ Len(p \o q) = Len(p) + Len(q)
          /\ \A i \in 1 .. Len(p) : (p \o q)[i] = p[i]
          /\ \A i \in 1 .. Len(q) : (p \o q)[Len(p) + i] = q[i]
      BY <1>0, PointersJoined, Zenon
    <3>2. Len(r) = A + B + 2
      BY <1>1
    <3> QED
      BY <1>0, <1>8, <3>1, <3>2, Zenon
  <2>2. /\ (1 .. Len(r)) \ {} = 1 .. A + B + 2 /\ (1 .. Len(p)) \ {} = 1 .. A + 1
        /\ (1 .. Len(q)) \ {} = 1 .. B + 1
    BY <2>1
  <2> DEFINE At(s, i) == w[s[i]].pairs
             BelowA == UNION {At(p, i) : i \in 1 .. A + 1}
             BelowB == UNION {At(q, i) : i \in 1 .. B + 1}
             BelowC == UNION {At(r, i) : i \in 1 .. A + B + 2}
  <2>3. /\ PairsBut(w, c, r, {}, d) = {c[x] : x \in 1 .. Len(c)} \cup BelowC
        /\ PairsBut(w, a, p, {}, d) = {a[x] : x \in 1 .. A} \cup BelowA
        /\ PairsBut(w, b, q, {}, d) = {b[x] : x \in 1 .. B} \cup BelowB
    BY <1>8, <2>2, Zenon DEF PairsBut
  <2>4. BelowC = BelowA \cup BelowB
    <3>1. /\ \A i \in 1 .. A + 1 : At(r, i) = At(p, i)
          /\ \A i \in 1 .. B + 1 : At(r, A + 1 + i) = At(q, i)
      BY <2>1, Zenon
    <3> HIDE DEF At, A, B
    <3>2. ASSUME NEW i \in 1 .. A + B + 2, NEW u \in At(r, i) PROVE u \in BelowA \cup BelowB
      <4>1. CASE i \in 1 .. A + 1
        BY <3>1, <3>2, <4>1, Zenon
      <4>2. CASE \E x \in 1 .. B + 1 : i = A + 1 + x
        <5>1. PICK x \in 1 .. B + 1 : i = A + 1 + x
          BY <4>2
        <5>2. u \in At(q, x)
          BY <3>1, <3>2, <5>1, Zenon
        <5> QED
          BY <5>2, Zenon
      <4> QED
        BY <1>2, <4>1, <4>2, Zenon
    <3>3. ASSUME NEW i \in 1 .. A + 1, NEW u \in At(p, i) PROVE u \in BelowC
      BY <1>2, <3>1, Zenon
    <3>4. ASSUME NEW i \in 1 .. B + 1, NEW u \in At(q, i) PROVE u \in BelowC
      BY <1>2, <3>1, Zenon
    <3> QED
      BY <3>2, <3>3, <3>4, Zenon
  <2> HIDE DEF BelowA, BelowB, BelowC
  <2>5. PairsBut(w, c, r, {}, d) =
          PairsBut(w, a, p, {}, d) \cup {kv} \cup PairsBut(w, b, q, {}, d)
    BY <1>4, <2>3, <2>4
  <2> DEFINE Good(n) == n \in DOMAIN w /\ w[n].depth = d - 1 /\ w[n].node.kvs # << >>
             C(kvs, s, i) == Good(s[i]) /\ \A u \in At(s, i) : Between(kvs, i, u[1])
  <2>6. /\ FitsBut(w, c, r, {}, d) <=>
             InOrder(c) /\ (\A x \in 1 .. Len(c) : Small(c[x])) /\ \A i \in 1 .. A + B + 2 : C(c, r, i)
        /\ FitsBut(w, a, p, {}, d) <=>
             InOrder(a) /\ (\A x \in 1 .. A : Small(a[x])) /\ \A i \in 1 .. A + 1 : C(a, p, i)
        /\ FitsBut(w, b, q, {}, d) <=>
             InOrder(b) /\ (\A x \in 1 .. B : Small(b[x])) /\ \A i \in 1 .. B + 1 : C(b, q, i)
    BY <1>0, <1>1, <1>8, <2>2, Zenon DEF FitsBut, ChildFits
  <2>7. /\ \A i \in 1 .. A + 1 : C(c, r, i) <=>
             C(a, p, i) /\ (i = A + 1 => \A u \in At(p, i) : u[1] < kv[1])
        /\ \A i \in 1 .. B + 1 : C(c, r, A + 1 + i) <=>
             C(b, q, i) /\ (i = 1 => \A u \in At(q, i) : kv[1] < u[1])
    <3>1. ASSUME NEW k
          PROVE  /\ \A i \in 1 .. A + 1 :
                      Between(c, i, k) <=> Between(a, i, k) /\ (i = A + 1 => k < kv[1])
                 /\ \A i \in 1 .. B + 1 :
                      Between(c, A + 1 + i, k) <=> Between(b, i, k) /\ (i = 1 => kv[1] < k)
      <4>1. Joins(c, a, kv, b)
        OBVIOUS
      <4> QED
        BY <4>1, BetweenOfJoined, ZenonT(150)
    <3> HIDE DEF A, B, Good
    <3> QED
      BY <2>1, <3>1, Zenon
  <2>8. (\A i \in 1 .. A + B + 2 : C(c, r, i)) <=>
          /\ \A i \in 1 .. A + 1 : C(c, r, i)
          /\ \A i \in 1 .. B + 1 : C(c, r, A + 1 + i)
    <3> HIDE DEF C, A, B
    <3> QED
      BY <1>2, Zenon
  <2>9. ASSUME NEW i \in 1 .. A + B + 2, C(c, r, i), InOrder(c), NEW u \in At(r, i)
        PROVE  /\ \A x \in 1 .. Len(c) : x < i => c[x][1] < u[1]
               /\ \A x \in 1 .. Len(c) : x >= i => u[1] < c[x][1]
    <3>1. u \in KVs /\ u[1] \in Key /\ Between(c, i, u[1])
      BY <2>9 DEF World, KVs
    <3>2. i \in 1 .. Len(c) + 1
      BY <1>1
    <3> QED
      BY <1>1, <2>9, <3>1, <3>2, Placed
  <2>10. ASSUME FitsBut(w, c, r, {}, d)
         PROVE  /\ \A u \in PairsBut(w, a, p, {}, d) : u[1] < kv[1]
                /\ \A u \in PairsBut(w, b, q, {}, d) : kv[1] < u[1]
    <3>1. InOrder(c) /\ \A i \in 1 .. A + B + 2 : C(c, r, i)
      BY <2>6, <2>10, Zenon
    <3> HIDE DEF C
    <3>2. ASSUME NEW i \in 1 .. A + 1, NEW u \in At(p, i) PROVE u[1] < kv[1]
      <4>1. i \in 1 .. A + B + 2 /\ u \in At(r, i)
        BY <1>2, <2>1, Zenon
      <4>3. A + 1 \in 1 .. Len(c) /\ A + 1 >= i
        BY <1>1
      <4>2. u[1] < c[A + 1][1]
        BY <2>9, <3>1, <4>1, <4>3, Zenon
      <4> QED
        BY <1>1, <4>2
    <3>3. ASSUME NEW i \in 1 .. B + 1, NEW u \in At(q, i) PROVE kv[1] < u[1]
      <4>1. A + 1 + i \in 1 .. A + B + 2 /\ u \in At(r, A + 1 + i)
        BY <1>2, <2>1, Zenon
      <4>3. A + 1 \in 1 .. Len(c) /\ A + 1 < A + 1 + i
        <5>1. A \in Nat /\ B \in Nat /\ Len(c) = A + B + 1
          BY <1>1, Zenon
        <5> HIDE DEF A, B
        <5> QED
          BY <5>1
      <4>2. c[A + 1][1] < u[1]
        BY <2>9, <3>1, <4>1, <4>3, Zenon
      <4> QED
        BY <1>1, <4>2
    <3>4. \A u \in BelowA : u[1] < kv[1]
      BY <3>2, Zenon DEF BelowA
    <3>5. \A u \in BelowB : kv[1] < u[1]
      BY <3>3, Zenon DEF BelowB
    <3>6. /\ \A x \in 1 .. A : a[x][1] < kv[1]
          /\ \A x \in 1 .. B : kv[1] < b[x][1]
      BY <1>6, <3>1, Zenon
    <3> QED
      BY <2>3, <3>4, <3>5, <3>6, Zenon
  <2>11. ASSUME FitsBut(w, c, r, {}, d)
         PROVE  FitsBut(w, a, p, {}, d) /\ FitsBut(w, b, q, {}, d) /\ Small(kv)
    <3> HIDE DEF C
    <3> QED
      BY <1>5, <1>6, <2>6, <2>7, <2>8, <2>11, Zenon
  <2>12. ASSUME FitsBut(w, a, p, {}, d), FitsBut(w, b, q, {}, d), Small(kv),
                \A u \in PairsBut(w, a, p, {}, d) : u[1] < kv[1],
                \A u \in PairsBut(w, b, q, {}, d) : kv[1] < u[1]
         PROVE  FitsBut(w, c, r, {}, d)
    <3>1. /\ \A x \in 1 .. A : a[x][1] < kv[1]
          /\ \A x \in 1 .. B : kv[1] < b[x][1]
      BY <2>3, <2>12, Zenon
    <3>2. /\ \A i \in 1 .. A + 1 : \A u \in At(p, i) : u[1] < kv[1]
          /\ \A i \in 1 .. B + 1 : \A u \in At(q, i) : kv[1] < u[1]
      BY <2>3, <2>12, Zenon DEF BelowA, BelowB
    <3> HIDE DEF C, At
    <3>3. /\ \A i \in 1 .. A + 1 : C(c, r, i)
          /\ \A i \in 1 .. B + 1 : C(c, r, A + 1 + i)
      BY <2>6, <2>7, <2>12, <3>2, Zenon
    <3> QED
      BY <1>5, <1>6, <2>6, <2>8, <2>12, <3>1, <3>3, Zenon
  <2> QED
    BY <2>5, <2>10, <2>11, <2>12, Zenon DEF LikeJoined
<1> QED
  BY <1>7, <1>8

-----------------------------------------------------------------------------
(* few is kvs without pair j, and fewer is ptr without one of the pointers *)
(* beside it, the other being of no account.                               *)
CutAt(kvs, few, j) ==
  /\ kvs \in Seq(KVs) /\ few \in Seq(KVs) /\ Len(few) \in Nat
  /\ Len(kvs) = Len(few) + 1 /\ j \in 1 .. Len(few) + 1
  /\ \A x \in 1 .. j - 1 : few[x] = kvs[x]
  /\ \A x \in j .. Len(few) : few[x] = kvs[x + 1]

(* Pointers with one removed at j or j + 1: what is at j is of no          *)
(* account.                                                                *)
PtrCutAt(ptr, fewer, j) ==
  /\ ptr \in Seq(Nat) /\ fewer \in Seq(Nat) /\ Len(ptr) = Len(fewer) + 1
  /\ \A x \in 1 .. j - 1 : fewer[x] = ptr[x]
  /\ \A x \in j + 1 .. Len(fewer) : fewer[x] = ptr[x + 1]

(* The places left and right of a cut.                                     *)
LEMMA CutPlaces ==
  ASSUME NEW N \in Nat, NEW j \in 1 .. N + 1
  PROVE  /\ \A x \in 1 .. N + 1 : x \in 1 .. j - 1 \/ x = j \/ \E y \in j .. N : x = y + 1
         /\ \A x \in 1 .. j - 1 : x \in 1 .. N /\ x \in 1 .. N + 1 /\ x < j
         /\ \A x \in j .. N : x \in 1 .. N /\ x + 1 \in 1 .. N + 1 /\ j < x + 1
         /\ \A x \in 1 .. N : x \in 1 .. j - 1 \/ x \in j .. N
         /\ j \in 1 .. N + 1 /\ j \in 1 .. N + 2 /\ j + 1 \in 1 .. N + 2
         /\ \A x \in 1 .. N + 2 :
              x \in 1 .. j - 1 \/ x = j \/ x = j + 1 \/ \E y \in j + 1 .. N + 1 : x = y + 1
         /\ \A x \in 1 .. N + 1 : x \in 1 .. j - 1 \/ x = j \/ x \in j + 1 .. N + 1
         /\ \A x \in 1 .. j - 1 : x \in 1 .. N + 2 /\ x # j /\ x # j + 1
         /\ \A x \in j + 1 .. N + 1 :
              x \in 1 .. N + 1 /\ x + 1 \in 1 .. N + 2 /\ x # j /\ x + 1 # j /\ x + 1 # j + 1
<1>1. ASSUME NEW x \in 1 .. N + 1, x > j PROVE \E y \in j .. N : x = y + 1
  <2>1. x - 1 \in j .. N /\ x = (x - 1) + 1
    BY <1>1
  <2> QED
    BY <2>1, Zenon
<1>2. ASSUME NEW x \in 1 .. N + 2, x > j + 1 PROVE \E y \in j + 1 .. N + 1 : x = y + 1
  <2>1. x - 1 \in j + 1 .. N + 1 /\ x = (x - 1) + 1
    BY <1>2
  <2> QED
    BY <2>1, Zenon
<1>3. /\ \A x \in 1 .. N + 1 : x \in 1 .. j - 1 \/ x = j \/ x > j
      /\ \A x \in 1 .. N + 2 : x \in 1 .. j - 1 \/ x = j \/ x = j + 1 \/ x > j + 1
  OBVIOUS
<1>4. /\ \A x \in 1 .. j - 1 : x \in 1 .. N /\ x \in 1 .. N + 1 /\ x < j
      /\ \A x \in j .. N : x \in 1 .. N /\ x + 1 \in 1 .. N + 1 /\ j < x + 1
      /\ \A x \in 1 .. N : x \in 1 .. j - 1 \/ x \in j .. N
      /\ j \in 1 .. N + 1 /\ j \in 1 .. N + 2 /\ j + 1 \in 1 .. N + 2
      /\ \A x \in 1 .. N + 1 : x \in 1 .. j - 1 \/ x = j \/ x \in j + 1 .. N + 1
      /\ \A x \in 1 .. j - 1 : x \in 1 .. N + 2 /\ x # j /\ x # j + 1
      /\ \A x \in j + 1 .. N + 1 :
           x \in 1 .. N + 1 /\ x + 1 \in 1 .. N + 2 /\ x # j /\ x + 1 # j /\ x + 1 # j + 1
  OBVIOUS
<1> QED
  BY <1>1, <1>2, <1>3, <1>4, Zenon

(* A cut leaves the other places where they are.                           *)
LEMMA BetweenOfCut ==
  ASSUME NEW kvs, NEW few, NEW j, CutAt(kvs, few, j), NEW k
  PROVE  /\ \A i \in 1 .. j - 1 : Between(kvs, i, k) <=> Between(few, i, k)
         /\ \A i \in j + 1 .. Len(few) + 1 : Between(kvs, i + 1, k) <=> Between(few, i, k)
<1>1. /\ Len(few) \in Nat /\ Len(kvs) = Len(few) + 1 /\ j \in 1 .. Len(few) + 1
      /\ \A x \in 1 .. j - 1 : few[x] = kvs[x]
      /\ \A x \in j .. Len(few) : few[x] = kvs[x + 1]
  BY Zenon DEF CutAt
<1>2. ASSUME NEW i \in 1 .. j - 1 PROVE Between(kvs, i, k) <=> Between(few, i, k)
  <2>1. i <= Len(few) /\ i <= Len(kvs) /\ few[i] = kvs[i]
    BY <1>1
  <2>2. i > 1 => few[i - 1] = kvs[i - 1]
    BY <1>1
  <2> QED
    BY <2>1, <2>2 DEF Between
<1>3. ASSUME NEW i \in j + 1 .. Len(few) + 1 PROVE Between(kvs, i + 1, k) <=> Between(few, i, k)
  <2>1. i > 1 /\ i + 1 > 1 /\ (i + 1) - 1 = i /\ (i + 1 <= Len(kvs) <=> i <= Len(few))
    BY <1>1
  <2>2. few[i - 1] = kvs[i]
    <3>1. i - 1 \in j .. Len(few) /\ (i - 1) + 1 = i
      BY <1>1
    <3> QED
      BY <1>1, <3>1
  <2>3. i <= Len(few) => few[i] = kvs[i + 1]
    BY <1>1
  <2> QED
    BY <2>1, <2>2, <2>3 DEF Between
<1> QED
  BY <1>2, <1>3

(* The order of the pairs on either side of it.                            *)
LEMMA OrderOfCut ==
  ASSUME NEW kvs, NEW few, NEW j, CutAt(kvs, few, j)
  PROVE  InOrder(kvs) <=> /\ InOrder(few)
                          /\ \A x \in 1 .. j - 1 : few[x][1] < kvs[j][1]
                          /\ \A x \in j .. Len(few) : kvs[j][1] < few[x][1]
<1> DEFINE N == Len(few)
<1>1. /\ N \in Nat /\ Len(kvs) = N + 1 /\ j \in 1 .. N + 1
      /\ \A x \in 1 .. j - 1 : few[x] = kvs[x]
      /\ \A x \in j .. N : few[x] = kvs[x + 1]
      /\ kvs \in Seq(KVs) /\ few \in Seq(KVs)
  BY Zenon DEF CutAt
<1>2. DOMAIN kvs = 1 .. N + 1 /\ DOMAIN few = 1 .. N
  BY <1>1
<1>3. kvs[j][1] \in Nat /\ \A x \in 1 .. N : few[x][1] \in Nat
  <2>1. j \in 1 .. Len(kvs)
    BY <1>1
  <2> QED
    BY <1>1, <2>1, KeysAreNumbers
<1>4. ASSUME InOrder(kvs)
      PROVE  /\ InOrder(few)
             /\ \A x \in 1 .. j - 1 : few[x][1] < kvs[j][1]
             /\ \A x \in j .. N : kvs[j][1] < few[x][1]
  <2>1. \A x, y \in 1 .. N + 1 : x < y => kvs[x][1] < kvs[y][1]
    BY <1>2, <1>4, Zenon DEF InOrder
  <2> HIDE DEF N
  <2>2. \A x \in 1 .. j - 1 : few[x][1] < kvs[j][1]
    BY <1>1, <2>1
  <2>3. \A x \in j .. N : kvs[j][1] < few[x][1]
    BY <1>1, <2>1
  <2>4. ASSUME NEW x \in 1 .. N, NEW y \in 1 .. N, x < y PROVE few[x][1] < few[y][1]
    <3>1. CASE y < j
      BY <1>1, <2>1, <2>4, <3>1
    <3>2. CASE x < j /\ y >= j
      <4>1. few[x] = kvs[x] /\ few[y] = kvs[y + 1] /\ x \in 1 .. N + 1 /\ y + 1 \in 1 .. N + 1
            /\ x < y + 1
        BY <1>1, <2>4, <3>2
      <4> QED
        BY <2>1, <4>1, Zenon
    <3>3. CASE x >= j
      <4>1. few[x] = kvs[x + 1] /\ few[y] = kvs[y + 1] /\ x + 1 \in 1 .. N + 1 /\ y + 1 \in 1 .. N + 1
            /\ x + 1 < y + 1
        BY <1>1, <2>4, <3>3
      <4> QED
        BY <2>1, <4>1, Zenon
    <3> QED
      BY <1>1, <3>1, <3>2, <3>3
  <2>5. InOrder(few)
    BY <1>2, <2>4, Zenon DEF InOrder
  <2> QED
    BY <2>2, <2>3, <2>5
<1>5. ASSUME InOrder(few), \A x \in 1 .. j - 1 : few[x][1] < kvs[j][1],
             \A x \in j .. N : kvs[j][1] < few[x][1]
      PROVE  InOrder(kvs)
  <2>1. \A x, y \in 1 .. N : x < y => few[x][1] < few[y][1]
    BY <1>2, <1>5, Zenon DEF InOrder
  <2>0. N \in Nat /\ j \in 1 .. N + 1
    BY <1>1, Zenon
  <2> HIDE DEF N
  <2>2. \A z \in 1 .. N + 1 : \/ z \in 1 .. j - 1 /\ kvs[z] = few[z]
                              \/ z = j
                              \/ \E y \in j .. N : z = y + 1 /\ kvs[z] = few[y]
    <3>1. \A z \in 1 .. N + 1 : z \in 1 .. j - 1 \/ z = j \/ \E y \in j .. N : z = y + 1
      BY <2>0, CutPlaces
    <3> QED
      BY <1>1, <3>1, Zenon
  <2>3. ASSUME NEW x \in 1 .. N + 1, NEW y \in 1 .. N + 1, x < y PROVE kvs[x][1] < kvs[y][1]
    <3>1. CASE y \in 1 .. j - 1 /\ kvs[y] = few[y]
      <4>1. x \in 1 .. j - 1 /\ x \in 1 .. N /\ y \in 1 .. N
        BY <2>0, <2>3, <3>1
      <4>2. kvs[x] = few[x]
        BY <1>1, <4>1, Zenon
      <4> QED
        BY <2>1, <2>3, <3>1, <4>1, <4>2, Zenon
    <3>2. CASE y = j
      <4>1. x \in 1 .. j - 1
        BY <2>0, <2>3, <3>2
      <4>2. kvs[x] = few[x]
        BY <1>1, <4>1, Zenon
      <4> QED
        BY <1>5, <3>2, <4>1, <4>2, Zenon
    <3>3. CASE \E u \in j .. N : y = u + 1 /\ kvs[y] = few[u]
      <4>1. PICK u \in j .. N : y = u + 1 /\ kvs[y] = few[u]
        BY <3>3
      <4>2. CASE x \in 1 .. j - 1 /\ kvs[x] = few[x]
        <5>1. x < u /\ x \in 1 .. N /\ u \in 1 .. N
          BY <2>0, <4>1, <4>2
        <5> QED
          BY <2>1, <4>1, <4>2, <5>1, Zenon
      <4>3. CASE x = j
        BY <1>5, <4>1, <4>3, Zenon
      <4>4. CASE \E v \in j .. N : x = v + 1 /\ kvs[x] = few[v]
        <5>1. PICK v \in j .. N : x = v + 1 /\ kvs[x] = few[v]
          BY <4>4
        <5>2. v < u /\ v \in 1 .. N /\ u \in 1 .. N
          BY <2>0, <2>3, <4>1, <5>1
        <5> QED
          BY <2>1, <4>1, <5>1, <5>2, Zenon
      <4> QED
        BY <2>2, <4>2, <4>3, <4>4, Zenon
    <3> QED
      BY <2>2, <3>1, <3>2, <3>3, Zenon
  <2> QED
    BY <1>2, <2>3, Zenon DEF InOrder
<1> QED
  BY <1>4, <1>5

(* A node with two empty places fits as one with the pair between them cut *)
(* out would, with one empty place.                                        *)
LikeCut(w, kvs, ptr, few, fewer, j, d) ==
  /\ FitsBut(w, kvs, ptr, {j, j + 1}, d) <=>
       /\ FitsBut(w, few, fewer, {j}, d) /\ Small(kvs[j])
       /\ \A x \in 1 .. j - 1 : few[x][1] < kvs[j][1]
       /\ \A x \in j .. Len(few) : kvs[j][1] < few[x][1]
  /\ PairsBut(w, kvs, ptr, {j, j + 1}, d) = PairsBut(w, few, fewer, {j}, d) \cup {kvs[j]}

(* A node with two empty places beside pair j, and the node without that   *)
(* pair and with one empty place, fit alike.                               *)
LEMMA CutFits ==
  ASSUME NEW w, NEW kvs, NEW few, NEW j, CutAt(kvs, few, j), NEW ptr, NEW fewer,
         PtrCutAt(ptr, fewer, j), Len(ptr) = Len(kvs) + 1, NEW d
  PROVE  LikeCut(w, kvs, ptr, few, fewer, j, d)
<1> DEFINE N == Len(few)
           I == (1 .. N + 2) \ {j, j + 1}
           J == (1 .. N + 1) \ {j}
<1>1. /\ N \in Nat /\ Len(kvs) = N + 1 /\ j \in 1 .. N + 1
      /\ \A x \in 1 .. j - 1 : few[x] = kvs[x]
      /\ \A x \in j .. N : few[x] = kvs[x + 1]
      /\ kvs \in Seq(KVs) /\ few \in Seq(KVs)
  BY Zenon DEF CutAt
<1>2. /\ ptr \in Seq(Nat) /\ fewer \in Seq(Nat) /\ Len(ptr) = N + 2 /\ Len(fewer) = N + 1
      /\ \A x \in 1 .. j - 1 : fewer[x] = ptr[x]
      /\ \A x \in j + 1 .. N + 1 : fewer[x] = ptr[x + 1]
  <2>1. /\ ptr \in Seq(Nat) /\ fewer \in Seq(Nat) /\ Len(ptr) = Len(fewer) + 1
        /\ \A x \in 1 .. j - 1 : fewer[x] = ptr[x]
        /\ \A x \in j + 1 .. Len(fewer) : fewer[x] = ptr[x + 1]
    BY Zenon DEF PtrCutAt
  <2>2. Len(ptr) = N + 2 /\ Len(fewer) = N + 1
    BY <1>1, <2>1
  <2> QED
    BY <2>1, <2>2, Zenon
<1>3. /\ \A x \in 1 .. N + 1 : x \in 1 .. j - 1 \/ x = j \/ \E y \in j .. N : x = y + 1
      /\ \A x \in 1 .. j - 1 : x \in 1 .. N /\ x \in 1 .. N + 1
      /\ \A x \in j .. N : x \in 1 .. N /\ x + 1 \in 1 .. N + 1
      /\ \A x \in 1 .. N : x \in 1 .. j - 1 \/ x \in j .. N
      /\ j \in 1 .. N + 1
  <2>1. N \in Nat /\ j \in 1 .. N + 1
    BY <1>1, Zenon
  <2> HIDE DEF N
  <2> QED
    BY <2>1, CutPlaces
<1>4. /\ \A x \in I : x \in 1 .. j - 1 \/ \E y \in j + 1 .. N + 1 : x = y + 1
      /\ \A x \in J : x \in 1 .. j - 1 \/ x \in j + 1 .. N + 1
      /\ \A x \in 1 .. j - 1 : x \in I /\ x \in J
      /\ \A x \in j + 1 .. N + 1 : x \in J /\ x + 1 \in I
  <2>1. N \in Nat /\ j \in 1 .. N + 1
    BY <1>1, Zenon
  <2> HIDE DEF N
  <2>2. \A x \in 1 .. N + 2 :
          x \in 1 .. j - 1 \/ x = j \/ x = j + 1 \/ \E y \in j + 1 .. N + 1 : x = y + 1
    BY <2>1, CutPlaces
  <2>3. /\ \A x \in 1 .. N + 1 : x \in 1 .. j - 1 \/ x = j \/ x \in j + 1 .. N + 1
        /\ \A x \in 1 .. j - 1 : x \in 1 .. N + 1 /\ x \in 1 .. N + 2 /\ x # j /\ x # j + 1
        /\ \A x \in j + 1 .. N + 1 :
             x \in 1 .. N + 1 /\ x + 1 \in 1 .. N + 2 /\ x # j /\ x + 1 # j /\ x + 1 # j + 1
    BY <2>1, CutPlaces
  <2> QED
    BY <2>2, <2>3, Zenon
<1>5. {kvs[x] : x \in 1 .. Len(kvs)} = {few[x] : x \in 1 .. N} \cup {kvs[j]}
  <2> DEFINE whole == {kvs[x] : x \in 1 .. N + 1}
             rest  == {few[x] : x \in 1 .. N} \cup {kvs[j]}
  <2>0. Len(kvs) = N + 1
    BY <1>1
  <2> HIDE DEF N
  <2>1. ASSUME NEW x \in 1 .. N + 1 PROVE kvs[x] \in rest
    <3>1. CASE x \in 1 .. j - 1
      BY <1>1, <1>3, <3>1, Zenon
    <3>2. CASE x = j
      BY <3>2, Zenon
    <3>3. CASE \E y \in j .. N : x = y + 1
      <4>1. PICK y \in j .. N : x = y + 1
        BY <3>3
      <4>2. kvs[x] = few[y] /\ y \in 1 .. N
        BY <1>1, <1>3, <4>1, Zenon
      <4> QED
        BY <4>2, Zenon
    <3> QED
      BY <1>3, <3>1, <3>2, <3>3, Zenon
  <2>2. ASSUME NEW x \in 1 .. N PROVE few[x] \in whole
    <3>1. CASE x \in 1 .. j - 1
      BY <1>1, <1>3, <3>1, Zenon
    <3>2. CASE x \in j .. N
      BY <1>1, <1>3, <3>2, Zenon
    <3> QED
      BY <1>3, <3>1, <3>2, Zenon
  <2>3. kvs[j] \in whole
    BY <1>3, Zenon
  <2>4. whole \subseteq rest
    BY <2>1, Zenon
  <2>5. rest \subseteq whole
    <3> HIDE DEF whole
    <3> QED
      BY <2>2, <2>3, Zenon
  <2> QED
    BY <2>0, <2>4, <2>5, Zenon
<1>6. (\A x \in 1 .. Len(kvs) : Small(kvs[x])) <=> (\A x \in 1 .. N : Small(few[x])) /\ Small(kvs[j])
  BY <1>5, Zenon
<1>7. InOrder(kvs) <=> /\ InOrder(few)
                       /\ \A x \in 1 .. j - 1 : few[x][1] < kvs[j][1]
                       /\ \A x \in j .. N : kvs[j][1] < few[x][1]
  BY OrderOfCut, Zenon
<1>8. CASE ~(d > 0)
  <2>1. /\ PairsBut(w, kvs, ptr, {j, j + 1}, d) = {kvs[x] : x \in 1 .. Len(kvs)}
        /\ PairsBut(w, few, fewer, {j}, d) = {few[x] : x \in 1 .. N}
    BY <1>8 DEF PairsBut
  <2>2. Len(kvs) + 1 = N + 2
    BY <1>1
  <2>3. /\ FitsBut(w, kvs, ptr, {j, j + 1}, d) <=> InOrder(kvs) /\ \A x \in 1 .. Len(kvs) : Small(kvs[x])
        /\ FitsBut(w, few, fewer, {j}, d) <=> InOrder(few) /\ \A x \in 1 .. N : Small(few[x])
    BY <1>1, <1>2, <1>8, <2>2, Zenon DEF FitsBut
  <2> QED
    BY <1>5, <1>6, <1>7, <2>1, <2>3, Zenon DEF LikeCut
<1>9. CASE d > 0
  <2>1. (1 .. Len(ptr)) \ {j, j + 1} = I /\ (1 .. Len(fewer)) \ {j} = J
    BY <1>2, Zenon
  <2>2. Len(kvs) + 1 = N + 2
    BY <1>1
  <2> DEFINE At(s, i) == w[s[i]].pairs
             Below == UNION {At(ptr, i) : i \in I}
             Rest  == UNION {At(fewer, i) : i \in J}
  <2>3. /\ PairsBut(w, kvs, ptr, {j, j + 1}, d) = {kvs[x] : x \in 1 .. Len(kvs)} \cup Below
        /\ PairsBut(w, few, fewer, {j}, d) = {few[x] : x \in 1 .. N} \cup Rest
    BY <1>9, <2>1, Zenon DEF PairsBut
  <2> HIDE DEF N, I, J
  <2>4. Below = Rest
    <3>1. ASSUME NEW i \in I PROVE \E x \in J : ptr[i] = fewer[x]
      <4>1. CASE i \in 1 .. j - 1
        BY <1>2, <1>4, <4>1, Zenon
      <4>2. CASE \E y \in j + 1 .. N + 1 : i = y + 1
        BY <1>2, <1>4, <4>2, Zenon
      <4> QED
        BY <1>4, <4>1, <4>2, Zenon
    <3>2. ASSUME NEW i \in J PROVE \E x \in I : fewer[i] = ptr[x]
      <4>1. CASE i \in 1 .. j - 1
        BY <1>2, <1>4, <4>1, Zenon
      <4>2. CASE i \in j + 1 .. N + 1
        BY <1>2, <1>4, <4>2, Zenon
      <4> QED
        BY <1>4, <4>1, <4>2, Zenon
    <3>3. ASSUME NEW u \in Below PROVE u \in Rest
      <4>1. PICK i \in I : u \in At(ptr, i)
        BY Zenon
      <4>2. PICK x \in J : ptr[i] = fewer[x]
        BY <3>1
      <4> QED
        BY <4>1, <4>2, Zenon
    <3>4. ASSUME NEW u \in Rest PROVE u \in Below
      <4>1. PICK i \in J : u \in At(fewer, i)
        BY Zenon
      <4>2. PICK x \in I : fewer[i] = ptr[x]
        BY <3>2
      <4> QED
        BY <4>1, <4>2, Zenon
    <3> HIDE DEF Below, Rest
    <3> QED
      BY <3>3, <3>4, Zenon
  <2> DEFINE C(l, s, i) == ChildFits(w, l, i, s[i], d)
  <2>5. /\ FitsBut(w, kvs, ptr, {j, j + 1}, d) <=>
             InOrder(kvs) /\ (\A x \in 1 .. Len(kvs) : Small(kvs[x])) /\ \A i \in I : C(kvs, ptr, i)
        /\ FitsBut(w, few, fewer, {j}, d) <=>
             InOrder(few) /\ (\A x \in 1 .. N : Small(few[x])) /\ \A i \in J : C(few, fewer, i)
    <3>1. /\ kvs \in Seq(KVs) /\ ptr \in Seq(Nat) /\ Len(ptr) = Len(kvs) + 1
          /\ few \in Seq(KVs) /\ fewer \in Seq(Nat) /\ Len(fewer) = Len(few) + 1
      BY <1>1, <1>2, <2>2, Zenon DEF N
    <3> QED
      BY <1>9, <2>1, <3>1, Zenon DEF FitsBut, N
  <2>6. /\ \A i \in 1 .. j - 1 : C(kvs, ptr, i) <=> C(few, fewer, i)
        /\ \A i \in j + 1 .. N + 1 : C(kvs, ptr, i + 1) <=> C(few, fewer, i)
    <3>1. ASSUME NEW k
          PROVE  /\ \A i \in 1 .. j - 1 : Between(kvs, i, k) <=> Between(few, i, k)
                 /\ \A i \in j + 1 .. N + 1 : Between(kvs, i + 1, k) <=> Between(few, i, k)
      BY BetweenOfCut, Zenon DEF N
    <3> QED
      BY <1>2, <3>1, Zenon DEF ChildFits
  <2>7. (\A i \in I : C(kvs, ptr, i)) <=> (\A i \in J : C(few, fewer, i))
    <3> HIDE DEF C
    <3>1. ASSUME \A i \in I : C(kvs, ptr, i) PROVE \A i \in J : C(few, fewer, i)
      BY <1>4, <2>6, <3>1, Zenon
    <3>2. ASSUME \A i \in J : C(few, fewer, i) PROVE \A i \in I : C(kvs, ptr, i)
      BY <1>4, <2>6, <3>2, Zenon
    <3> QED
      BY <3>1, <3>2
  <2> HIDE DEF C
  <2> QED
    BY <1>5, <1>6, <1>7, <2>3, <2>4, <2>5, <2>7, Zenon DEF N, LikeCut
<1> QED
  BY <1>8, <1>9

(* Two lists of pointers that differ at i only.                            *)
SameBut(s, t, i) ==
  /\ s \in Seq(Nat) /\ t \in Seq(Nat) /\ Len(s) = Len(t) /\ i \in 1 .. Len(t)
  /\ \A x \in 1 .. Len(t) : x # i => s[x] = t[x]

(* T has place i besides those of S.                                       *)
OneMore(S, T, i) == i \notin S /\ T = S \cup {i}

(* A node with one empty place more, and what is put there.                *)
Fills(w, kvs, full, ptr, S, T, i, d) ==
  /\ FitsBut(w, kvs, full, S, d) <=>
       FitsBut(w, kvs, ptr, T, d) /\ (d > 0 => ChildFits(w, kvs, i, full[i], d))
  /\ PairsBut(w, kvs, full, S, d) =
       PairsBut(w, kvs, ptr, T, d) \cup (IF d > 0 THEN w[full[i]].pairs ELSE {})

(* An empty place is filled by a child that fits there, and by no other.   *)
LEMMA FilledFits ==
  ASSUME NEW w, NEW kvs, NEW ptr, NEW full, NEW S, NEW T, NEW i, NEW d,
         SameBut(full, ptr, i), OneMore(S, T, i)
  PROVE  Fills(w, kvs, full, ptr, S, T, i, d)
<1> DEFINE I == (1 .. Len(ptr)) \ T
           J == (1 .. Len(full)) \ S
           Below == UNION {w[ptr[x]].pairs : x \in I}
           All   == UNION {w[full[x]].pairs : x \in J}
<1>0. /\ full \in Seq(Nat) /\ ptr \in Seq(Nat) /\ Len(full) = Len(ptr) /\ i \in 1 .. Len(ptr)
      /\ \A x \in 1 .. Len(ptr) : x # i => full[x] = ptr[x]
      /\ i \notin S /\ T = S \cup {i}
  BY Zenon DEF SameBut, OneMore
<1>1. /\ \A x \in I : x \in J /\ full[x] = ptr[x]
      /\ i \in J /\ \A x \in J : x = i \/ x \in I
  BY <1>0, Zenon
<1>2. CASE d > 0
  <2> HIDE DEF I, J
  <2>1. All = Below \cup w[full[i]].pairs
    <3>1. ASSUME NEW u \in All PROVE u \in Below \cup w[full[i]].pairs
      <4>1. PICK x \in J : u \in w[full[x]].pairs
        BY Zenon
      <4> QED
        BY <1>1, <4>1, Zenon
    <3>2. ASSUME NEW u \in Below PROVE u \in All
      <4>1. PICK x \in I : u \in w[ptr[x]].pairs
        BY Zenon
      <4> QED
        BY <1>1, <4>1, Zenon
    <3>3. ASSUME NEW u \in w[full[i]].pairs PROVE u \in All
      BY <1>1, <3>3, Zenon
    <3> HIDE DEF All, Below
    <3> QED
      BY <3>1, <3>2, <3>3, Zenon
  <2>2. /\ PairsBut(w, kvs, full, S, d) = {kvs[x] : x \in 1 .. Len(kvs)} \cup All
        /\ PairsBut(w, kvs, ptr, T, d) = {kvs[x] : x \in 1 .. Len(kvs)} \cup Below
    BY <1>2, Zenon DEF PairsBut, I, J
  <2>3. PairsBut(w, kvs, full, S, d) = PairsBut(w, kvs, ptr, T, d) \cup w[full[i]].pairs
    <3> HIDE DEF All, Below
    <3> QED
      BY <2>1, <2>2, Zenon
  <2>4. (\A x \in J : ChildFits(w, kvs, x, full[x], d)) <=>
          (\A x \in I : ChildFits(w, kvs, x, ptr[x], d)) /\ ChildFits(w, kvs, i, full[i], d)
    BY <1>1, Zenon
  <2>5. FitsBut(w, kvs, full, S, d) <=>
          FitsBut(w, kvs, ptr, T, d) /\ ChildFits(w, kvs, i, full[i], d)
    BY <1>0, <1>2, <2>4, Zenon DEF FitsBut, I, J
  <2> QED
    BY <1>2, <2>3, <2>5, Zenon DEF Fills
<1>3. CASE ~(d > 0)
  <2>1. FitsBut(w, kvs, full, S, d) <=> FitsBut(w, kvs, ptr, T, d)
    BY <1>0, <1>3, Zenon DEF FitsBut
  <2>2. PairsBut(w, kvs, full, S, d) = PairsBut(w, kvs, ptr, T, d)
    BY <1>3, Zenon DEF PairsBut
  <2> QED
    BY <1>3, <2>1, <2>2, Zenon DEF Fills
<1> QED
  BY <1>2, <1>3

(* What fills one place of a node.                                         *)
LEMMA Emptied ==
  ASSUME NEW w, NEW kvs, NEW ptr, NEW S, NEW T, NEW i, NEW d, d > 0,
         FitsBut(w, kvs, ptr, S, d), i \in 1 .. Len(ptr), OneMore(S, T, i)
  PROVE  Fills(w, kvs, ptr, ptr, S, T, i, d)
<1>1. SameBut(ptr, ptr, i)
  BY DEF SameBut, FitsBut
<1> QED
  BY <1>1, FilledFits

(* The two places beside a pair are the halves of the place without it.    *)
LEMMA BetweenBesidePair ==
  ASSUME NEW kvs, NEW few, NEW j, CutAt(kvs, few, j), InOrder(kvs), NEW k \in Key
  PROVE  /\ Between(kvs, j, k) <=> Between(few, j, k) /\ k < kvs[j][1]
         /\ Between(kvs, j + 1, k) <=> Between(few, j, k) /\ kvs[j][1] < k
         /\ Between(few, j, kvs[j][1])
<1> DEFINE N == Len(few)
<1>1. /\ N \in Nat /\ Len(kvs) = N + 1 /\ j \in 1 .. N + 1
      /\ \A x \in 1 .. j - 1 : few[x] = kvs[x]
      /\ \A x \in j .. N : few[x] = kvs[x + 1]
      /\ kvs \in Seq(KVs) /\ few \in Seq(KVs)
  BY Zenon DEF CutAt
<1>2. kvs[j][1] \in Nat /\ k \in Nat /\ \A x \in 1 .. N : few[x][1] \in Nat
  <2>1. j \in 1 .. Len(kvs)
    BY <1>1
  <2> QED
    BY <1>1, <2>1, KeysAreNumbers, NodeAssumption
<1>3. /\ InOrder(few)
      /\ \A x \in 1 .. j - 1 : few[x][1] < kvs[j][1]
      /\ \A x \in j .. N : kvs[j][1] < few[x][1]
  BY OrderOfCut, Zenon
<1>4. j > 1 => /\ few[j - 1][1] < kvs[j][1] /\ few[j - 1][1] \in Nat /\ kvs[j - 1] = few[j - 1]
  <2> SUFFICES ASSUME j > 1 PROVE few[j - 1][1] < kvs[j][1] /\ few[j - 1][1] \in Nat
                                  /\ kvs[j - 1] = few[j - 1]
    OBVIOUS
  <2>1. j - 1 \in 1 .. j - 1 /\ j - 1 \in 1 .. N
    BY <1>1
  <2> QED
    BY <1>1, <1>2, <1>3, <2>1, Zenon
<1>5. j <= N => /\ kvs[j][1] < few[j][1] /\ few[j][1] \in Nat /\ kvs[j + 1] = few[j]
  <2> SUFFICES ASSUME j <= N PROVE kvs[j][1] < few[j][1] /\ few[j][1] \in Nat
                                   /\ kvs[j + 1] = few[j]
    OBVIOUS
  <2>1. j \in j .. N /\ j \in 1 .. N
    BY <1>1
  <2> QED
    BY <1>1, <1>2, <1>3, <2>1, Zenon
<1>6. /\ j <= Len(kvs) /\ (j + 1 <= Len(kvs) <=> j <= N) /\ j + 1 > 1 /\ (j + 1) - 1 = j
  BY <1>1
<1> DEFINE K == kvs[j][1]
<1> HIDE DEF N
<1>7. /\ Between(kvs, j, k) <=> (j > 1 => few[j - 1][1] < k) /\ k < K
      /\ Between(kvs, j + 1, k) <=> K < k /\ (j <= N => k < few[j][1])
      /\ Between(few, j, k) <=> (j > 1 => few[j - 1][1] < k) /\ (j <= N => k < few[j][1])
      /\ Between(few, j, K) <=> (j > 1 => few[j - 1][1] < K) /\ (j <= N => K < few[j][1])
  BY <1>4, <1>5, <1>6, Zenon DEF Between, N
<1>8. /\ K \in Nat /\ k \in Nat
      /\ j > 1 => few[j - 1][1] < K /\ few[j - 1][1] \in Nat
      /\ j <= N => K < few[j][1] /\ few[j][1] \in Nat
  BY <1>2, <1>4, <1>5, Zenon
<1> HIDE DEF K
<1>9. /\ Between(kvs, j, k) <=> Between(few, j, k) /\ k < K
      /\ Between(kvs, j + 1, k) <=> Between(few, j, k) /\ K < k
      /\ Between(few, j, K)
  BY <1>7, <1>8
<1> QED
  BY <1>9 DEF K

-----------------------------------------------------------------------------
(* A node d levels up with place j empty, and what belongs there: pairs c  *)
(* and pointers r of the level below.                                      *)
Opened(w, few, fewer, j, d, c, r) ==
  /\ d \in Nat \ {0} /\ j \in 1 .. Len(few) + 1 /\ FitsBut(w, few, fewer, {j}, d)
  /\ FitsBut(w, c, r, {}, d - 1)
  /\ \A u \in PairsBut(w, c, r, {}, d - 1) : Between(few, j, u[1])

(* All the pairs of the two.                                               *)
OpenedPairs(w, few, fewer, j, d, c, r) ==
  PairsBut(w, few, fewer, {j}, d) \cup PairsBut(w, c, r, {}, d - 1)

(* Page q has pairs kvs, the node is at height d, and pairs are below it.  *)
Holding(x, q, kvs, pairs, d) ==
  q \in DOMAIN x /\ x[q].node.kvs = kvs /\ kvs # << >> /\ x[q].pairs = pairs /\ x[q].depth = d

(* What is known of a page of the world.                                   *)
Known(w, q, d) ==
  /\ FitsBut(w, w[q].node.kvs, w[q].node.ptr, {}, d)
  /\ w[q].pairs = PairsBut(w, w[q].node.kvs, w[q].node.ptr, {}, d)
  /\ w[q].pairs \subseteq KVs /\ Functional(w[q].pairs)
  /\ w[q].node \in Nodes /\ w[q].node.ok /\ d \in Nat /\ (w[q].node.type = "leaf" <=> d = 0)

(* Every page of a world is known.                                         *)
LEMMA PageKnown ==
  ASSUME NEW w, World(w), NEW q, q \in DOMAIN w, NEW d, w[q].depth = d
  PROVE  Known(w, q, d)
<1>1. /\ Fits(w, w[q].node, w[q].depth) /\ w[q].pairs = PairsOf(w, w[q].node, w[q].depth)
      /\ w[q].pairs \subseteq KVs /\ Functional(w[q].pairs)
  BY Zenon DEF World
<1> QED
  BY <1>1, Zenon DEF Fits, PairsOf, Known

(* One child is taken out of a node.                                       *)
LEMMA OpenOne ==
  ASSUME NEW w, World(w), NEW kvs, NEW ptr, NEW d \in Nat \ {0}, FitsBut(w, kvs, ptr, {}, d),
         NEW j \in 1 .. Len(kvs) + 1
  PROVE  /\ ptr[j] \in DOMAIN w /\ w[ptr[j]].node.kvs # << >> /\ w[ptr[j]].depth = d - 1
         /\ Opened(w, kvs, ptr, j, d, w[ptr[j]].node.kvs, w[ptr[j]].node.ptr)
         /\ PairsBut(w, kvs, ptr, {}, d) =
              OpenedPairs(w, kvs, ptr, j, d, w[ptr[j]].node.kvs, w[ptr[j]].node.ptr)
<1> DEFINE q == ptr[j]
           l == w[q].node
<1>1. kvs \in Seq(KVs) /\ ptr \in Seq(Nat) /\ Len(ptr) = Len(kvs) + 1 /\ d > 0 /\ j \in 1 .. Len(ptr)
  BY DEF FitsBut
<1>2. /\ FitsBut(w, kvs, ptr, {j}, d) /\ ChildFits(w, kvs, j, ptr[j], d)
      /\ PairsBut(w, kvs, ptr, {}, d) = PairsBut(w, kvs, ptr, {j}, d) \cup w[ptr[j]].pairs
  <2>1. OneMore({}, {j}, j)
    BY DEF OneMore
  <2>2. Fills(w, kvs, ptr, ptr, {}, {j}, j, d)
    BY <1>1, <2>1, Emptied
  <2> QED
    BY <1>1, <2>2, Zenon DEF Fills
<1>4. /\ q \in DOMAIN w /\ w[q].depth = d - 1 /\ l.kvs # << >>
      /\ \A kv \in w[q].pairs : Between(kvs, j, kv[1])
  BY <1>2, Zenon DEF ChildFits
<1>5. FitsBut(w, l.kvs, l.ptr, {}, d - 1) /\ w[q].pairs = PairsBut(w, l.kvs, l.ptr, {}, d - 1)
  <2>1. Fits(w, l, w[q].depth) /\ w[q].pairs = PairsOf(w, l, w[q].depth)
    BY <1>4, Zenon DEF World
  <2> QED
    BY <1>4, <2>1, Zenon DEF Fits, PairsOf
<1> QED
  BY <1>2, <1>4, <1>5, Zenon DEF Opened, OpenedPairs

(* Two neighbours and the pair between them are taken out.                 *)
LEMMA OpenPair ==
  ASSUME NEW w, World(w), NEW kvs, NEW ptr, NEW d \in Nat \ {0}, FitsBut(w, kvs, ptr, {}, d),
         NEW j \in 1 .. Len(kvs), NEW few, CutAt(kvs, few, j), NEW fewer, PtrCutAt(ptr, fewer, j),
         NEW c, Joins(c, w[ptr[j]].node.kvs, kvs[j], w[ptr[j + 1]].node.kvs),
         NEW r, Strung(d - 1, r, w[ptr[j]].node.ptr, w[ptr[j + 1]].node.ptr), Len(r) = Len(c) + 1
  PROVE  /\ Opened(w, few, fewer, j, d, c, r)
         /\ PairsBut(w, kvs, ptr, {}, d) = OpenedPairs(w, few, fewer, j, d, c, r)
<1> DEFINE q1 == ptr[j]
           q2 == ptr[j + 1]
           l1 == w[q1].node
           l2 == w[q2].node
           P1 == PairsBut(w, l1.kvs, l1.ptr, {}, d - 1)
           P2 == PairsBut(w, l2.kvs, l2.ptr, {}, d - 1)
<1>1. /\ kvs \in Seq(KVs) /\ ptr \in Seq(Nat) /\ Len(ptr) = Len(kvs) + 1 /\ InOrder(kvs)
      /\ \A x \in 1 .. Len(kvs) : Small(kvs[x])
  BY Zenon DEF FitsBut
<1>2. /\ d > 0 /\ j \in 1 .. Len(ptr) /\ j + 1 \in 1 .. Len(ptr) /\ j # j + 1 /\ j \in Nat
      /\ Len(ptr) = Len(kvs) + 1 /\ j \notin {j + 1}
  BY <1>1
<1>3. /\ FitsBut(w, kvs, ptr, {j + 1}, d) /\ ChildFits(w, kvs, j + 1, q2, d)
      /\ PairsBut(w, kvs, ptr, {}, d) = PairsBut(w, kvs, ptr, {j + 1}, d) \cup w[q2].pairs
  <2>1. OneMore({}, {j + 1}, j + 1)
    BY DEF OneMore
  <2>2. Fills(w, kvs, ptr, ptr, {}, {j + 1}, j + 1, d)
    BY <1>2, <2>1, Emptied
  <2> QED
    BY <1>2, <2>2, Zenon DEF Fills
<1>4. /\ FitsBut(w, kvs, ptr, {j, j + 1}, d) /\ ChildFits(w, kvs, j, q1, d)
      /\ PairsBut(w, kvs, ptr, {j + 1}, d) = PairsBut(w, kvs, ptr, {j, j + 1}, d) \cup w[q1].pairs
  <2>1. OneMore({j + 1}, {j, j + 1}, j)
    BY <1>2 DEF OneMore
  <2>2. Fills(w, kvs, ptr, ptr, {j + 1}, {j, j + 1}, j, d)
    BY <1>2, <1>3, <2>1, Emptied
  <2> QED
    BY <1>2, <1>3, <2>2, Zenon DEF Fills
<1>5. /\ FitsBut(w, few, fewer, {j}, d) /\ Small(kvs[j])
      /\ PairsBut(w, kvs, ptr, {j, j + 1}, d) = PairsBut(w, few, fewer, {j}, d) \cup {kvs[j]}
  <2>1. LikeCut(w, kvs, ptr, few, fewer, j, d)
    BY <1>1, CutFits
  <2> QED
    BY <1>4, <2>1, Zenon DEF LikeCut
<1>6. /\ q1 \in DOMAIN w /\ w[q1].depth = d - 1 /\ \A kv \in w[q1].pairs : Between(kvs, j, kv[1])
      /\ q2 \in DOMAIN w /\ w[q2].depth = d - 1 /\ \A kv \in w[q2].pairs : Between(kvs, j + 1, kv[1])
  BY <1>3, <1>4, Zenon DEF ChildFits
<1>7. /\ FitsBut(w, l1.kvs, l1.ptr, {}, d - 1) /\ w[q1].pairs = P1 /\ P1 \subseteq KVs
      /\ FitsBut(w, l2.kvs, l2.ptr, {}, d - 1) /\ w[q2].pairs = P2 /\ P2 \subseteq KVs
  <2>1. Known(w, q1, d - 1) /\ Known(w, q2, d - 1)
    BY <1>6, PageKnown
  <2> QED
    BY <2>1, Zenon DEF Known
<1>8. /\ \A u \in P1 : Between(few, j, u[1]) /\ u[1] < kvs[j][1]
      /\ \A u \in P2 : Between(few, j, u[1]) /\ kvs[j][1] < u[1]
      /\ Between(few, j, kvs[j][1])
  <2>0. \A u \in KVs : u[1] \in Key
    BY DEF KVs
  <2>1. \A k \in Key : /\ Between(kvs, j, k) <=> Between(few, j, k) /\ k < kvs[j][1]
                       /\ Between(kvs, j + 1, k) <=> Between(few, j, k) /\ kvs[j][1] < k
                       /\ Between(few, j, kvs[j][1])
    BY <1>1, BetweenBesidePair, Zenon
  <2>2. kvs[j][1] \in Key
    BY <1>1, KeysAreNumbers
  <2> HIDE DEF P1, P2
  <2> QED
    BY <1>6, <1>7, <2>0, <2>1, <2>2, Zenon
<1>9. /\ FitsBut(w, c, r, {}, d - 1) /\ PairsBut(w, c, r, {}, d - 1) = P1 \cup {kvs[j]} \cup P2
  <2>1. /\ l1.ptr \in Seq(Nat) /\ l2.ptr \in Seq(Nat) /\ Len(l1.ptr) = Len(l1.kvs) + 1
        /\ Len(l2.ptr) = Len(l2.kvs) + 1 /\ d - 1 \in Nat
    <3>1. d - 1 \in Nat
      BY <1>1, <1>2
    <3> QED
      BY <1>7, <3>1, Zenon DEF FitsBut
  <2>2. LikeJoined(w, c, r, l1.kvs, l1.ptr, kvs[j], l2.kvs, l2.ptr, d - 1)
    BY <2>1, JoinedFits
  <2> QED
    BY <1>5, <1>7, <1>8, <2>2, Zenon DEF LikeJoined
<1>10. j \in 1 .. Len(few) + 1
  BY DEF CutAt
<1>11. Opened(w, few, fewer, j, d, c, r)
  <2> HIDE DEF P1, P2
  <2> QED
    BY <1>5, <1>8, <1>9, <1>10, Zenon DEF Opened
<1> QED
  BY <1>3, <1>4, <1>5, <1>7, <1>9, <1>11, Zenon DEF OpenedPairs

(* What was taken out is put on one page.                                  *)
LEMMA CloseOne ==
  ASSUME NEW w, NEW x, Later(w, x), NEW few, NEW fewer, NEW j, NEW d, NEW c, NEW r,
         Opened(w, few, fewer, j, d, c, r), NEW full, SameBut(full, fewer, j),
         Holding(x, full[j], c, PairsBut(w, c, r, {}, d - 1), d - 1)
  PROVE  /\ FitsBut(x, few, full, {}, d)
         /\ PairsBut(x, few, full, {}, d) = OpenedPairs(w, few, fewer, j, d, c, r)
<1> DEFINE P == PairsBut(w, c, r, {}, d - 1)
<1>1. d > 0 /\ FitsBut(w, few, fewer, {j}, d) /\ \A u \in P : Between(few, j, u[1])
  <2>1. d \in Nat \ {0} /\ FitsBut(w, few, fewer, {j}, d) /\ \A u \in P : Between(few, j, u[1])
    BY Zenon DEF Opened
  <2>2. d > 0
    BY <2>1
  <2> QED
    BY <2>1, <2>2
<1>2. FitsBut(x, few, fewer, {j}, d) /\ PairsBut(x, few, fewer, {j}, d) = PairsBut(w, few, fewer, {j}, d)
  BY <1>1, LaterFits
<1>3. OneMore({}, {j}, j)
  BY DEF OneMore
<1>4. Fills(x, few, full, fewer, {}, {j}, j, d)
  BY <1>3, FilledFits
<1>5. ChildFits(x, few, j, full[j], d) /\ x[full[j]].pairs = P
  BY <1>1, Zenon DEF ChildFits, Holding
<1> QED
  BY <1>1, <1>2, <1>4, <1>5, Zenon DEF Fills, OpenedPairs

(* The parts of what was taken out, around one of its pairs.               *)
LEMMA PartsFit ==
  ASSUME NEW w, World(w), NEW few, NEW fewer, NEW j, NEW d, NEW c, NEW r,
         Opened(w, few, fewer, j, d, c, r),
         NEW a, NEW p, NEW kv, NEW b, NEW q, Joins(c, a, kv, b), Strung(d - 1, r, p, q),
         Len(p) = Len(a) + 1, Len(q) = Len(b) + 1
  PROVE  /\ FitsBut(w, a, p, {}, d - 1) /\ FitsBut(w, b, q, {}, d - 1) /\ Small(kv) /\ d - 1 \in Nat
         /\ \A u \in PairsBut(w, a, p, {}, d - 1) :
              u \in KVs /\ u[1] < kv[1] /\ Between(few, j, u[1])
         /\ \A u \in PairsBut(w, b, q, {}, d - 1) :
              u \in KVs /\ kv[1] < u[1] /\ Between(few, j, u[1])
         /\ kv \in KVs /\ Between(few, j, kv[1])
         /\ PairsBut(w, c, r, {}, d - 1) =
              PairsBut(w, a, p, {}, d - 1) \cup {kv} \cup PairsBut(w, b, q, {}, d - 1)
<1>1. /\ d \in Nat \ {0} /\ FitsBut(w, c, r, {}, d - 1)
      /\ \A u \in PairsBut(w, c, r, {}, d - 1) : Between(few, j, u[1])
  BY Zenon DEF Opened
<1>2. d - 1 \in Nat
  BY <1>1
<1>3. Len(r) = Len(c) + 1
  BY <1>1 DEF FitsBut
<1>4. LikeJoined(w, c, r, a, p, kv, b, q, d - 1)
  BY <1>2, <1>3, JoinedFits
<1>5. PairsBut(w, c, r, {}, d - 1) \subseteq KVs
  BY <1>1, <1>2, PairsFunctional
<1> DEFINE P == PairsBut(w, a, p, {}, d - 1)
           Q == PairsBut(w, b, q, {}, d - 1)
           R == PairsBut(w, c, r, {}, d - 1)
<1>6. /\ FitsBut(w, a, p, {}, d - 1) /\ FitsBut(w, b, q, {}, d - 1) /\ Small(kv)
      /\ \A u \in P : u[1] < kv[1]
      /\ \A u \in Q : kv[1] < u[1]
      /\ R = P \cup {kv} \cup Q
  BY <1>1, <1>4, Zenon DEF LikeJoined
<1> HIDE DEF P, Q, R
<1>7. \A u \in P \cup {kv} \cup Q : u \in KVs /\ Between(few, j, u[1])
  BY <1>1, <1>5, <1>6, Zenon DEF R
<1> QED
  BY <1>2, <1>6, <1>7, Zenon DEF P, Q, R

(* What was taken out is put on two pages, with a pair between them.       *)
LEMMA CloseTwo ==
  ASSUME NEW w, World(w), NEW x, Later(w, x), NEW few, NEW fewer, NEW j, NEW d, NEW c, NEW r,
         Opened(w, few, fewer, j, d, c, r),
         NEW kvs, NEW ptr, CutAt(kvs, few, j), PtrCutAt(ptr, fewer, j), Len(ptr) = Len(kvs) + 1,
         NEW a, NEW p, NEW b, NEW q, Joins(c, a, kvs[j], b), Strung(d - 1, r, p, q),
         Len(p) = Len(a) + 1, Len(q) = Len(b) + 1,
         Holding(x, ptr[j], a, PairsBut(w, a, p, {}, d - 1), d - 1),
         Holding(x, ptr[j + 1], b, PairsBut(w, b, q, {}, d - 1), d - 1)
  PROVE  /\ FitsBut(x, kvs, ptr, {}, d)
         /\ PairsBut(x, kvs, ptr, {}, d) = OpenedPairs(w, few, fewer, j, d, c, r)
<1> DEFINE P == PairsBut(w, a, p, {}, d - 1)
           Q == PairsBut(w, b, q, {}, d - 1)
           R == PairsBut(w, c, r, {}, d - 1)
<1>1. /\ d \in Nat \ {0} /\ FitsBut(w, few, fewer, {j}, d)
      /\ j \in 1 .. Len(few) + 1
  BY Zenon DEF Opened
<1>2. d > 0
  BY <1>1
<1>3. /\ Small(kvs[j]) /\ kvs[j] \in KVs /\ Between(few, j, kvs[j][1])
      /\ \A u \in P : u \in KVs /\ u[1] < kvs[j][1] /\ Between(few, j, u[1])
      /\ \A u \in Q : u \in KVs /\ kvs[j][1] < u[1] /\ Between(few, j, u[1])
      /\ R = P \cup {kvs[j]} \cup Q
  BY PartsFit
<1> HIDE DEF P, Q, R
<1>4. few \in Seq(KVs) /\ InOrder(few) /\ kvs[j][1] \in Key
  <2>1. few \in Seq(KVs) /\ InOrder(few)
    BY <1>1, Zenon DEF FitsBut
  <2>2. kvs[j][1] \in Key
    BY <1>3 DEF KVs
  <2> QED
    BY <2>1, <2>2
<1>5. /\ \A y \in 1 .. Len(few) : y < j => few[y][1] < kvs[j][1]
      /\ \A y \in 1 .. Len(few) : y >= j => kvs[j][1] < few[y][1]
  <2>1. /\ few \in Seq(KVs) /\ InOrder(few) /\ j \in 1 .. Len(few) + 1
        /\ kvs[j][1] \in Key /\ Between(few, j, kvs[j][1])
    BY <1>1, <1>3, <1>4, Zenon
  <2> QED
    BY <2>1, Placed, SMTT(60)
<1>6. /\ \A y \in 1 .. j - 1 : few[y][1] < kvs[j][1]
      /\ \A y \in j .. Len(few) : kvs[j][1] < few[y][1]
  <2>1. Len(few) \in Nat
    BY <1>4
  <2>2. /\ \A y \in 1 .. j - 1 : y \in 1 .. Len(few) /\ y < j
        /\ \A y \in j .. Len(few) : y \in 1 .. Len(few) /\ y >= j
    BY <1>1, <2>1
  <2> QED
    BY <1>5, <2>2, Zenon
<1>7. FitsBut(x, few, fewer, {j}, d) /\ PairsBut(x, few, fewer, {j}, d) = PairsBut(w, few, fewer, {j}, d)
  BY <1>1, LaterFits
<1>8. /\ FitsBut(x, kvs, ptr, {j, j + 1}, d)
      /\ PairsBut(x, kvs, ptr, {j, j + 1}, d) = PairsBut(w, few, fewer, {j}, d) \cup {kvs[j]}
  <2>1. LikeCut(x, kvs, ptr, few, fewer, j, d)
    BY CutFits
  <2> QED
    BY <1>3, <1>6, <1>7, <2>1, Zenon DEF LikeCut
<1>9. InOrder(kvs) /\ Len(ptr) = Len(kvs) + 1 /\ ptr \in Seq(Nat) /\ kvs \in Seq(KVs)
  BY <1>8, Zenon DEF FitsBut
<1>10. /\ \A k \in Key : /\ Between(kvs, j, k) <=> Between(few, j, k) /\ k < kvs[j][1]
                         /\ Between(kvs, j + 1, k) <=> Between(few, j, k) /\ kvs[j][1] < k
  BY <1>9, BetweenBesidePair, Zenon
<1>11. \A u \in KVs : u[1] \in Key
  BY DEF KVs
<1>12. ChildFits(x, kvs, j, ptr[j], d) /\ x[ptr[j]].pairs = P
  BY <1>3, <1>10, <1>11, Zenon DEF ChildFits, Holding, P
<1>13. ChildFits(x, kvs, j + 1, ptr[j + 1], d) /\ x[ptr[j + 1]].pairs = Q
  BY <1>3, <1>10, <1>11, Zenon DEF ChildFits, Holding, Q
<1>14. j \in 1 .. Len(ptr) /\ j + 1 \in 1 .. Len(ptr) /\ j # j + 1
  <2>1. Len(few) \in Nat /\ Len(kvs) = Len(few) + 1
    BY Zenon DEF CutAt
  <2> QED
    BY <1>1, <1>9, <2>1
<1>15. OneMore({j + 1}, {j, j + 1}, j) /\ OneMore({}, {j + 1}, j + 1)
  BY <1>14 DEF OneMore
<1>16. SameBut(ptr, ptr, j) /\ SameBut(ptr, ptr, j + 1)
  BY <1>9, <1>14, Zenon DEF SameBut
<1>17. /\ Fills(x, kvs, ptr, ptr, {j + 1}, {j, j + 1}, j, d)
       /\ Fills(x, kvs, ptr, ptr, {}, {j + 1}, j + 1, d)
  BY <1>15, <1>16, FilledFits
<1>18. /\ FitsBut(x, kvs, ptr, {j + 1}, d)
       /\ PairsBut(x, kvs, ptr, {j + 1}, d) = PairsBut(w, few, fewer, {j}, d) \cup {kvs[j]} \cup P
  BY <1>2, <1>8, <1>12, <1>17, Zenon DEF Fills
<1>19. /\ FitsBut(x, kvs, ptr, {}, d)
       /\ PairsBut(x, kvs, ptr, {}, d) = (PairsBut(w, few, fewer, {j}, d) \cup {kvs[j]} \cup P) \cup Q
  BY <1>2, <1>13, <1>17, <1>18, Zenon DEF Fills
<1> QED
  BY <1>3, <1>19, Zenon DEF OpenedPairs, R

-----------------------------------------------------------------------------
(* A page manager with no page handed out twice: CowStore's WellFormed, of *)
(* the tree's nodes.                                                       *)
PageOwned(m, p) == p \in 1 .. m.cur - 1 /\ p \notin Range(m.free)

(* The bounds that WellFormed puts on page numbers.                        *)
LEMMA WellFormedMeans ==
  ASSUME NEW m, Cow!WellFormed(m)
  PROVE  /\ m.cur \in Nat /\ m.cur < AddrPages /\ m.cur <= DiskPages
         /\ Range(m.free) \subseteq 1 .. m.cur - 1
         /\ m.page = [p \in PageNums |-> m.page[p]]
         /\ \A p \in 1 .. m.cur - 1 : p \in PageNums /\ Slot(p) = p /\ p \in Nat /\ p # 0
<1>1. /\ m \in Cow!PageManagers /\ m.cur < AddrPages
      /\ m.cur <= m.end /\ m.end <= m.flen /\ m.flen <= DiskPages
      /\ Cow!Range(m.free) \subseteq 1 .. m.cur - 1
  BY Zenon DEF Cow!WellFormed, Cow!FileCovers
<1>2. /\ m.cur \in Nat /\ m.end \in Nat /\ m.flen \in Nat /\ m.page \in [PageNums -> Nodes]
  BY <1>1, Zenon DEF Cow!PageManagers, Cow!PageNums, PageNums
<1>3. Cow!Range(m.free) = Range(m.free)
  BY Zenon DEF Cow!Range, Range
<1>4. m.cur <= DiskPages
  BY <1>1, <1>2, PageManagerAssumption
<1>5. ASSUME NEW p \in 1 .. m.cur - 1 PROVE p \in PageNums /\ Slot(p) = p /\ p \in Nat /\ p # 0
  <2>1. p \in 1 .. DiskPages - 1 /\ p \in Nat /\ p # 0 /\ p < AddrPages
    BY <1>1, <1>2, <1>4, PageManagerAssumption
  <2>2. p % AddrPages = p
    BY <2>1, PageManagerAssumption
  <2> QED
    BY <2>1, <2>2 DEF PageNums, Slot
<1> QED
  BY <1>1, <1>2, <1>3, <1>4, <1>5

(* Persisting a node: what was owned stays as it was, and the node goes to *)
(* a page that nobody owned.                                               *)
CopyResult(m, v, c) ==
  /\ Cow!WellFormed(c.pm)
  /\ \A p : PageOwned(m, p) => PageOwned(c.pm, p) /\ c.pm.page[p] = m.page[p]
  /\ c.err = NoError =>
       ~PageOwned(m, c.page) /\ PageOwned(c.pm, c.page) /\ c.pm.page[c.page] = v

(* CopyToNewPage writes on a page that nobody owned (copyNodeToNewPage).   *)
LEMMA CopyResults ==
  ASSUME NEW m, Cow!WellFormed(m), NEW v \in Nodes, Safe(CopyToNewPage(m, v))
  PROVE  CopyResult(m, v, CopyToNewPage(m, v))
<1> DEFINE a == Allocate(m)
           c == CopyToNewPage(m, v)
<1>1. Cow!Evolves(m, c.pm)
  <2>1. Cow!CopyToNewPage(m, v) = c
    BY SameManager, Zenon
  <2>2. Cow!CopyToNewPage(m, v).err \notin {Cow!Panicked, Cow!Clobber}
    BY <2>1, Zenon DEF Safe, Cow!Panicked, Panicked, Cow!Clobber, Clobber
  <2>3. Cow!Evolves(m, Cow!CopyToNewPage(m, v).pm)
    BY <2>2, Cow!CopyEvolves, PageLayoutAssumption, PageManagerAssumption
       DEF Cow!MasterHeaderSize, Cow!PointerSize, MasterHeaderSize, PointerSize
  <2> QED
    BY <2>1, <2>3, Zenon
<1>2. \A s : Cow!Range(s) = Range(s)
  BY Zenon DEF Cow!Range, Range
<1>3. /\ Cow!WellFormed(c.pm) /\ c.pm.cur >= m.cur /\ Range(c.pm.free) \subseteq Range(m.free)
      /\ \A p \in (1 .. m.cur - 1) \ Range(m.free) : c.pm.page[p] = m.page[p]
  BY <1>1, <1>2, Zenon DEF Cow!Evolves
<1>4. m.cur \in Nat /\ c.pm.cur \in Nat
  BY <1>3, WellFormedMeans
<1>5. ASSUME NEW p, PageOwned(m, p) PROVE PageOwned(c.pm, p) /\ c.pm.page[p] = m.page[p]
  <2>1. p \in 1 .. c.pm.cur - 1
    BY <1>3, <1>4, <1>5 DEF PageOwned
  <2> QED
    BY <1>3, <1>5, <2>1, Zenon DEF PageOwned
<1>6. ASSUME c.err = NoError
      PROVE  ~PageOwned(m, c.page) /\ PageOwned(c.pm, c.page) /\ c.pm.page[c.page] = v
  <2>1. c = Store(a, v)
    BY Zenon DEF CopyToNewPage
  <2>2. Cow!Gives(m, a.pm, a.page, a.err)
    <3>1. Cow!Allocate(m) = a
      BY SameManager, Zenon
    <3>2. Cow!Gives(m, Cow!Allocate(m).pm, Cow!Allocate(m).page, Cow!Allocate(m).err)
      BY Cow!AllocateGives, PageLayoutAssumption, PageManagerAssumption
         DEF Cow!MasterHeaderSize, Cow!PointerSize, MasterHeaderSize, PointerSize
    <3> QED
      BY <3>1, <3>2, Zenon
  <2> HIDE DEF a, c
  <2>3. a.err = NoError /\ c = Write(a.pm, a.page, v)
    BY <1>6, <2>1, Zenon DEF Store
  <2>4. InBounds(a.pm, a.page) /\ Slot(a.page) # 0
    BY <1>6, <2>3 DEF Write, Failed, NoError, Panicked, Clobber
  <2>5. c.pm = [a.pm EXCEPT !.page[Slot(a.page)] = v] /\ c.page = a.page
    BY <2>3, <2>4 DEF Write
  <2>6. /\ a.pm \in Cow!PageManagers
        /\ Range(a.pm.free) \subseteq Range(m.free)
        /\ \/ /\ a.pm.cur = m.cur /\ a.page \in Nat
              /\ a.page \in Range(m.free) \ Range(a.pm.free)
           \/ a.pm.cur = m.cur + 1 /\ a.page = m.cur
    <3>1. Cow!NoError = NoError
      BY DEF Cow!NoError, NoError
    <3> QED
      BY <1>2, <2>2, <2>3, <3>1, Zenon DEF Cow!Gives
  <2>7. a.pm = [cur |-> a.pm.cur, end |-> a.pm.end, mapped |-> a.pm.mapped, flen |-> a.pm.flen,
                root |-> a.pm.root, free |-> a.pm.free, page |-> a.pm.page]
        /\ a.pm.page \in [PageNums -> Nodes]
    BY <2>6 DEF Cow!PageManagers, Cow!PageNums, PageNums
  <2>8. c.pm.cur = a.pm.cur /\ c.pm.free = a.pm.free
        /\ c.pm.page = [a.pm.page EXCEPT ![Slot(a.page)] = v]
    BY <2>5, <2>7
  <2>9. Range(m.free) \subseteq 1 .. m.cur - 1 /\ m.cur < AddrPages
    BY WellFormedMeans
  <2>10. ~PageOwned(m, c.page) /\ a.page \in 1 .. c.pm.cur - 1
    <3>1. CASE a.page \in Range(m.free) \ Range(a.pm.free) /\ a.pm.cur = m.cur
      BY <2>5, <2>8, <2>9, <3>1, Zenon DEF PageOwned
    <3>2. CASE a.pm.cur = m.cur + 1 /\ a.page = m.cur
      <4>1. ~(m.cur \in 1 .. m.cur - 1)
        BY <1>4
      <4>2. m.cur # 0
        <5>1. Cow!WellFormed(m) => m.cur >= 2
          BY Zenon DEF Cow!WellFormed
        <5> QED
          BY <1>4, <5>1
      <4>3. m.cur \in 1 .. c.pm.cur - 1
        BY <1>4, <2>8, <3>2, <4>2
      <4> QED
        BY <2>5, <3>2, <4>1, <4>3, Zenon DEF PageOwned
    <3> QED
      BY <2>6, <3>1, <3>2
  <2>11. a.page \in PageNums /\ Slot(a.page) = a.page
    BY <1>3, <2>10, WellFormedMeans, Zenon
  <2>12. c.pm.page[c.page] = v
    BY <2>5, <2>7, <2>8, <2>11
  <2>13. a.page \notin Range(a.pm.free)
    <3>1. ~(m.cur \in 1 .. m.cur - 1)
      BY <1>4
    <3> QED
      BY <2>6, <2>9, <3>1, Zenon
  <2> QED
    BY <2>5, <2>8, <2>10, <2>12, <2>13, Zenon DEF PageOwned
<1> QED
  BY <1>3, <1>5, <1>6, Zenon DEF CopyResult

-----------------------------------------------------------------------------
(* The mapping is the whole file, or gone after an error.                  *)
Mapped(m) == m.mapped \in {0, m.flen}

(* m has the fields of a page manager.                                     *)
Plain(m) ==
  m = [cur |-> m.cur, end |-> m.end, mapped |-> m.mapped, flen |-> m.flen,
       root |-> m.root, free |-> m.free, page |-> m.page]

(* Allocate maps the whole file or nothing.                                *)
LEMMA AllocateMaps ==
  ASSUME NEW m, Plain(m), Mapped(m)
  PROVE  Plain(Allocate(m).pm) /\ Mapped(Allocate(m).pm)
<1> DEFINE a   == Allocate(m)
           x   == ExtendFile(m)
           len == ExtendedLength(m)
<1>2. \A n : Plain(n) /\ Mapped(n) =>
        /\ Plain(NextPage(n).pm) /\ Mapped(NextPage(n).pm)
        /\ Plain(AllocateViaFreeList(n).pm) /\ Mapped(AllocateViaFreeList(n).pm)
  BY DEF Plain, Mapped, NextPage, AllocateViaFreeList
<1>3. \A n, e : Failed(n, e).pm = n
  BY DEF Failed
<1>4. Plain(x.pm) /\ Mapped(x.pm)
  <2> DEFINE u == [m EXCEPT !.flen = len, !.mapped = 0]
             g == [m EXCEPT !.flen = len, !.mapped = len, !.end = @ + PreAllocatePageNum]
  <2>1. x = Failed(m, NoSpace) \/ x = Failed(u, NoMap) \/ x = NextPage(g)
    BY DEF ExtendFile
  <2>2. Plain(u) /\ Mapped(u) /\ Plain(g) /\ Mapped(g)
    <3> HIDE DEF len, x, a
    <3>1. ASSUME NEW n, n = u PROVE Plain(n) /\ Mapped(n)
      BY <3>1 DEF Plain, Mapped
    <3>2. ASSUME NEW n, n = g PROVE Plain(n) /\ Mapped(n)
      BY <3>2 DEF Plain, Mapped
    <3> HIDE DEF u, g
    <3> QED
      BY <3>1, <3>2
  <2> HIDE DEF x, u, g
  <2> QED
    BY <1>2, <1>3, <2>1, <2>2, Zenon
<1>5. \/ a = Failed(m, Panicked) \/ a = AllocateViaFreeList(m) \/ a = NextPage(m) \/ a = x
  BY DEF Allocate
<1>6. Plain(a.pm) /\ Mapped(a.pm)
  <2> HIDE DEF a, x
  <2> QED
    BY <1>2, <1>3, <1>4, <1>5, Zenon
<1> QED
  BY <1>6

(* Writing a page leaves the mapping whole or gone.                        *)
LEMMA CopyMaps ==
  ASSUME NEW m, Cow!WellFormed(m), Mapped(m), NEW v
  PROVE  Mapped(CopyToNewPage(m, v).pm)
<1> DEFINE a == Allocate(m)
<1>1. Plain(m)
  BY DEF Cow!WellFormed, Cow!PageManagers, Plain
<1>2. Plain(a.pm) /\ Mapped(a.pm)
  BY <1>1, AllocateMaps
<1>3. \A n, p : Plain(n) /\ Mapped(n) => Mapped(Write(n, p, v).pm)
  BY DEF Write, Failed, Mapped, Plain
<1> HIDE DEF a
<1> QED
  BY <1>2, <1>3, Zenon DEF CopyToNewPage, Store, a

(* The world is on the pages of m, and no page of it can be given away.    *)
Holds(m, w) ==
  /\ Cow!WellFormed(m) /\ Mapped(m) /\ World(w)
  /\ \A p \in DOMAIN w : PageOwned(m, p) /\ m.page[p] = w[p].node

(* A page of the world is read as what is known of it, if at all.          *)
LEMMA LoadHeld ==
  ASSUME NEW m, NEW w, Holds(m, w), NEW p, p \in DOMAIN w, LoadAsNode(m, p).ok
  PROVE  LoadAsNode(m, p) = w[p].node
<1>1. p \in 1 .. m.cur - 1 /\ m.page[p] = w[p].node /\ Cow!WellFormed(m)
  BY Zenon DEF Holds, PageOwned
<1>2. Slot(p) = p
  BY <1>1, WellFormedMeans, Zenon
<1>3. ~Garbage.ok
  BY DEF Garbage, NewNode
<1> QED
  BY <1>1, <1>2, <1>3, Zenon DEF LoadAsNode

(* The pages of the world are in bounds together: when one of them can be  *)
(* read, each can.                                                         *)
LEMMA LoadsHeld ==
  ASSUME NEW m, NEW w, Holds(m, w), NEW p, p \in DOMAIN w, LoadAsNode(m, p).ok
  PROVE  \A q \in DOMAIN w : LoadAsNode(m, q) = w[q].node
<1>1. /\ \A q \in DOMAIN w : q \in 1 .. m.cur - 1 /\ m.page[q] = w[q].node
      /\ Cow!WellFormed(m) /\ Mapped(m)
  BY Zenon DEF Holds, PageOwned
<1>2. \A q \in 1 .. m.cur - 1 : Slot(q) = q /\ q \in Nat /\ q # 0
  BY <1>1, WellFormedMeans, Zenon
<1>3. ~Garbage.ok
  BY DEF Garbage, NewNode
<1>4. Slot(p) < m.mapped /\ Slot(p) = p /\ p \in Nat
  BY <1>1, <1>2, <1>3, Zenon DEF LoadAsNode, InBounds
<1>5. /\ m.cur \in Nat /\ m.end \in Nat /\ m.flen \in Nat /\ m.mapped \in Nat
      /\ m.cur <= m.end /\ m.end <= m.flen /\ m.cur < AddrPages
  BY <1>1 DEF Cow!WellFormed, Cow!PageManagers, Cow!FileCovers
<1>6. m.mapped = m.flen
  BY <1>1, <1>4, <1>5 DEF Mapped
<1>7. ASSUME NEW q \in DOMAIN w PROVE InBounds(m, q) /\ Slot(q) # 0
  <2>1. q \in 1 .. m.cur - 1 /\ Slot(q) = q
    BY <1>1, <1>2, Zenon
  <2>2. q + 1 < AddrPages /\ q < m.mapped /\ q # 0
    BY <1>5, <1>6, <2>1, PageManagerAssumption
  <2> QED
    BY <2>1, <2>2, Zenon DEF InBounds
<1>8. ASSUME NEW q \in DOMAIN w PROVE LoadAsNode(m, q) = m.page[q]
  <2>1. Slot(q) = q
    BY <1>1, <1>2, Zenon
  <2> QED
    BY <1>7, <2>1, Zenon DEF LoadAsNode
<1> QED
  BY <1>1, <1>8, Zenon

(* Page q of x has node v, d levels up, the pages below it being in w.     *)
On(x, q, w, v, d) == q \in DOMAIN x /\ x[q] = Entry(w, v, d)

(* A node that fits is persisted: the world has one page more, or it is    *)
(* what it was.                                                            *)
LEMMA PersistNode ==
  ASSUME NEW m, NEW w, Holds(m, w), NEW v, NEW d, Fits(w, v, d), Safe(CopyToNewPage(m, v))
  PROVE  \E x : /\ Later(w, x) /\ Holds(CopyToNewPage(m, v).pm, x)
                /\ CopyToNewPage(m, v).err = NoError => On(x, CopyToNewPage(m, v).page, w, v, d)
<1> DEFINE c == CopyToNewPage(m, v)
<1>1. Cow!WellFormed(m) /\ Mapped(m) /\ World(w)
      /\ \A p \in DOMAIN w : PageOwned(m, p) /\ m.page[p] = w[p].node
  BY Zenon DEF Holds
<1>2. v \in Nodes
  BY Zenon DEF Fits
<1>3. CopyResult(m, v, c) /\ Mapped(c.pm)
  <2>1. CopyResult(m, v, c)
    BY <1>1, <1>2, CopyResults
  <2>2. Mapped(c.pm)
    BY <1>1, CopyMaps
  <2> QED
    BY <2>1, <2>2
<1> HIDE DEF c
<1>4. /\ Cow!WellFormed(c.pm) /\ Mapped(c.pm)
      /\ \A p \in DOMAIN w : PageOwned(c.pm, p) /\ c.pm.page[p] = w[p].node
  BY <1>1, <1>3, Zenon DEF CopyResult
<1>5. CASE c.err # NoError
  <2>1. Later(w, w)
    BY Zenon DEF Later
  <2>2. Holds(c.pm, w)
    BY <1>1, <1>4, Zenon DEF Holds
  <2> QED
    BY <1>5, <2>1, <2>2, Zenon DEF c
<1>6. CASE c.err = NoError
  <2> DEFINE x == Extended(w, c.page, Entry(w, v, d))
  <2>1. ~PageOwned(m, c.page) /\ PageOwned(c.pm, c.page) /\ c.pm.page[c.page] = v
    BY <1>3, <1>6, Zenon DEF CopyResult
  <2>2. c.page \notin DOMAIN w
    BY <1>1, <2>1, Zenon
  <2>3. /\ World(x) /\ Later(w, x) /\ DOMAIN x = DOMAIN w \cup {c.page} /\ x[c.page] = Entry(w, v, d)
    <3>1. World(w) /\ c.page \notin DOMAIN w
      BY <1>1, <2>2, Zenon
    <3>2. Grown(w, x, c.page, Entry(w, v, d))
      BY <3>1, ExtendWorld
    <3> QED
      BY <3>2, Zenon DEF Grown
  <2> HIDE DEF x
  <2>4. Entry(w, v, d).node = v
    BY DEF Entry
  <2>5. ASSUME NEW p \in DOMAIN x PROVE PageOwned(c.pm, p) /\ c.pm.page[p] = x[p].node
    <3>1. CASE p = c.page
      BY <2>1, <2>3, <2>4, <3>1, Zenon
    <3>2. CASE p \in DOMAIN w
      BY <1>4, <2>3, <3>2, Zenon DEF Later
    <3> QED
      BY <2>3, <2>5, <3>1, <3>2, Zenon
  <2>6. Holds(c.pm, x) /\ On(x, c.page, w, v, d)
    BY <1>4, <2>3, <2>5, Zenon DEF Holds, On
  <2> QED
    BY <2>3, <2>6, Zenon DEF c
<1> QED
  BY <1>5, <1>6

(* Two nodes that fit are persisted.                                       *)
LEMMA PersistTwo ==
  ASSUME NEW m, NEW w, Holds(m, w), NEW v, NEW d, Fits(w, v, d), NEW u, NEW e, Fits(w, u, e),
         Safe(CopyPair(m, v, u))
  PROVE  \E x : /\ Later(w, x) /\ Holds(CopyPair(m, v, u).pm, x)
                /\ CopyPair(m, v, u).err = NoError =>
                     On(x, CopyPair(m, v, u).first, w, v, d) /\ On(x, CopyPair(m, v, u).second, w, u, e)
<1> DEFINE a == CopyToNewPage(m, v)
           b == CopyToNewPage(a.pm, u)
           c == CopyPair(m, v, u)
<1>1. c = IF a.err = NoError THEN Paired(a, b) ELSE Paired(a, a)
  BY Zenon DEF CopyPair, Second
<1> HIDE DEF a, b, c
<1>2. /\ a.err = NoError => c.pm = b.pm /\ c.first = a.page /\ c.second = b.page /\ c.err = b.err
      /\ a.err # NoError => c.pm = a.pm /\ c.err = a.err
  BY <1>1 DEF Paired
<1>3. Safe(c)
  BY DEF c
<1>4. Safe(a)
  BY <1>2, <1>3 DEF Safe, NoError, Panicked, Clobber
<1>5. PICK x : Later(w, x) /\ Holds(a.pm, x) /\ (a.err = NoError => On(x, a.page, w, v, d))
  BY <1>4, PersistNode DEF a
<1>6. CASE a.err # NoError
  BY <1>2, <1>5, <1>6, Zenon DEF c
<1>7. CASE a.err = NoError
  <2>1. Safe(b)
    BY <1>2, <1>3, <1>7, Zenon DEF Safe
  <2>2. Fits(x, u, e) /\ Entry(x, u, e) = Entry(w, u, e)
    <3>1. u \in Nodes /\ u.ok /\ e \in Nat /\ (u.type = "leaf" <=> e = 0)
          /\ FitsBut(w, u.kvs, u.ptr, {}, e)
      BY Zenon DEF Fits
    <3>2. /\ FitsBut(x, u.kvs, u.ptr, {}, e)
          /\ PairsBut(x, u.kvs, u.ptr, {}, e) = PairsBut(w, u.kvs, u.ptr, {}, e)
      BY <1>5, <3>1, LaterFits
    <3> QED
      BY <3>1, <3>2, Zenon DEF Fits, Entry, PairsOf
  <2>3. PICK y : Later(x, y) /\ Holds(b.pm, y) /\ (b.err = NoError => On(y, b.page, x, u, e))
    BY <1>5, <2>1, <2>2, PersistNode DEF b
  <2>4. Later(w, y)
    BY <1>5, <2>3, LaterTransitive
  <2>5. On(y, a.page, w, v, d)
    BY <1>5, <1>7, <2>3, Zenon DEF On, Later
  <2>6. b.err = NoError => On(y, b.page, w, u, e)
    BY <2>2, <2>3, Zenon DEF On
  <2> QED
    BY <1>2, <1>7, <2>3, <2>4, <2>5, <2>6, Zenon DEF c
<1> QED
  BY <1>6, <1>7

(* What is persisted is what a place of a node wants.                      *)
LEMMA OnHolding ==
  ASSUME NEW x, NEW q, NEW w, NEW v, NEW d, On(x, q, w, v, d), v.kvs # << >>
  PROVE  Holding(x, q, v.kvs, PairsBut(w, v.kvs, v.ptr, {}, d), d)
<1>1. Entry(w, v, d).node = v /\ Entry(w, v, d).pairs = PairsBut(w, v.kvs, v.ptr, {}, d)
      /\ Entry(w, v, d).depth = d
  BY DEF Entry, PairsOf
<1> QED
  BY <1>1, Zenon DEF On, Holding

(* The pages of a world are pages of the file, and what is known of them   *)
(* is what is on them.                                                     *)
LEMMA WorldOnPages ==
  ASSUME NEW m, NEW w, Holds(m, w)
  PROVE  /\ DOMAIN w \subseteq PageNums /\ World(w)
         /\ \A p \in DOMAIN w : m.page[p] = w[p].node
<1>1. \A p \in DOMAIN w : p \in 1 .. m.cur - 1 /\ m.page[p] = w[p].node
  BY Zenon DEF Holds, PageOwned
<1>2. Cow!WellFormed(m) /\ World(w)
  BY Zenon DEF Holds
<1>3. \A p \in 1 .. m.cur - 1 : p \in PageNums
  BY <1>2, WellFormedMeans
<1> QED
  BY <1>1, <1>2, <1>3, Zenon

(* The elements of a list of pairs.                                        *)
LEMMA SetOfList ==
  ASSUME NEW S, NEW s \in Seq(S)
  PROVE  ToSet(s) = {s[x] : x \in 1 .. Len(s)}
<1>1. DOMAIN s = 1 .. Len(s)
  OBVIOUS
<1> QED
  BY <1>1, Zenon DEF ToSet

(* Both nodes go to pages that nobody owned.                               *)
PairOn(m, v, u, c) ==
  /\ ~PageOwned(m, c.first) /\ c.first \in PageNums /\ c.pm.page[c.first] = v
  /\ ~PageOwned(m, c.second) /\ c.second \in PageNums /\ c.pm.page[c.second] = u

(* As the splits and rotations write them.                                 *)
LEMMA PairWritten ==
  ASSUME NEW m, Cow!WellFormed(m), NEW v \in Nodes, NEW u \in Nodes,
         NEW c, c = CopyPair(m, v, u), c.err = NoError
  PROVE  PairOn(m, v, u, c)
<1> DEFINE a == CopyToNewPage(m, v)
           b == CopyToNewPage(a.pm, u)
<1>1. c = IF a.err = NoError THEN Paired(a, b) ELSE Paired(a, a)
  BY Zenon DEF CopyPair, Second
<1> HIDE DEF a, b
<1>2. a.err = NoError /\ c.pm = b.pm /\ c.first = a.page /\ c.second = b.page /\ b.err = NoError
  BY <1>1 DEF Paired
<1>3. Safe(a) /\ Safe(b)
  BY <1>2 DEF Safe, NoError, Panicked, Clobber
<1>4. CopyResult(m, v, a)
  BY <1>3, CopyResults DEF a
<1>5. CopyResult(a.pm, u, b)
  BY <1>3, <1>4, CopyResults DEF b, CopyResult
<1>6. ~PageOwned(m, a.page) /\ PageOwned(b.pm, a.page) /\ b.pm.page[a.page] = v
  BY <1>2, <1>4, <1>5, Zenon DEF CopyResult
<1>7. ~PageOwned(m, b.page) /\ PageOwned(b.pm, b.page) /\ b.pm.page[b.page] = u
  BY <1>2, <1>4, <1>5, Zenon DEF CopyResult
<1>8. \A p : PageOwned(b.pm, p) => p \in PageNums
  <2>1. Cow!WellFormed(b.pm)
    BY <1>5, Zenon DEF CopyResult
  <2> QED
    BY <2>1, WellFormedMeans DEF PageOwned
<1> QED
  BY <1>2, <1>6, <1>7, <1>8, Zenon DEF PairOn

(* So does one node.                                                       *)
LEMMA OneWritten ==
  ASSUME NEW m, Cow!WellFormed(m), NEW v \in Nodes, NEW c, c = CopyToNewPage(m, v), c.err = NoError
  PROVE  ~PageOwned(m, c.page) /\ c.page \in PageNums /\ c.pm.page[c.page] = v
<1>1. CopyResult(m, v, c)
  <2>1. Safe(c)
    BY DEF Safe, NoError, Panicked, Clobber
  <2> QED
    BY <2>1, CopyResults
<1>2. ~PageOwned(m, c.page) /\ PageOwned(c.pm, c.page) /\ c.pm.page[c.page] = v /\ Cow!WellFormed(c.pm)
  BY <1>1, Zenon DEF CopyResult
<1> QED
  BY <1>2, WellFormedMeans DEF PageOwned

(* The pages a repair gives up: one child of the node, or two neighbours.  *)
GivesUp(s, n, J) ==
  \/ J = {} /\ s.retired = << >>
  \/ \E j \in 1 .. Len(n.ptr) : J = {j} /\ s.retired = <<n.ptr[j]>>
  \/ \E j \in 1 .. Len(n.ptr) - 1 : J = {j, j + 1} /\ s.retired = <<n.ptr[j], n.ptr[j + 1]>>

(* A pointer of the repaired node leads to a child that is kept, or to a   *)
(* new page that points to what was below those given up.                  *)
Reused(o, m, n, J, p) ==
  \/ \E i \in (1 .. Len(n.ptr)) \ J : p = n.ptr[i]
  \/ ~PageOwned(m, p) /\ \A c \in Children(o)[p] : \E j \in J : c \in Children(m)[n.ptr[j]]

(* So it is with every pointer of the node that comes out of a repair.     *)
Reuses(s, m, n) ==
  \E J \in SUBSET (1 .. Len(n.ptr)) :
    /\ GivesUp(s, n, J)
    /\ s.err = NoError => \A h \in 1 .. Len(s.node.ptr) : Reused(s.pm, m, n, J, s.node.ptr[h])

(* The elements of one list followed by another.                           *)
LEMMA ElementsJoined ==
  ASSUME NEW s \in Seq(Nat), NEW t \in Seq(Nat)
  PROVE  ToSet(s \o t) = ToSet(s) \cup ToSet(t)
<1>1. /\ s \o t \in Seq(Nat) /\ Len(s \o t) = Len(s) + Len(t) /\ Len(s) \in Nat /\ Len(t) \in Nat
      /\ \A i \in 1 .. Len(s) : (s \o t)[i] = s[i]
      /\ \A i \in 1 .. Len(t) : (s \o t)[Len(s) + i] = t[i]
  OBVIOUS
<1>2. /\ ToSet(s) = {s[x] : x \in 1 .. Len(s)} /\ ToSet(t) = {t[x] : x \in 1 .. Len(t)}
      /\ ToSet(s \o t) = {(s \o t)[x] : x \in 1 .. Len(s \o t)}
  BY <1>1, SetOfList
<1>3. \A i \in 1 .. Len(s) + Len(t) : i \in 1 .. Len(s) \/ (i - Len(s) \in 1 .. Len(t) /\ i = Len(s) + (i - Len(s)))
  BY <1>1
<1>4. (\A i \in 1 .. Len(s) : i \in 1 .. Len(s) + Len(t)) /\ \A i \in 1 .. Len(t) : Len(s) + i \in 1 .. Len(s) + Len(t)
  BY <1>1
<1>5. ASSUME NEW x \in ToSet(s \o t) PROVE x \in ToSet(s) \cup ToSet(t)
  <2>1. PICK i \in 1 .. Len(s) + Len(t) : x = (s \o t)[i]
    BY <1>1, <1>2
  <2>2. CASE i \in 1 .. Len(s)
    BY <1>1, <1>2, <2>1, <2>2
  <2>3. CASE i - Len(s) \in 1 .. Len(t) /\ i = Len(s) + (i - Len(s))
    <3>1. PICK h : h = i - Len(s)
      OBVIOUS
    <3> QED
      BY <1>1, <1>2, <2>1, <2>3, <3>1
  <2> QED
    BY <1>3, <2>2, <2>3
<1>6. ASSUME NEW x \in ToSet(s) \cup ToSet(t) PROVE x \in ToSet(s \o t)
  <2>1. CASE x \in ToSet(s)
    <3>1. PICK i \in 1 .. Len(s) : x = s[i]
      BY <1>2, <2>1
    <3> QED
      BY <1>1, <1>2, <1>4, <3>1
  <2>2. CASE x \in ToSet(t)
    <3>1. PICK i \in 1 .. Len(t) : x = t[i]
      BY <1>2, <2>2
    <3> QED
      BY <1>1, <1>2, <1>4, <3>1
  <2> QED
    BY <2>1, <2>2
<1> QED
  BY <1>5, <1>6

-----------------------------------------------------------------------------
(* The cuts that the repairs make in a parent.                             *)
LEMMA CutByRemoving ==
  ASSUME NEW s \in Seq(KVs), NEW j \in 1 .. Len(s), NEW kv \in KVs
  PROVE  CutAt(s, RemoveAt(s, j), j) /\ CutAt([s EXCEPT ![j] = kv], RemoveAt(s, j), j)
<1> DEFINE t == RemoveAt(s, j)
           u == [s EXCEPT ![j] = kv]
           N == Len(s)
<1>1. /\ t \in Seq(KVs) /\ Len(t) = N - 1
      /\ \A x \in 1 .. N - 1 : t[x] = IF x < j THEN s[x] ELSE s[x + 1]
  BY RemovedList
<1>2. u \in Seq(KVs) /\ Len(u) = N /\ \A x \in 1 .. N : x # j => u[x] = s[x]
  <2>1. u \in Seq(KVs) /\ Len(u) = N
    BY ExceptSeq
  <2>2. \A x \in 1 .. N : x # j => u[x] = s[x]
    <3>1. DOMAIN s = 1 .. N
      OBVIOUS
    <3> QED
      BY <3>1, Zenon
  <2> QED
    BY <2>1, <2>2
<1>3. N \in Nat /\ j \in 1 .. N
  OBVIOUS
<1> HIDE DEF t, u, N
<1>4. /\ Len(t) \in Nat /\ N = Len(t) + 1 /\ j \in 1 .. Len(t) + 1
      /\ \A x \in 1 .. j - 1 : x \in 1 .. N - 1 /\ x < j /\ x \in 1 .. N /\ x # j
      /\ \A x \in j .. Len(t) : x \in 1 .. N - 1 /\ ~(x < j) /\ x + 1 \in 1 .. N /\ x + 1 # j
  BY <1>1, <1>3
<1>5. CutAt(s, t, j)
  BY <1>1, <1>4, Zenon DEF CutAt, N
<1>6. CutAt(u, t, j)
  BY <1>1, <1>2, <1>4, Zenon DEF CutAt
<1> QED
  BY <1>5, <1>6 DEF t, u

(* A pair inserted at j is cut out at j again.                             *)
LEMMA CutByInserting ==
  ASSUME NEW s \in Seq(KVs), NEW j \in 1 .. Len(s) + 1, NEW kv \in KVs
  PROVE  CutAt(InsertAt(s, j, kv), s, j) /\ InsertAt(s, j, kv)[j] = kv
<1> DEFINE t == InsertAt(s, j, kv)
           N == Len(s)
<1>1. /\ t \in Seq(KVs) /\ Len(t) = N + 1
      /\ \A x \in 1 .. N + 1 : t[x] = IF x < j THEN s[x] ELSE IF x = j THEN kv ELSE s[x - 1]
  BY InsertedList
<1>2. N \in Nat /\ j \in 1 .. N + 1
  OBVIOUS
<1> HIDE DEF t, N
<1>3. /\ \A x \in 1 .. j - 1 : x \in 1 .. N + 1 /\ x < j
      /\ \A x \in j .. N : x + 1 \in 1 .. N + 1 /\ ~(x + 1 < j) /\ x + 1 # j /\ (x + 1) - 1 = x
      /\ ~(j < j)
  BY <1>2
<1>4. CutAt(t, s, j)
  <2>1. \A x \in 1 .. j - 1 : s[x] = t[x]
    BY <1>1, <1>3, Zenon
  <2>2. ASSUME NEW x \in j .. N PROVE s[x] = t[x + 1]
    <3>1. x + 1 \in 1 .. N + 1 /\ ~(x + 1 < j) /\ x + 1 # j /\ (x + 1) - 1 = x
      BY <1>3
    <3>2. t[x + 1] = s[(x + 1) - 1]
      BY <1>1, <3>1, Zenon
    <3> QED
      BY <3>1, <3>2, Zenon
  <2> QED
    BY <1>1, <1>2, <2>1, <2>2, Zenon DEF CutAt, N
<1>5. t[j] = kv
  BY <1>1, <1>2, <1>3, Zenon
<1> QED
  BY <1>4, <1>5 DEF t

(* And in its pointers.                                                    *)
Repoints(s, j, a, b) ==
  /\ PtrCutAt(s, RemoveAt(s, j), j)
  /\ PtrCutAt([s EXCEPT ![j] = a, ![j + 1] = b], RemoveAt(s, j), j)
  /\ [s EXCEPT ![j] = a, ![j + 1] = b][j] = a /\ [s EXCEPT ![j] = a, ![j + 1] = b][j + 1] = b
  /\ SameBut(Put(RemoveAt(s, j), j, a), RemoveAt(s, j), j)
  /\ Put(RemoveAt(s, j), j, a)[j] = a

(* Removing a pointer and setting two cut the pointers at the same place.  *)
LEMMA PtrCutByRemoving ==
  ASSUME NEW s \in Seq(Nat), NEW j \in 1 .. Len(s) - 1, NEW a \in Nat, NEW b \in Nat
  PROVE  Repoints(s, j, a, b)
<1> DEFINE t == RemoveAt(s, j)
           r == [s EXCEPT ![j] = a]
           u == [s EXCEPT ![j] = a, ![j + 1] = b]
           v == Put(t, j, a)
           N == Len(s)
<1>0. N \in Nat /\ j \in Nat /\ j \in 1 .. N /\ j + 1 \in 1 .. N /\ j # j + 1 /\ j \in 1 .. N - 1
  OBVIOUS
<1>1. /\ t \in Seq(Nat) /\ Len(t) = N - 1
      /\ \A x \in 1 .. N - 1 : t[x] = IF x < j THEN s[x] ELSE s[x + 1]
  BY <1>0, RemovedList
<1>2. r \in Seq(Nat) /\ Len(r) = N /\ DOMAIN r = 1 .. N /\ u = [r EXCEPT ![j + 1] = b] /\ r[j] = a
      /\ \A x \in 1 .. N : x # j => r[x] = s[x]
  <2>1. r \in Seq(Nat) /\ Len(r) = N
    BY <1>0, ExceptSeq
  <2>2. DOMAIN r = 1 .. N /\ DOMAIN s = 1 .. N
    BY <2>1
  <2>3. r[j] = a /\ \A x \in 1 .. N : x # j => r[x] = s[x]
    BY <1>0, <2>2, Zenon
  <2>4. u = [r EXCEPT ![j + 1] = b]
    OBVIOUS
  <2> QED
    BY <2>1, <2>2, <2>3, <2>4
<1>3. u \in Seq(Nat) /\ Len(u) = N /\ u[j] = a /\ u[j + 1] = b
      /\ \A x \in 1 .. N : x # j /\ x # j + 1 => u[x] = s[x]
  <2> HIDE DEF r, u
  <2>1. u \in Seq(Nat) /\ Len(u) = N
    BY <1>0, <1>2, ExceptSeq
  <2>2. u[j + 1] = b /\ \A x \in 1 .. N : x # j + 1 => u[x] = r[x]
    BY <1>0, <1>2, Zenon
  <2> QED
    BY <1>0, <1>2, <2>1, <2>2, Zenon
<1>4. SameBut(v, t, j) /\ v[j] = a
  <2> HIDE DEF t
  <2>1. j \in 1 .. Len(t)
    BY <1>0, <1>1
  <2>2. v \in Seq(Nat) /\ Len(v) = Len(t)
    BY <1>1, <2>1, ExceptSeq DEF Put
  <2>3. DOMAIN t = 1 .. Len(t)
    BY <1>1
  <2>4. v[j] = a /\ \A x \in 1 .. Len(t) : x # j => v[x] = t[x]
    BY <2>1, <2>3, Zenon DEF Put
  <2> QED
    BY <1>1, <2>1, <2>2, <2>4, Zenon DEF SameBut
<1> HIDE DEF t, u, v, r, N
<1>5. /\ N = Len(t) + 1
      /\ \A x \in 1 .. j - 1 : x \in 1 .. N - 1 /\ x < j /\ x \in 1 .. N /\ x # j /\ x # j + 1
      /\ \A x \in j + 1 .. Len(t) : /\ x \in 1 .. N - 1 /\ ~(x < j) /\ x + 1 \in 1 .. N
                                    /\ x + 1 # j /\ x + 1 # j + 1
  BY <1>0, <1>1
<1>6. PtrCutAt(s, t, j)
  BY <1>1, <1>5, Zenon DEF PtrCutAt, N
<1>7. PtrCutAt(u, t, j)
  <2>1. ASSUME NEW x \in 1 .. j - 1 PROVE t[x] = u[x]
    <3>1. x \in 1 .. N - 1 /\ x < j /\ x \in 1 .. N /\ x # j /\ x # j + 1
      BY <1>5
    <3>2. t[x] = s[x]
      BY <1>1, <3>1, Zenon
    <3>3. u[x] = s[x]
      BY <1>3, <3>1, Zenon
    <3> QED
      BY <3>2, <3>3
  <2>2. ASSUME NEW x \in j + 1 .. Len(t) PROVE t[x] = u[x + 1]
    <3>1. /\ x \in 1 .. N - 1 /\ ~(x < j) /\ x + 1 \in 1 .. N /\ x + 1 # j /\ x + 1 # j + 1
      BY <1>5
    <3>2. t[x] = s[x + 1]
      BY <1>1, <3>1, Zenon
    <3>3. u[x + 1] = s[x + 1]
      BY <1>3, <3>1, Zenon
    <3> QED
      BY <3>2, <3>3
  <2> QED
    BY <1>1, <1>3, <1>5, <2>1, <2>2, Zenon DEF PtrCutAt
<1> QED
  BY <1>3, <1>4, <1>6, <1>7, Zenon DEF Repoints, t, u, v

(* Pointers after an insertion, with both halves of a split child in       *)
(* place.                                                                  *)
WithPointers(s, j, a, b) == Put(Put(InsertAt(s, j, 0), j, a), j + 1, b)

(* They differ from the old ones by what was inserted.                     *)
Widens(s, j, a, b) ==
  /\ PtrCutAt(WithPointers(s, j, a, b), s, j)
  /\ WithPointers(s, j, a, b)[j] = a /\ WithPointers(s, j, a, b)[j + 1] = b

(* WithPointers does that.                                                 *)
LEMMA PtrCutByInserting ==
  ASSUME NEW s \in Seq(Nat), NEW j \in 1 .. Len(s), NEW a \in Nat, NEW b \in Nat
  PROVE  Widens(s, j, a, b)
<1> DEFINE t == InsertAt(s, j, 0)
           r == Put(t, j, a)
           u == Put(r, j + 1, b)
           N == Len(s)
<1>0. N \in Nat /\ j \in Nat /\ j \in 1 .. N + 1 /\ j + 1 \in 1 .. N + 1 /\ j # j + 1
  OBVIOUS
<1>1. /\ t \in Seq(Nat) /\ Len(t) = N + 1 /\ DOMAIN t = 1 .. N + 1
      /\ \A x \in 1 .. N + 1 : t[x] = IF x < j THEN s[x] ELSE IF x = j THEN 0 ELSE s[x - 1]
  <2>1. /\ t \in Seq(Nat) /\ Len(t) = N + 1
        /\ \A x \in 1 .. N + 1 : t[x] = IF x < j THEN s[x] ELSE IF x = j THEN 0 ELSE s[x - 1]
    <3>1. PICK S : S = Nat
      OBVIOUS
    <3>2. s \in Seq(S) /\ 0 \in S /\ j \in 1 .. Len(s) + 1
      BY <1>0, <3>1
    <3>3. /\ t \in Seq(S) /\ Len(t) = Len(s) + 1
          /\ \A x \in 1 .. Len(s) + 1 : t[x] = IF x < j THEN s[x] ELSE IF x = j THEN 0 ELSE s[x - 1]
      BY <3>2, InsertedList
    <3> QED
      BY <3>1, <3>3, Zenon
  <2> QED
    BY <2>1
<1> HIDE DEF t, N
<1>2. r \in Seq(Nat) /\ Len(r) = N + 1 /\ DOMAIN r = 1 .. N + 1
  <2>1. r \in Seq(Nat) /\ Len(r) = N + 1
    BY <1>0, <1>1, ExceptSeq DEF Put
  <2> QED
    BY <2>1
<1>3. r[j] = a /\ \A x \in 1 .. N + 1 : x # j => r[x] = t[x]
  BY <1>0, <1>1, Zenon DEF Put
<1> HIDE DEF r, u
<1>4. u \in Seq(Nat) /\ Len(u) = N + 1
  BY <1>0, <1>2, ExceptSeq DEF Put, u
<1>5. u[j + 1] = b /\ \A x \in 1 .. N + 1 : x # j + 1 => u[x] = r[x]
  BY <1>0, <1>2, Zenon DEF Put, u
<1>6. /\ \A x \in 1 .. j - 1 : x \in 1 .. N + 1 /\ x < j /\ x # j /\ x # j + 1
      /\ \A x \in j + 1 .. N : /\ x + 1 \in 1 .. N + 1 /\ ~(x + 1 < j) /\ x + 1 # j /\ (x + 1) - 1 = x
                               /\ x + 1 # j + 1
  BY <1>0
<1>7. \A x \in 1 .. N + 1 : x # j /\ x # j + 1 => u[x] = t[x]
  BY <1>3, <1>5, Zenon
<1>8. ASSUME NEW x \in 1 .. j - 1 PROVE s[x] = u[x]
  <2>1. x \in 1 .. N + 1 /\ x < j /\ x # j /\ x # j + 1
    BY <1>6
  <2>2. t[x] = s[x]
    BY <1>1, <2>1, Zenon
  <2>3. u[x] = t[x]
    BY <1>7, <2>1, Zenon
  <2> QED
    BY <2>2, <2>3
<1>9. ASSUME NEW x \in j + 1 .. N PROVE s[x] = u[x + 1]
  <2>1. /\ x + 1 \in 1 .. N + 1 /\ ~(x + 1 < j) /\ x + 1 # j /\ (x + 1) - 1 = x
        /\ x + 1 # j + 1
    BY <1>6
  <2>2. t[x + 1] = s[(x + 1) - 1]
    BY <1>1, <2>1, Zenon
  <2>3. u[x + 1] = t[x + 1]
    BY <1>7, <2>1, Zenon
  <2> QED
    BY <2>1, <2>2, <2>3, Zenon
<1>10. PtrCutAt(u, s, j)
  BY <1>4, <1>8, <1>9, Zenon DEF PtrCutAt, N
<1> QED
  <2>1. u = WithPointers(s, j, a, b)
    BY Zenon DEF u, r, t, WithPointers
  <2>2. u[j] = a /\ u[j + 1] = b
    BY <1>0, <1>3, <1>5, Zenon
  <2> QED
    BY <1>10, <2>1, <2>2, Zenon DEF Widens

-----------------------------------------------------------------------------
(* A child of a node that fits.                                            *)
Fitted(w, n, d, i, q, c) ==
  /\ q \in DOMAIN w /\ c = w[q].node /\ Fits(w, c, d - 1) /\ c.kvs # << >>
  /\ IsNode(c) /\ InOrder(c.kvs) /\ c.ok /\ (c.type = "internal" <=> d - 1 > 0)
  /\ d - 1 \in Nat /\ w[q].pairs = PairsOf(w, c, d - 1)
  /\ \A x \in 1 .. Len(c.kvs) : Between(n.kvs, i, c.kvs[x][1])
  /\ \A u \in PairsOf(w, c, d - 1) : u \in KVs /\ Between(n.kvs, i, u[1])

(* What a node that fits says of its i-th child.                           *)
LEMMA ChildFitted ==
  ASSUME NEW w, World(w), NEW n, NEW d, Fits(w, n, d), n.type = "internal",
         NEW i \in 1 .. Len(n.kvs) + 1
  PROVE  Fitted(w, n, d, i, n.ptr[i], w[n.ptr[i]].node)
<1> DEFINE q == n.ptr[i]
           c == w[q].node
<1>1. /\ d \in Nat /\ FitsBut(w, n.kvs, n.ptr, {}, d) /\ n.type # "leaf" /\ d # 0
  BY DEF Fits
<1>2. d > 0 /\ i \in 1 .. Len(n.ptr) /\ d - 1 \in Nat /\ (d - 1 = 0 <=> ~(d - 1 > 0))
  <2>1. Len(n.ptr) = Len(n.kvs) + 1
    BY <1>1, Zenon DEF FitsBut
  <2> QED
    BY <1>1, <2>1
<1>3. ChildFits(w, n.kvs, i, q, d)
  BY <1>1, <1>2, Zenon DEF FitsBut
<1>4. /\ q \in DOMAIN w /\ w[q].depth = d - 1 /\ c.kvs # << >>
      /\ \A kv \in w[q].pairs : Between(n.kvs, i, kv[1])
  BY <1>3, Zenon DEF ChildFits
<1>5. Fits(w, c, d - 1) /\ w[q].pairs = PairsOf(w, c, d - 1) /\ w[q].pairs \subseteq KVs
  BY <1>4, Zenon DEF World
<1>6. /\ c \in Nodes /\ c.ok /\ (c.type = "leaf" <=> d - 1 = 0) /\ FitsBut(w, c.kvs, c.ptr, {}, d - 1)
  BY <1>5, Zenon DEF Fits
<1>7. c.type \in {"leaf", "internal"}
  BY <1>6 DEF Nodes
<1>8. Len(c.ptr) = Len(c.kvs) + 1 /\ InOrder(c.kvs)
  BY <1>6, Zenon DEF FitsBut
<1>9. \A x \in 1 .. Len(c.kvs) : c.kvs[x] \in w[q].pairs
  BY <1>5, Zenon DEF PairsOf, PairsBut
<1>10. c.type = "internal" <=> d - 1 > 0
  BY <1>2, <1>6, <1>7
<1> QED
  BY <1>2, <1>4, <1>5, <1>6, <1>8, <1>9, <1>10, Zenon DEF Fitted, IsNode

(* Two children of a node and the pair between them.                       *)
LEMMA SiblingsAround ==
  ASSUME NEW w, World(w), NEW n, NEW d, Fits(w, n, d), n.type = "internal",
         NEW j \in 1 .. Len(n.kvs)
  PROVE  Around(n, j, w[n.ptr[j]].node, w[n.ptr[j + 1]].node)
<1> DEFINE l == w[n.ptr[j]].node
           r == w[n.ptr[j + 1]].node
<1>1. n \in Nodes /\ Len(n.ptr) = Len(n.kvs) + 1 /\ InOrder(n.kvs) /\ n.kvs \in Seq(KVs)
  BY Zenon DEF Fits, FitsBut
<1>2. /\ Len(n.kvs) \in Nat /\ j \in 1 .. Len(n.kvs) + 1 /\ j + 1 \in 1 .. Len(n.kvs) + 1
      /\ j <= Len(n.kvs) /\ j + 1 > 1 /\ (j + 1) - 1 = j
      /\ (j < Len(n.kvs) <=> j + 1 <= Len(n.kvs))
  BY <1>1
<1>3. Fitted(w, n, d, j, n.ptr[j], l) /\ Fitted(w, n, d, j + 1, n.ptr[j + 1], r)
  BY <1>2, ChildFitted
<1> HIDE DEF l, r
<1>4. /\ IsNode(l) /\ IsNode(r) /\ InOrder(l.kvs) /\ InOrder(r.kvs)
      /\ \A x \in 1 .. Len(l.kvs) : Between(n.kvs, j, l.kvs[x][1])
      /\ \A x \in 1 .. Len(r.kvs) : Between(n.kvs, j + 1, r.kvs[x][1])
      /\ (l.type = "internal" <=> d - 1 > 0) /\ (r.type = "internal" <=> d - 1 > 0)
  BY <1>3, Zenon DEF Fitted
<1>5. l.type = r.type
  BY <1>4 DEF IsNode, Nodes
<1>6. \A x \in 1 .. Len(l.kvs) : /\ l.kvs[x][1] < n.kvs[j][1]
                                 /\ j > 1 => n.kvs[j - 1][1] < l.kvs[x][1]
  BY <1>2, <1>4, Zenon DEF Between
<1>7. \A x \in 1 .. Len(r.kvs) : /\ n.kvs[j][1] < r.kvs[x][1]
                                 /\ j < Len(n.kvs) => r.kvs[x][1] < n.kvs[j + 1][1]
  BY <1>2, <1>4 DEF Between
<1> QED
  BY <1>1, <1>4, <1>5, <1>6, <1>7, Zenon DEF Around, IsNode, l, r

(* The child that a split enters lies between its separators.              *)
LEMMA ChildUnder ==
  ASSUME NEW w, World(w), NEW n, NEW d, Fits(w, n, d), n.type = "internal",
         NEW i \in 0 .. Len(n.kvs)
  PROVE  Under(n, i, w[n.ptr[i + 1]].node)
<1> DEFINE l == w[n.ptr[i + 1]].node
<1>1. n \in Nodes /\ Len(n.ptr) = Len(n.kvs) + 1 /\ InOrder(n.kvs) /\ n.kvs \in Seq(KVs)
  BY Zenon DEF Fits, FitsBut
<1>2. /\ i + 1 \in 1 .. Len(n.kvs) + 1 /\ (i + 1) - 1 = i
      /\ (i > 0 <=> i + 1 > 1) /\ (i < Len(n.kvs) <=> i + 1 <= Len(n.kvs))
  BY <1>1
<1>3. Fitted(w, n, d, i + 1, n.ptr[i + 1], l)
  BY <1>2, ChildFitted
<1> HIDE DEF l
<1>4. /\ IsNode(l) /\ InOrder(l.kvs)
      /\ \A x \in 1 .. Len(l.kvs) : Between(n.kvs, i + 1, l.kvs[x][1])
  BY <1>3, Zenon DEF Fitted
<1>5. \A x \in 1 .. Len(l.kvs) : /\ i > 0 => n.kvs[i][1] < l.kvs[x][1]
                                 /\ i < Len(n.kvs) => l.kvs[x][1] < n.kvs[i + 1][1]
  BY <1>2, <1>4 DEF Between
<1> QED
  BY <1>1, <1>4, <1>5, Zenon DEF Under, IsNode, l

-----------------------------------------------------------------------------
(* What OpenOne, OpenPair, PartsFit, CloseOne and CloseTwo ask for and     *)
(* promise, each in a predicate of its own, so that they can be cited of   *)
(* the fields of nodes.                                                    *)
PairApart(w, kvs, ptr, d, j, few, fewer, c, r) ==
  /\ World(w) /\ d \in Nat \ {0} /\ FitsBut(w, kvs, ptr, {}, d) /\ j \in 1 .. Len(kvs)
  /\ CutAt(kvs, few, j) /\ PtrCutAt(ptr, fewer, j)
  /\ Joins(c, w[ptr[j]].node.kvs, kvs[j], w[ptr[j + 1]].node.kvs)
  /\ Strung(d - 1, r, w[ptr[j]].node.ptr, w[ptr[j + 1]].node.ptr) /\ Len(r) = Len(c) + 1

(* A place opened in a node, no pair lost.                                 *)
Open(w, kvs, ptr, d, few, fewer, j, c, r) ==
  /\ Opened(w, few, fewer, j, d, c, r)
  /\ PairsBut(w, kvs, ptr, {}, d) = OpenedPairs(w, few, fewer, j, d, c, r)

(* OpenPair, in these predicates.                                          *)
LEMMA OpensPair ==
  ASSUME NEW w, NEW kvs, NEW ptr, NEW d, NEW j, NEW few, NEW fewer, NEW c, NEW r,
         PairApart(w, kvs, ptr, d, j, few, fewer, c, r)
  PROVE  Open(w, kvs, ptr, d, few, fewer, j, c, r)
<1>1. /\ World(w) /\ d \in Nat \ {0} /\ FitsBut(w, kvs, ptr, {}, d) /\ j \in 1 .. Len(kvs)
      /\ CutAt(kvs, few, j) /\ PtrCutAt(ptr, fewer, j)
      /\ Joins(c, w[ptr[j]].node.kvs, kvs[j], w[ptr[j + 1]].node.kvs)
      /\ Strung(d - 1, r, w[ptr[j]].node.ptr, w[ptr[j + 1]].node.ptr) /\ Len(r) = Len(c) + 1
  BY Zenon DEF PairApart
<1>2. /\ Opened(w, few, fewer, j, d, c, r)
      /\ PairsBut(w, kvs, ptr, {}, d) = OpenedPairs(w, few, fewer, j, d, c, r)
  BY <1>1, OpenPair
<1> QED
  BY <1>2, Zenon DEF Open

(* c and r, taken out of a node, are two parts with kv between them.       *)
InParts(w, few, fewer, j, d, c, r, a, p, kv, b, q) ==
  /\ World(w) /\ Opened(w, few, fewer, j, d, c, r)
  /\ Joins(c, a, kv, b) /\ Strung(d - 1, r, p, q) /\ Len(p) = Len(a) + 1 /\ Len(q) = Len(b) + 1

(* Both parts fit a level below.                                           *)
BothFit(w, d, a, p, b, q) == FitsBut(w, a, p, {}, d - 1) /\ FitsBut(w, b, q, {}, d - 1)

(* PartsFit, in these predicates.                                          *)
LEMMA PartsBothFit ==
  ASSUME NEW w, NEW few, NEW fewer, NEW j, NEW d, NEW c, NEW r, NEW a, NEW p, NEW kv, NEW b, NEW q,
         InParts(w, few, fewer, j, d, c, r, a, p, kv, b, q)
  PROVE  BothFit(w, d, a, p, b, q)
<1>1. /\ World(w) /\ Opened(w, few, fewer, j, d, c, r)
      /\ Joins(c, a, kv, b) /\ Strung(d - 1, r, p, q) /\ Len(p) = Len(a) + 1 /\ Len(q) = Len(b) + 1
  BY Zenon DEF InParts
<1>2. FitsBut(w, a, p, {}, d - 1) /\ FitsBut(w, b, q, {}, d - 1)
  BY <1>1, PartsFit
<1> QED
  BY <1>2, Zenon DEF BothFit

(* The two parts are put on pages, and the pages in the node's place j.    *)
TwoPut(w, x, few, fewer, j, d, c, r, kvs, ptr, a, p, b, q) ==
  /\ InParts(w, few, fewer, j, d, c, r, a, p, kvs[j], b, q) /\ Later(w, x)
  /\ CutAt(kvs, few, j) /\ PtrCutAt(ptr, fewer, j) /\ Len(ptr) = Len(kvs) + 1
  /\ Holding(x, ptr[j], a, PairsBut(w, a, p, {}, d - 1), d - 1)
  /\ Holding(x, ptr[j + 1], b, PairsBut(w, b, q, {}, d - 1), d - 1)

(* The whole is put on one page, and the page in the node's place j.       *)
OnePut(w, x, few, fewer, j, d, c, r, full) ==
  /\ Opened(w, few, fewer, j, d, c, r) /\ Later(w, x) /\ SameBut(full, fewer, j)
  /\ Holding(x, full[j], c, PairsBut(w, c, r, {}, d - 1), d - 1)

(* The place is filled, no pair lost.                                      *)
ClosedUp(w, x, few, fewer, j, d, c, r, kvs, ptr) ==
  /\ FitsBut(x, kvs, ptr, {}, d)
  /\ PairsBut(x, kvs, ptr, {}, d) = OpenedPairs(w, few, fewer, j, d, c, r)

(* CloseTwo and CloseOne, in these predicates.                             *)
LEMMA ClosesTwo ==
  ASSUME NEW w, NEW x, NEW few, NEW fewer, NEW j, NEW d, NEW c, NEW r, NEW kvs, NEW ptr,
         NEW a, NEW p, NEW b, NEW q, TwoPut(w, x, few, fewer, j, d, c, r, kvs, ptr, a, p, b, q)
  PROVE  ClosedUp(w, x, few, fewer, j, d, c, r, kvs, ptr)
<1>1. /\ World(w) /\ Opened(w, few, fewer, j, d, c, r) /\ Later(w, x)
      /\ Joins(c, a, kvs[j], b) /\ Strung(d - 1, r, p, q) /\ Len(p) = Len(a) + 1 /\ Len(q) = Len(b) + 1
      /\ CutAt(kvs, few, j) /\ PtrCutAt(ptr, fewer, j) /\ Len(ptr) = Len(kvs) + 1
      /\ Holding(x, ptr[j], a, PairsBut(w, a, p, {}, d - 1), d - 1)
      /\ Holding(x, ptr[j + 1], b, PairsBut(w, b, q, {}, d - 1), d - 1)
  BY Zenon DEF TwoPut, InParts
<1>2. /\ FitsBut(x, kvs, ptr, {}, d)
      /\ PairsBut(x, kvs, ptr, {}, d) = OpenedPairs(w, few, fewer, j, d, c, r)
  BY <1>1, CloseTwo
<1> QED
  BY <1>2, Zenon DEF ClosedUp

(* A place is filled by one page with all that was taken out.              *)
LEMMA ClosesOne ==
  ASSUME NEW w, NEW x, NEW few, NEW fewer, NEW j, NEW d, NEW c, NEW r, NEW full,
         OnePut(w, x, few, fewer, j, d, c, r, full)
  PROVE  ClosedUp(w, x, few, fewer, j, d, c, r, few, full)
<1>1. /\ Opened(w, few, fewer, j, d, c, r) /\ Later(w, x) /\ SameBut(full, fewer, j)
      /\ Holding(x, full[j], c, PairsBut(w, c, r, {}, d - 1), d - 1)
  BY Zenon DEF OnePut
<1>2. /\ FitsBut(x, few, full, {}, d)
      /\ PairsBut(x, few, full, {}, d) = OpenedPairs(w, few, fewer, j, d, c, r)
  BY <1>1, CloseOne
<1> QED
  BY <1>2, Zenon DEF ClosedUp

-----------------------------------------------------------------------------
(* What every repair keeps: the world is still there, and when it succeeds *)
(* the repaired node, in memory, has the pairs of node n below it.         *)
KeepsPairs(s, w, x, n, d) ==
  /\ Later(w, x) /\ Holds(s.pm, x)
  /\ s.err = NoError => Fits(x, s.node, d) /\ PairsOf(x, s.node, d) = PairsOf(w, n, d)

(* A node that fits, made of given pairs and pointers.                     *)
LEMMA WithFits ==
  ASSUME NEW w, NEW x, NEW n, NEW d, Fits(w, n, d), n.type = "internal",
         NEW kvs, NEW ptr, FitsBut(x, kvs, ptr, {}, d)
  PROVE  /\ Fits(x, With(n, kvs, ptr), d)
         /\ PairsOf(x, With(n, kvs, ptr), d) = PairsBut(x, kvs, ptr, {}, d)
         /\ With(n, kvs, ptr).kvs = kvs /\ With(n, kvs, ptr).ptr = ptr
         /\ With(n, kvs, ptr).type = n.type
<1>1. n \in Nodes /\ n.ok /\ d \in Nat /\ (n.type = "leaf" <=> d = 0) /\ d # 0
  <2>1. n.type # "leaf"
    OBVIOUS
  <2> QED
    BY <2>1, Zenon DEF Fits
<1>2. kvs \in Seq(KVs) /\ ptr \in Seq(Nat)
  BY Zenon DEF FitsBut
<1> DEFINE v == With(n, kvs, ptr)
<1>3. v \in Nodes /\ v.kvs = kvs /\ v.ptr = ptr /\ v.type = n.type /\ v.ok = n.ok
  BY <1>1, <1>2 DEF Nodes, KVs, With
<1> HIDE DEF v
<1>4. Fits(x, v, d) /\ PairsOf(x, v, d) = PairsBut(x, kvs, ptr, {}, d)
  BY <1>1, <1>3, Zenon DEF Fits, PairsOf
<1> QED
  BY <1>3, <1>4 DEF v

(* Lists of page numbers end to end.                                       *)
LEMMA PtrsJoined ==
  ASSUME NEW p \in Seq(Nat), NEW q \in Seq(Nat)
  PROVE  p \o q \in Seq(Nat) /\ Len(p \o q) = Len(p) + Len(q)
  OBVIOUS

(* The pointers of two leaves that were one lead nowhere.                  *)
LEMMA NilsOfParts ==
  ASSUME NEW p \in Seq(Nat), NEW q \in Seq(Nat), Nils(p \o q)
  PROVE  Nils(p) /\ Nils(q)
<1> DEFINE r == p \o q
<1>1. /\ Len(r) = Len(p) + Len(q)
      /\ \A i \in 1 .. Len(p) : r[i] = p[i]
      /\ \A i \in 1 .. Len(q) : r[Len(p) + i] = q[i]
  BY PointersJoined, Zenon
<1>2. Len(p) \in Nat /\ Len(q) \in Nat
  OBVIOUS
<1>3. \A x \in 1 .. Len(r) : r[x] = 0
  BY DEF Nils
<1> HIDE DEF r
<1>4. /\ \A i \in 1 .. Len(p) : i \in 1 .. Len(r)
      /\ \A i \in 1 .. Len(q) : Len(p) + i \in 1 .. Len(r)
  BY <1>1, <1>2
<1> QED
  BY <1>1, <1>3, <1>4, Zenon DEF Nils

(* A part of a cut node that fits, as a node of its own.                   *)
LEMMA PartIsNode ==
  ASSUME NEW w, NEW v, v \in Nodes, v.ok, NEW d, d \in Nat, FitsBut(w, v.kvs, v.ptr, {}, d),
         v.type = "internal" <=> d > 0, d = 0 => Nils(v.ptr)
  PROVE  Fits(w, v, d)
<1>1. v.type = "leaf" <=> d = 0
  BY DEF Nodes
<1> QED
  BY <1>1, Zenon DEF Fits

(* Page numbers of the world are natural numbers.                          *)
LEMMA PagesAreNumbers ==
  ASSUME NEW m, NEW x, Holds(m, x), NEW q, q \in DOMAIN x
  PROVE  q \in Nat
<1>1. q \in 1 .. m.cur - 1 /\ Cow!WellFormed(m)
  BY Zenon DEF Holds, PageOwned
<1> QED
  BY <1>1, WellFormedMeans, Zenon

(* The parent after a rotation, and how many pairs its two children have:  *)
(* c in the left one.  The new separator is the one at that cut.           *)
RotatedTo(s, x, n, j, l, r, c) ==
  /\ Len(s.node.kvs) = Len(n.kvs)
  /\ \E kv \in KVs :
       /\ s.node.kvs = [n.kvs EXCEPT ![j] = kv]
       /\ c < Len(l.kvs) => kv = l.kvs[c + 1]
       /\ c > Len(l.kvs) => kv = r.kvs[c - Len(l.kvs)]
  /\ Len(x[s.node.ptr[j]].node.kvs) = c
  /\ Len(x[s.node.ptr[j + 1]].node.kvs) = Len(l.kvs) + Len(r.kvs) - c

(* What a rotation does to two children leaves the pairs below their       *)
(* parent what they are, whichever way the cut between the two moves.      *)
LEMMA RotationKeepsPairs ==
  ASSUME NEW m, NEW w, Holds(m, w), NEW n, NEW d, Fits(w, n, d), n.type = "internal",
         NEW j \in 1 .. Len(n.kvs), NEW l, NEW r,
         l = w[n.ptr[j]].node, r = w[n.ptr[j + 1]].node,
         NEW c \in Nat \ {0}, c < Len(l.kvs) + Len(r.kvs),
         NEW s, Redistributed(s, m, n, j, l, r, c), Safe(s)
  PROVE  \E x : KeepsPairs(s, w, x, n, d) /\ (s.err = NoError => RotatedTo(s, x, n, j, l, r, c))
<1>1. PICK v \in Nodes, u \in Nodes, kv \in KVs :
        /\ s.pm = CopyPair(m, v, u).pm /\ s.err = CopyPair(m, v, u).err
        /\ s.node = RotatedParent(m, n, v, u, kv, j)
        /\ IsNode(v) /\ IsNode(u) /\ v.type = l.type /\ u.type = r.type /\ v.ok /\ u.ok
        /\ Len(v.kvs) = c
        /\ (v.kvs \o <<kv>>) \o u.kvs = (l.kvs \o <<n.kvs[j]>>) \o r.kvs
        /\ l.type = "internal" => v.ptr \o u.ptr = l.ptr \o r.ptr
        /\ l.type # "internal" /\ Nils(l.ptr) /\ Nils(r.ptr) => Nils(v.ptr) /\ Nils(u.ptr)
  BY Zenon DEF Redistributed
<1>2. World(w) /\ n.kvs \in Seq(KVs) /\ n.ptr \in Seq(Nat) /\ Len(n.ptr) = Len(n.kvs) + 1
      /\ FitsBut(w, n.kvs, n.ptr, {}, d) /\ d \in Nat /\ n \in Nodes /\ d # 0
  <2>1. n.type # "leaf"
    OBVIOUS
  <2> QED
    BY <2>1, Zenon DEF Holds, Fits, FitsBut
<1>3. d \in Nat \ {0} /\ Len(n.kvs) \in Nat /\ j \in 1 .. Len(n.kvs) + 1 /\ j + 1 \in 1 .. Len(n.kvs) + 1
      /\ j \in 1 .. Len(n.ptr) - 1
  BY <1>2
<1>4. Fitted(w, n, d, j, n.ptr[j], l) /\ Fitted(w, n, d, j + 1, n.ptr[j + 1], r)
  BY <1>2, <1>3, ChildFitted
<1>5. /\ IsNode(l) /\ IsNode(r) /\ d - 1 \in Nat
      /\ (l.type = "internal" <=> d - 1 > 0) /\ (r.type = "internal" <=> d - 1 > 0)
  BY <1>4, Zenon DEF Fitted
<1> DEFINE sep == n.kvs[j]
           a   == (l.kvs \o <<sep>>) \o r.kvs
           R   == l.ptr \o r.ptr
<1>6. /\ l.kvs \in Seq(KVs) /\ r.kvs \in Seq(KVs) /\ v.kvs \in Seq(KVs) /\ u.kvs \in Seq(KVs) /\ sep \in KVs
      /\ l.ptr \in Seq(Nat) /\ r.ptr \in Seq(Nat) /\ v.ptr \in Seq(Nat) /\ u.ptr \in Seq(Nat)
      /\ Len(l.ptr) = Len(l.kvs) + 1 /\ Len(r.ptr) = Len(r.kvs) + 1
      /\ Len(v.ptr) = Len(v.kvs) + 1 /\ Len(u.ptr) = Len(u.kvs) + 1
  <2>1. sep \in KVs
    BY <1>2
  <2> QED
    BY <1>1, <1>5, <2>1 DEF IsNode, Nodes, KVs
<1>7. Joins(a, l.kvs, sep, r.kvs) /\ Joins(a, v.kvs, kv, u.kvs)
  <2>1. Joins((l.kvs \o <<sep>>) \o r.kvs, l.kvs, sep, r.kvs)
    BY <1>6, WithPairBetween
  <2>2. Joins((v.kvs \o <<kv>>) \o u.kvs, v.kvs, kv, u.kvs)
    BY <1>6, WithPairBetween
  <2> HIDE DEF sep
  <2> QED
    BY <1>1, <2>1, <2>2, Zenon DEF sep
<1>8. R \in Seq(Nat) /\ Len(R) = Len(l.ptr) + Len(r.ptr)
  BY <1>6, PtrsJoined
<1>b. Len(v.kvs) = c /\ (l.type = "internal" => R = v.ptr \o u.ptr) /\ R = l.ptr \o r.ptr
  BY <1>1, Zenon
<1> HIDE DEF sep, a, R
<1>9. Len(a) = Len(l.kvs) + Len(r.kvs) + 1 /\ Len(a) = Len(v.kvs) + Len(u.kvs) + 1
      /\ Len(l.kvs) \in Nat /\ Len(r.kvs) \in Nat /\ Len(u.kvs) \in Nat
  BY <1>7, Zenon DEF Joins
<1>10. Len(R) = Len(a) + 1 /\ v.kvs # << >> /\ u.kvs # << >>
  <2>1. Len(R) = Len(a) + 1 /\ Len(v.kvs) # 0 /\ Len(u.kvs) # 0
    <3>1. Len(v.kvs) = c /\ Len(l.ptr) = Len(l.kvs) + 1 /\ Len(r.ptr) = Len(r.kvs) + 1
      BY <1>b, <1>6, Zenon
    <3>2. Len(R) = Len(l.ptr) + Len(r.ptr)
      BY <1>8, Zenon
    <3>3. \A A, L, K, U, V \in Int :
            A = L + K + 1 /\ A = V + U + 1 /\ V = c /\ c < L + K /\ c # 0
              => (L + 1) + (K + 1) = A + 1 /\ V # 0 /\ U # 0
      OBVIOUS
    <3> DEFINE A == Len(a)
               L == Len(l.kvs)
               K == Len(r.kvs)
               U == Len(u.kvs)
               V == Len(v.kvs)
    <3>4. L \in Nat /\ K \in Nat /\ U \in Nat /\ A = L + K + 1 /\ A = V + U + 1 /\ V = c
          /\ c < L + K
      BY <1>9, <3>1, Zenon
    <3> HIDE DEF A, L, K, U, V
    <3>5. A \in Int /\ L \in Int /\ K \in Int /\ U \in Int /\ V \in Int /\ c < L + K /\ c # 0
          /\ A = L + K + 1 /\ A = V + U + 1 /\ V = c
      BY <3>4
    <3>6. (L + 1) + (K + 1) = A + 1 /\ V # 0 /\ U # 0
      BY <3>3, <3>5
    <3> QED
      BY <3>1, <3>2, <3>4, <3>6, Zenon DEF A, L, K, U, V
  <2> QED
    BY <2>1
<1>11. Strung(d - 1, R, l.ptr, r.ptr) /\ Strung(d - 1, R, v.ptr, u.ptr)
  BY <1>b, <1>5, <1>6, <1>8, Zenon DEF Strung
<1> DEFINE few   == RemoveAt(n.kvs, j)
           fewer == RemoveAt(n.ptr, j)
<1>12. CutAt(n.kvs, few, j) /\ CutAt([n.kvs EXCEPT ![j] = kv], few, j)
  BY <1>2, CutByRemoving
<1>13. PtrCutAt(n.ptr, fewer, j)
  <2>1. 0 \in Nat
    OBVIOUS
  <2>2. Repoints(n.ptr, j, 0, 0)
    BY <1>2, <1>3, <2>1, PtrCutByRemoving
  <2> QED
    BY <2>2, Zenon DEF Repoints
<1> HIDE DEF few, fewer
<1>14. Opened(w, few, fewer, j, d, a, R)
       /\ PairsBut(w, n.kvs, n.ptr, {}, d) = OpenedPairs(w, few, fewer, j, d, a, R)
  <2>1. /\ Joins(a, w[n.ptr[j]].node.kvs, n.kvs[j], w[n.ptr[j + 1]].node.kvs)
        /\ Strung(d - 1, R, w[n.ptr[j]].node.ptr, w[n.ptr[j + 1]].node.ptr)
    BY <1>7, <1>11 DEF sep
  <2> QED
    <3>1. PairApart(w, n.kvs, n.ptr, d, j, few, fewer, a, R)
      BY <1>2, <1>3, <1>10, <1>12, <1>13, <2>1, Zenon DEF PairApart
    <3>2. Open(w, n.kvs, n.ptr, d, few, fewer, j, a, R)
      BY <3>1, OpensPair
    <3> QED
      BY <3>2, Zenon DEF Open
<1>15. FitsBut(w, v.kvs, v.ptr, {}, d - 1) /\ FitsBut(w, u.kvs, u.ptr, {}, d - 1)
  <2>1. InParts(w, few, fewer, j, d, a, R, v.kvs, v.ptr, kv, u.kvs, u.ptr)
    BY <1>2, <1>6, <1>7, <1>11, <1>14, Zenon DEF InParts
  <2>2. BothFit(w, d, v.kvs, v.ptr, u.kvs, u.ptr)
    BY <2>1, PartsBothFit
  <2> QED
    BY <2>2, Zenon DEF BothFit
<1>16. Fits(w, v, d - 1) /\ Fits(w, u, d - 1)
  <2>1. d - 1 = 0 => Nils(l.ptr) /\ Nils(r.ptr)
    BY <1>4, Zenon DEF Fitted, Fits
  <2>2. d - 1 = 0 => l.type # "internal"
    BY <1>5
  <2>3. d - 1 = 0 => Nils(v.ptr) /\ Nils(u.ptr)
    BY <1>1, <2>1, <2>2, Zenon
  <2>4. (v.type = "internal" <=> d - 1 > 0) /\ (u.type = "internal" <=> d - 1 > 0)
    BY <1>1, <1>5, Zenon
  <2> QED
    BY <1>1, <1>5, <1>15, <2>3, <2>4, PartIsNode
<1> DEFINE p == CopyPair(m, v, u)
<1>17. Safe(p)
  BY <1>1 DEF Safe
<1>18. PICK x : /\ Later(w, x) /\ Holds(p.pm, x)
                /\ p.err = NoError => On(x, p.first, w, v, d - 1) /\ On(x, p.second, w, u, d - 1)
  BY <1>16, <1>17, PersistTwo
<1> HIDE DEF p
<1>19. s.pm = p.pm /\ s.err = p.err
  BY <1>1, Zenon DEF p
<1>20. ASSUME s.err = NoError
       PROVE  /\ Fits(x, s.node, d) /\ PairsOf(x, s.node, d) = PairsOf(w, n, d)
              /\ RotatedTo(s, x, n, j, l, r, c)
  <2> DEFINE kvs == [n.kvs EXCEPT ![j] = kv]
             ptr == [n.ptr EXCEPT ![j] = p.first, ![j + 1] = p.second]
  <2>1. s.node = With(n, kvs, ptr)
    BY <1>1, Zenon DEF RotatedParent, p
  <2>2. On(x, p.first, w, v, d - 1) /\ On(x, p.second, w, u, d - 1)
    BY <1>18, <1>19, <1>20
  <2>3. p.first \in Nat /\ p.second \in Nat
    <3>1. p.first \in DOMAIN x /\ p.second \in DOMAIN x
      BY <2>2, Zenon DEF On
    <3> QED
      BY <1>18, <3>1, PagesAreNumbers
  <2>4. kvs[j] = kv /\ kvs \in Seq(KVs) /\ Len(kvs) = Len(n.kvs)
    BY <1>2, ExceptSeq
  <2>5. PtrCutAt(ptr, fewer, j) /\ ptr[j] = p.first /\ ptr[j + 1] = p.second
    <3>1. Repoints(n.ptr, j, p.first, p.second)
      BY <1>2, <1>3, <2>3, PtrCutByRemoving
    <3> QED
      BY <3>1, Zenon DEF Repoints, fewer
  <2>6. CutAt(kvs, few, j)
    BY <1>12
  <2> HIDE DEF kvs, ptr
  <2>7. Len(ptr) = Len(kvs) + 1
    <3>1. Len(ptr) = Len(fewer) + 1 /\ Len(n.ptr) = Len(fewer) + 1
      BY <1>13, <2>5, Zenon DEF PtrCutAt
    <3> QED
      BY <1>2, <2>4, <3>1
  <2>8. /\ Holding(x, ptr[j], v.kvs, PairsBut(w, v.kvs, v.ptr, {}, d - 1), d - 1)
        /\ Holding(x, ptr[j + 1], u.kvs, PairsBut(w, u.kvs, u.ptr, {}, d - 1), d - 1)
    BY <1>10, <2>2, <2>5, OnHolding
  <2>9. Joins(a, v.kvs, kvs[j], u.kvs)
    BY <1>7, <2>4
  <2>10. FitsBut(x, kvs, ptr, {}, d)
         /\ PairsBut(x, kvs, ptr, {}, d) = OpenedPairs(w, few, fewer, j, d, a, R)
    <3>1. InParts(w, few, fewer, j, d, a, R, v.kvs, v.ptr, kvs[j], u.kvs, u.ptr)
      BY <1>2, <1>6, <1>11, <1>14, <2>9, Zenon DEF InParts
    <3>2. TwoPut(w, x, few, fewer, j, d, a, R, kvs, ptr, v.kvs, v.ptr, u.kvs, u.ptr)
      BY <3>1, <1>18, <2>5, <2>6, <2>7, <2>8, Zenon DEF TwoPut
    <3>3. ClosedUp(w, x, few, fewer, j, d, a, R, kvs, ptr)
      BY <3>2, ClosesTwo
    <3> QED
      BY <3>3, Zenon DEF ClosedUp
  <2>11. /\ Fits(x, With(n, kvs, ptr), d) /\ With(n, kvs, ptr).kvs = kvs
         /\ With(n, kvs, ptr).ptr = ptr
         /\ PairsOf(x, With(n, kvs, ptr), d) = PairsBut(x, kvs, ptr, {}, d)
    BY <2>10, WithFits
  <2>12. RotatedTo(s, x, n, j, l, r, c)
    <3>1. kvs = [n.kvs EXCEPT ![j] = kv]
      BY DEF kvs
    <3>2. /\ Len(x[ptr[j]].node.kvs) = c
          /\ Len(x[ptr[j + 1]].node.kvs) = Len(l.kvs) + Len(r.kvs) - c
      <4>1. x[ptr[j]].node.kvs = v.kvs /\ x[ptr[j + 1]].node.kvs = u.kvs
        BY <2>8, Zenon DEF Holding
      <4>2. Len(u.kvs) = Len(l.kvs) + Len(r.kvs) - c
        <5>1. \A L, K, V, U \in Int : L + K + 1 = V + U + 1 => U = L + K - V
          OBVIOUS
        <5> DEFINE L == Len(l.kvs)
                   K == Len(r.kvs)
                   V == Len(v.kvs)
                   U == Len(u.kvs)
        <5>2. L \in Int /\ K \in Int /\ U \in Int /\ V \in Int /\ L + K + 1 = V + U + 1 /\ V = c
          <6>1. L \in Nat /\ K \in Nat /\ U \in Nat /\ c \in Nat /\ V = c /\ L + K + 1 = V + U + 1
            BY <1>9, <1>b, Zenon
          <6> HIDE DEF L, K, U, V
          <6> QED
            BY <6>1
        <5> HIDE DEF L, K, U, V
        <5>3. U = L + K - c
          BY <5>2
        <5> QED
          BY <5>3, Zenon DEF L, K, U
      <4> QED
        BY <1>b, <4>1, <4>2, Zenon
    <3>3. c < Len(l.kvs) => kv = l.kvs[c + 1]
      <4>1. ASSUME c < Len(l.kvs) PROVE c + 1 \in 1 .. Len(l.kvs)
        <5> DEFINE L == Len(l.kvs)
        <5>1. L \in Nat /\ c < L
          BY <1>9, <4>1, Zenon
        <5> HIDE DEF L
        <5>2. c + 1 \in 1 .. L
          BY <5>1
        <5> QED
          BY <5>2 DEF L
      <4>2. kv = a[c + 1]
        BY <1>7, <1>b, Zenon DEF Joins
      <4> QED
        BY <1>7, <4>1, <4>2, Zenon DEF Joins
    <3>4. c > Len(l.kvs) => kv = r.kvs[c - Len(l.kvs)]
      <4>1. ASSUME c > Len(l.kvs)
            PROVE  c - Len(l.kvs) \in 1 .. Len(r.kvs) /\ Len(l.kvs) + 1 + (c - Len(l.kvs)) = c + 1
        <5> DEFINE L == Len(l.kvs)
                   K == Len(r.kvs)
        <5>1. L \in Nat /\ K \in Nat /\ c > L /\ c < L + K
          BY <1>9, <4>1, Zenon
        <5> HIDE DEF L, K
        <5>2. c - L \in 1 .. K /\ L + 1 + (c - L) = c + 1
          BY <5>1
        <5> QED
          BY <5>2 DEF L, K
      <4>2. kv = a[c + 1]
        BY <1>7, <1>b, Zenon DEF Joins
      <4> QED
        BY <1>7, <4>1, <4>2, Zenon DEF Joins
    <3>5. With(n, kvs, ptr).kvs = kvs /\ With(n, kvs, ptr).ptr = ptr
      BY <2>11
    <3> QED
      BY <2>1, <2>4, <3>1, <3>2, <3>3, <3>4, <3>5, Zenon DEF RotatedTo
  <2> QED
    BY <1>14, <2>1, <2>4, <2>10, <2>11, <2>12, Zenon DEF PairsOf
<1> QED
  BY <1>18, <1>19, <1>20, Zenon DEF KeepsPairs

(* The children of a page that a node in the world points to.             *)
LEMMA ChildrenOfHeld ==
  ASSUME NEW m, NEW w, Holds(m, w), NEW n, NEW d, Fits(w, n, d), n.type = "internal",
         NEW i \in 1 .. Len(n.ptr)
  PROVE  LET l == w[n.ptr[i]].node
         IN /\ Fitted(w, n, d, i, n.ptr[i], l) /\ n.ptr[i] \in PageNums
            /\ l.type # "leaf" => l.type = "internal" /\ Children(m)[n.ptr[i]] = ToSet(l.ptr)
            /\ l.type = "internal" <=> d - 1 > 0
<1> DEFINE l == w[n.ptr[i]].node
<1>1. World(w) /\ n.kvs \in Seq(KVs) /\ n.ptr \in Seq(Nat) /\ Len(n.ptr) = Len(n.kvs) + 1
      /\ FitsBut(w, n.kvs, n.ptr, {}, d) /\ d \in Nat /\ n \in Nodes /\ d # 0
  <2>1. n.type # "leaf"
    OBVIOUS
  <2> QED
    BY <2>1, Zenon DEF Holds, Fits, FitsBut
<1>2. i \in 1 .. Len(n.kvs) + 1
  BY <1>1
<1>3. Fitted(w, n, d, i, n.ptr[i], l)
  BY <1>1, <1>2, ChildFitted
<1>4. n.ptr[i] \in DOMAIN w /\ IsNode(l) /\ (l.type = "internal" <=> d - 1 > 0)
  BY <1>3, Zenon DEF Fitted
<1>5. n.ptr[i] \in PageNums /\ m.page[n.ptr[i]] = l
  BY <1>4, WorldOnPages
<1>6. l.type # "leaf" => l.type = "internal"
  BY <1>4 DEF IsNode, Nodes
<1>7. l.type # "leaf" => Children(m)[n.ptr[i]] = ToSet(l.ptr)
  BY <1>5 DEF Children
<1> QED
  BY <1>3, <1>4, <1>5, <1>6, <1>7

(* A page that a node was written to, and its pointers.                    *)
LEMMA ChildrenOfWritten ==
  ASSUME NEW o, NEW p \in PageNums, NEW v, IsNode(v), o.page[p] = v, NEW c \in Children(o)[p]
  PROVE  v.type = "internal" /\ c \in ToSet(v.ptr)
  BY DEF Children, IsNode, Nodes

(* A rotation gives up the two children it takes from.                     *)
LEMMA RotationReuses ==
  ASSUME NEW m, NEW w, Holds(m, w), NEW n, NEW d, Fits(w, n, d), n.type = "internal",
         NEW j \in 1 .. Len(n.kvs), NEW l, NEW r,
         l = w[n.ptr[j]].node, r = w[n.ptr[j + 1]].node, NEW c,
         NEW s, Redistributed(s, m, n, j, l, r, c), Safe(s)
  PROVE  Reuses(s, m, n)
<1>1. PICK v \in Nodes, u \in Nodes, kv \in KVs :
        /\ s.pm = CopyPair(m, v, u).pm /\ s.err = CopyPair(m, v, u).err
        /\ s.node = RotatedParent(m, n, v, u, kv, j)
        /\ IsNode(v) /\ IsNode(u) /\ v.type = l.type /\ u.type = r.type
        /\ l.type = "internal" => v.ptr \o u.ptr = l.ptr \o r.ptr
  BY Zenon DEF Redistributed
<1>2. n.kvs \in Seq(KVs) /\ n.ptr \in Seq(Nat) /\ Len(n.ptr) = Len(n.kvs) + 1 /\ n \in Nodes
  BY Zenon DEF Fits, FitsBut
<1>3. /\ Len(n.kvs) \in Nat /\ j \in 1 .. Len(n.ptr) - 1 /\ j \in 1 .. Len(n.ptr) /\ j + 1 \in 1 .. Len(n.ptr)
  BY <1>2
<1> DEFINE J == {j, j + 1}
           p == CopyPair(m, v, u)
<1>4. J \in SUBSET (1 .. Len(n.ptr)) /\ GivesUp(s, n, J)
  <2>1. s.retired = <<n.ptr[j], n.ptr[j + 1]>>
    BY Zenon DEF Redistributed, Retires
  <2>2. J \in SUBSET (1 .. Len(n.ptr))
    BY <1>3
  <2> QED
    BY <1>3, <2>1, <2>2, Zenon DEF GivesUp
<1>5. /\ Fitted(w, n, d, j, n.ptr[j], l) /\ Fitted(w, n, d, j + 1, n.ptr[j + 1], r)
      /\ l.type = "internal" => Children(m)[n.ptr[j]] = ToSet(l.ptr)
      /\ r.type = "internal" => Children(m)[n.ptr[j + 1]] = ToSet(r.ptr)
      /\ l.type = "internal" <=> r.type = "internal"
  BY <1>3, ChildrenOfHeld
<1>6. ASSUME s.err = NoError, NEW h \in 1 .. Len(s.node.ptr)
      PROVE  Reused(s.pm, m, n, J, s.node.ptr[h])
  <2>1. PairOn(m, v, u, p)
    BY <1>1, <1>6, PairWritten, Zenon DEF Holds
  <2>2. s.node.ptr = [n.ptr EXCEPT ![j] = p.first, ![j + 1] = p.second]
    BY <1>1, <1>2 DEF RotatedParent, With, Nodes
  <2>3. p.pm = s.pm /\ (l.type = "internal" => ToSet(v.ptr) \cup ToSet(u.ptr) \subseteq ToSet(l.ptr) \cup ToSet(r.ptr))
    <3>1. v.ptr \in Seq(Nat) /\ u.ptr \in Seq(Nat)
      BY <1>1 DEF IsNode, Nodes
    <3>2. l.ptr \in Seq(Nat) /\ r.ptr \in Seq(Nat)
      BY <1>5, Zenon DEF Fitted, Fits, FitsBut
    <3>3. ToSet(v.ptr \o u.ptr) = ToSet(v.ptr) \cup ToSet(u.ptr)
      BY <3>1, ElementsJoined
    <3>4. ToSet(l.ptr \o r.ptr) = ToSet(l.ptr) \cup ToSet(r.ptr)
      BY <3>2, ElementsJoined
    <3> QED
      BY <1>1, <3>3, <3>4
  <2> HIDE DEF p, J
  <2>4. ASSUME NEW q \in {p.first, p.second} PROVE Reused(s.pm, m, n, J, q)
    <3>1. ~PageOwned(m, q) /\ q \in PageNums /\ \E y \in {v, u} : s.pm.page[q] = y
      BY <2>1, <2>3, <2>4, Zenon DEF PairOn
    <3>2. ASSUME NEW e \in Children(s.pm)[q] PROVE \E i \in J : e \in Children(m)[n.ptr[i]]
      <4>1. PICK y \in {v, u} : s.pm.page[q] = y
        BY <3>1
      <4>2. y.type = "internal" /\ e \in ToSet(y.ptr)
        <5>1. q \in PageNums /\ IsNode(y) /\ s.pm.page[q] = y /\ e \in Children(s.pm)[q]
          BY <1>1, <3>1, <3>2, <4>1, Zenon
        <5> QED
          BY <5>1, ChildrenOfWritten
      <4>3. l.type = "internal" /\ r.type = "internal"
        BY <1>1, <1>5, <4>1, <4>2
      <4>4. e \in ToSet(l.ptr) \/ e \in ToSet(r.ptr)
        BY <2>3, <4>1, <4>2, <4>3
      <4> QED
        BY <1>5, <4>3, <4>4 DEF J
    <3> QED
      BY <3>1, <3>2, Zenon DEF Reused
  <2>5. h \in 1 .. Len(n.ptr) /\ (h # j /\ h # j + 1 => s.node.ptr[h] = n.ptr[h])
        /\ (h = j => s.node.ptr[h] = p.first) /\ (h = j + 1 => s.node.ptr[h] = p.second)
    <3>1. h \in 1 .. Len(n.ptr)
      BY <1>2, <1>3, <1>6, <2>2
    <3> QED
      BY <1>2, <1>3, <2>2, <3>1, SMTT(60)
  <2>6. CASE h = j \/ h = j + 1
    BY <2>4, <2>5, <2>6
  <2>7. CASE h # j /\ h # j + 1
    <3>1. h \in (1 .. Len(n.ptr)) \ J /\ s.node.ptr[h] = n.ptr[h]
      BY <2>5, <2>7 DEF J
    <3> QED
      BY <3>1, Zenon DEF Reused
  <2> QED
    BY <2>6, <2>7
<1> QED
  BY <1>4, <1>6, Zenon DEF Reuses

-----------------------------------------------------------------------------
(* Two lists and the pair between them are not empty together.             *)
LEMMA JoinedNonempty ==
  ASSUME NEW a \in Seq(KVs), NEW b \in Seq(KVs), NEW c \in Seq(KVs), NEW kv \in KVs, Joins(c, a, kv, b)
  PROVE  c # << >>
BY DEF Joins

(* The parent after a merge, and how many pairs its one child has.         *)
MergedTo(s, x, n, j, l, r) ==
  /\ Len(s.node.kvs) = Len(n.kvs) - 1 /\ s.node.kvs = RemoveAt(n.kvs, j)
  /\ Len(x[s.node.ptr[j]].node.kvs) = Len(l.kvs) + Len(r.kvs) + 1

(* A merge leaves the pairs below the parent what they are.                *)
LEMMA MergeKeepsPairs ==
  ASSUME NEW m, NEW w, Holds(m, w), NEW n, NEW d, Fits(w, n, d), n.type = "internal",
         NEW j \in 1 .. Len(n.kvs), NEW l, NEW r,
         l = w[n.ptr[j]].node, r = w[n.ptr[j + 1]].node,
         NEW s, Merged(s, m, n, j, l, r), Safe(s)
  PROVE  \E x : KeepsPairs(s, w, x, n, d) /\ (s.err = NoError => MergedTo(s, x, n, j, l, r))
<1>1. PICK v \in Nodes :
        /\ s.pm = CopyToNewPage(m, v).pm /\ s.err = CopyToNewPage(m, v).err
        /\ s.node = With(n, RemoveAt(n.kvs, j), Put(RemoveAt(n.ptr, j), j, CopyToNewPage(m, v).page))
        /\ IsNode(v) /\ v.type = l.type /\ v.ok
        /\ v.kvs = (l.kvs \o <<n.kvs[j]>>) \o r.kvs
        /\ l.type = "internal" => v.ptr = l.ptr \o r.ptr
        /\ l.type # "internal" /\ Nils(l.ptr) => Nils(v.ptr)
  BY Zenon DEF Merged
<1>2. World(w) /\ n.kvs \in Seq(KVs) /\ n.ptr \in Seq(Nat) /\ Len(n.ptr) = Len(n.kvs) + 1
      /\ FitsBut(w, n.kvs, n.ptr, {}, d) /\ d \in Nat /\ n \in Nodes /\ d # 0
  <2>1. n.type # "leaf"
    OBVIOUS
  <2> QED
    BY <2>1, Zenon DEF Holds, Fits, FitsBut
<1>3. d \in Nat \ {0} /\ Len(n.kvs) \in Nat /\ j \in 1 .. Len(n.kvs) + 1 /\ j + 1 \in 1 .. Len(n.kvs) + 1
      /\ j \in 1 .. Len(n.ptr) - 1
  BY <1>2
<1>4. Fitted(w, n, d, j, n.ptr[j], l) /\ Fitted(w, n, d, j + 1, n.ptr[j + 1], r)
  BY <1>2, <1>3, ChildFitted
<1>5. /\ IsNode(l) /\ IsNode(r) /\ d - 1 \in Nat
      /\ (l.type = "internal" <=> d - 1 > 0) /\ (r.type = "internal" <=> d - 1 > 0)
  BY <1>4, Zenon DEF Fitted
<1> DEFINE sep == n.kvs[j]
<1>6. /\ l.kvs \in Seq(KVs) /\ r.kvs \in Seq(KVs) /\ v.kvs \in Seq(KVs) /\ sep \in KVs
      /\ l.ptr \in Seq(Nat) /\ r.ptr \in Seq(Nat) /\ v.ptr \in Seq(Nat)
      /\ Len(v.ptr) = Len(v.kvs) + 1
  <2>1. sep \in KVs
    BY <1>2
  <2>2. /\ l.kvs \in Seq(KVs) /\ r.kvs \in Seq(KVs) /\ v.kvs \in Seq(KVs)
        /\ l.ptr \in Seq(Nat) /\ r.ptr \in Seq(Nat) /\ v.ptr \in Seq(Nat)
        /\ Len(v.ptr) = Len(v.kvs) + 1
    <3>1. IsNode(v)
      BY <1>1, Zenon
    <3> QED
      BY <1>5, <3>1 DEF IsNode, Nodes, KVs
  <2> QED
    BY <2>1, <2>2
<1>7. Joins(v.kvs, l.kvs, sep, r.kvs)
  <2>1. Joins((l.kvs \o <<sep>>) \o r.kvs, l.kvs, sep, r.kvs)
    BY <1>6, WithPairBetween
  <2> HIDE DEF sep
  <2> QED
    BY <1>1, <2>1, Zenon DEF sep
<1>8. Strung(d - 1, v.ptr, l.ptr, r.ptr)
  BY <1>1, <1>5, <1>6, Zenon DEF Strung
<1>9. v.kvs # << >> /\ Len(v.ptr) = Len(v.kvs) + 1
  <2>2. v.kvs # << >>
    BY <1>6, <1>7, JoinedNonempty
  <2> QED
    BY <1>6, <2>2
<1> DEFINE few   == RemoveAt(n.kvs, j)
           fewer == RemoveAt(n.ptr, j)
           p     == CopyToNewPage(m, v)
<1>10. CutAt(n.kvs, few, j)
  BY <1>2, <1>6, CutByRemoving DEF sep
<1>11. PtrCutAt(n.ptr, fewer, j)
  <2>1. 0 \in Nat
    OBVIOUS
  <2>2. Repoints(n.ptr, j, 0, 0)
    BY <1>2, <1>3, <2>1, PtrCutByRemoving
  <2> QED
    BY <2>2, Zenon DEF Repoints
<1>12. Len(few) = Len(n.kvs) - 1
  <2>1. Len(n.kvs) = Len(few) + 1 /\ Len(few) \in Nat
    BY <1>10, Zenon DEF CutAt
  <2> QED
    BY <2>1
<1> HIDE DEF sep, few, fewer
<1>13. Open(w, n.kvs, n.ptr, d, few, fewer, j, v.kvs, v.ptr)
  <2>1. /\ Joins(v.kvs, w[n.ptr[j]].node.kvs, n.kvs[j], w[n.ptr[j + 1]].node.kvs)
        /\ Strung(d - 1, v.ptr, w[n.ptr[j]].node.ptr, w[n.ptr[j + 1]].node.ptr)
    BY <1>7, <1>8, Zenon DEF sep
  <2>2. PairApart(w, n.kvs, n.ptr, d, j, few, fewer, v.kvs, v.ptr)
    BY <1>2, <1>3, <1>9, <1>10, <1>11, <2>1, Zenon DEF PairApart
  <2> QED
    BY <2>2, OpensPair
<1>14. Opened(w, few, fewer, j, d, v.kvs, v.ptr)
       /\ PairsBut(w, n.kvs, n.ptr, {}, d) = OpenedPairs(w, few, fewer, j, d, v.kvs, v.ptr)
  BY <1>13, Zenon DEF Open
<1>15. Fits(w, v, d - 1)
  <2>1. FitsBut(w, v.kvs, v.ptr, {}, d - 1)
    BY <1>14, Zenon DEF Opened
  <2>2. v.ok /\ (v.type = "internal" <=> d - 1 > 0)
    BY <1>1, <1>5, Zenon
  <2>3. d - 1 = 0 => Nils(l.ptr)
    BY <1>4, Zenon DEF Fitted, Fits
  <2>4. d - 1 = 0 => l.type # "internal"
    BY <1>5
  <2>5. d - 1 = 0 => Nils(v.ptr)
    BY <1>1, <2>3, <2>4, Zenon
  <2> QED
    BY <1>5, <2>1, <2>2, <2>5, PartIsNode
<1>16. s.pm = p.pm /\ s.err = p.err /\ s.node = With(n, few, Put(fewer, j, p.page))
  BY <1>1, Zenon DEF p, few, fewer
<1>17. Safe(p)
  BY <1>16, Zenon DEF Safe
<1>18. PICK x : /\ Later(w, x) /\ Holds(p.pm, x)
                /\ p.err = NoError => On(x, p.page, w, v, d - 1)
  <2>1. World(w)
    BY <1>2
  <2> QED
    BY <1>15, <1>17, PersistNode
<1> HIDE DEF p
<1>19. ASSUME s.err = NoError
       PROVE  /\ Fits(x, s.node, d) /\ PairsOf(x, s.node, d) = PairsOf(w, n, d)
              /\ MergedTo(s, x, n, j, l, r)
  <2> DEFINE full == Put(fewer, j, p.page)
  <2>1. On(x, p.page, w, v, d - 1)
    BY <1>16, <1>18, <1>19, Zenon
  <2>2. p.page \in Nat
    <3>1. p.page \in DOMAIN x
      BY <2>1, Zenon DEF On
    <3> QED
      BY <1>18, <3>1, PagesAreNumbers
  <2>3. SameBut(full, fewer, j) /\ full[j] = p.page
    <3>1. Repoints(n.ptr, j, p.page, p.page)
      BY <1>2, <1>3, <2>2, PtrCutByRemoving
    <3> QED
      BY <3>1, Zenon DEF Repoints, fewer
  <2> HIDE DEF full
  <2>4. Holding(x, full[j], v.kvs, PairsBut(w, v.kvs, v.ptr, {}, d - 1), d - 1)
    BY <1>9, <2>1, <2>3, OnHolding
  <2>5. OnePut(w, x, few, fewer, j, d, v.kvs, v.ptr, full)
    BY <1>14, <1>18, <2>3, <2>4, Zenon DEF OnePut
  <2>6. ClosedUp(w, x, few, fewer, j, d, v.kvs, v.ptr, few, full)
    BY <2>5, ClosesOne
  <2>7. FitsBut(x, few, full, {}, d)
        /\ PairsBut(x, few, full, {}, d) = OpenedPairs(w, few, fewer, j, d, v.kvs, v.ptr)
    BY <2>6, Zenon DEF ClosedUp
  <2>8. /\ Fits(x, With(n, few, full), d) /\ With(n, few, full).kvs = few
        /\ PairsOf(x, With(n, few, full), d) = PairsBut(x, few, full, {}, d)
        /\ With(n, few, full).ptr = full
    BY <2>7, WithFits
  <2>9. s.node = With(n, few, full)
    BY <1>16, Zenon DEF full
  <2>10. MergedTo(s, x, n, j, l, r)
    <3>1. x[full[j]].node.kvs = v.kvs
      BY <2>4, Zenon DEF Holding
    <3>2. Len(v.kvs) = Len(l.kvs) + Len(r.kvs) + 1
      BY <1>7, Zenon DEF Joins
    <3>3. few = RemoveAt(n.kvs, j)
      BY DEF few
    <3> QED
      BY <1>12, <2>8, <2>9, <3>1, <3>2, <3>3, Zenon DEF MergedTo
  <2> QED
    BY <1>14, <2>7, <2>8, <2>9, <2>10, Zenon DEF PairsOf
<1> QED
  BY <1>16, <1>18, <1>19, Zenon DEF KeepsPairs

-----------------------------------------------------------------------------
(* A page can hold three pairs of the largest size: what a split relies    *)
(* on to leave no half empty.                                              *)
RoomForThree == 3 * MaxAllowedKVLen + 2 * KVOverhead + HeaderSize + PointerSize <= PageSize

(* The fold of GetSize over the first k pairs.                             *)
SizeFolded(kvs, k, g) ==
  g = [s \in SUBSET (1 .. k) |->
         IF s = {} THEN HeaderSize + PointerSize ELSE g[s \ {Max(s)}] + Cost(kvs[Max(s)])]

(* The largest of a set whose largest member is 1 or 2.                    *)
LEMMA MaxOfSmall ==
  ASSUME NEW k \in {1, 2}, NEW s, s \subseteq 1 .. k, k \in s
  PROVE  Max(s) = k
<1>1. k - 1 \in Nat /\ (k - 1) + 1 = k
  OBVIOUS
<1>2. s \subseteq 1 .. (k - 1) + 1 /\ (k - 1) + 1 \in s
  BY <1>1
<1>3. Max(s) = (k - 1) + 1
  BY <1>1, <1>2, MaxOfInitial
<1> QED
  BY <1>1, <1>3

(* Such a fold exists for one pair and for two.                            *)
LEMMA SmallSizeFolds ==
  ASSUME NEW kvs, NEW k \in {1, 2}, \A i \in 1 .. k : Cost(kvs[i]) \in Nat
  PROVE  \E g : SizeFolded(kvs, k, g)
<1> DEFINE bare == HeaderSize + PointerSize
           g == [s \in SUBSET (1 .. k) |->
                   bare + (IF 1 \in s THEN Cost(kvs[1]) ELSE 0) + (IF 2 \in s THEN Cost(kvs[2]) ELSE 0)]
           u == [s \in SUBSET (1 .. k) |->
                   IF s = {} THEN bare ELSE g[s \ {Max(s)}] + Cost(kvs[Max(s)])]
<1>0. bare \in Nat
  BY DEF HeaderSize, PointerSize
<1> HIDE DEF bare
<1>1. ASSUME NEW s \in SUBSET (1 .. k) PROVE g[s] = u[s]
  <2>1. g[s] = bare + (IF 1 \in s THEN Cost(kvs[1]) ELSE 0) + (IF 2 \in s THEN Cost(kvs[2]) ELSE 0)
    OBVIOUS
  <2>2. u[s] = IF s = {} THEN bare ELSE g[s \ {Max(s)}] + Cost(kvs[Max(s)])
    OBVIOUS
  <2>3. CASE 2 \in s
    <3>1. k = 2 /\ s \subseteq 1 .. 2 /\ s # {}
      BY <2>3
    <3>2. Max(s) = 2 /\ s # {}
      BY <2>3, <3>1, MaxOfSmall
    <3>3. s \ {2} \in SUBSET (1 .. k)
      OBVIOUS
    <3>4. g[s \ {2}] = bare + (IF 1 \in s THEN Cost(kvs[1]) ELSE 0) + 0
      BY <3>3
    <3>5. Cost(kvs[1]) \in Nat /\ Cost(kvs[2]) \in Nat
      BY <3>1
    <3> HIDE DEF g, u
    <3>6. g[s] = bare + (IF 1 \in s THEN Cost(kvs[1]) ELSE 0) + Cost(kvs[2])
      BY <2>1, <2>3
    <3>7. u[s] = g[s \ {2}] + Cost(kvs[2])
      BY <2>2, <3>2
    <3> QED
      BY <1>0, <3>4, <3>5, <3>6, <3>7
  <2>4. CASE 2 \notin s /\ 1 \in s
    <3>0. \A y \in s : y = 1
      BY <2>4
    <3>1. s = {1} /\ s \subseteq 1 .. 1 /\ 1 \in 1 .. k
      <4>1. s = {1}
        BY <2>4, <3>0, Zenon
      <4> QED
        BY <4>1
    <3>2. Max(s) = 1 /\ s # {}
      BY <2>4, <3>1, MaxOfSmall
    <3>3. s \ {1} = {} /\ {} \in SUBSET (1 .. k)
      BY <3>1
    <3>4. g[{}] = bare
      BY <3>3, <1>0
    <3>5. Cost(kvs[1]) \in Nat
      BY <3>1
    <3> HIDE DEF g, u
    <3>6. g[s] = bare + Cost(kvs[1])
      BY <2>1, <2>4, <1>0, <3>5
    <3>7. u[s] = g[{}] + Cost(kvs[1])
      BY <2>2, <3>2, <3>3
    <3> QED
      BY <3>4, <3>6, <3>7
  <2>5. CASE s = {}
    <3> HIDE DEF g, u
    <3> QED
      BY <2>1, <2>2, <2>5, <1>0
  <2>6. s = {} \/ 1 \in s \/ 2 \in s
    OBVIOUS
  <2> QED
    BY <2>3, <2>4, <2>5, <2>6
<1>2. g = [s \in SUBSET (1 .. k) |-> g[s]] /\ u = [s \in SUBSET (1 .. k) |-> u[s]]
  OBVIOUS
<1>3. g = u
  <2> HIDE DEF g, u
  <2> QED
    BY <1>1, <1>2
<1>4. SizeFolded(kvs, k, g)
  <2> HIDE DEF g
  <2> QED
    BY <1>3, Zenon DEF SizeFolded, bare
<1> HIDE DEF g
<1> QED
  BY <1>4

(* A node of one or two pairs, each of at most the largest size, is not    *)
(* full.                                                                   *)
LEMMA TwoAreNotFull ==
  ASSUME RoomForThree, NEW n, n.kvs \in Seq(KVs), Len(n.kvs) \in {1, 2},
         \A i \in 1 .. Len(n.kvs) : Small(n.kvs[i])
  PROVE  ~Overflow(n)
<1> DEFINE N == Len(n.kvs)
           g == CHOOSE h : SizeFolded(n.kvs, N, h)
<1>1. DOMAIN n.kvs = 1 .. N /\ N \in {1, 2} /\ n.kvs # << >>
  <2> DEFINE kvs == n.kvs
  <2>1. kvs \in Seq(KVs) /\ Len(kvs) \in {1, 2}
    OBVIOUS
  <2> HIDE DEF kvs
  <2>2. DOMAIN kvs = 1 .. Len(kvs) /\ kvs # << >>
    BY <2>1, SMTT(60)
  <2> QED
    BY <2>1, <2>2 DEF kvs
<1>2. ASSUME NEW i \in 1 .. N PROVE Cost(n.kvs[i]) \in Nat /\ Cost(n.kvs[i]) <= MaxAllowedKVLen + KVOverhead
  <2>1. n.kvs[i] \in Key \X Val
    BY DEF KVs
  <2>2. KVLen[n.kvs[i]] \in Nat
    BY <2>1, NodeAssumption
  <2>3. KVOverhead \in Nat
    BY DEF KVOverhead, PointerSize, OffsetSize, KeyLenSize, ValLenSize
  <2>4. KVLen[n.kvs[i]] <= MaxAllowedKVLen /\ MaxAllowedKVLen \in Nat
    BY PageLayoutAssumption DEF Small
  <2>5. \A a, b, c \in Nat : a <= c => a + b \in Nat /\ a + b <= c + b
    OBVIOUS
  <2>6. KVLen[n.kvs[i]] + KVOverhead \in Nat
        /\ KVLen[n.kvs[i]] + KVOverhead <= MaxAllowedKVLen + KVOverhead
    BY <2>2, <2>3, <2>4, <2>5, Zenon
  <2> QED
    BY <2>6, Zenon DEF Cost
<1>3. SizeFolded(n.kvs, N, g)
  <2>1. \E h : SizeFolded(n.kvs, N, h)
    BY <1>1, <1>2, SmallSizeFolds
  <2> QED
    BY <2>1
<1>4. GetSize(n) = g[1 .. N]
  <2>1. GetSize(n) = (CHOOSE h : SizeFolded(n.kvs, N, h))[1 .. N]
    BY <1>1, Zenon DEF GetSize, FoldLeft, MapThenFoldSet, SizeFolded
  <2> QED
    BY <2>1
<1> HIDE DEF g, N
<1>5. ASSUME NEW s \in SUBSET (1 .. N)
      PROVE  g[s] = IF s = {} THEN HeaderSize + PointerSize ELSE g[s \ {Max(s)}] + Cost(n.kvs[Max(s)])
  BY <1>3, Zenon DEF SizeFolded
<1>6. g[{}] = HeaderSize + PointerSize
  <2>1. {} \in SUBSET (1 .. N)
    OBVIOUS
  <2> QED
    BY <2>1, <1>5
<1>7. g[{1}] = HeaderSize + PointerSize + Cost(n.kvs[1])
  <2>1. {1} \in SUBSET (1 .. N) /\ {1} # {} /\ {1} \subseteq 1 .. 1 /\ 1 \in {1} /\ {1} \ {1} = {}
    BY <1>1
  <2>2. Max({1}) = 1
    BY <2>1, MaxOfSmall
  <2>3. g[{1}] = g[{1} \ {1}] + Cost(n.kvs[1])
    BY <2>1, <2>2, <1>5
  <2> QED
    BY <2>1, <2>3, <1>6
<1>8. ASSUME N = 2 PROVE g[{1, 2}] = HeaderSize + PointerSize + Cost(n.kvs[1]) + Cost(n.kvs[2])
  <2>1. {1, 2} \in SUBSET (1 .. N) /\ {1, 2} # {} /\ {1, 2} \subseteq 1 .. 2 /\ 2 \in {1, 2}
        /\ {1, 2} \ {2} = {1}
    BY <1>8
  <2>2. Max({1, 2}) = 2
    BY <2>1, MaxOfSmall
  <2>3. g[{1, 2}] = g[{1, 2} \ {2}] + Cost(n.kvs[2])
    BY <2>1, <2>2, <1>5
  <2> QED
    BY <2>1, <2>3, <1>7
<1> DEFINE bare == HeaderSize + PointerSize
           one  == Cost(n.kvs[1])
           two  == Cost(n.kvs[2])
           size == GetSize(n)
<1>9. size \in Nat /\ size <= bare + 2 * (MaxAllowedKVLen + KVOverhead)
  <2>1. MaxAllowedKVLen \in Nat /\ KVOverhead \in Nat /\ bare \in Nat
    BY PageLayoutAssumption DEF KVOverhead, HeaderSize, PointerSize, OffsetSize, KeyLenSize, ValLenSize
  <2>2. CASE N = 1
    <3>1. 1 .. N = {1} /\ 1 \in 1 .. N
      BY <2>2
    <3>2. size = bare + one
      BY <3>1, <1>4, <1>7
    <3>3. one \in Nat /\ one <= MaxAllowedKVLen + KVOverhead
      BY <3>1, <1>2
    <3>4. \A a, b, m, o \in Nat : b <= m + o => a + b \in Nat /\ a + b <= a + 2 * (m + o)
      OBVIOUS
    <3> HIDE DEF bare, one, two, size
    <3> QED
      BY <2>1, <3>2, <3>3, <3>4, Zenon
  <2>3. CASE N = 2
    <3>1. 1 .. N = {1, 2} /\ 1 \in 1 .. N /\ 2 \in 1 .. N
      BY <2>3
    <3>2. size = bare + one + two
      BY <2>3, <3>1, <1>4, <1>8
    <3>3. /\ one \in Nat /\ one <= MaxAllowedKVLen + KVOverhead
          /\ two \in Nat /\ two <= MaxAllowedKVLen + KVOverhead
      BY <3>1, <1>2
    <3>4. \A a, b, c, m, o \in Nat : b <= m + o /\ c <= m + o =>
            a + b + c \in Nat /\ a + b + c <= a + 2 * (m + o)
      OBVIOUS
    <3> HIDE DEF bare, one, two, size
    <3> QED
      BY <2>1, <3>2, <3>3, <3>4, Zenon
  <2> QED
    BY <1>1, <2>2, <2>3
<1>10. 3 * MaxAllowedKVLen + 2 * KVOverhead + bare <= PageSize
       /\ PageSize \in Nat /\ MaxAllowedKVLen \in Nat
  BY PageLayoutAssumption DEF RoomForThree, KVOverhead, HeaderSize, PointerSize, OffsetSize, KeyLenSize, ValLenSize
<1>11. ~(size > PageSize - MaxAllowedKVLen)
  <2>1. \A z, h, m, o, q \in Nat : z <= h + 2 * (m + o) /\ 3 * m + 2 * o + h <= q => ~(z > q - m)
    OBVIOUS
  <2>2. KVOverhead \in Nat /\ bare \in Nat
    BY DEF KVOverhead, HeaderSize, PointerSize, OffsetSize, KeyLenSize, ValLenSize
  <2> HIDE DEF bare, size
  <2> QED
    BY <1>9, <1>10, <2>1, <2>2, Zenon
<1> QED
  BY <1>11, Zenon DEF Overflow

(* So a full node of at least one pair has three.                          *)
LEMMA FullHasThree ==
  ASSUME RoomForThree, NEW w, NEW n, NEW d, Fits(w, n, d), n.kvs # << >>, Overflow(n)
  PROVE  Len(n.kvs) >= 3
<1>1. n.kvs \in Seq(KVs) /\ \A i \in 1 .. Len(n.kvs) : Small(n.kvs[i])
  BY DEF Fits, FitsBut, IsNode, Nodes, KVs
<1>2. Len(n.kvs) \notin {1, 2}
  BY <1>1, TwoAreNotFull
<1>3. Len(n.kvs) \in Nat /\ Len(n.kvs) # 0
  BY <1>1
<1> DEFINE N == Len(n.kvs)
<1>5. N \in Nat /\ N # 0 /\ N \notin {1, 2}
  BY <1>2, <1>3
<1> HIDE DEF N
<1>4. N >= 3
  BY <1>5
<1> QED
  BY <1>4 DEF N

(* The pointers of a node whose two neighbours j and j + 1 became one.     *)
MergedPointers(u, s, j, a) ==
  /\ Len(u) = Len(s) - 1 /\ u[j] = a
  /\ \A h \in 1 .. j - 1 : u[h] = s[h]
  /\ \A h \in j + 1 .. Len(s) - 1 : u[h] = s[h + 1]

(* That is what MergeChildren makes of them.                               *)
LEMMA PointersMerged ==
  ASSUME NEW s \in Seq(Nat), NEW j \in 1 .. Len(s) - 1, NEW a \in Nat,
         NEW u, u = Put(RemoveAt(s, j), j, a)
  PROVE  MergedPointers(u, s, j, a)
<1> DEFINE t == RemoveAt(s, j)
<1>1. PtrCutAt(s, t, j) /\ SameBut(u, t, j) /\ u[j] = a
  <2>1. \A b \in Nat : PtrCutAt(s, RemoveAt(s, j), j) /\ SameBut(Put(RemoveAt(s, j), j, a), RemoveAt(s, j), j)
                      /\ Put(RemoveAt(s, j), j, a)[j] = a
    <3> TAKE b \in Nat
    <3>1. Repoints(s, j, a, b)
      BY PtrCutByRemoving
    <3> QED
      BY <3>1, Zenon DEF Repoints
  <2> QED
    BY <2>1
<1> HIDE DEF t
<1>2. /\ t \in Seq(Nat) /\ u \in Seq(Nat) /\ Len(s) = Len(t) + 1 /\ Len(u) = Len(t)
      /\ \A x \in 1 .. j - 1 : t[x] = s[x]
      /\ \A x \in j + 1 .. Len(t) : t[x] = s[x + 1]
      /\ \A x \in 1 .. Len(t) : x # j => u[x] = t[x]
  BY <1>1, Zenon DEF PtrCutAt, SameBut
<1>3. PICK N \in Nat : N = Len(s) /\ Len(t) = N - 1 /\ Len(u) = N - 1
  BY <1>2
<1>4. ASSUME NEW h \in 1 .. j - 1 PROVE u[h] = s[h]
  <2>1. h \in 1 .. Len(t) /\ h # j
    BY <1>3
  <2> QED
    BY <1>2, <2>1, Zenon
<1>5. ASSUME NEW h \in j + 1 .. N - 1 PROVE u[h] = s[h + 1]
  <2>1. h \in j + 1 .. Len(t) /\ h \in 1 .. Len(t) /\ h # j
    BY <1>3
  <2> QED
    BY <1>2, <2>1, Zenon
<1> QED
  BY <1>1, <1>3, <1>4, <1>5, Zenon DEF MergedPointers

(* So does a merge.                                                        *)
LEMMA MergeReuses ==
  ASSUME NEW m, NEW w, Holds(m, w), NEW n, NEW d, Fits(w, n, d), n.type = "internal",
         NEW j \in 1 .. Len(n.kvs), NEW l, NEW r,
         l = w[n.ptr[j]].node, r = w[n.ptr[j + 1]].node,
         NEW s, Merged(s, m, n, j, l, r), Safe(s)
  PROVE  Reuses(s, m, n)
<1>1. PICK v \in Nodes :
        /\ s.pm = CopyToNewPage(m, v).pm /\ s.err = CopyToNewPage(m, v).err
        /\ s.node = With(n, RemoveAt(n.kvs, j), Put(RemoveAt(n.ptr, j), j, CopyToNewPage(m, v).page))
        /\ IsNode(v) /\ v.type = l.type
        /\ l.type = "internal" => v.ptr = l.ptr \o r.ptr
  BY Zenon DEF Merged
<1>2. n.kvs \in Seq(KVs) /\ n.ptr \in Seq(Nat) /\ Len(n.ptr) = Len(n.kvs) + 1 /\ n \in Nodes
  BY Zenon DEF Fits, FitsBut
<1>3. /\ Len(n.kvs) \in Nat /\ j \in 1 .. Len(n.ptr) - 1 /\ j \in 1 .. Len(n.ptr) /\ j + 1 \in 1 .. Len(n.ptr)
  BY <1>2
<1> DEFINE J == {j, j + 1}
           p == CopyToNewPage(m, v)
<1>4. J \in SUBSET (1 .. Len(n.ptr)) /\ GivesUp(s, n, J)
  <2>1. s.retired = <<n.ptr[j], n.ptr[j + 1]>>
    BY Zenon DEF Merged, Retires
  <2>2. J \in SUBSET (1 .. Len(n.ptr))
    BY <1>3
  <2> QED
    BY <1>3, <2>1, <2>2, Zenon DEF GivesUp
<1>5. /\ Fitted(w, n, d, j, n.ptr[j], l) /\ Fitted(w, n, d, j + 1, n.ptr[j + 1], r)
      /\ l.type = "internal" => Children(m)[n.ptr[j]] = ToSet(l.ptr)
      /\ r.type = "internal" => Children(m)[n.ptr[j + 1]] = ToSet(r.ptr)
      /\ l.type = "internal" <=> r.type = "internal"
  BY <1>3, ChildrenOfHeld
<1>6. ASSUME s.err = NoError, NEW h \in 1 .. Len(s.node.ptr)
      PROVE  Reused(s.pm, m, n, J, s.node.ptr[h])
  <2>1. ~PageOwned(m, p.page) /\ p.page \in PageNums /\ p.pm.page[p.page] = v
    BY <1>1, <1>6, OneWritten, Zenon DEF Holds
  <2>2. s.node.ptr = Put(RemoveAt(n.ptr, j), j, p.page)
    BY <1>1, <1>2 DEF With, Nodes
  <2>3. p.pm = s.pm /\ (l.type = "internal" => ToSet(v.ptr) \subseteq ToSet(l.ptr) \cup ToSet(r.ptr))
    <3>1. l.ptr \in Seq(Nat) /\ r.ptr \in Seq(Nat)
      BY <1>5, Zenon DEF Fitted, Fits, FitsBut
    <3>2. ToSet(l.ptr \o r.ptr) = ToSet(l.ptr) \cup ToSet(r.ptr)
      BY <3>1, ElementsJoined
    <3> QED
      BY <1>1, <3>2
  <2> HIDE DEF p, J
  <2>4. Reused(s.pm, m, n, J, p.page)
    <3>1. ASSUME NEW e \in Children(s.pm)[p.page] PROVE \E i \in J : e \in Children(m)[n.ptr[i]]
      <4>1. s.pm.page[p.page] = v
        BY <2>1, <2>3
      <4>2. v.type = "internal" /\ e \in ToSet(v.ptr)
        BY <1>1, <2>1, <3>1, <4>1, ChildrenOfWritten
      <4>3. l.type = "internal" /\ r.type = "internal"
        BY <1>1, <1>5, <4>2
      <4>4. e \in ToSet(l.ptr) \/ e \in ToSet(r.ptr)
        BY <2>3, <4>2, <4>3
      <4> QED
        BY <1>5, <4>3, <4>4 DEF J
    <3> QED
      BY <2>1, <3>1, Zenon DEF Reused
  <2>5. h \in 1 .. Len(n.ptr) - 1 /\ (h < j => s.node.ptr[h] = n.ptr[h])
        /\ (h = j => s.node.ptr[h] = p.page) /\ (h > j => s.node.ptr[h] = n.ptr[h + 1])
    <3>1. p.page \in Nat
      BY <2>1, PageManagerAssumption DEF PageNums
    <3>2. PICK t : t = s.node.ptr
      OBVIOUS
    <3>3. /\ Len(t) = Len(n.ptr) - 1 /\ t[j] = p.page
          /\ \A x \in 1 .. j - 1 : t[x] = n.ptr[x]
          /\ \A x \in j + 1 .. Len(n.ptr) - 1 : t[x] = n.ptr[x + 1]
      <4>1. PICK o \in Seq(Nat), q \in Nat : o = n.ptr /\ q = p.page
        BY <1>2, <3>1
      <4>2. j \in 1 .. Len(o) - 1 /\ t = Put(RemoveAt(o, j), j, q)
        BY <1>3, <2>2, <3>2, <4>1
      <4>3. /\ Len(t) = Len(o) - 1 /\ t[j] = q
            /\ \A x \in 1 .. j - 1 : t[x] = o[x]
            /\ \A x \in j + 1 .. Len(o) - 1 : t[x] = o[x + 1]
        <5>1. MergedPointers(t, o, j, q)
          BY <4>1, <4>2, PointersMerged, Zenon
        <5> QED
          BY <5>1, Zenon DEF MergedPointers
      <4> QED
        BY <4>1, <4>3
    <3>4. PICK N \in Nat : N = Len(n.ptr)
      BY <1>2
    <3>5. h \in 1 .. N - 1
      BY <3>2, <3>3, <3>4
    <3>6. h < j => h \in 1 .. j - 1
      BY <3>5
    <3>7. h > j => h \in j + 1 .. N - 1
      BY <3>5
    <3> QED
      BY <3>2, <3>3, <3>4, <3>5, <3>6, <3>7
  <2>6. CASE h = j
    BY <2>4, <2>5, <2>6
  <2>7. CASE h < j
    <3>1. h \in (1 .. Len(n.ptr)) \ J /\ s.node.ptr[h] = n.ptr[h]
      BY <1>2, <1>3, <2>5, <2>7 DEF J
    <3> QED
      BY <3>1, Zenon DEF Reused
  <2>8. CASE h > j
    <3>1. h + 1 \in (1 .. Len(n.ptr)) \ J /\ s.node.ptr[h] = n.ptr[h + 1]
      BY <1>2, <1>3, <2>5, <2>8 DEF J
    <3> QED
      BY <3>1, Zenon DEF Reused
  <2>9. h = j \/ h < j \/ h > j
    BY <1>3, <2>5
  <2> QED
    BY <2>6, <2>7, <2>8, <2>9
<1> QED
  BY <1>4, <1>6, Zenon DEF Reuses

-----------------------------------------------------------------------------
(* Taking out one child, with the atomic predicates the repairs cite.      *)
LEMMA OpensOne ==
  ASSUME NEW w, World(w), NEW kvs, NEW ptr, NEW d \in Nat \ {0}, FitsBut(w, kvs, ptr, {}, d),
         NEW j \in 1 .. Len(kvs) + 1
  PROVE  Open(w, kvs, ptr, d, kvs, ptr, j, w[ptr[j]].node.kvs, w[ptr[j]].node.ptr)
<1>1. /\ Opened(w, kvs, ptr, j, d, w[ptr[j]].node.kvs, w[ptr[j]].node.ptr)
      /\ PairsBut(w, kvs, ptr, {}, d) =
           OpenedPairs(w, kvs, ptr, j, d, w[ptr[j]].node.kvs, w[ptr[j]].node.ptr)
  BY OpenOne
<1> QED
  BY <1>1, Zenon DEF Open

(* What the split of a node l promises: two halves and the pair between.   *)
Halves(l, v, kv, u) ==
  /\ v \in Nodes /\ u \in Nodes /\ kv \in KVs
  /\ IsNode(v) /\ IsNode(u) /\ v.type = l.type /\ u.type = l.type /\ v.ok /\ u.ok
  /\ Len(v.kvs) = Len(l.kvs) \div 2
  /\ (v.kvs \o <<kv>>) \o u.kvs = l.kvs
  /\ v.ptr \o u.ptr = l.ptr

(* Place j of pairs few and pointers fewer, where c and r belong, has been *)
(* filled with pair kv between pages p and q.                              *)
Widened(x, w, few, fewer, j, d, c, r, kv, p, q) ==
  /\ InsertAt(few, j, kv) \in Seq(KVs) /\ Len(InsertAt(few, j, kv)) = Len(few) + 1
  /\ FitsBut(x, InsertAt(few, j, kv), WithPointers(fewer, j, p, q), {}, d)
  /\ PairsBut(x, InsertAt(few, j, kv), WithPointers(fewer, j, p, q), {}, d)
       = OpenedPairs(w, few, fewer, j, d, c, r)

(* A full node, written in two halves to the place where it belongs,       *)
(* leaves the pairs there what they are.                                   *)
LEMMA HalvesKeepPairs ==
  ASSUME RoomForThree, NEW m, NEW w, Holds(m, w), NEW l, NEW few, NEW fewer, NEW j, NEW d,
         Opened(w, few, fewer, j, d, l.kvs, l.ptr),
         Fits(w, l, d - 1), l.kvs # << >>, Overflow(l),
         NEW v, NEW kv, NEW u, Halves(l, v, kv, u), NEW p, p = CopyPair(m, u, v), Safe(p)
  PROVE  \E x : /\ Later(w, x) /\ Holds(p.pm, x)
                /\ p.err = NoError =>
                     Widened(x, w, few, fewer, j, d, l.kvs, l.ptr, kv, p.second, p.first)
<1>1. /\ v \in Nodes /\ u \in Nodes /\ kv \in KVs
      /\ IsNode(v) /\ IsNode(u) /\ v.type = l.type /\ u.type = l.type /\ v.ok /\ u.ok
      /\ Len(v.kvs) = Len(l.kvs) \div 2
      /\ (v.kvs \o <<kv>>) \o u.kvs = l.kvs
      /\ v.ptr \o u.ptr = l.ptr
  BY Zenon DEF Halves
<1>2. /\ World(w) /\ few \in Seq(KVs) /\ fewer \in Seq(Nat) /\ Len(fewer) = Len(few) + 1
      /\ d \in Nat \ {0} /\ j \in 1 .. Len(few) + 1
  BY Zenon DEF Holds, Opened, FitsBut
<1>3. j \in 1 .. Len(fewer)
  BY <1>2
<1>5. /\ IsNode(l) /\ d - 1 \in Nat /\ (l.type = "internal" <=> d - 1 > 0)
      /\ Fits(w, l, d - 1) /\ l.kvs # << >>
  <2>1. /\ l \in Nodes /\ d - 1 \in Nat /\ (l.type = "leaf" <=> d - 1 = 0)
        /\ Len(l.ptr) = Len(l.kvs) + 1
    BY Zenon DEF Fits, FitsBut
  <2>2. l.type \in {"leaf", "internal"}
    BY <2>1 DEF Nodes
  <2>3. d - 1 > 0 <=> d - 1 # 0
    BY <1>2
  <2> QED
    BY <2>1, <2>2, <2>3 DEF IsNode
<1>6. /\ l.kvs \in Seq(KVs) /\ v.kvs \in Seq(KVs) /\ u.kvs \in Seq(KVs)
      /\ l.ptr \in Seq(Nat) /\ v.ptr \in Seq(Nat) /\ u.ptr \in Seq(Nat)
      /\ Len(v.ptr) = Len(v.kvs) + 1 /\ Len(u.ptr) = Len(u.kvs) + 1
  BY <1>1, <1>5 DEF IsNode, Nodes, KVs
<1>7. Joins(l.kvs, v.kvs, kv, u.kvs)
  <2>0. kv \in KVs
    BY <1>1, Zenon
  <2>1. Joins((v.kvs \o <<kv>>) \o u.kvs, v.kvs, kv, u.kvs)
    BY <1>6, <2>0, WithPairBetween
  <2> QED
    BY <1>1, <2>1, Zenon
<1>8. v.kvs # << >> /\ u.kvs # << >>
  <2>1. Len(l.kvs) >= 3
    BY <1>5, FullHasThree
  <2> DEFINE L == Len(l.kvs)
             V == Len(v.kvs)
             U == Len(u.kvs)
  <2>2. L \in Nat /\ V \in Nat /\ U \in Nat /\ L >= 3 /\ V = L \div 2 /\ L = V + U + 1
    <3>1. Len(v.kvs) = Len(l.kvs) \div 2
      BY <1>1, Zenon
    <3>2. Len(l.kvs) = Len(v.kvs) + Len(u.kvs) + 1
      BY <1>7, Zenon DEF Joins
    <3>3. Len(l.kvs) \in Nat /\ Len(v.kvs) \in Nat /\ Len(u.kvs) \in Nat
      <4>1. \A t \in Seq(KVs) : Len(t) \in Nat
        OBVIOUS
      <4> QED
        BY <1>6, <4>1, Zenon
    <3> QED
      BY <2>1, <3>1, <3>2, <3>3, Zenon
  <2> HIDE DEF L, V, U
  <2>3. V # 0 /\ U # 0
    BY <2>2
  <2>4. Len(v.kvs) # 0 /\ Len(u.kvs) # 0
    BY <2>3, Zenon DEF V, U
  <2> QED
    BY <1>6, <2>4
<1>9. Strung(d - 1, l.ptr, v.ptr, u.ptr)
  BY <1>1, <1>5, <1>6, Zenon DEF Strung
<1>11. InParts(w, few, fewer, j, d, l.kvs, l.ptr, v.kvs, v.ptr, kv, u.kvs, u.ptr)
  BY <1>2, <1>6, <1>7, <1>9, Zenon DEF InParts
<1>12. Fits(w, v, d - 1) /\ Fits(w, u, d - 1)
  <2>1. BothFit(w, d, v.kvs, v.ptr, u.kvs, u.ptr)
    BY <1>11, PartsBothFit
  <2>2. FitsBut(w, v.kvs, v.ptr, {}, d - 1) /\ FitsBut(w, u.kvs, u.ptr, {}, d - 1)
    BY <2>1, Zenon DEF BothFit
  <2>3. d - 1 = 0 => Nils(v.ptr) /\ Nils(u.ptr)
    <3>1. d - 1 = 0 => Nils(v.ptr \o u.ptr)
      BY <1>1, <1>5, Zenon DEF Fits
    <3> QED
      BY <1>6, <3>1, NilsOfParts
  <2>4. (v.type = "internal" <=> d - 1 > 0) /\ (u.type = "internal" <=> d - 1 > 0)
    BY <1>1, <1>5, Zenon
  <2> QED
    BY <1>1, <1>5, <2>2, <2>3, <2>4, PartIsNode
<1>14. PICK x : /\ Later(w, x) /\ Holds(p.pm, x)
                /\ p.err = NoError => On(x, p.first, w, u, d - 1) /\ On(x, p.second, w, v, d - 1)
  BY <1>12, PersistTwo
<1> DEFINE kvs == InsertAt(few, j, kv)
           ptr == WithPointers(fewer, j, p.second, p.first)
<1>15. CutAt(kvs, few, j) /\ kvs[j] = kv
  BY <1>1, <1>2, CutByInserting
<1> HIDE DEF kvs
<1>17. ASSUME p.err = NoError
       PROVE  Widened(x, w, few, fewer, j, d, l.kvs, l.ptr, kv, p.second, p.first)
  <2>1. On(x, p.first, w, u, d - 1) /\ On(x, p.second, w, v, d - 1)
    BY <1>14, <1>17
  <2>2. p.first \in Nat /\ p.second \in Nat
    <3>1. p.first \in DOMAIN x /\ p.second \in DOMAIN x
      BY <2>1, Zenon DEF On
    <3> QED
      BY <1>14, <3>1, PagesAreNumbers
  <2>3. PtrCutAt(ptr, fewer, j) /\ ptr[j] = p.second /\ ptr[j + 1] = p.first
    <3>1. Widens(fewer, j, p.second, p.first)
      BY <1>2, <1>3, <2>2, PtrCutByInserting
    <3> QED
      BY <3>1, Zenon DEF Widens
  <2> HIDE DEF ptr
  <2>4. Len(ptr) = Len(kvs) + 1 /\ Len(kvs) = Len(few) + 1 /\ kvs \in Seq(KVs)
    <3>1. Len(ptr) = Len(fewer) + 1 /\ Len(kvs) = Len(few) + 1 /\ kvs \in Seq(KVs)
      BY <1>15, <2>3, Zenon DEF PtrCutAt, CutAt
    <3> QED
      BY <1>2, <3>1
  <2>5. /\ Holding(x, ptr[j], v.kvs, PairsBut(w, v.kvs, v.ptr, {}, d - 1), d - 1)
        /\ Holding(x, ptr[j + 1], u.kvs, PairsBut(w, u.kvs, u.ptr, {}, d - 1), d - 1)
    BY <1>8, <2>1, <2>3, OnHolding
  <2>6. FitsBut(x, kvs, ptr, {}, d)
        /\ PairsBut(x, kvs, ptr, {}, d) = OpenedPairs(w, few, fewer, j, d, l.kvs, l.ptr)
    <3>1. InParts(w, few, fewer, j, d, l.kvs, l.ptr, v.kvs, v.ptr, kvs[j], u.kvs, u.ptr)
      BY <1>11, <1>15
    <3>2. TwoPut(w, x, few, fewer, j, d, l.kvs, l.ptr, kvs, ptr, v.kvs, v.ptr, u.kvs, u.ptr)
      BY <3>1, <1>14, <1>15, <2>3, <2>4, <2>5, Zenon DEF TwoPut
    <3>3. ClosedUp(w, x, few, fewer, j, d, l.kvs, l.ptr, kvs, ptr)
      BY <3>2, ClosesTwo
    <3> QED
      BY <3>3, Zenon DEF ClosedUp
  <2> QED
    BY <2>4, <2>6, Zenon DEF Widened, kvs, ptr
<1> QED
  BY <1>14, <1>17, Zenon

(* Splitting a full child leaves the pairs below the parent what they are. *)
LEMMA DivisionKeepsPairs ==
  ASSUME RoomForThree, NEW m, NEW w, Holds(m, w), NEW n, NEW d, Fits(w, n, d), n.type = "internal",
         NEW i \in 0 .. Len(n.kvs), NEW l, l = w[n.ptr[i + 1]].node, Overflow(l),
         NEW s, Divided(s, m, n, i, l), Safe(s)
  PROVE  \E x : KeepsPairs(s, w, x, n, d) /\ (s.err = NoError => Len(s.node.kvs) = Len(n.kvs) + 1)
<1> DEFINE j == i + 1
<1>1. PICK v \in Nodes, u \in Nodes, kv \in KVs :
        /\ s.pm = CopyPair(m, u, v).pm /\ s.err = CopyPair(m, u, v).err
        /\ s.node = With(n, InsertAt(n.kvs, j, kv),
                         WithPointers(n.ptr, j, CopyPair(m, u, v).second, CopyPair(m, u, v).first))
        /\ Halves(l, v, kv, u)
  BY Zenon DEF Divided, WithPointers, Halves
<1>2. World(w) /\ n.kvs \in Seq(KVs) /\ n.ptr \in Seq(Nat) /\ Len(n.ptr) = Len(n.kvs) + 1
      /\ FitsBut(w, n.kvs, n.ptr, {}, d) /\ d \in Nat /\ n \in Nodes /\ d # 0
  <2>1. n.type # "leaf"
    OBVIOUS
  <2> QED
    BY <2>1, Zenon DEF Holds, Fits, FitsBut
<1>3. d \in Nat \ {0} /\ Len(n.kvs) \in Nat /\ j \in 1 .. Len(n.kvs) + 1 /\ j \in 1 .. Len(n.ptr)
  BY <1>2
<1> HIDE DEF j
<1>4. Fitted(w, n, d, j, n.ptr[j], l)
  <2>1. Fitted(w, n, d, j, n.ptr[j], w[n.ptr[j]].node)
    BY <1>2, <1>3, ChildFitted
  <2> QED
    BY <2>1, Zenon DEF j
<1>5. Fits(w, l, d - 1) /\ l.kvs # << >>
  BY <1>4, Zenon DEF Fitted
<1>10. Opened(w, n.kvs, n.ptr, j, d, l.kvs, l.ptr)
       /\ PairsBut(w, n.kvs, n.ptr, {}, d) = OpenedPairs(w, n.kvs, n.ptr, j, d, l.kvs, l.ptr)
  <2>1. Open(w, n.kvs, n.ptr, d, n.kvs, n.ptr, j, w[n.ptr[j]].node.kvs, w[n.ptr[j]].node.ptr)
    BY <1>2, <1>3, OpensOne
  <2>2. w[n.ptr[j]].node = l
    BY Zenon DEF j
  <2> QED
    BY <2>1, <2>2, Zenon DEF Open
<1> DEFINE p == CopyPair(m, u, v)
<1>13. Safe(p)
  BY <1>1 DEF Safe
<1>14. PICK x : /\ Later(w, x) /\ Holds(p.pm, x)
                /\ p.err = NoError =>
                     Widened(x, w, n.kvs, n.ptr, j, d, l.kvs, l.ptr, kv, p.second, p.first)
  BY <1>1, <1>5, <1>10, <1>13, HalvesKeepPairs
<1> DEFINE kvs == InsertAt(n.kvs, j, kv)
           ptr == WithPointers(n.ptr, j, p.second, p.first)
<1>16. s.pm = p.pm /\ s.err = p.err /\ s.node = With(n, kvs, ptr)
  BY <1>1, Zenon
<1> HIDE DEF p
<1>17. ASSUME s.err = NoError
       PROVE  /\ Fits(x, s.node, d) /\ PairsOf(x, s.node, d) = PairsOf(w, n, d)
              /\ Len(s.node.kvs) = Len(n.kvs) + 1
  <2>1. Widened(x, w, n.kvs, n.ptr, j, d, l.kvs, l.ptr, kv, p.second, p.first)
    BY <1>14, <1>16, <1>17
  <2>6. /\ FitsBut(x, kvs, ptr, {}, d) /\ Len(kvs) = Len(n.kvs) + 1
        /\ PairsBut(x, kvs, ptr, {}, d) = OpenedPairs(w, n.kvs, n.ptr, j, d, l.kvs, l.ptr)
    BY <2>1, Zenon DEF Widened
  <2> HIDE DEF kvs, ptr
  <2>7. /\ Fits(x, With(n, kvs, ptr), d) /\ With(n, kvs, ptr).kvs = kvs
        /\ PairsOf(x, With(n, kvs, ptr), d) = PairsBut(x, kvs, ptr, {}, d)
    BY <2>6, WithFits
  <2> QED
    BY <1>10, <1>16, <2>6, <2>7, Zenon DEF PairsOf
<1> QED
  BY <1>14, <1>16, <1>17, Zenon DEF KeepsPairs

-----------------------------------------------------------------------------
(* The children of a node can be read together: when one of them loads,    *)
(* each does, as what is known of it.                                      *)
LEMMA ChildrenHeld ==
  ASSUME NEW m, NEW w, Holds(m, w), NEW n, NEW d, Fits(w, n, d), n.type = "internal",
         NEW i \in 0 .. Len(n.kvs), LoadAsNode(m, GetPtr(n, i)).ok
  PROVE  \A h \in 0 .. Len(n.kvs) : LoadAsNode(m, GetPtr(n, h)) = w[n.ptr[h + 1]].node
<1>1. World(w) /\ n.kvs \in Seq(KVs)
  BY Zenon DEF Holds, Fits, FitsBut
<1>2. ASSUME NEW h \in 0 .. Len(n.kvs) PROVE n.ptr[h + 1] \in DOMAIN w
  <2>1. h + 1 \in 1 .. Len(n.kvs) + 1
    BY <1>1
  <2>2. Fitted(w, n, d, h + 1, n.ptr[h + 1], w[n.ptr[h + 1]].node)
    BY <1>1, <2>1, ChildFitted
  <2> QED
    BY <2>2, Zenon DEF Fitted
<1>3. GetPtr(n, i) \in DOMAIN w
  BY <1>2, Zenon DEF GetPtr
<1>4. \A q \in DOMAIN w : LoadAsNode(m, q) = w[q].node
  BY <1>3, LoadsHeld
<1> QED
  BY <1>2, <1>4, Zenon DEF GetPtr

(* Nothing done.                                                           *)
LEMMA NothingKeepsPairs ==
  ASSUME NEW m, NEW w, Holds(m, w), NEW n, NEW d, Fits(w, n, d), NEW s, s.pm = m, s.node = n
  PROVE  KeepsPairs(s, w, w, n, d)
  BY Zenon DEF KeepsPairs, Later

(* The split gives up the child it divides.                                *)
LEMMA DivisionReuses ==
  ASSUME NEW m, NEW w, Holds(m, w), NEW n, NEW d, Fits(w, n, d), n.type = "internal",
         NEW i \in 0 .. Len(n.kvs), NEW l, l = w[n.ptr[i + 1]].node,
         NEW s, Divided(s, m, n, i, l), Safe(s)
  PROVE  Reuses(s, m, n)
<1> DEFINE j == i + 1
<1>1. PICK v \in Nodes, u \in Nodes, kv \in KVs :
        /\ s.pm = CopyPair(m, u, v).pm /\ s.err = CopyPair(m, u, v).err
        /\ s.node = With(n, InsertAt(n.kvs, j, kv),
                         WithPointers(n.ptr, j, CopyPair(m, u, v).second, CopyPair(m, u, v).first))
        /\ Halves(l, v, kv, u)
  BY Zenon DEF Divided, WithPointers, Halves
<1>2. n.kvs \in Seq(KVs) /\ n.ptr \in Seq(Nat) /\ Len(n.ptr) = Len(n.kvs) + 1 /\ n \in Nodes
  BY Zenon DEF Fits, FitsBut
<1>3. j \in 1 .. Len(n.ptr)
  BY <1>2
<1>4. s.retired = <<n.ptr[j]>> /\ l = w[n.ptr[j]].node
  BY Zenon DEF Divided
<1> HIDE DEF j
<1> DEFINE J == {j}
           p == CopyPair(m, u, v)
<1>5. J \in SUBSET (1 .. Len(n.ptr)) /\ GivesUp(s, n, J)
  <2>1. J \in SUBSET (1 .. Len(n.ptr))
    BY <1>3
  <2> QED
    BY <1>3, <1>4, <2>1, Zenon DEF GivesUp
<1>6. /\ Fitted(w, n, d, j, n.ptr[j], l)
      /\ l.type = "internal" => Children(m)[n.ptr[j]] = ToSet(l.ptr)
  BY <1>3, <1>4, ChildrenOfHeld
<1>7. ASSUME s.err = NoError, NEW h \in 1 .. Len(s.node.ptr)
      PROVE  Reused(s.pm, m, n, J, s.node.ptr[h])
  <2>1. PairOn(m, u, v, p)
    <3>1. u \in Nodes /\ v \in Nodes /\ p.err = NoError
      BY <1>1, <1>7, Zenon
    <3> QED
      BY <3>1, PairWritten, Zenon DEF Holds
  <2>2. s.node.ptr = WithPointers(n.ptr, j, p.second, p.first)
    <3>1. s.node = With(n, InsertAt(n.kvs, j, kv), WithPointers(n.ptr, j, p.second, p.first))
      BY <1>1, Zenon
    <3> HIDE DEF p
    <3> QED
      BY <1>2, <3>1 DEF With, Nodes
  <2>3. p.pm = s.pm /\ ToSet(v.ptr) \cup ToSet(u.ptr) = ToSet(l.ptr)
    <3>1. v.ptr \in Seq(Nat) /\ u.ptr \in Seq(Nat) /\ v.ptr \o u.ptr = l.ptr
      BY <1>1 DEF Halves, IsNode, Nodes
    <3>2. ToSet(v.ptr \o u.ptr) = ToSet(v.ptr) \cup ToSet(u.ptr)
      BY <3>1, ElementsJoined
    <3> QED
      BY <1>1, <3>1, <3>2
  <2> HIDE DEF p, J
  <2>4. ASSUME NEW q \in {p.first, p.second} PROVE Reused(s.pm, m, n, J, q)
    <3>1. ~PageOwned(m, q) /\ q \in PageNums /\ \E y \in {v, u} : s.pm.page[q] = y
      BY <2>1, <2>3, <2>4, Zenon DEF PairOn
    <3>2. ASSUME NEW e \in Children(s.pm)[q] PROVE \E x \in J : e \in Children(m)[n.ptr[x]]
      <4>1. PICK y \in {v, u} : s.pm.page[q] = y
        BY <3>1
      <4>2. IsNode(y) /\ y.type = l.type
        BY <1>1, <4>1 DEF Halves
      <4>3. y.type = "internal" /\ e \in ToSet(y.ptr)
        BY <3>1, <3>2, <4>1, <4>2, ChildrenOfWritten
      <4>4. e \in ToSet(l.ptr)
        BY <2>3, <4>1, <4>3
      <4> QED
        BY <1>6, <4>2, <4>3, <4>4 DEF J
    <3> QED
      BY <3>1, <3>2, Zenon DEF Reused
  <2>5. p.first \in Nat /\ p.second \in Nat
    BY <2>1, PageManagerAssumption DEF PairOn, PageNums
  <2>6. Widens(n.ptr, j, p.second, p.first)
    BY <1>2, <1>3, <2>5, PtrCutByInserting, Zenon
  <2>7. PICK t : t = s.node.ptr
    OBVIOUS
  <2>8. /\ Len(t) = Len(n.ptr) + 1 /\ t[j] = p.second /\ t[j + 1] = p.first
        /\ \A x \in 1 .. j - 1 : n.ptr[x] = t[x]
        /\ \A x \in j + 1 .. Len(n.ptr) : n.ptr[x] = t[x + 1]
    BY <2>2, <2>6, <2>7, Zenon DEF Widens, PtrCutAt
  <2>9. PICK N \in Nat : N = Len(n.ptr)
    BY <1>2
  <2>10. h \in 1 .. N + 1
    BY <2>7, <2>8, <2>9
  <2>11. h = j \/ h = j + 1 \/ h \in 1 .. j - 1 \/ h - 1 \in j + 1 .. N
    BY <1>3, <2>9, <2>10
  <2>12. CASE h = j \/ h = j + 1
    BY <2>4, <2>7, <2>8, <2>12
  <2>13. CASE h \in 1 .. j - 1
    <3>1. h \in (1 .. Len(n.ptr)) \ J /\ t[h] = n.ptr[h]
      BY <1>3, <2>8, <2>9, <2>13 DEF J
    <3> QED
      BY <2>7, <3>1, Zenon DEF Reused
  <2>14. CASE h - 1 \in j + 1 .. N
    <3>1. PICK x \in j + 1 .. N : x = h - 1 /\ h = x + 1
      BY <2>10, <2>14
    <3>2. x \in (1 .. Len(n.ptr)) \ J /\ t[h] = n.ptr[x]
      BY <1>3, <2>8, <2>9, <3>1 DEF J
    <3> QED
      BY <2>7, <3>2, Zenon DEF Reused
  <2> QED
    BY <2>11, <2>12, <2>13, <2>14
<1> QED
  BY <1>5, <1>7, Zenon DEF Reuses

(* A repair that does nothing gives nothing up.                            *)
LEMMA NothingReuses ==
  ASSUME NEW m, NEW n, NEW s, s.pm = m, s.node = n, s.retired = << >>
  PROVE  Reuses(s, m, n)
<1>1. \A h \in 1 .. Len(s.node.ptr) : Reused(s.pm, m, n, {}, s.node.ptr[h])
  <2>1. (1 .. Len(n.ptr)) \ {} = 1 .. Len(n.ptr)
    OBVIOUS
  <2> QED
    BY <2>1, Zenon DEF Reused
<1>2. {} \in SUBSET (1 .. Len(n.ptr)) /\ GivesUp(s, n, {})
  BY Zenon DEF GivesUp
<1> QED
  BY <1>1, <1>2, Zenon DEF Reuses

(* SplitChild keeps the pairs below the parent.                            *)
THEOREM SplitChildKeepsPairs ==
  ASSUME RoomForThree, NEW m, NEW w, Holds(m, w), NEW n, NEW d, Fits(w, n, d), n.type = "internal",
         NEW k, NEW s, s = SplitChild(m, n, k), Safe(s)
  PROVE  /\ Reuses(s, m, n) /\ Len(s.retired) <= 1
         /\ \E x : /\ KeepsPairs(s, w, x, n, d)
                   /\ s.err = NoError => s.node = n \/ Len(s.node.kvs) = Len(n.kvs) + 1
<1> DEFINE i     == FindIndex(n, k)
           child == LoadAsNode(m, GetPtr(n, i))
           l     == w[n.ptr[i + 1]].node
<1>1. World(w) /\ n.kvs \in Seq(KVs) /\ n.kvs \in Seq(Key \X Val)
  BY Zenon DEF Holds, Fits, FitsBut, KVs
<1>2. i \in 0 .. Len(n.kvs) /\ i + 1 \in 1 .. Len(n.kvs) + 1
  <2>1. i \in 0 .. Len(n.kvs)
    BY <1>1, FindIndexIsFirst
  <2> HIDE DEF i
  <2> QED
    BY <1>1, <2>1
<1> HIDE DEF i
<1>3. child.ok /\ s.err # Panicked
  <2>1. s.err # Panicked
    BY Zenon DEF Safe
  <2>2. ~child.ok => s = Repaired(m, n, << >>, Panicked)
    BY Zenon DEF SplitChild, i
  <2>3. Repaired(m, n, << >>, Panicked).err = Panicked
    BY DEF Repaired
  <2> QED
    BY <2>1, <2>2, <2>3, Zenon
<1>4. child = l
  BY <1>2, <1>3, ChildrenHeld
<1>5. Under(n, i, l)
  BY <1>1, <1>2, ChildUnder
<1>6. l.kvs # << >>
  <2>1. Fitted(w, n, d, i + 1, n.ptr[i + 1], l)
    BY <1>1, <1>2, ChildFitted
  <2> QED
    BY <2>1, Zenon DEF Fitted
<1> HIDE DEF l
<1>7. \/ s.pm = m /\ s.node = n /\ s.retired = << >>
      \/ Overflow(l) /\ Divided(s, m, n, i, l)
  <2>1. i = FindIndex(n, k) /\ l = LoadAsNode(m, GetPtr(n, i))
    BY <1>4 DEF i
  <2> QED
    BY <1>3, <1>5, <1>6, <2>1, SplitChildKeepsOrder
<1>8. CASE s.pm = m /\ s.node = n /\ s.retired = << >>
  <2>1. KeepsPairs(s, w, w, n, d)
    BY <1>8, NothingKeepsPairs
  <2>2. Reuses(s, m, n)
    BY <1>8, NothingReuses
  <2>3. Len(s.retired) <= 1
    BY <1>8
  <2> QED
    BY <1>8, <2>1, <2>2, <2>3
<1>9. CASE Overflow(l) /\ Divided(s, m, n, i, l)
  <2>1. l = w[n.ptr[i + 1]].node
    BY DEF l
  <2>2. \E x : KeepsPairs(s, w, x, n, d) /\ (s.err = NoError => Len(s.node.kvs) = Len(n.kvs) + 1)
    BY <1>2, <1>9, <2>1, DivisionKeepsPairs
  <2>3. Reuses(s, m, n)
    BY <1>2, <1>9, <2>1, DivisionReuses
  <2>4. Len(s.retired) <= 1
    BY <1>9 DEF Divided
  <2> QED
    BY <2>2, <2>3, <2>4, Zenon
<1> QED
  BY <1>7, <1>8, <1>9

(* MergeChildren keeps the pairs below the parent.                         *)
THEOREM MergeChildrenKeepsPairs ==
  ASSUME NEW m, NEW w, Holds(m, w), NEW n, NEW d, Fits(w, n, d), n.type = "internal",
         NEW i \in 0 .. Len(n.kvs) - 1, NEW l, NEW r,
         l = w[n.ptr[i + 1]].node, r = w[n.ptr[(i + 1) + 1]].node,
         LoadAsNode(m, GetPtr(n, i)).ok,
         NEW s, s = MergeChildren(m, n, i), Safe(s)
  PROVE  /\ Reuses(s, m, n)
         /\ \E x : KeepsPairs(s, w, x, n, d) /\ (s.err = NoError => MergedTo(s, x, n, i + 1, l, r))
<1>1. World(w) /\ n.kvs \in Seq(KVs) /\ i \in 0 .. Len(n.kvs) /\ i \in Nat
      /\ i + 1 \in 1 .. Len(n.kvs) /\ i + 1 \in 0 .. Len(n.kvs) /\ s.err # Panicked
  <2>1. World(w) /\ n.kvs \in Seq(KVs) /\ s.err # Panicked
    BY Zenon DEF Holds, Fits, FitsBut, Safe
  <2> QED
    BY <2>1
<1>2. Around(n, i + 1, l, r)
  BY <1>1, SiblingsAround
<1>3. l = LoadAsNode(m, GetPtr(n, i)) /\ r = LoadAsNode(m, GetPtr(n, i + 1))
  <2>1. \A h \in 0 .. Len(n.kvs) : LoadAsNode(m, GetPtr(n, h)) = w[n.ptr[h + 1]].node
    BY <1>1, ChildrenHeld
  <2> QED
    BY <1>1, <2>1
<1>4. Merged(s, m, n, i + 1, l, r)
  BY <1>1, <1>2, <1>3, MergeKeepsOrder
<1>5. Reuses(s, m, n)
  BY <1>1, <1>4, MergeReuses
<1> QED
  BY <1>1, <1>4, <1>5, MergeKeepsPairs

-----------------------------------------------------------------------------
(* A key is in a list of pairs.                                            *)
HasKey(kvs, k) == \E x \in 1 .. Len(kvs) : kvs[x][1] = k

(* A key that is not in a node belongs below the pointer FindIndex gives.  *)
LEMMA IndexBetween ==
  ASSUME NEW n, n.kvs \in Seq(KVs), InOrder(n.kvs), NEW k \in Key, ~HasKey(n.kvs, k)
  PROVE  /\ FindIndex(n, k) \in 0 .. Len(n.kvs)
         /\ Between(n.kvs, FindIndex(n, k) + 1, k)
<1> DEFINE f == FindIndex(n, k)
           N == Len(n.kvs)
<1>1. /\ f \in 0 .. N /\ \A j \in 1 .. f : ~(k <= n.kvs[j][1])
      /\ f < N => k <= n.kvs[f + 1][1]
  BY FindIndexIsFirst DEF KVs
<1>2. k \in Nat /\ N \in Nat /\ \A j \in 1 .. N : n.kvs[j][1] \in Nat /\ n.kvs[j][1] # k
  BY KeysAreNumbers, NodeAssumption DEF HasKey
<1> HIDE DEF f
<1>3. f + 1 > 1 => n.kvs[(f + 1) - 1][1] < k
  <2> SUFFICES ASSUME f + 1 > 1 PROVE n.kvs[f][1] < k
    BY <1>1, <1>2
  <2>1. f \in 1 .. f /\ f \in 1 .. N
    BY <1>1, <1>2
  <2> QED
    BY <1>1, <1>2, <2>1
<1>4. f + 1 <= N => k < n.kvs[f + 1][1]
  <2> SUFFICES ASSUME f + 1 <= N PROVE k < n.kvs[f + 1][1]
    OBVIOUS
  <2>1. f < N /\ f + 1 \in 1 .. N
    BY <1>1, <1>2
  <2> QED
    BY <1>1, <1>2, <2>1
<1> QED
  BY <1>1, <1>3, <1>4, Zenon DEF Between, f, N

(* And the other way round.                                                *)
LEMMA BetweenIndex ==
  ASSUME NEW n, n.kvs \in Seq(KVs), InOrder(n.kvs), NEW k \in Key, NEW i \in 1 .. Len(n.kvs) + 1,
         Between(n.kvs, i, k)
  PROVE  FindIndex(n, k) = i - 1 /\ ~HasKey(n.kvs, k)
<1> DEFINE N == Len(n.kvs)
<1>1. /\ \A x \in 1 .. N : x < i => n.kvs[x][1] < k
      /\ \A x \in 1 .. N : x >= i => k < n.kvs[x][1]
  BY Placed
<1>2. k \in Nat /\ N \in Nat /\ \A j \in 1 .. N : n.kvs[j][1] \in Nat
  BY KeysAreNumbers, NodeAssumption
<1>3. ~HasKey(n.kvs, k)
  <2> SUFFICES ASSUME NEW x \in 1 .. N, n.kvs[x][1] = k PROVE FALSE
    BY DEF HasKey
  <2>1. x < i \/ x >= i
    BY <1>2
  <2> QED
    BY <1>1, <1>2, <2>1
<1>4. i - 1 \in 0 .. N /\ (i - 1) + 1 = i
  BY <1>2
<1>5. \A j \in 1 .. i - 1 : n.kvs[j][1] < k
  <2> TAKE j \in 1 .. i - 1
  <2>1. j \in 1 .. N /\ j < i
    BY <1>2
  <2> QED
    BY <1>1, <2>1
<1>6. i - 1 < N => k <= n.kvs[(i - 1) + 1][1]
  <2> SUFFICES ASSUME i - 1 < N PROVE k <= n.kvs[i][1]
    BY <1>4
  <2>1. i \in 1 .. N /\ i >= i
    BY <1>2
  <2>2. k < n.kvs[i][1] /\ n.kvs[i][1] \in Nat
    BY <1>1, <1>2, <2>1
  <2> QED
    BY <1>2, <2>2
<1>7. FindIndex(n, k) = i - 1
  BY <1>4, <1>5, <1>6, FindIndexFits
<1> QED
  BY <1>3, <1>7

(* The child that a search for k enters from the repaired node has pairs   *)
(* to spare.                                                               *)
Roomy(s, x, k) ==
  /\ ~HasKey(s.node.kvs, k)
  /\ Len(x[GetPtr(s.node, FindIndex(s.node, k))].node.kvs) >= 2

(* A new separator beside the place of k, on the other side of k still.    *)
LEMMA BetweenOfUpdate ==
  ASSUME NEW kvs \in Seq(KVs), NEW j \in 1 .. Len(kvs), NEW kv \in KVs, NEW k
  PROVE  /\ Between(kvs, j + 1, k) /\ kv[1] < k => Between([kvs EXCEPT ![j] = kv], j + 1, k)
         /\ Between(kvs, j, k) /\ k < kv[1] => Between([kvs EXCEPT ![j] = kv], j, k)
<1> DEFINE t == [kvs EXCEPT ![j] = kv]
           N == Len(kvs)
<1>1. Len(t) = N /\ t[j] = kv /\ \A x \in 1 .. N : x # j => t[x] = kvs[x]
  <2>1. Len(t) = N
    BY ExceptSeq
  <2>2. DOMAIN kvs = 1 .. N
    OBVIOUS
  <2> QED
    BY <2>1, <2>2, Zenon
<1>2. N \in Nat /\ j \in 1 .. N /\ j \in Nat
  OBVIOUS
<1> HIDE DEF t, N
<1>3. ASSUME Between(kvs, j + 1, k), kv[1] < k PROVE Between(t, j + 1, k)
  <2>1. (j + 1) - 1 = j
    BY <1>2
  <2>2. j + 1 <= N => j + 1 \in 1 .. N /\ j + 1 # j
    BY <1>2
  <2>3. j + 1 <= N => t[j + 1] = kvs[j + 1]
    BY <1>1, <2>2
  <2> QED
    BY <1>1, <1>3, <2>1, <2>3 DEF Between, N
<1>4. ASSUME Between(kvs, j, k), k < kv[1] PROVE Between(t, j, k)
  <2>1. j > 1 => j - 1 \in 1 .. N /\ j - 1 # j
    BY <1>2
  <2>2. j > 1 => t[j - 1] = kvs[j - 1]
    BY <1>1, <2>1
  <2> QED
    BY <1>1, <1>4, <2>2 DEF Between, N
<1> QED
  BY <1>3, <1>4 DEF t

(* After a rotation to the right the right child has a pair more, after    *)
(* one to the left the left child has; k is below it where it was.         *)
LEMMA RotationMakesRoom ==
  ASSUME NEW w, NEW x, NEW n, NEW d, Fits(w, n, d), NEW j \in 1 .. Len(n.kvs), NEW l, NEW r,
         Around(n, j, l, r), NEW k \in Key, l.kvs # << >>, r.kvs # << >>,
         NEW c, NEW s, Fits(x, s.node, d), RotatedTo(s, x, n, j, l, r, c),
         \/ Between(n.kvs, j + 1, k) /\ c = Len(l.kvs) - 1
         \/ Between(n.kvs, j, k) /\ c = Len(l.kvs) + 1
  PROVE  Roomy(s, x, k)
<1> DEFINE N == Len(n.kvs)
           L == Len(l.kvs)
           R == Len(r.kvs)
<1>1. /\ n.kvs \in Seq(KVs) /\ l.kvs \in Seq(KVs) /\ r.kvs \in Seq(KVs)
      /\ s.node.kvs \in Seq(KVs) /\ InOrder(s.node.kvs)
  <2>1. l \in Nodes /\ r \in Nodes
    BY Zenon DEF Around, IsNode
  <2>2. l.kvs \in Seq(KVs) /\ r.kvs \in Seq(KVs)
    BY <2>1 DEF Nodes, KVs
  <2>3. n.kvs \in Seq(KVs) /\ s.node.kvs \in Seq(KVs) /\ InOrder(s.node.kvs)
    BY Zenon DEF Fits, FitsBut
  <2> QED
    BY <2>2, <2>3
<1>2. L \in Nat /\ R \in Nat /\ N \in Nat /\ L # 0 /\ R # 0
  BY <1>1
<1>3. PICK kv \in KVs :
        /\ s.node.kvs = [n.kvs EXCEPT ![j] = kv]
        /\ c < L => kv = l.kvs[c + 1]
        /\ c > L => kv = r.kvs[c - L]
        /\ Len(s.node.kvs) = N
        /\ Len(x[s.node.ptr[j]].node.kvs) = c
        /\ Len(x[s.node.ptr[j + 1]].node.kvs) = L + R - c
  BY Zenon DEF RotatedTo
<1>4. /\ \A y \in 1 .. L : l.kvs[y][1] < n.kvs[j][1]
      /\ \A y \in 1 .. R : n.kvs[j][1] < r.kvs[y][1]
  BY Zenon DEF Around
<1>5. k \in Nat /\ n.kvs[j][1] \in Nat /\ kv[1] \in Nat
  BY <1>1, KeysAreNumbers, NodeAssumption DEF KVs
<1>6. j \in 1 .. N + 1 /\ j + 1 \in 1 .. N + 1 /\ j > 0 /\ j <= N /\ j \in Nat
      /\ (j + 1) - 1 = j /\ (j - 1) + 1 = j /\ j + 1 > 1
  BY <1>2
<1>7. \A i \in 1 .. N + 1 : Between(s.node.kvs, i, k) =>
         ~HasKey(s.node.kvs, k) /\ GetPtr(s.node, FindIndex(s.node, k)) = s.node.ptr[(i - 1) + 1]
  <2> TAKE i \in 1 .. N + 1
  <2>1. i \in 1 .. Len(s.node.kvs) + 1
    BY <1>3
  <2> HAVE Between(s.node.kvs, i, k)
  <2>2. FindIndex(s.node, k) = i - 1 /\ ~HasKey(s.node.kvs, k)
    BY <1>1, <2>1, BetweenIndex
  <2> QED
    BY <2>2, Zenon DEF GetPtr
<1> HIDE DEF N, L, R
<1>8. CASE Between(n.kvs, j + 1, k) /\ c = L - 1
  <2>1. c < L /\ c + 1 \in 1 .. L /\ L + R - c >= 2
    BY <1>2, <1>8
  <2>2. kv[1] < n.kvs[j][1] /\ n.kvs[j][1] < k
    <3>1. kv[1] < n.kvs[j][1]
      BY <1>3, <1>4, <2>1
    <3>2. n.kvs[(j + 1) - 1][1] < k
      BY <1>6, <1>8, Zenon DEF Between
    <3> QED
      BY <1>6, <3>1, <3>2
  <2>3. kv[1] < k
    BY <1>5, <2>2
  <2>4. Between([n.kvs EXCEPT ![j] = kv], j + 1, k)
    BY <1>1, <1>8, <2>3, BetweenOfUpdate
  <2>5. ~HasKey(s.node.kvs, k) /\ GetPtr(s.node, FindIndex(s.node, k)) = s.node.ptr[j + 1]
    <3>1. Between(s.node.kvs, j + 1, k)
      BY <1>3, <2>4
    <3> QED
      BY <1>6, <1>7, <3>1
  <2> QED
    BY <1>3, <2>1, <2>5, Zenon DEF Roomy
<1>9. CASE Between(n.kvs, j, k) /\ c = L + 1
  <2>1. c > L /\ c - L = 1 /\ 1 \in 1 .. R /\ c >= 2
    BY <1>2, <1>9
  <2>2. n.kvs[j][1] < kv[1] /\ k < n.kvs[j][1]
    <3>1. n.kvs[j][1] < kv[1]
      BY <1>3, <1>4, <2>1
    <3>2. k < n.kvs[j][1]
      BY <1>6, <1>9, Zenon DEF Between, N
    <3> QED
      BY <3>1, <3>2
  <2>3. k < kv[1]
    BY <1>5, <2>2
  <2>4. Between([n.kvs EXCEPT ![j] = kv], j, k)
    BY <1>1, <1>9, <2>3, BetweenOfUpdate
  <2>5. ~HasKey(s.node.kvs, k) /\ GetPtr(s.node, FindIndex(s.node, k)) = s.node.ptr[j]
    <3>1. Between(s.node.kvs, j, k)
      BY <1>3, <2>4
    <3> QED
      BY <1>6, <1>7, <3>1
  <2> QED
    BY <1>3, <2>1, <2>5, Zenon DEF Roomy
<1> QED
  BY <1>8, <1>9 DEF L

(* After a merge the child that k is below has the pairs of both.          *)
LEMMA MergeMakesRoom ==
  ASSUME NEW w, NEW x, NEW n, NEW d, Fits(w, n, d), NEW j \in 1 .. Len(n.kvs), NEW l, NEW r,
         Around(n, j, l, r), NEW k \in Key, l.kvs # << >> \/ r.kvs # << >>,
         NEW s, Fits(x, s.node, d), MergedTo(s, x, n, j, l, r),
         Between(n.kvs, j + 1, k) \/ Between(n.kvs, j, k)
  PROVE  Roomy(s, x, k)
<1>1. /\ n.kvs \in Seq(KVs) /\ l.kvs \in Seq(KVs) /\ r.kvs \in Seq(KVs) /\ InOrder(n.kvs)
      /\ s.node.kvs \in Seq(KVs) /\ InOrder(s.node.kvs)
  <2>1. l \in Nodes /\ r \in Nodes
    BY Zenon DEF Around, IsNode
  <2>2. l.kvs \in Seq(KVs) /\ r.kvs \in Seq(KVs)
    BY <2>1 DEF Nodes, KVs
  <2>3. n.kvs \in Seq(KVs) /\ InOrder(n.kvs) /\ s.node.kvs \in Seq(KVs) /\ InOrder(s.node.kvs)
    BY Zenon DEF Fits, FitsBut
  <2> QED
    BY <2>2, <2>3
<1>2. /\ Len(s.node.kvs) = Len(n.kvs) - 1 /\ s.node.kvs = RemoveAt(n.kvs, j)
      /\ Len(x[s.node.ptr[j]].node.kvs) = Len(l.kvs) + Len(r.kvs) + 1
  BY Zenon DEF MergedTo
<1>3. Len(x[s.node.ptr[j]].node.kvs) >= 2
  <2>1. Len(l.kvs) \in Nat /\ Len(r.kvs) \in Nat /\ (Len(l.kvs) # 0 \/ Len(r.kvs) # 0)
    BY <1>1
  <2>2. \A a, b \in Nat : a # 0 \/ b # 0 => a + b + 1 >= 2
    OBVIOUS
  <2>3. Len(l.kvs) + Len(r.kvs) + 1 >= 2
    BY <2>1, <2>2, Zenon
  <2> QED
    BY <1>2, <2>3
<1>4. CutAt(n.kvs, RemoveAt(n.kvs, j), j)
  <2>1. PICK kv : kv \in KVs
    <3>1. n.kvs[j] \in KVs
      BY <1>1
    <3> QED
      BY <3>1
  <2> QED
    BY <1>1, <2>1, CutByRemoving
<1>5. Between(s.node.kvs, j, k)
  BY <1>1, <1>2, <1>4, BetweenBesidePair
<1>6. j \in 1 .. Len(s.node.kvs) + 1 /\ (j - 1) + 1 = j
  BY <1>1, <1>2
<1>7. FindIndex(s.node, k) = j - 1 /\ ~HasKey(s.node.kvs, k)
  BY <1>1, <1>5, <1>6, BetweenIndex
<1> QED
  BY <1>3, <1>6, <1>7 DEF Roomy, GetPtr

-----------------------------------------------------------------------------
(* What FillChild leaves: at most one pair of the node less, and room in   *)
(* the child to enter.                                                     *)
Filled(s, x, n, k) ==
  Len(s.node.kvs) >= Len(n.kvs) - 1 /\ (~HasKey(n.kvs, k) => Roomy(s, x, k))

(* Two siblings repaired, with k below one of them.                        *)
LEMMA RotationFills ==
  ASSUME NEW m, NEW w, Holds(m, w), NEW n, NEW d, Fits(w, n, d), n.type = "internal",
         NEW j \in 1 .. Len(n.kvs), NEW l, NEW r, l = w[n.ptr[j]].node, r = w[n.ptr[j + 1]].node,
         NEW k \in Key, NEW c, NEW s, Redistributed(s, m, n, j, l, r, c), Safe(s),
         \/ c = Len(l.kvs) - 1 /\ ~Underflow(l) /\ (HasKey(n.kvs, k) \/ Between(n.kvs, j + 1, k))
         \/ c = Len(l.kvs) + 1 /\ ~Underflow(r) /\ (HasKey(n.kvs, k) \/ Between(n.kvs, j, k))
  PROVE  \E x : KeepsPairs(s, w, x, n, d) /\ (s.err = NoError => Filled(s, x, n, k))
<1>1. World(w) /\ n.kvs \in Seq(KVs)
  BY Zenon DEF Holds, Fits, FitsBut
<1>2. Around(n, j, l, r)
  BY <1>1, SiblingsAround
<1>3. l.kvs # << >> /\ r.kvs # << >>
  <2>1. j \in 1 .. Len(n.kvs) + 1 /\ j + 1 \in 1 .. Len(n.kvs) + 1
    BY <1>1
  <2>2. Fitted(w, n, d, j, n.ptr[j], w[n.ptr[j]].node)
    BY <1>1, <2>1, ChildFitted
  <2>3. Fitted(w, n, d, j + 1, n.ptr[j + 1], w[n.ptr[j + 1]].node)
    BY <1>1, <2>1, ChildFitted
  <2> QED
    BY <2>2, <2>3, Zenon DEF Fitted
<1>4. l.kvs \in Seq(KVs) /\ r.kvs \in Seq(KVs)
  <2>1. l \in Nodes /\ r \in Nodes
    BY <1>2, Zenon DEF Around, IsNode
  <2> QED
    BY <2>1 DEF Nodes, KVs
<1>5. c \in Nat \ {0} /\ c < Len(l.kvs) + Len(r.kvs)
  <2> DEFINE L == Len(l.kvs)
             R == Len(r.kvs)
  <2>1. L \in Nat /\ R \in Nat /\ L # 0 /\ R # 0
    <3>1. \A t \in Seq(KVs) : Len(t) \in Nat /\ (t # << >> => Len(t) # 0)
      OBVIOUS
    <3> QED
      BY <1>3, <1>4, <3>1, Zenon
  <2>2. \/ c = L - 1 /\ ~(L <= 1)
        \/ c = L + 1 /\ ~(R <= 1)
    BY Zenon DEF Underflow, GetNKeys
  <2> HIDE DEF L, R
  <2>3. c \in Nat \ {0} /\ c < L + R
    BY <2>1, <2>2
  <2> QED
    BY <2>3, Zenon DEF L, R
<1>6. PICK x : KeepsPairs(s, w, x, n, d) /\ (s.err = NoError => RotatedTo(s, x, n, j, l, r, c))
  BY <1>5, RotationKeepsPairs
<1>7. ASSUME s.err = NoError PROVE Filled(s, x, n, k)
  <2>1. Fits(x, s.node, d) /\ RotatedTo(s, x, n, j, l, r, c)
    BY <1>6, <1>7, Zenon DEF KeepsPairs
  <2>2. Len(s.node.kvs) >= Len(n.kvs) - 1
    <3>1. Len(s.node.kvs) = Len(n.kvs)
      BY <2>1, Zenon DEF RotatedTo
    <3> QED
      BY <1>1, <3>1
  <2>3. ASSUME ~HasKey(n.kvs, k) PROVE Roomy(s, x, k)
    <3>1. \/ Between(n.kvs, j + 1, k) /\ c = Len(l.kvs) - 1
          \/ Between(n.kvs, j, k) /\ c = Len(l.kvs) + 1
      BY <2>3
    <3> QED
      BY <1>2, <1>3, <2>1, <3>1, RotationMakesRoom
  <2> QED
    BY <2>2, <2>3, Zenon DEF Filled
<1> QED
  BY <1>6, <1>7, Zenon

(* A merge leaves the child that is entered next with two pairs at least.  *)
LEMMA MergeFills ==
  ASSUME NEW m, NEW w, Holds(m, w), NEW n, NEW d, Fits(w, n, d), n.type = "internal",
         NEW j \in 1 .. Len(n.kvs), NEW l, NEW r, l = w[n.ptr[j]].node, r = w[n.ptr[j + 1]].node,
         NEW k \in Key, NEW s, Merged(s, m, n, j, l, r), Safe(s),
         HasKey(n.kvs, k) \/ Between(n.kvs, j + 1, k) \/ Between(n.kvs, j, k)
  PROVE  \E x : KeepsPairs(s, w, x, n, d) /\ (s.err = NoError => Filled(s, x, n, k))
<1>1. World(w) /\ n.kvs \in Seq(KVs)
  BY Zenon DEF Holds, Fits, FitsBut
<1>2. Around(n, j, l, r)
  BY <1>1, SiblingsAround
<1>3. l.kvs # << >>
  <2>1. j \in 1 .. Len(n.kvs) + 1
    BY <1>1
  <2>2. Fitted(w, n, d, j, n.ptr[j], w[n.ptr[j]].node)
    BY <1>1, <2>1, ChildFitted
  <2> QED
    BY <2>2, Zenon DEF Fitted
<1>6. PICK x : KeepsPairs(s, w, x, n, d) /\ (s.err = NoError => MergedTo(s, x, n, j, l, r))
  BY MergeKeepsPairs
<1>7. ASSUME s.err = NoError PROVE Filled(s, x, n, k)
  <2>1. Fits(x, s.node, d) /\ MergedTo(s, x, n, j, l, r)
    BY <1>6, <1>7, Zenon DEF KeepsPairs
  <2>2. Len(s.node.kvs) >= Len(n.kvs) - 1
    <3>1. Len(s.node.kvs) = Len(n.kvs) - 1
      BY <2>1, Zenon DEF MergedTo
    <3> QED
      BY <1>1, <3>1
  <2>3. ASSUME ~HasKey(n.kvs, k) PROVE Roomy(s, x, k)
    <3>1. Between(n.kvs, j + 1, k) \/ Between(n.kvs, j, k)
      BY <2>3
    <3> QED
      BY <1>2, <1>3, <2>1, <3>1, MergeMakesRoom
  <2> QED
    BY <2>2, <2>3, Zenon DEF Filled
<1> QED
  BY <1>6, <1>7, Zenon

(* FillChild keeps the pairs below the parent, and leaves more than one    *)
(* pair in the child that the deletion enters.                             *)
THEOREM FillChildKeepsPairs ==
  ASSUME NEW m, NEW w, Holds(m, w), NEW n, NEW d, Fits(w, n, d), n.type = "internal",
         n.kvs # << >>, NEW k \in Key, NEW s, s = FillChild(m, n, k), Safe(s)
  PROVE  /\ Reuses(s, m, n)
         /\ \E x : KeepsPairs(s, w, x, n, d) /\ (s.err = NoError => Filled(s, x, n, k))
<1> DEFINE i     == FindIndex(n, k)
           child == LoadAsNode(m, GetPtr(n, i))
           left  == LoadAsNode(m, GetPtr(n, i - 1))
           right == LoadAsNode(m, GetPtr(n, i + 1))
<1>1. World(w) /\ n.kvs \in Seq(KVs) /\ n.kvs \in Seq(Key \X Val) /\ InOrder(n.kvs) /\ IsNode(n)
  BY Zenon DEF Holds, Fits, FitsBut, KVs, IsNode
<1>2. i \in 0 .. Len(n.kvs) /\ (HasKey(n.kvs, k) \/ Between(n.kvs, i + 1, k))
  <2>1. i \in 0 .. Len(n.kvs)
    BY <1>1, FindIndexIsFirst
  <2>2. ~HasKey(n.kvs, k) => Between(n.kvs, i + 1, k)
    BY <1>1, IndexBetween
  <2> QED
    BY <2>1, <2>2
<1>3. child.ok /\ s.err # Panicked
  <2>1. s.err # Panicked
    BY Zenon DEF Safe
  <2>2. ~child.ok => s = Repaired(m, n, << >>, Panicked)
    BY Zenon DEF FillChild
  <2>3. Repaired(m, n, << >>, Panicked).err = Panicked
    BY DEF Repaired
  <2> QED
    BY <2>1, <2>2, <2>3, Zenon
<1>4. i = FindIndex(n, k) /\ child = LoadAsNode(m, GetPtr(n, i))
      /\ left = LoadAsNode(m, GetPtr(n, i - 1)) /\ right = LoadAsNode(m, GetPtr(n, i + 1))
  OBVIOUS
<1> HIDE DEF i, child, left, right
<1>5. \A h \in 0 .. Len(n.kvs) : LoadAsNode(m, GetPtr(n, h)) = w[n.ptr[h + 1]].node
  BY <1>2, <1>3, <1>4, ChildrenHeld
<1>6. child = w[n.ptr[i + 1]].node
  BY <1>2, <1>4, <1>5
<1>7. i > 0 => /\ i \in 1 .. Len(n.kvs) /\ left = w[n.ptr[i]].node
               /\ Around(n, i, left, child)
  <2> SUFFICES ASSUME i > 0
               PROVE  /\ i \in 1 .. Len(n.kvs) /\ left = w[n.ptr[i]].node
                      /\ Around(n, i, left, child)
    OBVIOUS
  <2>1. i \in 1 .. Len(n.kvs) /\ i - 1 \in 0 .. Len(n.kvs) /\ (i - 1) + 1 = i
    BY <1>1, <1>2
  <2>2. left = w[n.ptr[i]].node
    BY <1>4, <1>5, <2>1
  <2>3. Around(n, i, w[n.ptr[i]].node, w[n.ptr[i + 1]].node)
    BY <1>1, <2>1, SiblingsAround
  <2> QED
    BY <1>6, <2>1, <2>2, <2>3
<1>8. i < Len(n.kvs) => /\ i + 1 \in 1 .. Len(n.kvs) /\ right = w[n.ptr[(i + 1) + 1]].node
                        /\ Around(n, i + 1, child, right)
  <2> SUFFICES ASSUME i < Len(n.kvs)
               PROVE  /\ i + 1 \in 1 .. Len(n.kvs) /\ right = w[n.ptr[(i + 1) + 1]].node
                      /\ Around(n, i + 1, child, right)
    OBVIOUS
  <2>1. i + 1 \in 1 .. Len(n.kvs) /\ i + 1 \in 0 .. Len(n.kvs)
    BY <1>1, <1>2
  <2>2. right = w[n.ptr[(i + 1) + 1]].node
    BY <1>4, <1>5, <2>1
  <2>3. Around(n, i + 1, w[n.ptr[i + 1]].node, w[n.ptr[(i + 1) + 1]].node)
    BY <1>1, <2>1, SiblingsAround
  <2> QED
    BY <1>6, <2>1, <2>2, <2>3
<1>9. \/ s.pm = m /\ s.node = n /\ s.retired = << >> /\ ~Underflow(child)
      \/ /\ i > 0
         /\ \/ ~Underflow(left) /\ Redistributed(s, m, n, i, left, child, Len(left.kvs) - 1)
            \/ Merged(s, m, n, i, left, child)
      \/ /\ i < Len(n.kvs)
         /\ \/ ~Underflow(right) /\ Redistributed(s, m, n, i + 1, child, right, Len(child.kvs) + 1)
            \/ Merged(s, m, n, i + 1, child, right)
  <2>1. /\ i > 0 => Around(n, i, left, child)
        /\ i < Len(n.kvs) => Around(n, i + 1, child, right)
    BY <1>7, <1>8
  <2> QED
    BY <1>1, <1>3, <1>4, <2>1, FillChildKeepsOrder
<1>10. CASE s.pm = m /\ s.node = n /\ s.retired = << >> /\ ~Underflow(child)
  <2>1. KeepsPairs(s, w, w, n, d)
    BY <1>10, NothingKeepsPairs
  <2>2. Len(s.node.kvs) >= Len(n.kvs) - 1
    BY <1>1, <1>10
  <2>3. ASSUME ~HasKey(n.kvs, k) PROVE Roomy(s, w, k)
    <3>1. Len(child.kvs) >= 2
      <4>1. child.kvs \in Seq(KVs)
        <5>1. i + 1 \in 1 .. Len(n.kvs) + 1
          BY <1>1, <1>2
        <5>2. Fitted(w, n, d, i + 1, n.ptr[i + 1], child)
          BY <1>1, <1>6, <5>1, ChildFitted
        <5> QED
          BY <5>2, Zenon DEF Fitted, Fits, FitsBut
      <4> QED
        BY <1>10, <4>1 DEF Underflow, GetNKeys
    <3>2. GetPtr(s.node, FindIndex(s.node, k)) = n.ptr[i + 1]
      BY <1>4, <1>10, Zenon DEF GetPtr
    <3> QED
      BY <1>6, <1>10, <2>3, <3>1, <3>2, Zenon DEF Roomy
  <2>4. Reuses(s, m, n)
    BY <1>10, NothingReuses
  <2> QED
    BY <2>1, <2>2, <2>3, <2>4, Zenon DEF Filled
<1>11. CASE i > 0 /\ ~Underflow(left) /\ Redistributed(s, m, n, i, left, child, Len(left.kvs) - 1)
  <2>1. Reuses(s, m, n)
    BY <1>6, <1>7, <1>11, RotationReuses
  <2>2. \E x : KeepsPairs(s, w, x, n, d) /\ (s.err = NoError => Filled(s, x, n, k))
    BY <1>2, <1>6, <1>7, <1>11, RotationFills
  <2> QED
    BY <2>1, <2>2
<1>12. CASE i > 0 /\ Merged(s, m, n, i, left, child)
  <2>1. Reuses(s, m, n)
    BY <1>6, <1>7, <1>12, MergeReuses
  <2>2. \E x : KeepsPairs(s, w, x, n, d) /\ (s.err = NoError => Filled(s, x, n, k))
    BY <1>2, <1>6, <1>7, <1>12, MergeFills
  <2> QED
    BY <2>1, <2>2
<1>13. CASE /\ i < Len(n.kvs) /\ ~Underflow(right)
            /\ Redistributed(s, m, n, i + 1, child, right, Len(child.kvs) + 1)
  <2>1. Reuses(s, m, n)
    BY <1>6, <1>8, <1>13, RotationReuses
  <2>2. \E x : KeepsPairs(s, w, x, n, d) /\ (s.err = NoError => Filled(s, x, n, k))
    BY <1>2, <1>6, <1>8, <1>13, RotationFills
  <2> QED
    BY <2>1, <2>2
<1>14. CASE i < Len(n.kvs) /\ Merged(s, m, n, i + 1, child, right)
  <2>1. Reuses(s, m, n)
    BY <1>6, <1>8, <1>14, MergeReuses
  <2>2. \E x : KeepsPairs(s, w, x, n, d) /\ (s.err = NoError => Filled(s, x, n, k))
    BY <1>2, <1>6, <1>8, <1>14, MergeFills
  <2> QED
    BY <2>1, <2>2
<1> QED
  BY <1>9, <1>10, <1>11, <1>12, <1>13, <1>14

=============================================================================

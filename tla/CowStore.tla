------------------------------ MODULE CowStore ------------------------------
(***************************************************************************)
(* What copy-on-write promises, at the level of pages: operations write    *)
(* only pages they have just allocated, retire the pages they replace into *)
(* the in-memory free list, and a commit moves the master page to the new  *)
(* root and makes the retired pages reusable.                              *)
(*                                                                         *)
(* The module states the discipline a user of the page manager owes it     *)
(* (retire a page at most once, commit no retired page) and what follows   *)
(* from the discipline: a page of the committed tree is never overwritten. *)
(* BTree is checked against it; where the tree breaks the discipline, the  *)
(* promise falls with it.                                                  *)
(***************************************************************************)
EXTENDS MasterPage, Functions

CONSTANTS Content   \* what a page can hold

VARIABLES
  pm,        \* the page manager, its master page and the mapped pages
  root,      \* BTree.root
  freelist,  \* BTree.freelist: retired by operations not yet committed
  live       \* the pages of the committed tree, those reachable from root

vars == <<pm, root, freelist, live>>

(* Handed out and not back on a free list. *)
Owned(m, fl) == (1 .. m.cur - 1) \ (Range(m.free) \cup Range(fl))

(* Each page retired at most once, and only by its owner.  Retiring a live *)
(* page is legal: it stays untouched until the commit that abandons it.    *)
Retirable(m, ps) == IsInjective(ps) /\ Range(ps) \subseteq Owned(m, freelist)

InitWith(zero) ==
  LET opened == LoadOrCreateRoot(NewPageManager(NewFile(zero)))
  IN /\ opened.err = NoError
     /\ pm = opened.pm
     /\ root = opened.page
     /\ freelist = << >>
     /\ live = {opened.page}

Init == \E zero \in Content : InitWith(zero)

(* Deviation: what is retired can be allocated at once.                    *)
PersistPublishes(r, ps) ==
  /\ r.err \notin {Panicked, Clobber}
  /\ pm' = [r.pm EXCEPT !.free = @ \o ps]
  /\ Retirable(r.pm, ps)
  /\ UNCHANGED <<root, freelist, live>>

(* A step of an operation: it has persisted nodes with outcome r, and      *)
(* retires ps.  A panic ends the process, and with it the behaviour.       *)
Persist(r, ps) ==
  /\ r.err \notin {Panicked, Clobber}
  /\ pm' = r.pm
  /\ Retirable(r.pm, ps)
  /\ freelist' = freelist \o ps
  /\ UNCHANGED <<root, live>>

(* An operation persists no node, one node or two between two points where *)
(* its parent sees it.  When an allocation fails the step keeps what the   *)
(* page manager has done so far.                                           *)
Work(vs, ps) ==
  \/ Len(vs) = 0 /\ Persist([pm |-> pm, err |-> NoError], ps)
  \/ Len(vs) = 1 /\ Persist(CopyToNewPage(pm, vs[1]), ps)
  \/ Len(vs) = 2 /\ Persist(CopyPair(pm, vs[1], vs[2]), ps)

(* The master page moves to a tree made of pages nobody has retired.       *)
(* Insert, Delete and the batch differ in when they retire the old root:   *)
(* fl is the free list including it.                                       *)
Commit(fl, newRoot, kept) ==
  /\ \/ fl = freelist
     \/ /\ root \in Owned(pm, freelist)
        /\ fl = Append(freelist, root)
  /\ kept \subseteq Owned(pm, fl)
  /\ newRoot \in kept
  /\ pm' = HandleMasterPage(pm, fl, newRoot)
  /\ root' = newRoot
  /\ freelist' = << >>
  /\ live' = kept

AtMostTwo(S) == UNION {[1 .. n -> S] : n \in 0 .. 2}
Retirees     == PageNums \ Range(freelist)

Next ==
  \/ \E vs \in AtMostTwo(Content), ps \in AtMostTwo(Retirees) : Work(vs, ps)
  \/ \E fl \in {freelist, Append(freelist, root)} :
     \E kept \in SUBSET Owned(pm, fl) : \E newRoot \in kept :
        Commit(fl, newRoot, kept)

Spec == Init /\ [][Next]_vars

-----------------------------------------------------------------------------
PageManagers ==
  [cur : Nat, end : Nat, mapped : Nat, flen : Nat,
   root : Nat, free : Seq(Nat), page : [PageNums -> Content]]

TypeOK ==
  /\ pm \in PageManagers
  /\ root \in Nat
  /\ freelist \in Seq(Nat)
  /\ live \in SUBSET Nat

(* No page is promised twice: the free list of the master page and the     *)
(* in-memory one hold each page once, and share none.  Two nodes would     *)
(* otherwise be given the same page by Allocate.                           *)
NoDoubleFree ==
  /\ IsInjective(pm.free)
  /\ IsInjective(freelist)
  /\ Range(pm.free) \cap Range(freelist) = {}

(* Allocate can give away no page of the committed tree: neither the free  *)
(* list nor the untouched tail of the file holds one.                      *)
LiveNotAllocatable ==
  \A p \in live : p \in 1 .. pm.cur - 1 /\ p \notin Range(pm.free)

(* The master page and BTree.root name the same tree from the first commit *)
(* on, and that root is itself a live page.                                *)
MasterNamesLiveRoot == root \in live /\ pm.root \in {0, root}

(* Every page handed out, and the one Allocate would hand out next, has a  *)
(* 32-bit byte offset of its own.  Offsets are computed modulo 2^32: were  *)
(* a page number to reach 2^20, its node would be written over the master  *)
(* page.  The process panics one page earlier.                             *)
OffsetsDistinct == \A p \in 1 .. pm.cur : Slot(p) = p

(* A page of the committed tree is never written: what package btree calls *)
(* "each write operation allocates a new page rather than mutating in      *)
(* place", free list included.                                             *)
CopyOnWrite ==
  [][\A p \in live : pm'.page[p] = pm.page[p]]_vars

=============================================================================

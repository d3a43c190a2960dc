----------------------------- MODULE MasterPage -----------------------------
(***************************************************************************)
(* How package btree uses the page manager: every node goes to a page of   *)
(* its own, and a commit rewrites the master page.                         *)
(***************************************************************************)
EXTENDS PageManager

(* Page numbers that fit in the master page after its header. *)
FreeSlots == (PageSize - MasterHeaderSize) \div PointerSize

(* Deviation: the error of Allocate is not looked at.                      *)
StoreUnchecked(a, v) == Write(a.pm, a.page, v)

Store(a, v) == IF a.err = NoError THEN Write(a.pm, a.page, v) ELSE a

(* copyToNewPage: allocate, then write.  An error of either is returned    *)
(* with what the other already did.                                        *)
CopyToNewPage(pm, v) == Store(Allocate(pm), v)

(* Two nodes persisted one after the other, as the splits and rotations    *)
(* do; the second is not tried when the first, a, fails.                   *)
Paired(a, b) == [pm |-> b.pm, first |-> a.page, second |-> b.page, err |-> b.err]

Second(a, w) ==
  IF a.err = NoError THEN Paired(a, CopyToNewPage(a.pm, w)) ELSE Paired(a, a)

CopyPair(pm, v, w) == Second(CopyToNewPage(pm, v), w)

(* Deviations of the commit: the list is written twice; the new root is    *)
(* freed with the old; only the first commit writes its root; the list is  *)
(* never written.                                                          *)
HandleMasterPageTwice(pm, fl, root) ==
  [pm EXCEPT !.root = root, !.free = @ \o fl \o fl]

HandleMasterPageFreesRoot(pm, fl, root) ==
  [pm EXCEPT !.root = root, !.free = Append(@ \o fl, root)]

HandleMasterPageOnce(pm, fl, root) ==
  [pm EXCEPT !.root = IF @ = 0 THEN root ELSE @, !.free = @ \o fl]

HandleMasterPageNoList(pm, fl, root) == [pm EXCEPT !.root = root]

(* The in-memory free list fl is appended to the one of the master page    *)
(* when there is room for all of it, and dropped otherwise.                *)
HandleMasterPage(pm, fl, root) ==
  [pm EXCEPT !.root = root,
             !.free = IF Len(@) + Len(fl) < FreeSlots THEN @ \o fl ELSE @]

(* loadOrCreateRoot: Read(0) of a new page manager always answers EOF, so  *)
(* a master page and a root page are allocated, whatever the file holds.   *)
LoadOrCreateRoot(pm) ==
  IF ReadsEOF(pm, 0)
  THEN LET master == Allocate(pm)
       IN IF master.err = NoError THEN Allocate(master.pm) ELSE master
  ELSE [pm |-> pm, page |-> pm.root, err |-> NoError]

=============================================================================

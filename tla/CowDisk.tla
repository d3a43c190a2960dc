------------------------------ MODULE CowDisk --------------------------------
(***************************************************************************)
(* CowStore with readers beside it and a disk under it: the order that     *)
(* writes, barriers and the master page must keep for a crash at any       *)
(* moment to leave a whole tree, and for a search to see one.  An          *)
(* operation writes pages only once the disk has no other version of the   *)
(* master page than the current one, and a commit needs every page of its  *)
(* tree forced out before.  Store is checked against this discipline.      *)
(***************************************************************************)
EXTENDS CowStore, Disk

CONSTANTS Reader

VARIABLES
  committed,  \* history: the trees that the versions of the master page
              \* name, [root, image], image being the content of their pages
  views       \* history: what the tree a search began with held, and how
              \* far the writer has got since: "current" until a commit,
              \* "old" until the next operation, then "outrun"

diskvars == <<vars, disk, committed, views>>

Tree(r, ps) == [root |-> r, image |-> [p \in ps |-> pm.page[p]]]

(* The trees that a version of the master page still names.                *)
StillNamed == {t \in committed : \E version \in masters' : version.root = t.root}

NoView   == [image |-> << >>, age |-> "outrun"]
Outrun(v) == IF v.age = "old" THEN NoView ELSE v
Abandoned(v) == IF v.age = "current" THEN [v EXCEPT !.age = "old"] ELSE v

DiskInitWith(zero) ==
  /\ InitWith(zero) /\ CleanDisk(pm)
  /\ committed = {} /\ views = [r \in Reader |-> NoView]

DiskInit == \E zero \in Content : DiskInitWith(zero)

(* An operation persists, and retires.                                     *)
WorkCached(vs, ps) ==
  Settled(pm) /\ Work(vs, ps) /\ WriteCached(pm, pm')

(* Deviation: the master page moves before its tree is forced out.         *)
CommitUnforced(fl, newRoot, kept) ==
  /\ Settled(pm) /\ newRoot # root
  /\ Commit(fl, newRoot, kept) /\ WriteCached(pm, pm')

(* The new root has a page of its own.                                     *)
CommitForced(fl, newRoot, kept) ==
  /\ Settled(pm) /\ newRoot # root
  /\ kept \cap (dirty \cup lost) = {}
  /\ Commit(fl, newRoot, kept) /\ WriteCached(pm, pm')

DiskWork(vs, ps) ==
  /\ WorkCached(vs, ps)
  /\ views' = [r \in Reader |-> Outrun(views[r])]
  /\ UNCHANGED committed

DiskCommit(fl, newRoot, kept) ==
  /\ CommitForced(fl, newRoot, kept)
  /\ committed' = committed \cup {Tree(newRoot, kept)}
  /\ views' = [r \in Reader |-> Abandoned(views[r])]

(* A barrier on the whole file, or on the master page alone.               *)
BarrierPassed(ps) ==
  Flush(pm, ps) /\ committed' = StillNamed /\ UNCHANGED <<vars, views>>

BarrierFailed(ps) ==
  FlushFailed(ps) /\ UNCHANGED <<vars, committed, views>>

(* A search reads BTree.root.                                              *)
SearchBegin(r) ==
  /\ views[r].age = "outrun"
  /\ views' = [views EXCEPT ![r] = [image |-> Tree(root, live).image, age |-> "current"]]
  /\ UNCHANGED <<vars, disk, committed>>

DiskNext ==
  \/ \E vs \in AtMostTwo(Content), ps \in AtMostTwo(Retirees) : DiskWork(vs, ps)
  \/ \E fl \in {freelist, Append(freelist, root)} :
     \E kept \in SUBSET Owned(pm, fl) : \E newRoot \in kept :
        DiskCommit(fl, newRoot, kept)
  \/ \E ps \in {AllPages, {0}} : BarrierPassed(ps) \/ BarrierFailed(ps)
  \/ \E r \in Reader : SearchBegin(r)

DiskSpec == DiskInit /\ [][DiskNext]_diskvars

-----------------------------------------------------------------------------
(* The process or the machine stops, and the file is opened again.         *)
Reopened(version, junk) == LoadOrCreateRoot(NewPageManager(LeftBy(pm, version, junk)))

(* Page manager m has the pages of tree t, none of them on its free list.  *)
Holds(m, t) ==
  /\ t.root = m.root /\ t.root \in DOMAIN t.image
  /\ \A p \in DOMAIN t.image :
        p < m.flen /\ p \notin Range(m.free) /\ m.page[p] = t.image[p]

(* Whatever version of the master page the disk holds when the machine     *)
(* stops, and whatever has become of the pages that were not forced out,   *)
(* the file leads to a tree that was committed, whole.                     *)
Recoverable ==
  \A version \in masters, junk \in [PageNums \cap (dirty \cup lost) -> Content] :
    version.root # 0 => \E t \in committed : Holds(Reopened(version, junk).pm, t)

(* A search finds the pages of the tree it began with as they were, until  *)
(* the second commit since then is being worked on.                        *)
SnapshotKept ==
  \A r \in Reader : \A p \in DOMAIN views[r].image : pm.page[p] = views[r].image[p]
=============================================================================

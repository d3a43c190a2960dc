---------------------------- MODULE CowDiskProofs ----------------------------
(***************************************************************************)
(* For every page size, disk size and page content: under the discipline   *)
(* of CowDisk a crash at any moment leaves a whole tree, and no search     *)
(* loses the pages of the tree it began with.                              *)
(***************************************************************************)
EXTENDS CowDisk, CowStoreProofs

(* Tree t is on the disk, and the page manager has its pages; neither the  *)
(* free list of the version of the master page that names it nor the tail  *)
(* of the file can give one away.                                          *)
Intact(t, version) ==
  /\ t.root = version.root /\ t.root \in DOMAIN t.image
  /\ DOMAIN t.image \subseteq 1 .. pm.cur - 1
  /\ \A p \in DOMAIN t.image :
        /\ p \notin Range(version.free) /\ p \notin dirty /\ p \notin lost
        /\ pm.page[p] = t.image[p]

(* The versions of the master page name one tree each, and it is intact.   *)
VersionsLead ==
  /\ Master(pm) \in masters
  /\ masters \subseteq [root : Nat, free : Seq(Nat)]
  /\ \A version \in masters : version.root # 0 => \E t \in committed : Intact(t, version)

OneTreePerRoot ==
  /\ \A t, u \in committed : t.root = u.root => t = u
  /\ \A t \in committed : \E version \in masters : version.root = t.root

(* A search that began since the last commit is in the committed tree.     *)
ViewsInTree ==
  /\ DOMAIN views = Reader
  /\ \A r \in Reader :
       /\ views[r].age \in {"current", "old", "outrun"}
       /\ views[r].age = "current" => DOMAIN views[r].image \subseteq live
       /\ views[r].age = "outrun" => DOMAIN views[r].image = {}

(* Inductive: IInv of CowStore, and what the disk and the searches add.    *)
DiskInv == IInv /\ VersionsLead /\ OneTreePerRoot /\ ViewsInTree /\ SnapshotKept

-----------------------------------------------------------------------------
(* A new file names no tree.                                               *)
LEMMA DiskInitInv ==
  DiskInit => DiskInv /\ Init
<1> SUFFICES ASSUME NEW zero \in Content, DiskInitWith(zero) PROVE DiskInv /\ Init
  BY DEF DiskInit
<1>1. /\ Init /\ masters = {Master(pm)} /\ committed = {}
      /\ views = [r \in Reader |-> NoView]
  BY DEF DiskInitWith, CleanDisk, Init
<1>2. IInv
  BY <1>1, InitIInv
<1>3. pm.root = 0 /\ pm.free \in Seq(Nat)
  BY <1>1, <1>2, InitIInv DEF IInv, WellFormed, PageManagers
<1>4. VersionsLead
  BY <1>1, <1>3 DEF VersionsLead, Master
<1>5. \A r \in Reader : views[r].age = "outrun" /\ DOMAIN views[r].image = {}
  BY <1>1 DEF NoView
<1> QED
  BY <1>1, <1>2, <1>4, <1>5 DEF DiskInv, OneTreePerRoot, ViewsInTree, SnapshotKept

(* The page manager's move from m to n as the disk sees it: page 0 apart,  *)
(* only pages that change are cached, and the versions gain one.           *)
LEMMA CachedPages ==
  ASSUME NEW p, p # 0, pm'.page[p] = pm.page[p], WriteCached(pm, pm'),
         p \notin dirty, p \notin lost
  PROVE  p \notin dirty' /\ p \notin lost'
  BY DEF WriteCached, Written

(* A tree that is intact stays so when its pages do.                       *)
LEMMA StaysIntact ==
  ASSUME NEW t, NEW version, Intact(t, version),
         pm.cur \in Nat, pm'.cur \in Nat, pm'.cur >= pm.cur,
         \A p \in DOMAIN t.image : pm'.page[p] = pm.page[p],
         WriteCached(pm, pm')
  PROVE  Intact(t, version)'
<1>1. \A p \in DOMAIN t.image : p \notin dirty' /\ p \notin lost'
  BY CachedPages DEF Intact
<1>2. DOMAIN t.image \subseteq 1 .. pm'.cur - 1
  BY DEF Intact
<1> QED
  BY <1>1, <1>2 DEF Intact

(* A step of an operation spares the tree that every version names.        *)
LEMMA DiskWorkKeeps ==
  ASSUME DiskInv, NEW vs \in Seq(Content), NEW ps \in Seq(Nat), DiskWork(vs, ps)
  PROVE  DiskInv'
<1>1. /\ IInv /\ Work(vs, ps) /\ WriteCached(pm, pm') /\ committed' = committed
      /\ views' = [r \in Reader |-> Outrun(views[r])]
      /\ \A version \in masters : version.root = pm.root
  BY DEF DiskInv, DiskWork, WorkCached, Settled
<1>2. IInv' /\ \A p \in live : pm'.page[p] = pm.page[p]
  BY <1>1, WorkKeeps
<1>3. /\ Evolves(pm, pm') /\ WellFormed(pm) /\ live' = live
      /\ pm.cur \in Nat /\ pm'.cur \in Nat /\ pm'.cur >= pm.cur /\ pm'.root = pm.root
      /\ Range(pm'.free) \subseteq Range(pm.free) /\ pm' \in PageManagers
  BY <1>1, WorkEvolves DEF IInv, Evolves, WellFormed, PageManagers, Persist
<1>4. masters' = masters \cup {Master(pm')}
  BY <1>1 DEF WriteCached
<1>5. Master(pm) \in masters /\ masters \subseteq [root : Nat, free : Seq(Nat)]
  BY DEF DiskInv, VersionsLead
<1>6. ASSUME NEW version \in masters', version.root # 0
      PROVE  \E t \in committed' : Intact(t, version)'
  <2>1. version.root = pm.root
    BY <1>1, <1>3, <1>4 DEF Master
  <2>2. PICK u \in committed : Intact(u, Master(pm))
    BY <2>1, <1>5, <1>6 DEF DiskInv, VersionsLead, Master
  <2>3. Intact(u, version)
    <3>1. CASE version \in masters
      <4>1. PICK t \in committed : Intact(t, version)
        BY <3>1, <1>6 DEF DiskInv, VersionsLead
      <4>2. t.root = u.root
        BY <4>1, <2>1, <2>2 DEF Intact, Master
      <4> QED
        BY <4>1, <4>2 DEF DiskInv, OneTreePerRoot
    <3>2. CASE version = Master(pm')
      BY <3>2, <2>2, <1>3 DEF Intact, Master
    <3> QED
      BY <3>1, <3>2, <1>4
  <2>4. \A p \in DOMAIN u.image : p \in (1 .. pm.cur - 1) \ Range(pm.free)
    BY <2>2 DEF Intact, Master
  <2>5. \A p \in DOMAIN u.image : pm'.page[p] = pm.page[p]
    BY <2>4, <1>3 DEF Evolves
  <2>6. Intact(u, version)'
    BY <2>3, <2>5, <1>1, <1>3, StaysIntact
  <2> QED
    BY <2>6, <1>1
<1>7. Master(pm') \in [root : Nat, free : Seq(Nat)]
  BY <1>3 DEF Master, PageManagers
<1>8. VersionsLead'
  BY <1>4, <1>5, <1>6, <1>7 DEF VersionsLead, Master
<1>9. OneTreePerRoot'
  BY <1>1, <1>4 DEF DiskInv, OneTreePerRoot
<1>10. ViewsInTree' /\ SnapshotKept'
  <2>1. ASSUME NEW r \in Reader
        PROVE  /\ views'[r].age \in {"current", "old", "outrun"}
               /\ views'[r].age = "current" => DOMAIN views'[r].image \subseteq live'
               /\ views'[r].age = "outrun" => DOMAIN views'[r].image = {}
               /\ \A p \in DOMAIN views'[r].image : pm'.page[p] = views'[r].image[p]
    <3>1. CASE views[r].age = "old"
      <4>1. views'[r] = NoView
        BY <3>1, <1>1 DEF Outrun
      <4> QED
        BY <4>1 DEF NoView
    <3>2. CASE views[r].age # "old"
      <4>1. views'[r] = views[r]
        BY <3>2, <1>1 DEF Outrun
      <4> QED
        BY <4>1, <3>2, <1>2, <1>3 DEF DiskInv, ViewsInTree, SnapshotKept
    <3> QED
      BY <3>1, <3>2
  <2> QED
    BY <2>1, <1>1 DEF ViewsInTree, SnapshotKept
<1> QED
  BY <1>2, <1>8, <1>9, <1>10 DEF DiskInv

(* A commit gives the new version of the master page a tree of its own,    *)
(* forced out, and leaves the one before it alone.                         *)
LEMMA DiskCommitKeeps ==
  ASSUME DiskInv, NEW fl, NEW newRoot, NEW kept, DiskCommit(fl, newRoot, kept)
  PROVE  DiskInv'
<1>1. /\ IInv /\ Commit(fl, newRoot, kept) /\ WriteCached(pm, pm') /\ newRoot # root
      /\ committed' = committed \cup {Tree(newRoot, kept)}
      /\ views' = [r \in Reader |-> Abandoned(views[r])]
      /\ \A version \in masters : version.root = pm.root
      /\ kept \cap (dirty \cup lost) = {}
  BY DEF DiskInv, DiskCommit, CommitForced, Settled
<1>2. IInv' /\ \A p \in live : pm'.page[p] = pm.page[p]
  BY <1>1, CommitKeeps
<1>3. /\ pm' = HandleMasterPage(pm, fl, newRoot) /\ live' = kept /\ newRoot \in kept
      /\ kept \subseteq 1 .. pm.cur - 1
  BY <1>1 DEF Commit, Owned
<1>4. /\ pm'.page = pm.page /\ pm'.cur = pm.cur /\ pm'.root = newRoot
      /\ pm \in PageManagers /\ pm.cur \in Nat /\ pm' \in PageManagers
  <2>1. pm \in PageManagers /\ pm' \in PageManagers
    BY <1>1, <1>2 DEF IInv, WellFormed
  <2> QED
    BY <2>1, <1>3 DEF HandleMasterPage, PageManagers
<1>5. masters' = masters \cup {Master(pm')}
  BY <1>1 DEF WriteCached
<1>6. /\ pm.root # newRoot /\ newRoot # 0
      /\ \A t \in committed : t.root # newRoot
  <2>1. newRoot # 0
    BY <1>3, <1>4
  <2>2. pm.root \in {0, root}
    BY <1>1 DEF IInv, MasterNamesLiveRoot
  <2>3. \A t \in committed : t.root = pm.root
    BY <1>1 DEF DiskInv, OneTreePerRoot
  <2> QED
    BY <2>1, <2>2, <2>3, <1>1
<1>7. PICK new : /\ committed' = committed \cup {new}
                 /\ new.root = newRoot /\ new.image = [p \in kept |-> pm.page[p]]
  <2>1. /\ Tree(newRoot, kept).root = newRoot
        /\ Tree(newRoot, kept).image = [p \in kept |-> pm.page[p]]
    BY DEF Tree
  <2> QED
    BY <2>1, <1>1, Zenon
<1>8. ASSUME NEW version, version = Master(pm')
      PROVE  Intact(new, version)'
  <2>1. version.root = newRoot /\ version.free = pm'.free
    BY <1>4, <1>8 DEF Master
  <2>2. \A p \in kept : p \notin Range(pm'.free)
    BY <1>2, <1>3 DEF IInv, LiveNotAllocatable
  <2>3. \A p \in kept : p \notin dirty' /\ p \notin lost'
    BY <1>1, <1>3, <1>4, CachedPages
  <2> QED
    BY <2>1, <2>2, <2>3, <1>3, <1>4, <1>7 DEF Intact
<1>9. ASSUME NEW version \in masters, version.root # 0
      PROVE  \E t \in committed : Intact(t, version)'
  <2>1. PICK t \in committed : Intact(t, version)
    BY <1>9 DEF DiskInv, VersionsLead
  <2> QED
    BY <2>1, <1>1, <1>4, StaysIntact
<1>10. Master(pm') \in [root : Nat, free : Seq(Nat)]
  BY <1>4 DEF Master, PageManagers
<1>11. VersionsLead'
  <2>1. \A version \in masters' : version.root # 0 => \E t \in committed' : Intact(t, version)'
    BY <1>5, <1>7, <1>8, <1>9
  <2> QED
    BY <2>1, <1>5, <1>10 DEF DiskInv, VersionsLead, Master
<1>12. OneTreePerRoot'
  <2>1. Master(pm').root = newRoot
    BY <1>4 DEF Master
  <2> QED
    BY <2>1, <1>1, <1>5, <1>6, <1>7 DEF DiskInv, OneTreePerRoot
<1>13. ViewsInTree' /\ SnapshotKept'
  <2>1. ASSUME NEW r \in Reader
        PROVE  /\ views'[r].age \in {"old", "outrun"}
               /\ views'[r].age = "outrun" => DOMAIN views'[r].image = {}
               /\ \A p \in DOMAIN views'[r].image : pm'.page[p] = views'[r].image[p]
    BY <1>1, <1>4 DEF DiskInv, ViewsInTree, SnapshotKept, Abandoned
  <2> QED
    BY <2>1, <1>1 DEF ViewsInTree, SnapshotKept
<1> QED
  BY <1>2, <1>11, <1>12, <1>13 DEF DiskInv

(* Nothing happens to the trees when neither the pages nor the disk move.  *)
LEMMA TreesUnmoved ==
  ASSUME DiskInv,
         UNCHANGED <<pm, root, freelist, live, dirty, lost, masters, committed>>
  PROVE  IInv' /\ VersionsLead' /\ OneTreePerRoot'
<1>1. /\ pm' = pm /\ root' = root /\ freelist' = freelist /\ live' = live
      /\ dirty' = dirty /\ lost' = lost /\ masters' = masters /\ committed' = committed
  OBVIOUS
<1>2. IInv'
  BY <1>1 DEF DiskInv, IInv, TypeOK, NoDoubleFree, LiveNotAllocatable, MasterNamesLiveRoot
<1>3. ASSUME NEW t, NEW version, Intact(t, version)
      PROVE  Intact(t, version)'
  BY <1>1, <1>3 DEF Intact
<1>4. VersionsLead'
  <2>1. ASSUME NEW version \in masters', version.root # 0
        PROVE  \E t \in committed' : Intact(t, version)'
    <3>1. PICK t \in committed : Intact(t, version)
      BY <1>1, <2>1 DEF DiskInv, VersionsLead
    <3> QED
      BY <3>1, <1>1, <1>3
  <2> QED
    BY <2>1, <1>1 DEF DiskInv, VersionsLead
<1>5. OneTreePerRoot'
  BY <1>1 DEF DiskInv, OneTreePerRoot
<1> QED
  BY <1>2, <1>4, <1>5

(* A barrier moves nothing, and what it leaves unforced was so before.     *)
LEMMA BarrierKeeps ==
  ASSUME DiskInv, NEW ps \in {AllPages, {0}}, BarrierPassed(ps) \/ BarrierFailed(ps)
  PROVE  DiskInv'
<1>1. /\ pm' = pm /\ root' = root /\ freelist' = freelist /\ live' = live /\ views' = views
  BY DEF BarrierPassed, BarrierFailed, vars
<1>2. /\ \A p : p \in dirty' \/ p \in lost' => p \in dirty \/ p \in lost
      /\ masters' \subseteq masters /\ Master(pm) \in masters'
      /\ \/ committed' = committed /\ masters' = masters
         \/ committed' = {t \in committed : \E version \in masters' : version.root = t.root}
  <2>1. Master(pm) \in masters
    BY DEF DiskInv, VersionsLead
  <2>2. CASE BarrierPassed(ps)
    <3>1. /\ dirty' = dirty \ ps /\ lost' = lost
          /\ masters' = masters \/ masters' = {Master(pm)}
      BY <2>2 DEF BarrierPassed, Flush
    <3>2. committed' = {t \in committed : \E version \in masters' : version.root = t.root}
      BY <2>2 DEF BarrierPassed, StillNamed
    <3> QED
      BY <2>1, <3>1, <3>2
  <2>3. CASE BarrierFailed(ps)
    <3>1. /\ dirty' = dirty \ ps /\ lost' = lost \cup (dirty \cap ps)
          /\ masters' = masters /\ committed' = committed
      BY <2>3 DEF BarrierFailed, FlushFailed
    <3> QED
      BY <2>1, <3>1
  <2> QED
    BY <2>2, <2>3
<1>3. IInv'
  BY <1>1 DEF DiskInv, IInv, TypeOK, NoDoubleFree, LiveNotAllocatable, MasterNamesLiveRoot
<1>4. ASSUME NEW version \in masters', version.root # 0
      PROVE  \E t \in committed' : Intact(t, version)'
  <2>1. PICK t \in committed : Intact(t, version)
    BY <1>2, <1>4 DEF DiskInv, VersionsLead
  <2>2. t \in committed'
    BY <2>1, <1>2 DEF Intact
  <2>3. Intact(t, version)'
    BY <2>1, <1>1, <1>2 DEF Intact
  <2> QED
    BY <2>2, <2>3
<1>5. VersionsLead'
  BY <1>1, <1>2, <1>4 DEF DiskInv, VersionsLead
<1>6. OneTreePerRoot'
  BY <1>2 DEF DiskInv, OneTreePerRoot
<1>7. ViewsInTree' /\ SnapshotKept'
  BY <1>1 DEF DiskInv, ViewsInTree, SnapshotKept
<1> QED
  BY <1>3, <1>5, <1>6, <1>7 DEF DiskInv

(* A search begins in the committed tree.                                  *)
LEMMA SearchBeginKeeps ==
  ASSUME DiskInv, NEW s \in Reader, SearchBegin(s)
  PROVE  DiskInv'
<1>1. /\ UNCHANGED <<pm, root, freelist, live, dirty, lost, masters, committed>>
      /\ views' = [views EXCEPT ![s] = [image |-> Tree(root, live).image, age |-> "current"]]
  BY DEF SearchBegin, vars, disk
<1>2. IInv' /\ VersionsLead' /\ OneTreePerRoot'
  BY <1>1, TreesUnmoved
<1>3. ViewsInTree' /\ SnapshotKept'
  <2>1. Tree(root, live).image = [p \in live |-> pm.page[p]]
    BY DEF Tree
  <2>2. ASSUME NEW r \in Reader
        PROVE  /\ views'[r].age \in {"current", "old", "outrun"}
               /\ views'[r].age = "current" => DOMAIN views'[r].image \subseteq live
               /\ views'[r].age = "outrun" => DOMAIN views'[r].image = {}
               /\ \A p \in DOMAIN views'[r].image : pm.page[p] = views'[r].image[p]
    <3>1. CASE r = s
      BY <3>1, <2>1, <1>1 DEF DiskInv, ViewsInTree
    <3>2. CASE r # s
      BY <3>2, <1>1 DEF DiskInv, ViewsInTree, SnapshotKept
    <3> QED
      BY <3>1, <3>2
  <2>3. DOMAIN views' = Reader
    BY <1>1 DEF DiskInv, ViewsInTree
  <2> QED
    BY <2>2, <2>3, <1>1 DEF ViewsInTree, SnapshotKept
<1> QED
  BY <1>2, <1>3 DEF DiskInv

(* Every step keeps the invariant, and is a step of CowStore.              *)
LEMMA DiskNextKeeps ==
  ASSUME DiskInv, [DiskNext]_diskvars
  PROVE  DiskInv' /\ [Next]_vars
<1>1. CASE UNCHANGED diskvars
  <2>1. UNCHANGED <<pm, root, freelist, live, dirty, lost, masters, committed, views>>
    BY <1>1 DEF diskvars, vars, disk
  <2>2. IInv' /\ VersionsLead' /\ OneTreePerRoot'
    BY <2>1, TreesUnmoved
  <2>3. ViewsInTree' /\ SnapshotKept'
    BY <2>1 DEF DiskInv, ViewsInTree, SnapshotKept
  <2> QED
    BY <2>1, <2>2, <2>3 DEF DiskInv, vars
<1>2. ASSUME NEW vs \in AtMostTwo(Content), NEW ps \in AtMostTwo(Retirees), DiskWork(vs, ps)
      PROVE  DiskInv' /\ Next
  <2>1. vs \in Seq(Content) /\ ps \in Seq(Nat)
    BY RetireesInSeq, AtMostTwoInSeq DEF DiskInv
  <2> QED
    BY <1>2, <2>1, DiskWorkKeeps DEF Next, DiskWork, WorkCached
<1>3. ASSUME NEW fl \in {freelist, Append(freelist, root)},
             NEW kept \in SUBSET Owned(pm, fl), NEW newRoot \in kept,
             DiskCommit(fl, newRoot, kept)
      PROVE  DiskInv' /\ Next
  BY <1>3, DiskCommitKeeps DEF Next, DiskCommit, CommitForced
<1>4. ASSUME NEW ps \in {AllPages, {0}}, BarrierPassed(ps) \/ BarrierFailed(ps)
      PROVE  DiskInv' /\ UNCHANGED vars
  BY <1>4, BarrierKeeps DEF BarrierPassed, BarrierFailed
<1>5. ASSUME NEW r \in Reader, SearchBegin(r)
      PROVE  DiskInv' /\ UNCHANGED vars
  BY <1>5, SearchBeginKeeps DEF SearchBegin
<1> QED
  BY <1>1, <1>2, <1>3, <1>4, <1>5 DEF DiskNext

-----------------------------------------------------------------------------
(* A page manager n that has the file of m, and perhaps fewer free pages.  *)
Keeps(m, n) ==
  /\ n \in PageManagers /\ n.root = m.root /\ n.page = m.page
  /\ n.flen >= m.flen /\ Range(n.free) \subseteq Range(m.free)

(* An allocation keeps the file, whatever it finds: of a file just opened  *)
(* it allocates pages the file already has.                                *)
LEMMA AllocateKeeps ==
  ASSUME Platform = "linux", NEW m \in PageManagers
  PROVE  Keeps(m, Allocate(m).pm)
<1> DEFINE a   == Allocate(m)
           x   == ExtendFile(m)
           len == ExtendedLength(m)
           end == m.end + PreAllocatePageNum
<1>1. /\ m.cur \in Nat /\ m.end \in Nat /\ m.flen \in Nat /\ m.free \in Seq(Nat)
      /\ PreAllocatePageNum \in Nat /\ AddrPages \in Nat \ {0} /\ end \in Nat
      /\ DiskPages \in Nat /\ MapPages \in Nat
  BY PageManagerAssumption DEF PageManagers
<1>2. Keeps(m, m)
  BY <1>1 DEF Keeps
<1>3. len \in Nat /\ len >= m.flen
  <2>1. m.cur % AddrPages \in Nat
    BY <1>1
  <2> QED
    BY <2>1, <1>1 DEF ExtendedLength, Fallocated, Larger, Slot
<1>4. ASSUME NEW n, n = [m EXCEPT !.cur = m.cur + 1]
      PROVE  Keeps(m, n)
  <2>1. n \in PageManagers /\ n.root = m.root /\ n.page = m.page /\ n.flen = m.flen /\ n.free = m.free
    BY <1>4, CursorMoved, Zenon
  <2> QED
    BY <2>1, <1>2 DEF Keeps
<1>5. ASSUME NEW n, NEW f, NEW e, OtherFile(m, n, f, e), f >= m.flen
      PROVE  Keeps(m, n)
  BY <1>5, <1>1 DEF OtherFile, Keeps
<1>6. ASSUME NEW n, NEW o, Keeps(m, n), o = [n EXCEPT !.cur = n.cur + 1]
      PROVE  Keeps(m, o)
  BY <1>6, CursorMoved, Zenon DEF Keeps
<1>7. Keeps(m, x.pm)
  <2>1. x = CASE len > DiskPages -> Failed(m, NoSpace)
              [] len <= DiskPages /\ len > MapPages -> Failed(Unmapped(m, len), NoMap)
              [] OTHER -> NextPage(Grown(m, len, end))
    BY DEF ExtendFile, Unmapped, Grown
  <2>2. OtherFile(m, Unmapped(m, len), len, m.end) /\ OtherFile(m, Grown(m, len, end), len, end)
    BY <1>1, <1>3, FileReplaced
  <2> HIDE DEF x, len, end
  <2>3. Keeps(m, Unmapped(m, len)) /\ Keeps(m, Grown(m, len, end))
    BY <2>2, <1>3, <1>5
  <2>4. CASE x = Failed(m, NoSpace)
    BY <2>4, <1>2 DEF Failed
  <2>5. CASE x = Failed(Unmapped(m, len), NoMap)
    BY <2>5, <2>3 DEF Failed
  <2>6. CASE x = NextPage(Grown(m, len, end))
    BY <2>6, <2>3, <1>6 DEF NextPage
  <2> QED
    BY <2>1, <2>4, <2>5, <2>6, <1>1, <1>3
<1> HIDE DEF x
<1>8. CASE a = Failed(m, Panicked)
  BY <1>8, <1>2 DEF Failed
<1>9. CASE a = AllocateViaFreeList(m) /\ m.free # << >>
  <2>1. Tail(m.free) \in Seq(Nat) /\ Range(Tail(m.free)) \subseteq Range(m.free)
    BY <1>1, <1>9, TailInRange
  <2>2. a.pm = [m EXCEPT !.free = Tail(m.free)]
    BY <1>9 DEF AllocateViaFreeList
  <2> HIDE DEF a
  <2>3. /\ a.pm \in PageManagers /\ a.pm.root = m.root /\ a.pm.page = m.page
        /\ a.pm.flen = m.flen /\ a.pm.free = Tail(m.free)
    BY <2>1, <2>2, <1>1 DEF PageManagers
  <2>4. Keeps(m, a.pm)
    BY <2>1, <2>3, <1>1 DEF Keeps
  <2> QED
    BY <2>4 DEF a
<1>10. CASE a = NextPage(m)
  BY <1>10, <1>4 DEF NextPage
<1>11. CASE a = x
  BY <1>11, <1>7
<1> QED
  BY <1>8, <1>9, <1>10, <1>11 DEF Allocate, x

(* A process that opens the file keeps its root and its pages, and         *)
(* allocates only what is free.                                            *)
LEMMA LoadOrCreateRootKeeps ==
  ASSUME Platform = "linux", NEW m \in PageManagers
  PROVE  Keeps(m, LoadOrCreateRoot(m).pm)
<1> DEFINE a == Allocate(m)
           b == Allocate(a.pm)
<1>1. Keeps(m, a.pm)
  BY AllocateKeeps
<1>2. Keeps(a.pm, b.pm)
  BY <1>1, AllocateKeeps DEF Keeps
<1>3. Keeps(m, b.pm) /\ Keeps(m, m)
  <2>1. a.pm \in PageManagers /\ b.pm \in PageManagers
    BY <1>1, <1>2 DEF Keeps
  <2>2. m.flen \in Nat /\ a.pm.flen \in Nat /\ b.pm.flen \in Nat
    BY <2>1 DEF PageManagers
  <2> HIDE DEF a, b
  <2> QED
    BY <2>1, <2>2, <1>1, <1>2 DEF Keeps
<1>4. \/ LoadOrCreateRoot(m).pm = a.pm
      \/ LoadOrCreateRoot(m).pm = b.pm
      \/ LoadOrCreateRoot(m).pm = m
  BY DEF LoadOrCreateRoot
<1> QED
  BY <1>1, <1>3, <1>4

(* The process that opens the file finds the root that this version of the *)
(* master page names, and a committed tree below it.                       *)
Leads(version, n) ==
  /\ n.root = version.root
  /\ version.root # 0 => \E t \in committed : Holds(n, t)

(* What the disk holds when the machine stops leads to a committed tree.   *)
LEMMA DiskInvLeads ==
  ASSUME Platform = "linux", DiskInv
  PROVE  \A version \in masters, junk \in [PageNums \cap (dirty \cup lost) -> Content] :
           Leads(version, Reopened(version, junk).pm)
<1> SUFFICES ASSUME NEW version \in masters,
                    NEW junk \in [PageNums \cap (dirty \cup lost) -> Content]
             PROVE  Leads(version, Reopened(version, junk).pm)
  OBVIOUS
<1> DEFINE left == LeftBy(pm, version, junk)
           m    == NewPageManager(left)
           n    == Reopened(version, junk).pm
<1>1. /\ pm \in PageManagers /\ pm.cur \in Nat /\ pm.flen \in Nat /\ DiskPages \in Nat
      /\ pm.cur <= pm.flen /\ pm.cur <= DiskPages
  BY PageManagerAssumption DEF DiskInv, IInv, WellFormed, FileCovers, PageManagers
<1>2. version.root \in Nat /\ version.free \in Seq(Nat)
  BY DEF DiskInv, VersionsLead
<1>3. version.root # 0 => \E t \in committed : Intact(t, version)
  BY DEF DiskInv, VersionsLead
<1> DEFINE image == [p \in PageNums |-> IF p \in dirty \cup lost THEN junk[p] ELSE pm.page[p]]
<1>4. image \in [PageNums -> Content]
  BY <1>1 DEF PageManagers
<1>5. ASSUME NEW t, Intact(t, version)
      PROVE  \A p \in DOMAIN t.image : p \in PageNums /\ p < pm.flen /\ image[p] = t.image[p]
  BY <1>1, <1>5 DEF Intact, PageNums
<1> HIDE DEF image
<1>6. /\ left \in PageManagers /\ left.root = version.root /\ left.free = version.free
      /\ left.page = image /\ left.flen = pm.flen
  <2>1. left = [pm EXCEPT !.root = version.root, !.free = version.free, !.page = image]
    BY DEF LeftBy, image
  <2> HIDE DEF left
  <2> QED
    BY <2>1, <1>1, <1>2, <1>4 DEF PageManagers
<1>7. /\ m \in PageManagers /\ m.root = version.root /\ m.free = version.free
      /\ m.page = image /\ m.flen = pm.flen
  <2>1. m = [left EXCEPT !.cur = 0, !.end = 0, !.mapped = 0]
    BY DEF NewPageManager
  <2> HIDE DEF m, left
  <2> QED
    BY <2>1, <1>6 DEF PageManagers
<1>8. n = LoadOrCreateRoot(m).pm
  BY DEF Reopened
<1> HIDE DEF m, n
<1>9. Keeps(m, n)
  BY <1>7, <1>8, LoadOrCreateRootKeeps
<1>10. ASSUME NEW t, Intact(t, version) PROVE Holds(n, t)
  <2>1. /\ n.root = version.root /\ n.page = image
        /\ n.flen >= pm.flen /\ n.flen \in Nat
        /\ Range(n.free) \subseteq Range(version.free)
    BY <1>7, <1>9 DEF Keeps, PageManagers
  <2>2. \A p \in DOMAIN t.image : p \in Nat /\ p < n.flen
    BY <2>1, <1>1, <1>5, <1>10 DEF PageNums
  <2> QED
    BY <2>1, <2>2, <1>5, <1>10 DEF Holds, Intact
<1>11. n.root = version.root
  BY <1>7, <1>9 DEF Keeps
<1> QED
  BY <1>3, <1>10, <1>11 DEF Leads, n

-----------------------------------------------------------------------------
(* The inductive invariant of the store and its disk holds in every state. *)
THEOREM DiskInductive ==
  DiskSpec => []DiskInv
<1>1. DiskInv /\ [DiskNext]_diskvars => DiskInv'
  BY DiskNextKeeps
<1> QED
  BY <1>1, DiskInitInv, PTL DEF DiskSpec

(* With a disk and readers the store still is a CowStore: whatever the     *)
(* theorems of CowStoreProofs say of its pages holds here.                 *)
THEOREM DiskImplementsCowStore ==
  DiskSpec => Spec
<1>1. DiskInv /\ [DiskNext]_diskvars => [Next]_vars
  BY DiskNextKeeps
<1> QED
  BY <1>1, DiskInitInv, DiskInductive, PTL DEF DiskSpec, Spec

(* On Linux a crash at any moment, with any of the writes since the last   *)
(* barrier lost or torn, leaves a file that opens to a committed tree with *)
(* all its pages, none of them free (commit order in Insert, Delete and    *)
(* BatchInsert; fallocate never shortens a file, and ftruncate may).       *)
THEOREM TreesRecoverable ==
  ASSUME Platform = "linux"
  PROVE  DiskSpec => []Recoverable
<1>1. DiskInv => Recoverable
  BY DiskInvLeads DEF Recoverable, Leads
<1> QED
  BY <1>1, DiskInductive, PTL

(* A search finds the pages of the tree it began with until the writer     *)
(* works on the second commit since: copy on write is what lets Search     *)
(* take no lock.                                                           *)
THEOREM SearchesKeepTheirTree ==
  DiskSpec => []SnapshotKept
<1>1. DiskInv => SnapshotKept
  BY DEF DiskInv
<1> QED
  BY <1>1, DiskInductive, PTL
=============================================================================

------------------------------- MODULE Store --------------------------------
(***************************************************************************)
(* The store with its readers, on a disk: what the kernel may have written *)
(* of the mapped file at any time, and what a process finds that opens the *)
(* file after a crash.  The page manager syncs (NewBTree(_, true)), and    *)
(* the disk writes a page as a whole.                                      *)
(***************************************************************************)
EXTENDS Readers, Disk

VARIABLES
  promised,  \* history: the maps the disk may hold; none, if a tree was
             \* committed some pages of which are lost
  reopened   \* empty, or what LoadOrCreateRoot has given the process that
             \* opened the file again

cache == <<disk, promised, reopened>>
allvars == <<vars, reading, cache>>

(* What the master page leads to.                                         *)
Stored(m) == IF m.root = 0 THEN << >> ELSE Contents(m, m.root)

StoreInit ==
  /\ Init /\ reading = NoSearches
  /\ CleanDisk(pm)
  /\ promised = {Stored(pm)} /\ reopened = << >>

(* Deviation: both barriers of a batch force the master page only.         *)
SyncedMasterOnly == IF direct THEN AllPages ELSE {0}

(* Barrier 1 is an fsync of the file, and so is the barrier 2 of Insert    *)
(* and Delete; the batch forces its barrier 2 on the master page only.     *)
Synced  == IF pc = "fsync" \/ direct THEN AllPages ELSE {0}
Barrier == pc \in {"fsync", "barrier", "barrierUnsynced"}
Passed  == pc' = "commit" \/ outcome' = NoError

(* A commit.                                                               *)
Applied == outcome # "applied" /\ outcome' = "applied"

Whole == lost \cap Reach(pm', root') = {}

Cached ==
  /\ IF ~Barrier THEN WriteCached(pm, pm')
     ELSE \/ (Passed \/ pc = "barrierUnsynced") /\ Flush(pm, Synced)
          \/ ~Passed /\ FlushFailed(Synced)
  /\ promised' =
       CASE Barrier /\ outcome' = NoError -> IF promised = {} THEN {} ELSE {Stored(pm')}
         [] Applied ->
              IF Whole /\ promised # {} THEN promised \cup {Stored(pm')} ELSE {}
         [] OTHER -> promised
  /\ UNCHANGED reopened

(* The process or the machine stops at any time, and the file is opened    *)
(* again.  What the new process does then is not followed.                 *)
CrashAndReopen ==
  /\ reopened = << >>
  /\ \E version \in masters :
       reopened' = <<LoadOrCreateRoot(NewPageManager(
                       LeftBy(pm, version, [p \in PageNums |-> Garbage])))>>
  /\ pc' = "broken"
  /\ Unwind /\ ret' = 0 /\ todo' = << >> /\ base' = 0
  /\ reading' = NoSearches
  /\ UNCHANGED <<tree, call, direct, outcome, made, disk, promised>>

StoreNext ==
  \/ (Invoke \/ Serve) /\ Ageing /\ Cached
  \/ \E r \in Reader : (SearchBegin(r) \/ Read(r)) /\ UNCHANGED cache
  \/ CrashAndReopen
  \/ Stopped /\ UNCHANGED <<reading, cache>>

StoreSpec == StoreInit /\ [][StoreNext]_allvars
FairStoreSpec == StoreSpec /\ \A r \in Reader : WF_allvars(Read(r) /\ UNCHANGED cache)

(* Whatever version of the master page the disk holds, at whatever moment  *)
(* the machine stops, it leads to a whole tree: the map as it was before   *)
(* or after the call in progress, and once a call is answered with nil,    *)
(* after it.  No page of that tree is on the free list beside it.          *)
Recoverable ==
  promised # {} =>
    \A r \in ToSet(reopened) :
      /\ Stored(r.pm) \in promised
      /\ r.pm.root # 0 => ToSet(r.pm.free) \cap Reach(r.pm, r.pm.root) = {}

(* The trees that the versions of the master page name, read off the pages.*)
CommittedTrees ==
  {[root |-> m.root, image |-> [p \in Reach(pm, m.root) |-> pm.page[p]]] :
     m \in {version \in masters : version.root # 0}}

(* CowDisk without searches: of those Readers says more.                   *)
OnDisk == INSTANCE CowDiskProofs WITH
            Content   <- Nodes,
            live      <- Live,
            committed <- CommittedTrees,
            views     <- [r \in Reader |-> [image |-> << >>, age |-> "outrun"]]

DiskStep ==
  \/ \E vs \in NodesWritten :
       vs \in Seq(Nodes) /\ Retired \in Seq(Nat) /\ OnDisk!WorkCached(vs, Retired)
  \/ \E fl \in {freelist, Append(freelist, root)} : OnDisk!CommitForced(fl, root', Live')
  \/ /\ \E ps \in {AllPages, {0}} : Flush(pm, ps) \/ FlushFailed(ps)
     /\ UNCHANGED tree
  \/ UNCHANGED <<tree, disk>>

(* The store keeps the discipline of CowDisk as long as no tree was        *)
(* committed some pages of which are lost: it writes pages while the disk  *)
(* has one root, moves the master page once the new tree is forced out,    *)
(* and applies no call without moving it.                                  *)
DiskImplemented ==
  /\ OnDisk!InitWith(NewNode)
  /\ [][promised' # {} => DiskStep /\ (Applied => root' # root)]_<<tree, disk, outcome>>
=============================================================================

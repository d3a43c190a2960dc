# Orange, a copy-on-write B-tree: specifications and proofs

TLA+ modules for the storage engine of this repository, TLC configurations that
check them on small instances, and TLAPS proofs of the page discipline the
engine stands on. `PROJECT.json` lists, for every definition, the lines of
source it translates.

## The system

| part | code | state | operations |
| --- | --- | --- | --- |
| page manager | `pagemanager/` | `currentPageNum`, `endPageNum`, the mapping, the file, the master page (root, free list) | `Read`, `Write`, `Allocate`, `Fsync`, `MsyncMaster` |
| node | `nodemanager/` | one 4096-byte page: type, pairs, child page numbers | `InsertKV`, `DeleteKV`, `UpdateKV`, `Split`, `GetSize`, `Overflow`, `Underflow`, `FindIndex`, ... |
| tree | `btree/btree.go` | `root`, `freelist` (retired pages of uncommitted operations) | `Insert`, `Delete`, `InsertNoSync`, `DeleteNoSync`, `Search` and what they recurse through |
| commit | `btree/btree_util.go` | the same | `copyToNewPage`, `HandleMasterPage`, the two barriers |
| engine | `engine/engine.go` | `jobChan`, the batch, the ticker, one answer channel per call | `Insert`, `Delete`, `Search`, `batchCommitLoop` |
| archive | `archive/` | an earlier B-tree of numbers in memory, of any degree, imported by nothing | `Insert`, `Delete`, `Search` |

A caller blocks in `Engine.Insert` or `Engine.Delete` on a channel of its own.
One goroutine receives the requests, threads a root page number through
`InsertNoSync`/`DeleteNoSync` for the whole batch, forces the data pages out
(barrier 1), rewrites the master page, forces that out (barrier 2), and answers
every caller with one shared outcome. Package btree can also be used alone:
`Insert` and `Delete` commit by themselves. `Search` runs in the caller's
goroutine, beside the loop, with no lock.

What is hard to get right, and to test:

- pages are freed *before* the operation that replaces them can no longer fail;
- a page may sit on two free lists, the one in memory and the one in the master
  page, and `Allocate` believes the second;
- `InsertKV` and `DeleteKV` move child pointers, and every caller has to put the
  right ones back, at leaf and internal levels alike;
- fullness and underflow are decided before the descent, for sizes that are not
  known yet;
- the order of the two barriers is the whole crash story, but the kernel may
  write the mapped pages, the master page first among them, whenever it likes;
- a reader holds page numbers, and a slice of the mapping, while the loop
  commits, reuses pages and moves the mapping;
- callers, ticker and loop interleave freely, with a bounded channel and a
  shared outcome;
- a batch that is refused is dropped, but not what it has put on the free list.

`PROJECT.json` lists these and the others under `hazards`, each at its line.

## Modules

`PageLayout` holds the sizes of the wire format. On it stand two branches that
`Tree` brings together:

- `PageManager`: a page manager is a record (`cur`, `end`, `mapped`, `flen`,
  `root`, `free`, `page`), a call a function from a record to
  `[pm, page, err]`. `Allocate` is a `CASE` over the paths of the code: free
  list, preallocated tail, extension of the file, with the failures of
  `fallocate`, `ftruncate` and `mmap`, and the slice panics. Byte offsets wrap
  at `AddrPages`, as the `uint32` product does. `page_manager_darwin.go` differs
  in the length of the extended file only (`Platform`).
- `MasterPage`: how package btree uses it: `CopyToNewPage`, `HandleMasterPage`
  (the in-memory list is dropped when it does not fit), `LoadOrCreateRoot`.
- `Node`: a node is a record of type, pairs and child pointers, with the byte
  sizes computed exactly, `% 2^16` where the code does, including `GetSize` of a
  node without pairs, which reads part of its pointer as an offset. Keys are
  numbers, a pair's length is a constant function (`KVLen`). A panic makes the
  node not `ok`. `NodeLayout` is the same package with the bytes: the getters,
  the shifts and clears, offsets and lengths of `uint16`, and what they leave
  behind. It shows that the records are a faithful picture of the pages, down
  to the panics, which is why the tree can work on records.
- `Tree`: the repairs of a child (`SplitRoot`, `SplitChild`, `RotateRight`,
  `RotateLeft`, `MergeChildren`, `FillChild`) as operators that return the new
  page manager, the parent in memory, the pages appended to `BTree.freelist` and
  the error; the walks to a neighbour; `Search`.

The state machines use them.

- `BTree` serves one call after the other, a batch or a direct call. The
  recursion of `insert` and `delete` is one action per level, going down
  (`InsertIntoInternal`, `DeleteFromInternal`, `DeleteKeyFromInternal`) with the
  waiting levels on `stack`, and coming back (`PropagateUp`). `Finish` is
  `fillRoot`, `NextRequest` the loop of `flush`, `Fsync`/`Commit`/`Barrier2`
  the end of `Insert`, `Delete` and `flush`. A failing allocation ends the
  operation at the point where it happens, with everything done so far kept:
  the pages written, the pages retired.
- `Readers` puts `Search` beside it. A search reads `BTree.root` once and then
  takes two steps per level, the slice of the mapping and the copy of the page,
  with any step of the writer between them. `extendMmap` may move the mapping
  under a slice (`Fault`). `age` is history: how far the writer has come since.
- `Disk` is what the kernel does with the mapped pages: it may write one back at
  any time, so a page not yet forced holds anything after a crash (`dirty`), the
  master page is any version since its last barrier (`masters`), and a page for
  which a barrier failed counts as clean and may never be written (`lost`).
- `Store` puts tree and readers on that disk. `CrashAndReopen` stops the machine
  anywhere and opens the file again.
- `Engine` is the batch loop and its callers. A root stands for the tree below it,
  a record (`Trees`): the requests that made it (`log`), those whose pairs the disk
  has in pages of this tree (`forced`), and whether all its pages are still as they
  were written (`whole`). What the page level does to that is kept as a cause and an
  effect. The causes: a batch that is refused, a `Delete` that fails, and a `Delete`
  behind another request leave pages on `BTree.freelist` that are in use (`stray`
  has `"kept"`); the next `HandleMasterPage` may publish them (`"published"`). The
  effect: from then on any request that allocates may take a page of the committed
  tree, of the one on the disk or of the one it is building (`Allocates`, `MayLose`).
  An insert without space is `Swallowed`: its error is dropped, and the root of the
  batch is no tree any more. `Fsync` says which pairs reach the disk. A page written
  for one request has copies of pairs of others, so a barrier that fails may cost any
  pair of the new tree its place on the disk, those of earlier batches too, and one
  that passes forces out the new pairs and whatever was copied. `WriteBack` is the
  kernel, which may write the dirty master page at any time. `Panic` ends the process.
- `Archive` is the in-memory tree of package archive, each operation one step
  over a tree of values.

Two abstract specifications are what they are measured against.

- `KVStore`: an ordered map that changes once per call, by all requests of the
  call or none, with an error only for a reason. `BTree` implements it
  (`MapImplemented`; the map is what the pages below the root hold).
- `AtomicLog`: a request takes effect at one instant between call and reply,
  and the reply says whether it did. That ends when the tree is `lost`; and the
  specification says that it is lost only after a refusal, a `Delete` behind another
  request or an insert without space (`Excused`). `Engine` implements it
  (`AtomicReplies`).

Two more are between the page manager and the tree, so that the logic of pages
is verified once, for any tree.

- `CowStore`: any user of the pages that persists nodes on fresh pages, retires
  pages it owns once, and commits trees without retired pages. `BTree` is checked
  to be such a user (`CowImplemented`: every step of a call is a `Work` or a
  `Commit`).
- `CowDisk`: `CowStore` with searches beside it and `Disk` under it. It adds the
  order in which writes, barriers and commits must come: nothing is written while
  the disk may still hold an older master page, and a tree is named only when all
  its pages were forced out. `Store` is checked to keep that order
  (`DiskImplemented`).

What follows from keeping either discipline is proved.

The modules whose names begin with `MC` are the instances for TLC. Operators and
actions whose comment says *Deviation* are the model of a plausible mistake and
are used by nothing: each shows that some property would notice it.

## What TLC checks

| run | instance | shows |
| --- | --- | --- |
| `cow_store` | a disk of 6 pages, offsets that reach 5 of them, two pages at a time, room for 2 free page numbers; one search; write-back and failing barriers at will | no page on the free lists twice, none of the committed tree given away or overwritten, while the list overflows; the process panics at the last page number, before one wraps onto the master page; a search keeps its pages for one more operation; the file leads to a whole tree at every moment |
| `tree_small` | 7 keys: small (10 bytes), largest (1344) and one too large; 8 direct calls from an empty tree, 7 pages and then no address space for more; any barrier may fail | shape, sizes, no panic, the map, the page discipline; pages are lost only when a root collapses or a call fails; nothing committed is harmed by a call that fails, and every call returns |
| `tree_deep` | the insertion order of `TestBtreeFillUntilRootSplits2Level` (three levels), then any 4 calls | rotations and merges of internal nodes, predecessor and successor at a distance: depth, order, pointers, map, no page of the committed tree free (`LiveKept`) or written |
| `store` | a batch that makes a tree of two levels, then 2 calls, batches of at most 2 or direct, on 5 keys; the barriers of the last call may fail; one reader; a crash at any moment | batches are atomic; pages are written, forced out and committed in the order of `CowDisk`, and only pages that can be given away are written; a search answers from the tree it began with until a second call outruns it, and returns in any case; the file leads to a whole tree, the one before or after the call in progress |
| `engine` | 3 callers at once and a fourth call after them, one of the four a `Delete`; channel of 1, batches of 2; requests, space, both barriers and the process fail at will | everyone is answered once, and nobody waits for ever unless the process ends; while the tree is whole, nil means committed; each request takes effect at once or not at all and the reply tells which, until a refusal, a late `Delete` or a full disk costs the tree; a pair the disk may lack, or one after it, has been reported |
| `node_layout` | pages of 48 bytes, 3 keys (one a prefix of another), an empty and a longer value, page numbers above the page size | what the methods of `Node` do to the bytes is what module `Node` says of the record; nothing is left behind the end of a node |
| `archive` | 12 numbers, degrees 2 and 3, any number of operations | the audit of the package's tests on every reachable tree; each operation does to the set of keys what its name says |

Pages and sizes of the tree runs are those of the build (4096, 1344), so a node
holds three largest pairs: splits, rotations and merges happen with few keys.
Key 7 of `tree_small` is over the limit. Preallocation is 7, 8 or 16 pages
instead of 80; in `tree_small` the extension of the file fails, at any point
where a call allocates from its fifth call on; `find_swallowed` has the full
disk. `made` bounds the calls (`Workload`). Each value is the number of its key,
so a value under the wrong key is noticed. The reader of `store` looks for two
keys (`Wanted`), one kept in a leaf and one that becomes a separator. In
`engine`, `ChanCap = 1` makes callers block, and `BatchMax = 2` makes both flush
triggers occur: a full batch and a tick; a batch of two is long enough to be
refused in its middle, and to have a `Delete` behind another request. The fourth
call meets what a refused batch of the first three has left behind and the third
has published. In `node_layout` the second page number makes the size of an
empty node wrap. Trees of 12 numbers have three levels with degree 2.

The callers of the passing tree runs insert absent keys and delete present ones
(`InsertFresh`, `DeletePresent`), stop once a call has failed for the file
system (`GiveUp`), and in `store` only the first request of a batch deletes.
This is not a convenience: outside these limits the code breaks its promises,
as the runs below show; a call or a batch that fails, in particular, leaves pages of
the committed tree retired (`find_refused_batch`).

Two limits of what `store` promises are the code's own. A search that has not
returned when a second call begins may follow stale pointers and answer
anything, or end the process: its pages are given away (the TODO at
`btree_util.go:107`, against `README.md:21`). `SnapshotRead` says how long a
search is safe, `SearchReturns` that even then it does not run in circles. And
`NewBTree` does not look at the tree it finds: it takes the head of the old free
list, or page 1, for its root, with whatever that page holds (the TODO at
`page_manager.go:34`). `Recoverable` is about the file: at the moment of the
crash, and after it was opened, the master page leads to a whole tree.

**Fairness.** `Answered` of the tree assumes that the goroutine serving a call
goes on (`FairSpec`): weak fairness of `Serve` with `ENABLED` replaced by
`Serving`; it is the same thing as every step of `Serve` changes `pc`, the
stack or the pages. Callers need not call. `SearchReturns` assumes the same of
the goroutine of each reader (`FairStoreSpec`), and nothing of the writer.
`Answered` of the engine assumes the loop runs, the ticker ticks, a blocked
sender is eventually let in and a receiver with an answer returns, unless the
process ends (`Panic`): the Go scheduler and runtime. The choice of `select`
among ready cases is random in Go, so neither case may be passed over for ever.
Nothing is assumed of `Call` and `WriteBack`.

### Where code and documentation disagree

| run | what happens |
| --- | --- |
| `find_refused_batch` | A batch of an insert and a `Delete` of an absent key: the insert has put the committed root on `t.freelist` (`btree.go:176`), and `flush` drops the batch but not that (`engine.go:83`). The next commit publishes pages of the committed tree, and a batch after it overwrites one. Whatever fails after it has retired pages leaves the same behind: a `Delete` of an absent key by itself, which may have come through `fillChild` (`btree.go:470`), a failed barrier 1 in `Insert` (`btree.go:127`). |
| `find_batch_delete` | `DeleteNoSync` retires `t.root` instead of the root it was given (`btree.go:389`). With an earlier request in the batch, one page is on the free list twice. |
| `find_close_fit` | Two pairs of 1344 bytes and one of 20 in a leaf are not yet an overflow; the next pair of 1344 bytes panics. `Overflow` leaves room for the bytes of the pair but not for the ten it costs besides. |
| `find_swallowed` | `InsertNoSync` drops the error of `insert` (`btree.go:177`): when the disk is full, page 0 becomes the root. |
| `find_engine_fsync` | `flush` commits although barrier 1 failed (`engine.go:101`): the disk may name a tree whose pages are not there. |

One leak is not a run of its own: `fillRoot` drops the page of the keyless root
it has just read (`btree.go:682`). `OnlyCollapsedRootsLost` says that no other
page is lost while the master page has room.

## What is proved

Every theorem holds for all values of the constants, under the assumptions of
`PageLayout` and `PageManager` (positive sizes, at least two preallocated pages)
and, for the engine, `EngineAssumption`. Eight modules hold proofs; the lemmas
come first, each with the code it is about.

### Pages: `CowStoreProofs`, `ListLemmas`

For every page size, disk size, preallocation, address width, platform and page
content:

- `TypeCorrect`, `NoPageFreedTwice`, `CommittedPagesNotAllocatable`,
  `MasterPageNamesTree`: the invariants of `CowStore`;
- `NoOffsetWraps`: every page handed out has an offset of its own below 2^32;
- `CommittedPagesNeverWritten`: no step writes a page of the committed tree.

The invariants are not inductive. `IInv` adds that the cursor is below
`AddrPages` (otherwise a write wraps to a lower page) and that both free lists
hold only pages already handed out (otherwise the cursor could give one away a
second time). The argument goes bottom up: `AllocateGives` (a page leaves the
free list, or is the one at the cursor), `CopyEvolves` and `CopyPairEvolves`
(what was written was free or fresh: `Evolves`), then `WorkKeeps` and
`CommitKeeps` for the two kinds of step, and `InitIInv` for a new file.
`ListLemmas` has the facts about duplicate-free lists.

### Disk: `CowDiskProofs`

- `DiskImplementsCowStore`: barriers, write-back and searches are stutters of
  `CowStore`, so all of the above holds of `CowDisk`;
- `TreesRecoverable`: on the linux build, the file leads at every moment to a
  committed tree, whole and with none of its pages free;
- `SearchesKeepTheirTree`: the pages of a search's tree stay as they were until
  the second operation after.

`DiskInv` adds to `IInv` that every version of the master page the disk may hold
names a remembered tree none of whose pages is dirty, lost or free
(`VersionsLead`), that a root names one tree (`OneTreePerRoot`), and where the
pages of a search can be (`ViewsInTree`). `Platform = "linux"` is needed: the
darwin build cuts an opened file to 80 pages. Barriers may fail.

### Tree: `BTreeProofs`

- `NothingWrittenInPlace`: whatever the workload, the sizes and the failures, no
  step of a call writes a page that `Allocate` could not give away. The invariant
  is `WInv` (lists are lists, the master page is addressed); one lemma per repair
  (`SplitRootMade` to `FillChildMade`) and per action (`StartInsertRuns` to
  `FinishRuns`) shows that what runs is `Fresh`. No hypothesis.
- `TreeCopiesOnWrite` (`CopyOnWrite`) and `MapMovesWithRoot` (the committed map
  changes only when the root moves) follow from it while no page of the committed
  tree is free, `LiveKept`, which TLC checks, and which fails after the calls of
  `find_refused_batch` and `find_batch_delete`, as do the conclusions.
- `DisciplineImplementsCowStore`, `DisciplineKeepsLivePages`,
  `DisciplineCopiesOnWrite`: a tree that keeps the discipline, `CowImplemented`,
  implements `CowStore`, and so has its properties.

`TreeProofs` shows what the pages reached from a root are: the smallest set that
holds the root and the pages its members point to (`ClosureProperties`), that
it depends on these pages only, and that a search is decided by the pages its
descent can reach. The recursion in `Closure` ends because there are finitely
many pages; `LeastIndex`, the least number with a property, does for induction.

### Nodes and repairs: `TreeProofs`

- `ContainsKeyIsMembership`: a scan that stops at the first larger key decides
  membership when the keys grow.
- `SplitKeepsOrder`, `SplitChildKeepsOrder`: left half, median and right half are
  the pairs of the node; their pointers end to end are its pointers; the parent
  gets the median and the two pages at the right places.
- `RotateRightKeepsOrder`, `RotateLeftKeepsOrder`, `MergeKeepsOrder`: two
  neighbours, put end to end around their separator, read as before, pairs and
  pointers; the parent changes at that separator and its pointers only.
- `FillChildKeepsOrder`: so does whatever repair `fillChild` chooses.

They say of each repair that it panics or moves nothing but the cuts between
nodes, at leaf and internal levels alike. The hypotheses are what a search tree
offers: parent and children are nodes whose keys grow, the children's on their
sides of the separators (`Around`, `Under`). The insertions in a loop of `Split`
and `mergeChildren` are a fold; `InsertAllUnrolls` turns it into steps by
extending the recursive function one pair at a time.

### Search tree: `BTreeProofs`, `SearchTreeProofs`

Those theorems are about one level. `BTreeProofs` carries them down a tree of
any depth, without induction, by a description of it: a function `w` on pages that
says of each the node on it, its height, and the pairs on it and below it. `World(w)`
states one fact per page: the node fits (`Fits`: keys in order, a pointer more than
pairs, children one level lower, not empty, with all that is *below* them between the
separators), and its pairs are its own and those of its children. `Holds(m, w)`:
page manager `m` has these nodes on pages it owns. A repair adds pages to `w` and
changes none, which is what copy-on-write means for a tree.

- `SplitChildKeepsPairs`, `MergeChildrenKeepsPairs`, `FillChildKeepsPairs`: if `m`
  holds `w` and the parent fits, then the page manager after the repair holds a
  later description in which the new parent fits and has the same pairs on and
  below it. After an error that is not a panic the description is as good as
  before. `FillChildKeepsPairs` adds what the deletion relies on: the
  child that is entered has two pairs at least and did not acquire the key.
- `SearchIsLookup`: `Search` from any page of the description answers what
  `Contents` says, `SearchAgrees` for every such `m` and page. A descent that is not
  over has a page of least height where it fails; one step from it contradicts that.

- `SplitRootKeepsPairs`: the same of the root that `splitRoot` leaves in memory.
- `SearchFindsTheMap`: `SearchAgrees` always holds, for every workload, whatever
  fails.
- `TreeTypeCorrect`: the type invariant of `BTree`, under the same conditions. It is
  not a matter of assignments alone: that `ret` is a page and `node` a node
  after a repair needs the shape of what is repaired (`Described`).

The argument of the repairs takes a place of the parent out with all that hangs there (`OpenPair`,
`OpenOne`: one list of pairs and pointers, between the neighbouring separators), cuts
it elsewhere (`PartsFit`, from `JoinedFits`), writes the parts (`PersistTwo`) and puts
them back (`CloseTwo`, `CloseOne`). A description exists for every tree a run
checks: `BTreeShape` and the order of the keys say so.

`SearchFindsTheMap` rests on the inductive invariant `Described`: *some* `w` describes
the pages that the page manager holds, with the committed root in it, and what is in
memory besides. `SearchAgrees` alone is far from inductive; in the middle of a call it
has to be known what the levels on the stack wait for.

- `Descent` speaks of the whole stack. Every level but the last has one pointer
  that leads nowhere yet, and fits but for it (`Waiting`, `Frame`). `gs` gives each
  level the pairs it will have below it when its child has returned: `gs[1]` is what the
  request makes of the tree, and each level's goal is the next one's with its own
  pairs and its other children.
- `Inserting`, `Deleting` and `Returning` say what the node in memory has to do with the
  goal of its level: it lacks the pair, or has the key to lose, or is the page that has
  what was to be had. A node to delete from has two pairs or a child that has
  (`Spare`): a node other than the root never loses its last pair.
- `GoesOn` says what the requests left in a batch will find (`Proper`): an insertion
  no key that is there.

One lemma per action, `StartInsertKeeps` to `CommitDescribed`, shows that it is kept;
`StepKeeps` has what they share, as an error or a panic ends all of them alike. A
commit forgets every page that the new root does not reach (`Part`): these are free
from then on. Three hypotheses remain, each of them needed:

- `InsertFresh`: a second insertion of a key makes a second pair
  of it, which `Contents` and `Search` may choose differently.
- `RoomForThree`: three pairs of the largest size fit a page, so a full node has four
  and its halves are not empty. With the build's figures this says 4060 <= 4096.
- `CowImplemented`: what is retired is owned, and once. Otherwise a page of the tree
  can be given away and overwritten (`find_refused_batch`, `find_batch_delete`).

The third is itself a theorem, for the callers of the runs `tree_small` and
`tree_deep` in general (`Careful`): every call is `Insert` or `Delete`, keys
inserted are absent, keys deleted are there, and nobody calls after the file system
has failed a call. Each of the four is needed: the findings on batches and on missing
keys show two ways to give up a page that is in use, a second insertion of a key
leaves the description, and a call that failed leaves on the in-memory free list the
pages of a tree that stays committed, to be published by the next commit.

- `TreeKeepsDiscipline`: `CowImplemented`, for these callers.
- `LivePagesKept`, `TreePagesNeverWritten`, `SearchAlwaysAgrees`, `TreeAlwaysTyped`:
  `LiveKept`, `CopyOnWrite`, `SearchAgrees` and `TypeOK`, with no hypothesis on the
  tree.
- `TreeImplementsMap`: `MapImplemented`, for these callers: the tree implements
  `KVStore`.

`OrderInv`, the invariant, joins `Described`, the invariants of `CowStore` and of
`FreshWrites`, and `Tidy`, which tells apart who uses which page (`Apart`): what hangs
below the free pointers of each level on the stack (`Claim`), what hangs below the
node in memory or the page returned, what has been given up, and the root. That
two children of a node share no page needs no counting: a page below both would have
a pair that belongs on both sides of a separator (`ChildrenApart`). A step `Draws` on
the tree it has in hand: it gives up pages of it and leaves others of it, or new ones,
in hand, and whatever the levels above wait for is not touched (`ApartKept`,
`ApartPushed`, `ApartPopped`). `MovesIsWork` reads such a step as a step of
`CowStore`, whose invariant says in turn that the committed tree is still there.

For the map, `Descent` remembers what the operation aims at (`Aims`): the goal of the
first level is what the request makes of the pairs of the root it started from
(`Served`). When the recursion has returned, the map below the new root is therefore
what `KVStore` makes of the old one (`ServedMap`). `Answering` keeps, until the commit,
that the call is the request in hand, that nothing is refused, and which map
will be committed; `MapStays` that no other step changes the map. `Commit` maps to
`Apply`, `Barrier2` to `Return`, a failure of the file system and an oversized pair to
`Reject`, and every step of the recursion to a stutter. That the recursion answers with
no other error (`Orderly`) is part of it: `Delete` of a key that is there never
answers that it is not.

### Store: `StoreProofs`

- `StoreWritesFreshPages`: beside searches, barriers and crashes, too, only free
  pages are written. No hypothesis.
- `SearchesReadTheirSnapshot`: `SnapshotRead`, for any readers, writer and
  failures, given that the committed tree has a shape, can be searched, and has
  no free pages (`BTreeShape`, `SearchAgrees`, `LiveKept`). `OnTrack` says where a
  search is: at a page of a set `T` that was a search tree when the search began,
  holds its answer, and is written by nobody until the search is outrun.
- `CrashLeavesPromisedMap`: on the linux build, a store that keeps the order of
  `CowDisk` (`DiskImplemented`) leaves at every moment a file that opens to the
  map before or after the call in progress, and after it once it was answered
  with nil. `Durable` carries over what `DiskInv` says, and that every master
  page on the disk names a promised map.

The hypotheses of these theorems are properties that runs check: the theorem
extends what the run shows to everything that follows from it.

### Engine: `EngineProofs`

`EngineProofs` proves, for any set of callers, channel capacity, batch size and
choice of what may fail (`EngineAssumption`):

- `EngineTypeCorrect`, `CallersAnsweredOnce`: types and answers, whatever fails;
- `NilMeansCommitted`: whatever fails, as long as no page of the tree in use has been
  given away (`root.whole`), what was answered with nil is in that tree and in the one
  the disk's master page names;
- `LossIsReported`: whatever fails, as long as the tree is `Undamaged` (whole, and none
  of its pages free), a request that a crash may undo, or one after it, has the error
  of a barrier. The caller itself may have nil: a barrier that fails for a later batch
  may cost an older pair the copy of it that the tree now has. Nil is no promise about
  the barriers of later batches, and `Reply` of `AtomicLog` gives none;
- `CrashFindsWholeTree`: `CrashConsistent`, if no barrier fails (the assumption is
  needed: see the finding on `Fsync`);
- `EngineImplementsLog`: `Engine` implements `AtomicLog`, whatever fails;
- `TreeKept` and `NilIsKept`: the condition of `NilMeansCommitted` always holds, and
  nil means committed for good, when no request fails, no insert lacks space, and
  batches hold no `Delete` or one request each. Barriers may fail. Outside these limits
  it does not hold: `find_refused_batch`, `find_swallowed` and `find_batch_delete` show
  in the tree what is a cause in `Engine`.

Its `IInv` adds to the invariants checked: where every request can be (`Committed`:
one in the tree has left the channel, and the disk's tree is a prefix of the one in
use), where the loop stands (`Position`), what it has threaded so far (`Threaded`: the
batch is new to the tree until the master page is written, and if `newRoot` is whole
nothing of the batch before `at` is missing there) and settled (`Settled`); that every
stray page and every tree that is not whole goes back to a cause (`Spoiling`); which
pairs are on the disk (`Durable`); and where the error of a barrier is on its way to
the callers (`Lagging`, `Reported`). `Warned` looks at the requests at and behind a
position of the log, so a warning stays one when the log grows (`WarnedKept`). One
lemma per action, `CallStep` to `PanicStep`, shows that all this is kept. The refinement
follows from the same invariant: a call maps to `Call`, `HandleMasterPage` to
`TakeEffect` (to `Spoil`, when everything in the batch was swallowed), an allocation to
`Spoil`, each send on an `errChan` to `Reply`, every other step to none. `TreeKept` has
a small invariant of its own (`Tidy`).

### What is only model-checked

- `BTreeShape`. `Described` has the height and the occupancy; what is missing is that no
  page has two parents, and the sizes, which depend on the pairs as `find_close_fit`
  shows.
- `MapImplemented` for batches: several requests of one call, and calls after an error.
- `DiskImplemented` itself, and `OnlyCollapsedRootsLost`: that no page but a
  collapsed root is lost would ask `Apart` to count the pages, not only to tell
  them apart. `CowImplemented` and what follows from it is proved of callers within
  the limits above only, and does not hold of others.
- `NeverBroken`: that no repair overflows depends on the sizes of the pairs, as
  `find_close_fit` shows.
- `NodeLayout`, whose bytes are built with folds over values, and `Archive`, whose
  tree is a recursive value: what recursion computes for every input is out of
  the prover's reach.
- Liveness (`Answered`, `SearchReturns`) and `ENABLED`.

## What is not modelled, and the plan

- The life of a process after it has opened an existing file. The code says
  that it does not work yet; on darwin it also cuts the file to 80 pages
  (`page_manager_darwin.go:56`).
- The panic of `UpdateKV` on a root with one pair, once page numbers exceed
  about 2700 (`GetSize` of a node without pairs adds half of its pointer).
  `Node` and `NodeLayout` have it; no run of the tree has that many pages. Nor
  does one build the parent of four pairs of mixed sizes that a larger separator
  no longer fits (`node_manager.go:137`).
- A page is copied by a reader in one step. Tearing would matter only to a
  search that was outrun, of which nothing is claimed.
- `Engine` and `BTree` meet in the order of the requests a batch applies and in what a
  batch leaves on `BTree.freelist`, and are not run as one model: `Engine` takes from
  `BTree` that a tree without strays is whole, which the runs and theorems of the tree
  show of calls within their limits, and allows any page to be hit when there are
  some. A tree that has lost a page is lost for good in `Engine`, although later
  splits may by chance replace the page.

What would come next is a proof: that no page of a described tree has two parents,
for the structure that `BTreeShape` asks for.

Left out for good: printing, error texts, the benchmark figures, and `Close`,
which does not exist.

------------------------------- MODULE Engine -------------------------------
(***************************************************************************)
(* Package engine: callers queue requests on a channel, and one goroutine  *)
(* collects them into a batch, applies the batch to a copy-on-write tree,  *)
(* commits once and answers every caller with the shared outcome.          *)
(*                                                                         *)
(* A root stands for the tree below it, and a tree for the requests that   *)
(* made it.  No page of a tree changes while BTree.freelist holds what has *)
(* left it and nothing else (BTree and CowStore); a batch that is refused, *)
(* and a Delete behind another request, leave more there, and later        *)
(* allocations overwrite pages in use.                                     *)
(***************************************************************************)
EXTENDS Integers, SequencesExt

CONSTANTS
  Request,   \* calls of Insert and Delete
  Deletes,   \* those of Delete
  Prior,     \* Prior[r]: those that have returned before r is called
  ChanCap,   \* capacity of jobChan (1000)
  BatchMax,  \* length at which a batch is flushed (1000)
  Sync,      \* Fsync forces the pages out
  Faults     \* what may go wrong: "request", a call that cannot be served;
             \* "space", none left for a page; "panic"; "fsync" and "msync"

ASSUME EngineAssumption ==
  /\ Deletes \subseteq Request
  /\ Prior \in [Request -> SUBSET Request]
  /\ ChanCap \in Nat \ {0}
  /\ BatchMax \in Nat \ {0}
  /\ Sync \in BOOLEAN
  /\ Faults \subseteq {"request", "space", "panic", "fsync", "msync"}

VARIABLES
  phase,     \* of a request: "new", "sending", "waiting", "returned"
  errChan,   \* the outcome on its way to the caller, "none" before
  jobChan,
  batch,
  tick,      \* ticker.C holds a tick
  pc,        \* what batchCommitLoop runs next
  at,        \* requests of the batch already applied, or answered
  newRoot,   \* root threaded through the batch
  flushErr,  \* outcome of the batch: "nil", "refused" or "unforced"
  root,      \* BTree.root, and the root of the master page as mapped
  master,    \* the root of the master page on the disk
  stray,     \* pages free though in use: "kept" on BTree.freelist,
             \* "published" on the master page
  full       \* (history) an insert has found no space

queue == <<jobChan, batch, tick>>
flush == <<at, newRoot, flushErr>>
disk  == <<root, master>>
spoil == <<stray, full>>
vars  == <<phase, errChan, queue, pc, flush, disk, spoil>>

(* A tree: the requests that made it, those whose pairs the disk has in    *)
(* pages below this root, and whether all its pages are as they were       *)
(* written (as mapped; root and newRoot may also be 0, no tree at all).    *)
Trees == [log : Seq(Request), forced : SUBSET Request, whole : BOOLEAN]
Empty == [log |-> << >>, forced |-> {}, whole |-> TRUE]

Spoilt(t) == [t EXCEPT !.whole = FALSE]

Init ==
  /\ phase = [r \in Request |-> "new"]
  /\ errChan = [r \in Request |-> "none"]
  /\ jobChan = << >> /\ batch = << >> /\ tick = FALSE
  /\ pc = "select" /\ at = 0 /\ newRoot = Empty /\ flushErr = "nil"
  /\ root = Empty /\ master = Empty /\ stray = {} /\ full = FALSE

-----------------------------------------------------------------------------
(* Engine.Insert and Engine.Delete.                                        *)

Call(r) ==
  /\ phase[r] = "new" /\ pc # "broken"
  /\ \A q \in Prior[r] : phase[q] = "returned"
  /\ phase' = [phase EXCEPT ![r] = "sending"]
  /\ UNCHANGED <<errChan, queue, pc, flush, disk, spoil>>

Send(r) ==
  /\ phase[r] = "sending" /\ Len(jobChan) < ChanCap /\ pc # "broken"
  /\ jobChan' = Append(jobChan, r)
  /\ phase' = [phase EXCEPT ![r] = "waiting"]
  /\ UNCHANGED <<errChan, batch, tick, pc, flush, disk, spoil>>

Return(r) ==
  /\ phase[r] = "waiting" /\ errChan[r] # "none" /\ pc # "broken"
  /\ phase' = [phase EXCEPT ![r] = "returned"]
  /\ UNCHANGED <<errChan, queue, pc, flush, disk, spoil>>

-----------------------------------------------------------------------------
(* batchCommitLoop.                                                        *)

(* Deviation: the loop over the batch starts before it.                    *)
BeginFlushBefore ==
  pc' = "apply" /\ at' = -1 /\ newRoot' = root /\ flushErr' = "nil"

BeginFlush ==
  pc' = "apply" /\ at' = 0 /\ newRoot' = root /\ flushErr' = "nil"

(* Deviation: the request received stays on the channel.                   *)
ReceiveCopy ==
  /\ pc = "select" /\ jobChan # << >> /\ Len(batch) < BatchMax
  /\ batch' = Append(batch, Head(jobChan))
  /\ UNCHANGED <<pc, flush, jobChan, phase, errChan, tick, disk, spoil>>

Receive ==
  /\ pc = "select" /\ jobChan # << >>
  /\ jobChan' = Tail(jobChan)
  /\ batch' = Append(batch, Head(jobChan))
  /\ IF Len(batch') >= BatchMax THEN BeginFlush ELSE UNCHANGED <<pc, flush>>
  /\ UNCHANGED <<phase, errChan, tick, disk, spoil>>

TickArrives ==
  /\ ~tick /\ pc # "broken" /\ tick' = TRUE
  /\ UNCHANGED <<phase, errChan, jobChan, batch, pc, flush, disk, spoil>>

OnTick ==
  /\ pc = "select" /\ tick
  /\ tick' = FALSE
  /\ IF batch # << >> THEN BeginFlush ELSE UNCHANGED <<pc, flush>>
  /\ UNCHANGED <<phase, errChan, jobChan, batch, disk, spoil>>

current == batch[at + 1]

NextOfBatch ==
  /\ at' = at + 1
  /\ pc' = IF at' = Len(batch) THEN "fsync" ELSE "apply"
  /\ UNCHANGED flushErr

(* What Allocate takes from the master page may be in use, by the tree the *)
(* master page names, and by t.                                            *)
MayLose(t) == IF "published" \in stray THEN {t, Spoilt(t)} ELSE {t}

(* A master page on the disk that lags behind leads to pages the last      *)
(* commit has freed.                                                       *)
Allocates ==
  /\ root' \in MayLose(root)
  /\ master' \in IF master = root THEN {root'} ELSE {master, Spoilt(master)}

(* The retired pages are those the new tree no longer has; but a Delete    *)
(* retires t.root, which the request before it has retired.                *)
Applied ==
  /\ newRoot' \in MayLose([newRoot EXCEPT !.log = Append(@, current)])
  /\ stray' = IF current \in Deletes /\ at > 0 THEN stray \cup {"kept"} ELSE stray
  /\ NextOfBatch /\ UNCHANGED full

(* No space for a page of an insert: its error is dropped and the root of  *)
(* the batch is 0.                                                         *)
Swallowed ==
  /\ "space" \in Faults /\ current \notin Deletes
  /\ newRoot' = Spoilt(newRoot) /\ full' = TRUE
  /\ NextOfBatch /\ UNCHANGED stray

(* The first request that fails with an error ends the batch; what the     *)
(* ones before it have retired, and what a Delete retires before it fails, *)
(* stays on BTree.freelist.                                                *)
Refused(then) ==
  /\ Faults \cap {"request", "space"} # {}
  /\ flushErr' = "refused" /\ at' = 0 /\ pc' = then
  /\ \/ at = 0 /\ UNCHANGED stray
     \/ (at > 0 \/ current \in Deletes) /\ stray' = stray \cup {"kept"}
  /\ UNCHANGED <<newRoot, full>>

(* Deviations of the handling of a request that fails: it is skipped and   *)
(* forgotten; the part of the batch before it is committed.                *)
ApplySkips ==
  /\ pc = "apply" /\ Allocates
  /\ Applied \/ Swallowed \/ (NextOfBatch /\ UNCHANGED <<newRoot, spoil>>)
  /\ UNCHANGED <<phase, errChan, queue>>

ApplyAllOr(then) ==
  /\ pc = "apply" /\ Allocates
  /\ Applied \/ Swallowed \/ Refused(then)
  /\ UNCHANGED <<phase, errChan, queue>>

ApplyCommitsPrefix == ApplyAllOr("fsync")

(* Nothing of a batch with a failure is committed, and all its callers are *)
(* refused.                                                                *)
Apply == ApplyAllOr("notify")

(* Barrier 1.  The batch goes on when it fails: its requests will be in    *)
(* the tree, and any page written for it, with copies of older pairs,      *)
(* perhaps not on the disk.  A later fsync is no second chance: pages that *)
(* could not be written count as clean, so only what has been copied again *)
(* is forced out.                                                          *)
Fsync ==
  /\ pc = "fsync" /\ pc' = "master"
  /\ \/ ~Sync /\ UNCHANGED <<newRoot, flushErr>>
     \/ /\ Sync /\ UNCHANGED flushErr
        /\ \E copied \in SUBSET ToSet(root.log) :
             newRoot' = [newRoot EXCEPT
                           !.forced = @ \cup (ToSet(newRoot.log) \ ToSet(root.log)) \cup copied]
     \/ /\ Sync /\ "fsync" \in Faults /\ flushErr' = "unforced"
        /\ \E there \in SUBSET ToSet(newRoot.log) :
             newRoot' = [newRoot EXCEPT !.forced = there]
  /\ UNCHANGED <<phase, errChan, queue, at, disk, spoil>>

(* BTree.freelist is published, if the master page has room for it, and    *)
(* emptied.                                                                *)
HandleMasterPage ==
  /\ pc = "master" /\ pc' = "msync"
  /\ root' = newRoot
  /\ LET rest == stray \ {"kept"}
     IN stray' \in IF "kept" \in stray THEN {rest, rest \cup {"published"}} ELSE {rest}
  /\ UNCHANGED <<phase, errChan, queue, flush, master, full>>

(* Deviation: the outcome of barrier 2 replaces that of barrier 1.         *)
MsyncOverwrites ==
  /\ pc = "msync" /\ pc' = "notify" /\ at' = 0
  /\ \/ master' = root /\ flushErr' = "nil"
     \/ "msync" \in Faults /\ flushErr' = "unforced" /\ UNCHANGED master
  /\ UNCHANGED <<phase, errChan, queue, newRoot, root, spoil>>

(* Barrier 2.                                                              *)
Msync ==
  /\ pc = "msync" /\ pc' = "notify" /\ at' = 0
  /\ \/ master' = root /\ UNCHANGED flushErr
     \/ "msync" \in Faults /\ flushErr' = "unforced" /\ UNCHANGED master
  /\ UNCHANGED <<phase, errChan, queue, newRoot, root, spoil>>

EndFlush ==
  /\ pc' = "select" /\ batch' = << >> /\ tick' = FALSE
  /\ at' = 0 /\ newRoot' = Empty /\ flushErr' = "nil"


Notify ==
  /\ pc = "notify"
  /\ errChan' = [errChan EXCEPT ![batch[at + 1]] = flushErr]
  /\ IF at + 1 < Len(batch)
     THEN at' = at + 1 /\ UNCHANGED <<pc, batch, tick, newRoot, flushErr>>
     ELSE EndFlush
  /\ UNCHANGED <<phase, jobChan, disk, spoil>>

(* The kernel writes a dirty page of the mapping back when it likes.       *)
WriteBack ==
  /\ master # root /\ master' = root
  /\ UNCHANGED <<phase, errChan, queue, pc, flush, root, spoil>>

(* The process ends: a method of a node has no room for a pair, a page is  *)
(* read as a node that is none, the mapping was lost with the space.       *)
Panic ==
  /\ "panic" \in Faults /\ pc # "broken"
  /\ \/ pc = "apply" /\ Allocates
     \/ (pc = "master" \/ ~root.whole) /\ UNCHANGED disk
  /\ pc' = "broken"
  /\ UNCHANGED <<phase, errChan, queue, flush, spoil>>

Stopped == pc = "broken" /\ UNCHANGED vars

-----------------------------------------------------------------------------
Flush == Apply \/ Fsync \/ HandleMasterPage \/ Msync \/ Notify

Next ==
  \/ \E r \in Request : Call(r) \/ Send(r) \/ Return(r)
  \/ Receive \/ TickArrives \/ OnTick \/ Flush \/ WriteBack \/ Panic \/ Stopped

Spec == Init /\ [][Next]_vars

(* A goroutine that can run does, the ticker ticks, and select takes each  *)
(* ready case at some point: it chooses among them at random.              *)
Fairness ==
  /\ WF_vars(Receive) /\ WF_vars(TickArrives) /\ WF_vars(OnTick) /\ WF_vars(Flush)
  /\ \A r \in Request : WF_vars(Send(r)) /\ WF_vars(Return(r))

FairSpec == Spec /\ Fairness

-----------------------------------------------------------------------------
Phases == {"new", "sending", "waiting", "returned"}
Outcomes == {"nil", "refused", "unforced"}

TypeOK ==
  /\ phase \in [Request -> Phases]
  /\ errChan \in [Request -> {"none"} \cup Outcomes]
  /\ jobChan \in Seq(Request) /\ batch \in Seq(Request) /\ tick \in BOOLEAN
  /\ pc \in {"select", "apply", "fsync", "master", "msync", "notify", "broken"}
  /\ at \in Nat /\ newRoot \in Trees /\ flushErr \in Outcomes
  /\ root \in Trees /\ master \in Trees
  /\ stray \subseteq {"kept", "published"} /\ full \in BOOLEAN

(* Those of the batch that still wait for Notify.                          *)
Unanswered == {batch[i] : i \in (IF pc = "notify" THEN at + 1 ELSE 1) .. Len(batch)}

(* A caller blocked on its errChan is in exactly one place that leads to   *)
(* an answer, and nobody is answered twice (the second send would block    *)
(* the loop for ever: errChan has one slot).                               *)
EachAnsweredOnce ==
  /\ IsInjective(jobChan) /\ IsInjective(batch)
  /\ ToSet(jobChan) \cap ToSet(batch) = {}
  /\ pc # "broken" => \A r \in Request :
       r \in ToSet(jobChan) \cup Unanswered <=> phase[r] = "waiting" /\ errChan[r] = "none"

(* Read your writes: as long as no page of it has been given away, what    *)
(* was answered with nil is in the tree that Search reads and in the one   *)
(* the disk's master page names.                                           *)
AckedIsCommitted ==
  root.whole =>
    \A r \in Request : errChan[r] = "nil" => r \in ToSet(root.log) /\ r \in ToSet(master.log)

(* The tree in use is whole, and none of its pages can be given away.      *)
Undamaged == root.whole /\ "published" \notin stray

(* What a crash leaves is a whole tree: the master page on the disk never  *)
(* names a root whose pages have not been forced out before it.            *)
CrashConsistent == Sync /\ Undamaged => master.whole /\ ToSet(master.log) \subseteq master.forced

(* The caller of the i-th request of the tree, or of one after it, has     *)
(* been told that a barrier failed, or is about to be.                     *)
Warned(i) ==
  \E j \in i .. Len(root.log) :
    \/ errChan[root.log[j]] = "unforced"
    \/ root.log[j] \in Unanswered /\ flushErr = "unforced"

(* A request that a crash may undo, because the disk may lack a page with  *)
(* its pair or its master page leads to pages used again, is one whose     *)
(* caller, or one after it, is warned; a flush that succeeds later does    *)
(* not hide that.                                                          *)
UnforcedIsReported ==
  Sync /\ Undamaged =>
    \A i \in DOMAIN master.log :
      (master.whole /\ master.log[i] \in master.forced) \/ Warned(i)

(* Each request takes effect at one instant between call and reply, or     *)
(* not at all, and the reply tells which, until a refusal, a Delete behind *)
(* another request or a full disk has cost the tree.                       *)
Log == INSTANCE AtomicLog WITH
         called <- {r \in Request : phase[r] # "new"},
         log    <- root.log,
         told   <- [r \in {q \in Request : errChan[q] # "none"} |-> errChan[r]],
         lost   <- ~root.whole,
         full   <- full

AtomicReplies == Log!Spec

(* No caller waits for ever, unless the process ends.                      *)
Answered ==
  \A r \in Request : phase[r] = "sending" ~> phase[r] = "returned" \/ pc = "broken"
=============================================================================

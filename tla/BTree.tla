------------------------------- MODULE BTree --------------------------------
(***************************************************************************)
(* Package btree as a state machine: Insert, Delete, and the InsertNoSync  *)
(* and DeleteNoSync calls of one engine batch.  A recursive call is one    *)
(* step per level: the node of the level is in memory, and the levels      *)
(* above wait on a stack for the page number it will return.               *)
(*                                                                         *)
(* Requests are served one call at a time, by one goroutine.               *)
(***************************************************************************)
EXTENDS Tree

CONSTANTS
  Workload,       \* Workload[i]: what the i-th call can be
  InsertFresh,    \* callers insert only keys that are absent
  DeletePresent,  \* callers delete only keys that are present
  GiveUp,         \* callers stop once a call has failed for the file system
  SyncFailures    \* the calls, by number, whose barriers may fail

VARIABLES
  pm, root, freelist,  \* the fields of BTree
  pc,        \* what runs next
  call,      \* requests of the current or last call
  todo,      \* those of them not yet completed
  direct,    \* the call is Insert or Delete, not a batch of the engine
  base,      \* root the current request starts from
  node, key, \* node in memory and key looked for at the current level
  stack,     \* levels waiting: [node, slot, retire]
  ret,       \* page number the last level returned
  outcome,   \* "pending", "applied" after the commit, or the reply
  made       \* calls made so far

tree  == <<pm, root, freelist>>
level == <<node, key, stack, ret>>
vars  == <<tree, pc, call, todo, direct, base, level, outcome, made>>

SyncError   == "failed to persist"
EnvFailures == {NoSpace, NoMap, SyncError}
Request == [op : {"insert", "delete"}, key : Key, val : Val]

ASSUME WorkloadAssumption ==
  Workload \in Seq(SUBSET [direct : BOOLEAN, reqs : Seq(Request) \ {<< >>}])

(* The pages of the tree below page r, and the map they hold.              *)
Children(m) ==
  [p \in PageNums |-> IF m.page[p].type = "leaf" THEN {} ELSE ToSet(m.page[p].ptr)]

Reach(m, r) == Closure(Children(m), r)

Contents(m, r) ==
  LET kvs == UNION {ToSet(m.page[p].kvs) : p \in Reach(m, r)}
  IN [k \in {kv[1] : kv \in kvs} |-> (CHOOSE kv \in kvs : kv[1] = k)[2]]

Present == DOMAIN Contents(pm, root)

(* The keys in the tree when the i-th of requests rs is served, ks having  *)
(* been there before the first: those no request has touched, and those    *)
(* inserted and not touched since.                                         *)
Before(ks, rs, i) ==
  LET Untouched(k, from) == \A j \in from .. i - 1 : rs[j].key # k
  IN {k \in ks : Untouched(k, 1)} \cup
     {rs[h].key : h \in {h \in 1 .. i - 1 : rs[h].op = "insert" /\ Untouched(rs[h].key, h + 1)}}

(* The callers' discipline, for the requests of a call in their order.     *)
Disciplined(ks, rs) ==
  \A i \in DOMAIN rs :
    /\ InsertFresh /\ rs[i].op = "insert" => rs[i].key \notin Before(ks, rs, i)
    /\ DeletePresent /\ rs[i].op = "delete" => rs[i].key \in Before(ks, rs, i)

Offered ==
  IF made < Len(Workload) /\ ~(GiveUp /\ outcome \in EnvFailures)
  THEN {c \in Workload[made + 1] : Disciplined(Present, c.reqs)} ELSE {}

-----------------------------------------------------------------------------
InitWith(page0) ==
  LET opened == LoadOrCreateRoot(NewPageManager(NewFile(page0)))
  IN opened.err = NoError /\ pm = opened.pm /\ root = opened.page

Init ==
  /\ InitWith(NewNode)
  /\ freelist = << >>
  /\ pc = "idle" /\ call = << >> /\ todo = << >> /\ direct = TRUE
  /\ base = 0 /\ node = NewNode /\ key = 0 /\ stack = << >> /\ ret = 0
  /\ outcome = NoError /\ made = 0

(* A panic ends the process; whatever it had written is not reachable.     *)
Break ==
  /\ pc' = "broken"
  /\ UNCHANGED <<tree, call, todo, direct, base, level, outcome, made>>

(* Deviation: what is retired can be allocated at once.                    *)
KeepPublishes(r) ==
  /\ pm' = [r.pm EXCEPT !.free = @ \o r.retired]
  /\ UNCHANGED <<freelist, root, direct, made>>

(* What a part of an operation leaves behind, whether it succeeds or not.  *)
Keep(r) ==
  /\ pm' = r.pm
  /\ freelist' = freelist \o r.retired
  /\ UNCHANGED <<root, direct, made>>

(* The locals of the recursion are gone once it has returned.              *)
Unwind == node' = NewNode /\ key' = 0 /\ stack' = << >>

Reply(err) ==
  /\ pc' = "idle" /\ outcome' = err
  /\ call' = << >> /\ todo' = << >> /\ base' = 0 /\ ret' = 0

(* Deviation: an error of the file system is a panic.                      *)
FailPanics(err, dropped) ==
  Unwind /\ pc' = "broken" /\ ret' = 0 /\ UNCHANGED <<call, todo, base, outcome>>

(* The error is returned through every level, and by the call; the pages   *)
(* on the in-memory free list stay there.  InsertNoSync drops the error of *)
(* insert, and returns the page number that came with it.                  *)
Fail(err, dropped) ==
  /\ Unwind
  /\ IF dropped
     THEN pc' = "next" /\ ret' = 0 /\ UNCHANGED <<call, todo, base, outcome>>
     ELSE Reply(err)

(* r is the outcome of a part; then(r) is what follows when it succeeds.   *)
Step(r, dropped, then) ==
  IF r.err \in {Panicked, Clobber} THEN Break
  ELSE /\ Keep(r)
       /\ IF r.err = NoError THEN then ELSE Fail(r.err, dropped)

Same == UNCHANGED <<call, todo, base, outcome>>

Swallowed == ~direct /\ Head(todo).op = "insert"
Pair      == <<Head(todo).key, Head(todo).val>>

Oversized(kv) == KVLen[kv] > MaxAllowedKVLen

-----------------------------------------------------------------------------
Invoke ==
  /\ pc = "idle"
  /\ \E c \in Offered :
       /\ call' = c.reqs /\ todo' = c.reqs /\ direct' = c.direct
  /\ pc' = "start" /\ base' = root /\ outcome' = "pending" /\ made' = made + 1
  /\ UNCHANGED <<tree, level>>

(* A full root is split; the new one stays in memory.                      *)
SplitIfFull(n) ==
  IF n.ok /\ Overflow(n) THEN SplitRoot(pm, n) ELSE Repaired(pm, n, << >>, NoError)

(* Insert and InsertNoSync up to the recursion; the batch variant retires  *)
(* the root it was given.                                                  *)
StartInsert ==
  /\ pc = "start" /\ Head(todo).op = "insert"
  /\ LET r   == SplitIfFull(LoadAsNode(pm, base))
         old == IF direct \/ r.err # NoError THEN << >> ELSE <<base>>
     IN IF Oversized(Pair)
        THEN Keep(Repaired(pm, NewNode, << >>, NoError)) /\ Fail(ErrOverflow, FALSE)
        ELSE Step([r EXCEPT !.retired = old], FALSE,
               /\ pc' = "insert" /\ node' = r.node /\ key' = Head(todo).key
               /\ UNCHANGED <<stack, ret>> /\ Same)

StartDelete ==
  /\ pc = "start" /\ Head(todo).op = "delete"
  /\ LET n == LoadAsNode(pm, base)
     IN Step(Repaired(pm, n, << >>, NoError), FALSE,
          /\ pc' = "delete" /\ node' = n /\ key' = Head(todo).key
          /\ UNCHANGED <<stack, ret>> /\ Same)

(* insert on an internal node: split the child if it is full, give the     *)
(* child up, and go down.                                                  *)
InsertIntoInternal ==
  /\ pc = "insert" /\ node.type = "internal"
  /\ \E s \in {SplitChild(pm, node, key)} :
     LET i     == FindIndex(s.node, key)
         child == LoadAsNode(s.pm, GetPtr(s.node, i))
         r     == IF s.err # NoError THEN s
                  ELSE Repaired(s.pm, child, Append(s.retired, GetPtr(s.node, i)), NoError)
     IN Step(r, Swallowed,
          /\ node' = child
          /\ stack' = Append(stack, [node |-> s.node, slot |-> i, retire |-> FALSE])
          /\ UNCHANGED <<pc, key, ret>> /\ Same)

Returned(r) ==
  /\ pc' = "return" /\ ret' = r.page
  /\ UNCHANGED <<node, key>> /\ Same

Persisted(n) ==
  IF n.ok THEN CopyToNewPage(pm, n) ELSE Failed(pm, Panicked)

Retiring(r, ps) == [pm |-> r.pm, page |-> r.page, err |-> r.err, retired |-> ps]

InsertIntoLeaf ==
  /\ pc = "insert" /\ node.type = "leaf"
  /\ LET r == Retiring(Persisted(InsertKV(node, Pair)), << >>)
     IN Step(r, Swallowed, Returned(r) /\ UNCHANGED stack)

(* delete on an internal node without the key: fill the child, go down.    *)
(* The page of the child is retired on the way back.                       *)
DeleteFromInternal ==
  /\ pc = "delete" /\ node.type = "internal" /\ ~ContainsKey(node, key)
  /\ \E f \in {FillChild(pm, node, key)} :
     LET i     == FindIndex(f.node, key)
         child == LoadAsNode(f.pm, GetPtr(f.node, i))
         r     == IF f.err # NoError \/ child.ok THEN f ELSE [f EXCEPT !.err = Panicked]
     IN IF f.err = NoError /\ ContainsKey(f.node, key)
        THEN Step(f, FALSE, node' = f.node
               /\ UNCHANGED <<pc, key, stack, ret>> /\ Same)
        ELSE Step(r, FALSE,
          /\ node' = child
          /\ stack' = Append(stack, [node |-> f.node, slot |-> i, retire |-> TRUE])
          /\ UNCHANGED <<pc, key, ret>> /\ Same)

(* deleteKeyFromInternal: the pair is overwritten with its neighbour in    *)
(* the subtree of child, and the neighbour is deleted from there.          *)
Borrow(child, kv, updated, slot) ==
  Step(Repaired(pm, updated, <<GetPtr(node, slot)>>, NoError), FALSE,
    /\ node' = child /\ key' = kv[1]
    /\ stack' = Append(stack, [node |-> updated, slot |-> slot, retire |-> FALSE])
    /\ UNCHANGED <<pc, ret>> /\ Same)

DeleteKeyFromInternal ==
  /\ pc = "delete" /\ node.type = "internal" /\ ContainsKey(node, key)
  /\ LET i     == FindIndex(node, key)
         left  == LoadAsNode(pm, GetPtr(node, i))
         right == LoadAsNode(pm, GetPtr(node, i + 1))
         pred  == InorderPredecessor(pm, left)
         succ  == InorderSuccessor(pm, right)
         m     == MergeChildren(pm, node, i)
     IN CASE left.ok /\ ~Underflow(left) ->
               Borrow(left, pred, UpdateKV(node, i, pred), i)
          [] left.ok /\ Underflow(left) /\ right.ok /\ ~Underflow(right) ->
               Borrow(right, succ,
                      SetPtr(UpdateKV(node, i, succ), i, GetPtr(node, i)), i + 1)
          [] OTHER ->
               Step(m, FALSE, node' = m.node /\ UNCHANGED <<pc, key, stack, ret>> /\ Same)

DeleteFromLeaf ==
  /\ pc = "delete" /\ node.type = "leaf"
  /\ LET r == Retiring(IF ContainsKey(node, key)
                       THEN Persisted(DeleteKV(node, FindIndex(node, key)))
                       ELSE Failed(pm, ErrKeyNotFound), << >>)
     IN Step(r, FALSE, Returned(r) /\ UNCHANGED stack)

(* A level gets the new page of its child, and is persisted itself.        *)
PropagateUp ==
  /\ pc = "return" /\ stack # << >>
  /\ LET f   == Last(stack)
         old == IF f.retire THEN <<GetPtr(f.node, f.slot)>> ELSE << >>
         r   == Retiring(Persisted(SetPtr(f.node, f.slot, ret)), old)
     IN Step(r, Swallowed, Returned(r) /\ stack' = Front(stack))

(* A root without keys; a deviation: a leaf counts too.                    *)
CollapsesAnyType(n) == GetNKeys(n) = 0
Collapses(n) == GetNKeys(n) = 0 /\ n.type = "internal"

(* The recursion has returned a new root.  After a deletion a root left    *)
(* without keys gives way to its only child; the batch variant retires     *)
(* the root of the tree, not the root it was given.                        *)
Finish ==
  /\ pc = "return" /\ stack = << >>
  /\ LET n   == LoadAsNode(pm, ret)
         del == Head(todo).op = "delete"
         old == IF del /\ ~direct THEN <<root>> ELSE << >>
     IN Step(Repaired(pm, IF del THEN n ELSE NewNode, old, NoError), FALSE,
          /\ ret' = IF del /\ Collapses(n) THEN GetPtr(n, 0) ELSE ret
          /\ pc' = "next"
          /\ Unwind /\ Same)

(* Deviation: every request of a batch works on the committed root.        *)
NextRequestFromRoot ==
  /\ pc = "next"
  /\ base' = IF Tail(todo) = << >> THEN ret ELSE root
  /\ todo' = Tail(todo)
  /\ pc' = IF Tail(todo) = << >> THEN "fsync" ELSE "start"
  /\ UNCHANGED <<tree, call, direct, level, outcome, made>>

(* The next request of a batch works on the root this one returned.        *)
NextRequest ==
  /\ pc = "next"
  /\ base' = ret /\ todo' = Tail(todo)
  /\ pc' = IF Tail(todo) = << >> THEN "fsync" ELSE "start"
  /\ UNCHANGED <<tree, call, direct, level, outcome, made>>

SyncMayFail == made \in SyncFailures

(* Deviation: Insert and Delete return nil when the first barrier fails.   *)
FsyncErrorDropped ==
  /\ pc = "fsync"
  /\ \/ pc' = "commit" /\ Same /\ UNCHANGED ret
     \/ SyncMayFail /\ direct /\ Reply(NoError)
  /\ UNCHANGED <<tree, direct, node, key, stack, made>>

(* First barrier.  Insert and Delete return its error; the batch goes on.  *)
Fsync ==
  /\ pc = "fsync"
  /\ \/ pc' = "commit" /\ Same /\ UNCHANGED ret
     \/ SyncMayFail /\ direct /\ Reply(SyncError)
     \/ SyncMayFail /\ ~direct /\ pc' = "commitUnsynced" /\ Same /\ UNCHANGED ret
  /\ UNCHANGED <<tree, direct, node, key, stack, made>>

(* Insert and Delete retire the old root when they commit; the batch has   *)
(* retired it by then, and a deviation retires it once more.               *)
RetiresRootAlways == Append(freelist, root)
RetiredAtCommit   == IF direct THEN Append(freelist, root) ELSE freelist

(* HandleMasterPage: the new root and the retired pages in one write of    *)
(* the master page, then the fields of BTree.                              *)
Commit ==
  /\ pc \in {"commit", "commitUnsynced"}
  /\ IF ~InBounds(pm, 0) THEN Break
     ELSE /\ pm' = HandleMasterPage(pm, RetiredAtCommit, base)
          /\ root' = base /\ freelist' = << >>
          /\ outcome' = "applied"
          /\ pc' = IF pc = "commit" THEN "barrier" ELSE "barrierUnsynced"
          /\ UNCHANGED <<call, todo, direct, base, level, made>>

(* Second barrier: the whole file, or the master page for a batch.         *)
Barrier2 ==
  /\ \/ pc = "barrier" /\ Reply(NoError)
     \/ pc = "barrier" /\ SyncMayFail /\ Reply(SyncError)
     \/ pc = "barrierUnsynced" /\ Reply(SyncError)
  /\ UNCHANGED <<tree, direct, node, key, stack, made>>

-----------------------------------------------------------------------------
Serve ==
  \/ StartInsert \/ InsertIntoInternal \/ InsertIntoLeaf
  \/ StartDelete \/ DeleteFromInternal \/ DeleteKeyFromInternal \/ DeleteFromLeaf
  \/ PropagateUp \/ Finish \/ NextRequest \/ Fsync \/ Commit \/ Barrier2

(* The callers may stop calling, and a broken process takes no step.       *)
Stopped ==
  /\ pc = "broken" \/ (pc = "idle" /\ Offered = {})
  /\ UNCHANGED vars

Next == Invoke \/ Serve \/ Stopped

Spec == Init /\ [][Next]_vars

(* The goroutine that serves a call runs on: WF_vars(Serve), with ENABLED  *)
(* written out.                                                            *)
Serving  == pc \notin {"idle", "broken"}
FairSpec == Spec /\ ([]<>(~Serving) \/ []<><<Serve>>_vars)

-----------------------------------------------------------------------------
TypeOK ==
  /\ pc \in {"idle", "start", "insert", "delete", "return", "next", "fsync", "commit",
             "commitUnsynced", "barrier", "barrierUnsynced", "broken"}
  /\ root \in PageNums /\ base \in Nat /\ ret \in Nat
  /\ freelist \in Seq(Nat) /\ pm.free \in Seq(Nat)
  /\ call \in Seq(Request) /\ todo \in Seq(Request) /\ direct \in BOOLEAN
  /\ node.kvs \in Seq(Key \X Val) /\ key \in Key \cup {0} /\ made \in Nat

Live == Reach(pm, root)

(* Distances of the leaves below r.                                        *)
LeafDepths(m, r) ==
  LET depths[q \in PageNums] ==
        LET n == m.page[q]
        IN IF n.type = "leaf" THEN {0}
           ELSE {d + 1 : d \in UNION {depths[n.ptr[i]] : i \in DOMAIN n.ptr}}
  IN depths[r]

(* What the next descent relies on: the committed tree has all its leaves  *)
(* at one depth, no pointer leads out of it, no page has two parents, no   *)
(* key is in two slots, and every node but the root keeps at least one     *)
(* pair and fits its page.                                                 *)
BTreeShape ==
  LET At(p)  == pm.page[p]
      inner    == {p \in Live : At(p).type = "internal"}
      slots    == UNION {{p} \X DOMAIN At(p).kvs : p \in Live}
      pointers == UNION {{p} \X DOMAIN At(p).ptr : p \in inner}
  IN /\ Cardinality(LeafDepths(pm, root)) = 1
     /\ Cardinality(pointers) = Cardinality(Live) - 1
     /\ Cardinality(slots) = Cardinality(Present)
     /\ \A p \in Live :
          /\ At(p) \in Nodes /\ Len(At(p).ptr) = GetNKeys(At(p)) + 1
          /\ Children(pm)[p] \subseteq Live
     /\ \A p \in Live \ {root} : At(p).kvs # << >> /\ GetSize(At(p)) < PageSize

(* Search finds every pair of the committed tree and nothing else:         *)
(* separators stay between their subtrees through splits, rotations and    *)
(* merges.                                                                 *)
SearchAgrees ==
  LET map == Contents(pm, root)
  IN \A k \in Key :
       Search(pm, root, k) = IF k \in DOMAIN map THEN <<k, map[k]>> ELSE NotFound

(* InsertKV's "illegal node" panic, an index out of range or the master    *)
(* page taken for a node never happen.                                     *)
NeverBroken == pc # "broken"

(* A commit never makes page 0, the master page, the root of the tree.     *)
RootIsNode == root # 0

(* Between two calls every page handed out is the master page, a page of   *)
(* the tree, or on a free list.  fillRoot alone loses pages: the keyless   *)
(* root it replaces by its only child; and so does a call that fails.      *)
OnlyCollapsedRootsLost ==
  pc = "idle" /\ outcome \notin EnvFailures =>
    \A p \in 1 .. pm.cur - 1 :
       p \in Live \cup ToSet(pm.free) \cup ToSet(freelist) \/ Collapses(pm.page[p])

(* A call is atomic for a reader of the committed tree: the map changes    *)
(* once, by all its requests, and the error it is answered with is one     *)
(* that its requests or the file system justify.                           *)
KV == INSTANCE KVStore WITH
        store       <- Contents(pm, root),
        TooLarge    <- {kv \in Key \X Val : KVLen[kv] > MaxAllowedKVLen},
        Calls       <- UNION {{c.reqs : c \in Workload[i]} : i \in DOMAIN Workload}

MapImplemented == KV!Spec

(* The tree keeps the copy-on-write discipline: each step persists at most *)
(* two nodes on fresh pages and retires pages it owns once, or moves the   *)
(* master page.  The nodes written are read off the pages they went to.    *)
Cow == INSTANCE CowStoreProofs WITH Content <- Nodes, live <- Live

Retired == SubSeq(freelist', Len(freelist) + 1, Len(freelist'))

NodesWritten ==
  LET on(p) == IF p \in PageNums THEN pm'.page[p] ELSE NewNode
      one   == CopyToNewPage(pm, NewNode)
      both  == CopyPair(pm, NewNode, NewNode)
  IN {<< >>, <<on(one.page)>>, <<on(both.first), on(both.second)>>}

CowWork(vs) ==
  /\ vs \in Seq(Nodes) /\ Retired \in Seq(Nat) /\ Len(Retired) <= 2
  /\ Cow!Work(vs, Retired)

CowCommit ==
  \E fl \in {freelist, Append(freelist, root)} : Cow!Commit(fl, root', Live')

CowImplemented ==
  Cow!InitWith(NewNode) /\ [][(\E vs \in NodesWritten : CowWork(vs)) \/ CowCommit]_<<pm, root, freelist>>

(* A page of the committed tree is never written.                          *)
CopyOnWrite == [][\A p \in Live : pm'.page[p] = pm.page[p]]_vars

(* What Allocate may give away.                                            *)
Allocatable == {p \in PageNums : p >= pm.cur} \cup {Slot(f) : f \in Range(pm.free)}

(* Nothing is written in place: the pages a step writes are free or beyond *)
(* the cursor before it, whatever the calls are and whatever fails.  Where *)
(* the tree frees a page that is still in use CopyOnWrite falls, and this  *)
(* does not.                                                               *)
FreshWrites == [][\A p \in PageNums \ Allocatable : pm'.page[p] = pm.page[p]]_vars

(* No page of the committed tree can be given away: neither the free list  *)
(* of the master page nor the tail of the file holds one.                  *)
LiveKept == root \in Live /\ Live \subseteq PageNums \ Allocatable

(* Every call returns: the recursion ends, also where a deletion merges    *)
(* two children and starts over on the same node.                          *)
Answered == outcome = "pending" ~> outcome \notin {"pending", "applied"}
=============================================================================

---------------------------- MODULE StoreProofs ------------------------------
(***************************************************************************)
(* What a search returns beside the writer, and what a crash leaves, as    *)
(* maps: the results on pages (BTreeProofs, CowDiskProofs) carried over to *)
(* the pairs that the pages hold.                                          *)
(***************************************************************************)
EXTENDS Store, BTreeProofs

Working == {"start", "insert", "delete", "return", "next", "fsync", "commit", "commitUnsynced"}

(* A step of a call before its commit.                                     *)
Steady ==
  root' = root /\ pc' # "barrier" /\ (outcome' = outcome \/ pc' \in {"idle", "broken"})

(* The steps of an insertion before its end publish nothing and reclaim    *)
(* nothing.                                                                *)
LEMMA InsertSteady ==
  StartInsert \/ InsertIntoInternal \/ InsertIntoLeaf => Steady
<1>1. StartInsert => Steady
  BY Zenon DEF StartInsert, Step, Keep, Fail, Break, Reply, Same, Steady, tree
<1>2. InsertIntoInternal => Steady
  BY Zenon DEF InsertIntoInternal, Step, Keep, Fail, Break, Reply, Same, Steady, tree
<1>3. InsertIntoLeaf => Steady
  BY Zenon DEF InsertIntoLeaf, Returned, Step, Keep, Fail, Break, Reply, Same, Steady, tree
<1> QED
  BY <1>1, <1>2, <1>3

(* Nor do those of a deletion.                                             *)
LEMMA DeleteSteady ==
  StartDelete \/ DeleteFromInternal \/ DeleteKeyFromInternal \/ DeleteFromLeaf => Steady
<1>1. StartDelete => Steady
  BY Zenon DEF StartDelete, Step, Keep, Fail, Break, Reply, Same, Steady, tree
<1>2. DeleteFromInternal => Steady
  BY Zenon DEF DeleteFromInternal, Step, Keep, Fail, Break, Reply, Same, Steady, tree
<1>3. DeleteKeyFromInternal => Steady
  BY Zenon DEF DeleteKeyFromInternal, Borrow, Step, Keep, Fail, Break, Reply, Same, Steady, tree
<1>4. DeleteFromLeaf => Steady
  BY Zenon DEF DeleteFromLeaf, Returned, Step, Keep, Fail, Break, Reply, Same, Steady, tree
<1> QED
  BY <1>1, <1>2, <1>3, <1>4

(* Nor do the return, the next request and the fsync.                      *)
LEMMA ReturnSteady ==
  PropagateUp \/ Finish \/ NextRequest \/ Fsync => Steady
<1>1. PropagateUp => Steady
  BY Zenon DEF PropagateUp, Returned, Step, Keep, Fail, Break, Reply, Same, Steady, tree
<1>2. Finish => Steady
  BY Zenon DEF Finish, Step, Keep, Fail, Break, Reply, Same, Steady, tree
<1>3. NextRequest => Steady
  BY Zenon DEF NextRequest, Steady, tree
<1>4. Fsync => Steady
  BY Zenon DEF Fsync, Reply, Same, Steady, tree
<1> QED
  BY <1>1, <1>2, <1>3, <1>4

(* What the writer does at each point of a call.                           *)
Served == 
  \/ pc \in Working /\ Steady
  \/ pc \in {"commit", "commitUnsynced"} /\ Commit
  \/ pc \in {"barrier", "barrierUnsynced"} /\ pc' = "idle" /\ UNCHANGED tree

(* What a step of the server may do to the pages: be steady, or finish an  *)
(* operation.                                                              *)
LEMMA ServeServes ==
  Serve => Served
<1>1. StartInsert \/ InsertIntoInternal \/ InsertIntoLeaf => pc \in Working
  BY DEF StartInsert, InsertIntoInternal, InsertIntoLeaf, Working
<1>2. StartDelete \/ DeleteFromInternal \/ DeleteKeyFromInternal \/ DeleteFromLeaf => pc \in Working
  BY DEF StartDelete, DeleteFromInternal, DeleteKeyFromInternal, DeleteFromLeaf, Working
<1>3. PropagateUp \/ Finish \/ NextRequest \/ Fsync => pc \in Working
  BY DEF PropagateUp, Finish, NextRequest, Fsync, Working
<1>4. Commit => pc \in {"commit", "commitUnsynced"}
  BY DEF Commit
<1>5. Barrier2 => pc \in {"barrier", "barrierUnsynced"} /\ pc' = "idle" /\ UNCHANGED tree
  BY Zenon DEF Barrier2, Reply
<1> QED
  BY <1>1, <1>2, <1>3, <1>4, <1>5, InsertSteady, DeleteSteady, ReturnSteady, Zenon
     DEF Serve, Served

(* What the readers and the disk add leaves the tree to the writer.        *)
LEMMA StoreStepFresh ==
  ASSUME WInv, [StoreNext]_allvars
  PROVE  WInv' /\ \A p \in PageNums \ Allocatable : pm'.page[p] = pm.page[p]
<1>1. Invoke \/ Serve => [Next]_vars
  BY DEF Next
<1>2. ASSUME UNCHANGED tree
      PROVE  WInv' /\ \A p \in PageNums \ Allocatable : pm'.page[p] = pm.page[p]
  BY <1>2 DEF WInv, tree, Addressed, Shaped
<1>3. UNCHANGED vars => UNCHANGED tree
  BY DEF vars
<1>4. Break => UNCHANGED tree
  BY Zenon DEF Break
<1>5. CASE \E r \in Reader : (SearchBegin(r) \/ Read(r)) /\ UNCHANGED cache
  <2>1. PICK r \in Reader : SearchBegin(r) \/ Read(r)
    BY <1>5, Zenon
  <2>2. SearchBegin(r) \/ Read(r) => UNCHANGED vars \/ Break
    BY Zenon DEF SearchBegin, Read, ReadSlice, ReadCopy, Fault
  <2> QED
    BY <2>1, <2>2, <1>2, <1>3, <1>4
<1>6. CrashAndReopen => UNCHANGED tree
  BY Zenon DEF CrashAndReopen
<1>7. Stopped => UNCHANGED vars
  BY Zenon DEF Stopped
<1>8. UNCHANGED allvars => UNCHANGED vars
  BY Zenon DEF allvars
<1>9. CASE Invoke \/ Serve
  BY <1>1, <1>9, NextFresh
<1> QED
  BY <1>2, <1>3, <1>5, <1>6, <1>7, <1>8, <1>9, Zenon DEF StoreNext

(* Beside searches and crashes, too, no step writes a page that Allocate   *)
(* cannot give away (copyToNewPage).                                       *)
THEOREM StoreWritesFreshPages ==
  StoreSpec => FreshWrites
<1>1. StoreInit => WInv
  BY InitWInv DEF StoreInit
<1>2. WInv /\ [StoreNext]_allvars => WInv'
  BY StoreStepFresh
<1>3. WInv /\ [StoreNext]_allvars =>
        [\A p \in PageNums \ Allocatable : pm'.page[p] = pm.page[p]]_vars
  BY StoreStepFresh
<1> QED
  BY <1>1, <1>2, <1>3, PTL DEF StoreSpec, FreshWrites

-----------------------------------------------------------------------------
(* Pages T are those of a tree that can be searched.                       *)
SearchTree(T) ==
  \A p \in T :
    /\ p \in PageNums /\ p < AddrPages
    /\ pm.page[p] \in Nodes /\ Len(pm.page[p].ptr) = GetNKeys(pm.page[p]) + 1
    /\ Children(pm)[p] \subseteq T

(* What the tree's runs check of the live pages makes them a search tree   *)
(* on its own.                                                             *)
LEMMA LiveIsSearchTree ==
  ASSUME WInv, LiveKept, BTreeShape
  PROVE  SearchTree(Live) /\ root \in Live
<1>1. pm.cur \in Nat /\ pm.cur < AddrPages /\ AddrPages \in Nat
  BY PageManagerAssumption DEF WInv, Addressed
<1>2. ASSUME NEW p \in Live PROVE p \in PageNums /\ p < AddrPages
  <2>1. p \in PageNums /\ ~(p >= pm.cur)
    BY DEF LiveKept, Allocatable
  <2>2. p \in Int
    BY <2>1, PageManagerAssumption DEF PageNums
  <2> QED
    BY <2>1, <2>2, <1>1
<1>3. \A p \in Live :
        /\ pm.page[p] \in Nodes /\ Len(pm.page[p].ptr) = GetNKeys(pm.page[p]) + 1
        /\ Children(pm)[p] \subseteq Live
  BY Zenon DEF BTreeShape
<1> QED
  BY <1>2, <1>3 DEF SearchTree, LiveKept

(* A search does not leave it.                                             *)
LEMMA SearchStays ==
  ASSUME NEW T, SearchTree(T), NEW p \in T, NEW k,
         pm.page[p].type # "leaf"
  PROVE  GetPtr(pm.page[p], FindIndex(pm.page[p], k)) \in T
<1> DEFINE n == pm.page[p]
           i == FindIndex(n, k)
<1>1. /\ p \in PageNums /\ n \in Nodes /\ Len(n.ptr) = Len(n.kvs) + 1
      /\ Children(pm)[p] \subseteq T
  BY Zenon DEF SearchTree, GetNKeys
<1>2. n.kvs \in Seq(Key \X Val) /\ n.ptr \in Seq(Nat)
  BY <1>1 DEF Nodes
<1>3. Children(pm)[p] = ToSet(n.ptr)
  BY <1>1 DEF Children
<1>4. i \in 0 .. Len(n.kvs)
  BY <1>2, FindIndexIsFirst
<1> HIDE DEF n, i
<1>5. i + 1 \in 1 .. Len(n.ptr)
  BY <1>1, <1>2, <1>4
<1>6. n.ptr[i + 1] \in ToSet(n.ptr)
  BY <1>5, <1>2 DEF ToSet
<1> QED
  BY <1>1, <1>3, <1>6 DEF GetPtr, n, i

(* A descent from a page of a search tree never leaves it.                 *)
LEMMA SearchStaysClosed ==
  ASSUME NEW T, SearchTree(T), NEW k
  PROVE  T \in SUBSET PageNums /\ Closed(SearchedAfter(pm, k), T)
<1>1. T \in SUBSET PageNums
  BY DEF SearchTree
<1>2. ASSUME NEW p \in T, NEW q \in SearchedAfter(pm, k)[p] PROVE q \in T
  <2>1. /\ pm.page[p].type # "leaf"
        /\ q = GetPtr(pm.page[p], FindIndex(pm.page[p], k))
    BY <1>1 DEF SearchedAfter
  <2> QED
    BY <2>1, SearchStays
<1> QED
  BY <1>1, <1>2, ClosedMeans

(* Pages that are not written keep the tree, and what a search finds.      *)
LEMMA TreeStays ==
  ASSUME NEW T, SearchTree(T), \A p \in T : pm'.page[p] = pm.page[p]
  PROVE  SearchTree(T)' /\ \A r \in T : \A k : Search(pm', r, k) = Search(pm, r, k)
<1>1. \A p \in T : p \in PageNums
  BY DEF SearchTree
<1>2. \A p \in T : Children(pm')[p] = Children(pm)[p]
  BY <1>1 DEF Children
<1>3. SearchTree(T)'
  BY <1>2 DEF SearchTree
<1>4. ASSUME NEW r \in T, NEW k PROVE Search(pm', r, k) = Search(pm, r, k)
  <2>1. T \in SUBSET PageNums /\ Closed(SearchedAfter(pm, k), T)
    BY SearchStaysClosed
  <2>2. ASSUME NEW n, \A p \in T : n.page[p] = pm.page[p]
        PROVE  Search(n, r, k) = Search(pm, r, k)
    <3>1. ASSUME NEW U \in SUBSET PageNums, NEW q \in U, NEW m, NEW l,
                 Closed(SearchedAfter(m, l), U), \A p \in U : n.page[p] = m.page[p]
          PROVE  Search(n, q, l) = Search(m, q, l)
      BY <3>1, SearchSame
    <3> QED
      BY <2>1, <2>2, <3>1
  <2> QED
    BY <2>2
<1> QED
  BY <1>3, <1>4

-----------------------------------------------------------------------------
IsSearch(s) ==
  s = [pc |-> s.pc, key |-> s.key, page |-> s.page, mapped |-> s.mapped,
       result |-> s.result, expect |-> s.expect, age |-> s.age]

(* Search s is in tree T, and will find there what it has to.              *)
Follows(s, T) ==
  /\ SearchTree(T) /\ s.page \in T
  /\ s.age = "current" => T = Live
  /\ s.result = NotFound /\ Search(pm, s.page, s.key) = s.expect

OnTrack(s) ==
  /\ IsSearch(s) /\ s.age \in {"current", "old", "outrun"}
  /\ s.pc \in {"slice", "copy"} /\ s.age # "outrun" /\ pc # "broken" =>
       /\ s.age = "old" => pc \in {"idle", "barrier", "barrierUnsynced"}
       /\ \E T \in SUBSET PageNums : Follows(s, T)
  /\ s.pc = "done" /\ s.age # "outrun" => s.result = s.expect

(* Inductive, as long as the committed tree is one that can be searched.   *)
SInv ==
  /\ WInv
  /\ pc \in Working => outcome # "applied"
  /\ reading = [r \in Reader |-> reading[r]]
  /\ \A r \in Reader : OnTrack(reading[r])

(* A search that the writer's step makes older.                            *)
LEMMA AgedIs ==
  ASSUME NEW s, IsSearch(s)
  PROVE  \A t : t = [s EXCEPT !.age = Aged(s.age)] =>
            /\ IsSearch(t) /\ t.age = Aged(s.age) /\ t.pc = s.pc /\ t.key = s.key
            /\ t.page = s.page /\ t.result = s.result /\ t.expect = s.expect
<1> SUFFICES ASSUME NEW a, NEW t, t = [s EXCEPT !.age = a]
             PROVE  /\ IsSearch(t) /\ t.age = a /\ t.pc = s.pc /\ t.key = s.key
                    /\ t.page = s.page /\ t.result = s.result /\ t.expect = s.expect
  OBVIOUS
<1> QED
  BY DEF IsSearch

(* The writer's step, seen from a search on its way: until the commit it   *)
(* leaves the tree alone, the commit abandons the tree as it is, and it    *)
(* stays so up to the next call.                                           *)
LEMMA WriterKeepsTrack ==
  ASSUME SInv, LiveKept, BTreeShape, Invoke \/ Serve, pc' # "broken",
         NEW s, NEW t, OnTrack(s), s.pc \in {"slice", "copy"},
         t = [s EXCEPT !.age = Aged(s.age)]
  PROVE  OnTrack(t)'
<1>1. /\ IsSearch(t) /\ t.age = Aged(s.age) /\ t.pc = s.pc /\ t.key = s.key
      /\ t.page = s.page /\ t.result = s.result /\ t.expect = s.expect
  BY AgedIs DEF OnTrack
<1>2. t.age \in {"current", "old", "outrun"}
  BY <1>1 DEF OnTrack, Aged
<1>3. SUFFICES ASSUME t.age # "outrun"
               PROVE  /\ t.age = "old" => pc' \in {"idle", "barrier", "barrierUnsynced"}
                      /\ \E T \in SUBSET PageNums : Follows(t, T)'
  BY <1>1, <1>2, <1>3 DEF OnTrack, IsSearch
<1>4. /\ s.age # "current" => s.age = "old" /\ t.age = "old" /\ ~(pc = "idle" /\ pc' = "start")
      /\ s.age = "current" /\ t.age = "old" => outcome # "applied" /\ outcome' = "applied"
      /\ s.age = "current" /\ outcome # "applied" /\ outcome' = "applied" => t.age = "old"
  BY <1>1, <1>3 DEF OnTrack, Aged
<1>5. pc # "broken"
  BY ServeServes, Zenon DEF Invoke, Served, Working
<1>6. s.age = "old" => pc \in {"idle", "barrier", "barrierUnsynced"}
  BY <1>4, <1>5 DEF OnTrack
<1>7. PICK T \in SUBSET PageNums : Follows(s, T)
  BY <1>4, <1>5 DEF OnTrack
<1>8. SUFFICES /\ \A p \in T : pm'.page[p] = pm.page[p]
               /\ t.age = "old" => pc' \in {"idle", "barrier", "barrierUnsynced"}
               /\ t.age = "current" => Live' = T
  <2>1. SearchTree(T)' /\ Search(pm', s.page, s.key) = Search(pm, s.page, s.key)
    BY <1>7, <1>8, TreeStays DEF Follows
  <2> QED
    BY <1>1, <1>7, <1>8, <2>1 DEF Follows
<1>9. UNCHANGED tree => pm' = pm /\ Live' = Live
  BY DEF tree, Live
<1>10. CASE Invoke
  <2>1. pc = "idle" /\ pc' = "start" /\ outcome' = "pending" /\ UNCHANGED tree
    BY <1>10, Zenon DEF Invoke
  <2> QED
    BY <2>1, <1>4, <1>7, <1>9 DEF Follows
<1>11. CASE pc \in Working /\ Steady
  <2>1. s.age = "current" /\ T = Live
    BY <1>11, <1>4, <1>6, <1>7 DEF Working, Follows
  <2>2. \A p \in Live : pm'.page[p] = pm.page[p]
    BY NextFresh DEF SInv, LiveKept, Next
  <2>3. Live' = Live
    <3>1. root \in PageNums /\ root' = root
      BY <1>11 DEF LiveKept, Steady
    <3> QED
      BY <3>1, <2>2, ReachSame DEF Live
  <2>4. t.age = "old" => pc' = "idle"
    BY <1>4, <1>11, <2>1 DEF Steady
  <2> QED
    BY <2>1, <2>2, <2>3, <2>4
<1>12. CASE pc \in {"commit", "commitUnsynced"} /\ Commit
  <2>1. outcome' = "applied" /\ pc' \in {"barrier", "barrierUnsynced"}
    BY <1>12, Zenon DEF Commit, Break
  <2>2. outcome # "applied" /\ pm'.page = pm.page
    BY <1>12, CommitFresh DEF SInv, Working
  <2> QED
    BY <2>1, <2>2, <1>4
<1>13. CASE pc \in {"barrier", "barrierUnsynced"} /\ pc' = "idle" /\ UNCHANGED tree
  BY <1>13, <1>4, <1>7, <1>9 DEF Follows
<1> QED
  BY <1>10, <1>11, <1>12, <1>13, ServeServes DEF Served

(* What one level does to a search.                                        *)
LEMMA VisitIs ==
  ASSUME NEW s, IsSearch(s), NEW n, NEW t, t = Visit(s, n)
  PROVE  /\ IsSearch(t) /\ t.age = s.age /\ t.key = s.key /\ t.expect = s.expect
         /\ ContainsKey(n, s.key) => t.pc = "done" /\ t.result = GetKV(n, FindIndex(n, s.key))
         /\ ~ContainsKey(n, s.key) => t.result = s.result
         /\ ~ContainsKey(n, s.key) /\ n.type = "leaf" => t.pc = "done"
         /\ ~ContainsKey(n, s.key) /\ n.type # "leaf" =>
              t.pc = "slice" /\ t.page = GetPtr(n, FindIndex(n, s.key))
<1> DEFINE kv == GetKV(n, FindIndex(n, s.key))
           q  == GetPtr(n, FindIndex(n, s.key))
<1>1. /\ ContainsKey(n, s.key) => t = [s EXCEPT !.pc = "done", !.result = kv]
      /\ ~ContainsKey(n, s.key) /\ n.type = "leaf" => t = [s EXCEPT !.pc = "done"]
      /\ ~ContainsKey(n, s.key) /\ n.type # "leaf" => t = [s EXCEPT !.pc = "slice", !.page = q]
  BY DEF Visit
<1> HIDE DEF kv, q
<1>2. CASE ContainsKey(n, s.key)
  <2>1. t = [s EXCEPT !.pc = "done", !.result = kv]
    BY <1>1, <1>2
  <2>2. /\ IsSearch(t) /\ t.age = s.age /\ t.key = s.key /\ t.expect = s.expect
        /\ t.pc = "done" /\ t.result = kv
    BY <2>1 DEF IsSearch
  <2> QED
    BY <2>2, <1>2 DEF kv
<1>3. CASE ~ContainsKey(n, s.key) /\ n.type = "leaf"
  <2>1. t = [s EXCEPT !.pc = "done"]
    BY <1>1, <1>3
  <2>2. /\ IsSearch(t) /\ t.age = s.age /\ t.key = s.key /\ t.expect = s.expect
        /\ t.pc = "done" /\ t.result = s.result
    BY <2>1 DEF IsSearch
  <2> QED
    BY <2>2, <1>3
<1>4. CASE ~ContainsKey(n, s.key) /\ n.type # "leaf"
  <2>1. t = [s EXCEPT !.pc = "slice", !.page = q]
    BY <1>1, <1>4
  <2>2. /\ IsSearch(t) /\ t.age = s.age /\ t.key = s.key /\ t.expect = s.expect
        /\ t.pc = "slice" /\ t.page = q /\ t.result = s.result
    BY <2>1 DEF IsSearch
  <2> QED
    BY <2>2, <1>4 DEF q
<1> QED
  BY <1>2, <1>3, <1>4

(* A search begins in the committed tree, and looks for what it finds.     *)
LEMMA BeginsOnTrack ==
  ASSUME SInv, LiveKept, BTreeShape, SearchAgrees, NEW r \in Reader, SearchBegin(r)
  PROVE  OnTrack(reading'[r])
<1>1. PICK k \in Wanted :
        reading' = [reading EXCEPT ![r] =
                     [NoSearch EXCEPT !.pc = "slice", !.key = k, !.page = root,
                                      !.expect = Lookup(Contents(pm, root), k)]]
  BY DEF SearchBegin
<1> DEFINE e == Lookup(Contents(pm, root), k)
<1>2. ASSUME NEW t, t = [NoSearch EXCEPT !.pc = "slice", !.key = k, !.page = root, !.expect = e]
      PROVE  /\ IsSearch(t) /\ t.pc = "slice" /\ t.age = "current"
             /\ t.key = k /\ t.page = root /\ t.expect = e /\ t.result = NotFound
  <2> HIDE DEF e
  <2> QED
    BY <1>2 DEF NoSearch, IsSearch
<1>3. reading'[r] = [NoSearch EXCEPT !.pc = "slice", !.key = k, !.page = root, !.expect = e]
  BY <1>1 DEF SInv
<1>4. Search(pm, root, k) = e
  BY ReadersAssumption DEF SearchAgrees, Lookup
<1>5. SearchTree(Live) /\ root \in Live /\ Live \in SUBSET PageNums
  BY LiveIsSearchTree DEF SInv, LiveKept
<1> HIDE DEF e
<1>6. PICK t : t = reading'[r]
  OBVIOUS
<1>7. Follows(t, Live)
  BY <1>2, <1>3, <1>4, <1>5, <1>6 DEF Follows
<1> QED
  BY <1>2, <1>3, <1>5, <1>6, <1>7 DEF OnTrack

(* It reads its next page, and goes down or ends.                          *)
LEMMA CopyKeepsTrack ==
  ASSUME SInv, NEW r \in Reader, ReadCopy(r)
  PROVE  OnTrack(reading'[r])
<1> DEFINE s == reading[r]
           n == Sliced(s.page)
           i == FindIndex(n, s.key)
<1>1. s.pc = "copy" /\ pc # "broken" /\ OnTrack(s) /\ IsSearch(s)
  BY DEF ReadCopy, SInv, OnTrack
<1>2. PICK t : t = reading'[r]
  OBVIOUS
<1>3. t = Visit(s, n)
  BY <1>2 DEF ReadCopy, SInv
<1> HIDE DEF n, s
<1>4. /\ IsSearch(t) /\ t.age = s.age /\ t.key = s.key /\ t.expect = s.expect
      /\ ContainsKey(n, s.key) => t.pc = "done" /\ t.result = GetKV(n, i)
      /\ ~ContainsKey(n, s.key) => t.result = s.result
      /\ ~ContainsKey(n, s.key) /\ n.type = "leaf" => t.pc = "done"
      /\ ~ContainsKey(n, s.key) /\ n.type # "leaf" => t.pc = "slice" /\ t.page = GetPtr(n, i)
  BY <1>1, <1>3, VisitIs, ZenonT(60)
<1>5. CASE s.age = "outrun"
  BY <1>1, <1>4, <1>5, <1>2 DEF OnTrack
<1>6. CASE s.age # "outrun"
  <2>1. PICK T \in SUBSET PageNums : Follows(s, T)
    BY <1>1, <1>6 DEF OnTrack
  <2>2. s.age = "old" => pc \in {"idle", "barrier", "barrierUnsynced"}
    BY <1>1, <1>6 DEF OnTrack
  <2>3. s.page \in PageNums /\ n = pm.page[s.page]
    <3>1. s.page < AddrPages /\ s.page \in PageNums
      BY <2>1 DEF Follows, SearchTree
    <3>2. s.page \in Nat /\ s.page # 0
      BY <3>1, PageManagerAssumption DEF PageNums
    <3>3. Slot(s.page) = s.page
      BY <3>1, <3>2, PageManagerAssumption DEF Slot
    <3> QED
      BY <3>1, <3>2, <3>3 DEF Sliced, n
  <2> DEFINE e == Search(pm, s.page, s.key)
  <2>4. /\ ContainsKey(n, s.key) => e = GetKV(n, i)
        /\ ~ContainsKey(n, s.key) /\ n.type = "leaf" => e = NotFound
        /\ ~ContainsKey(n, s.key) /\ n.type # "leaf" /\ GetPtr(n, i) \in PageNums =>
             e = Search(pm, GetPtr(n, i), s.key)
    BY <2>3, SearchLevel
  <2>5. e = s.expect /\ s.result = NotFound /\ (s.age = "current" => T = Live)
    BY <2>1 DEF Follows
  <2> HIDE DEF e, i
  <2>6. CASE ContainsKey(n, s.key) \/ n.type = "leaf"
    <3>1. t.pc = "done" /\ t.result = t.expect
      BY <2>6, <1>4, <2>4, <2>5
    <3> QED
      BY <3>1, <1>1, <1>2, <1>4 DEF OnTrack
  <2>7. CASE ~ContainsKey(n, s.key) /\ n.type # "leaf"
    <3>1. GetPtr(n, i) \in T
      BY <2>1, <2>3, <2>7, SearchStays DEF Follows, i
    <3>2. t.pc = "slice" /\ t.page \in T /\ Search(pm, t.page, t.key) = t.expect
      BY <3>1, <2>4, <2>5, <2>7, <1>4
    <3>3. Follows(t, T)
      BY <3>2, <2>1, <2>5, <2>7, <1>4 DEF Follows
    <3> QED
      BY <3>2, <3>3, <2>2, <1>1, <1>2, <1>4 DEF OnTrack
  <2> QED
    BY <2>6, <2>7
<1> QED
  BY <1>5, <1>6

(* A reader that took a node from the mapping goes on to a page of the     *)
(* tree it began in.                                                       *)
LEMMA SliceKeepsTrack ==
  ASSUME SInv, NEW r \in Reader, ReadSlice(r), reading' # reading
  PROVE  OnTrack(reading'[r])
<1> DEFINE s == reading[r]
<1>1. OnTrack(s) /\ IsSearch(s) /\ s.pc = "slice"
  BY DEF SInv, OnTrack, ReadSlice
<1>2. PICK t : t = reading'[r]
  OBVIOUS
<1>3. t = [s EXCEPT !.pc = "copy", !.mapped = pm.mapped]
  BY <1>2 DEF ReadSlice, SInv
<1> HIDE DEF s
<1>4. /\ IsSearch(t) /\ t.age = s.age /\ t.key = s.key /\ t.expect = s.expect
      /\ t.pc = "copy" /\ t.page = s.page /\ t.result = s.result
  BY <1>1, <1>3 DEF IsSearch
<1>5. \A T : Follows(s, T) => Follows(t, T)
  BY <1>4 DEF Follows
<1> QED
  BY <1>1, <1>2, <1>4, <1>5 DEF OnTrack

(* A search that does not move while the tree does not, or that nobody     *)
(* waits for any more.                                                     *)
LEMMA TrackUnmoved ==
  ASSUME NEW s, OnTrack(s), UNCHANGED <<pm, root, pc>> \/ pc' = "broken"
                            \/ s.pc \notin {"slice", "copy"}
  PROVE  OnTrack(s)'
<1>1. ASSUME UNCHANGED <<pm, root>> PROVE \A T : Follows(s, T) => Follows(s, T)'
  BY <1>1 DEF Follows, SearchTree, Live
<1>2. UNCHANGED <<pm, root, pc>> => UNCHANGED <<pm, root>>
  OBVIOUS
<1> QED
  BY <1>1, <1>2 DEF OnTrack, IsSearch

(* A call and its steps.                                                   *)
LEMMA ServeKeepsTrack ==
  ASSUME SInv, LiveKept, BTreeShape, Invoke \/ Serve, Ageing, WInv'
  PROVE  SInv'
<1>1. pc' \in Working => outcome' # "applied"
  <2>1. CASE Invoke
    <3>1. outcome' = "pending"
      BY <2>1, Zenon DEF Invoke
    <3> QED
      BY <3>1
  <2>2. CASE pc \in Working /\ Steady
    BY <2>2 DEF SInv, Steady, Working
  <2>3. CASE Commit
    <3>1. pc' \in {"broken", "barrier", "barrierUnsynced"}
      BY <2>3, Zenon DEF Commit, Break
    <3> QED
      BY <3>1 DEF Working
  <2>4. CASE pc' = "idle"
    BY <2>4 DEF Working
  <2> QED
    BY <2>1, <2>2, <2>3, <2>4, ServeServes DEF Served
<1>2. reading' = [r \in Reader |-> reading'[r]]
  BY DEF Ageing
<1>3. ASSUME NEW r \in Reader PROVE OnTrack(reading[r])'
  <2>1. PICK s : s = reading[r]
    OBVIOUS
  <2>2. OnTrack(s)
    BY <2>1 DEF SInv
  <2>3. CASE s.pc \notin {"slice", "copy"}
    <3>1. reading[r]' = s
      BY <2>1, <2>3 DEF Ageing
    <3>2. OnTrack(s)'
      BY <2>2, <2>3, TrackUnmoved
    <3> QED
      BY <3>1, <3>2
  <2>4. CASE s.pc \in {"slice", "copy"}
    <3>1. PICK t : t = [s EXCEPT !.age = Aged(s.age)]
      OBVIOUS
    <3>2. reading[r]' = t
      BY <2>1, <2>4, <3>1 DEF Ageing
    <3>3. IsSearch(t) /\ t.age = Aged(s.age) /\ t.pc = s.pc
      BY <2>2, <3>1, AgedIs DEF OnTrack
    <3>4. OnTrack(t)'
      <4>1. CASE pc' = "broken"
        BY <4>1, <2>2, <2>4, <3>3 DEF OnTrack, Aged, IsSearch
      <4>2. CASE pc' # "broken"
        BY <4>2, <2>2, <2>4, <3>1, WriterKeepsTrack
      <4> QED
        BY <4>1, <4>2
    <3> QED
      BY <3>2, <3>4
  <2> QED
    BY <2>3, <2>4
<1> QED
  BY <1>1, <1>2, <1>3 DEF SInv

(* A search and its steps.                                                 *)
LEMMA ReadKeepsTrack ==
  ASSUME SInv, LiveKept, BTreeShape, SearchAgrees, NEW r \in Reader,
         SearchBegin(r) \/ Read(r), WInv'
  PROVE  SInv'
<1>1. CASE Break /\ UNCHANGED reading
  <2>1. pc' = "broken" /\ reading' = reading
    BY <1>1, Zenon DEF Break
  <2>2. ASSUME NEW q \in Reader PROVE OnTrack(reading[q])'
    <3>1. PICK s : s = reading[q]
      OBVIOUS
    <3>2. OnTrack(s)'
      BY <2>1, <3>1, TrackUnmoved DEF SInv
    <3> QED
      BY <2>1, <3>1, <3>2
  <2> QED
    BY <2>1, <2>2 DEF SInv, Working
<1>2. CASE /\ UNCHANGED vars
           /\ SearchBegin(r) \/ ReadCopy(r) \/ (ReadSlice(r) /\ reading' # reading)
  <2>1. UNCHANGED <<pm, root, pc, outcome>>
    BY <1>2 DEF vars, tree
  <2>2. OnTrack(reading'[r])
    BY <1>2, BeginsOnTrack, CopyKeepsTrack, SliceKeepsTrack
  <2>3. \A q \in Reader : q # r => reading'[q] = reading[q]
    BY <1>2 DEF SearchBegin, ReadCopy, ReadSlice, SInv
  <2>4. reading' = [q \in Reader |-> reading'[q]]
    BY <1>2 DEF SearchBegin, ReadCopy, ReadSlice, SInv
  <2>5. ASSUME NEW q \in Reader PROVE OnTrack(reading[q])'
    <3>1. PICK s : s = reading'[q]
      OBVIOUS
    <3>2. OnTrack(s)
      BY <2>2, <2>3, <3>1 DEF SInv
    <3>3. OnTrack(s)'
      BY <2>1, <3>2, TrackUnmoved
    <3> QED
      BY <3>1, <3>3
  <2> QED
    BY <2>1, <2>4, <2>5 DEF SInv
<1>3. CASE UNCHANGED <<vars, reading>>
  <2>1. UNCHANGED <<pm, root, pc, outcome, reading>>
    BY <1>3 DEF vars, tree
  <2>2. ASSUME NEW q \in Reader PROVE OnTrack(reading[q])'
    <3>1. PICK s : s = reading[q]
      OBVIOUS
    <3>2. OnTrack(s)'
      BY <2>1, <3>1, TrackUnmoved DEF SInv
    <3> QED
      BY <2>1, <3>1, <3>2
  <2> QED
    BY <2>1, <2>2 DEF SInv
<1>4. SearchBegin(r) \/ ReadCopy(r) => UNCHANGED vars
  BY Zenon DEF SearchBegin, ReadCopy
<1>5. ReadSlice(r) => UNCHANGED vars \/ (Break /\ UNCHANGED reading)
  BY Zenon DEF ReadSlice
<1>6. Fault(r) => Break /\ UNCHANGED reading
  BY Zenon DEF Fault
<1> QED
  BY <1>1, <1>2, <1>3, <1>4, <1>5, <1>6 DEF Read

(* Every step of the store keeps the searches on track.                    *)
LEMMA StoreNextKeepsTrack ==
  ASSUME SInv, LiveKept, BTreeShape, SearchAgrees, [StoreNext]_allvars
  PROVE  SInv'
<1>1. WInv'
  BY StoreStepFresh DEF SInv
<1>2. CASE (Invoke \/ Serve) /\ Ageing
  BY <1>1, <1>2, ServeKeepsTrack
<1>3. CASE \E r \in Reader : SearchBegin(r) \/ Read(r)
  BY <1>1, <1>3, ReadKeepsTrack
<1>4. CASE CrashAndReopen
  <2>1. pc' = "broken" /\ reading' = NoSearches
    BY <1>4, Zenon DEF CrashAndReopen
  <2>2. ASSUME NEW r \in Reader PROVE OnTrack(reading[r])'
    <3>1. PICK s : s = reading'[r]
      OBVIOUS
    <3>2. IsSearch(s) /\ s.age = "current" /\ s.pc = "idle"
      BY <2>1, <3>1 DEF NoSearches, NoSearch, IsSearch
    <3> QED
      BY <3>1, <3>2 DEF OnTrack, IsSearch
  <2>3. reading' = [r \in Reader |-> reading'[r]]
    BY <2>1 DEF NoSearches
  <2> QED
    BY <1>1, <2>1, <2>2, <2>3 DEF SInv, Working
<1>5. CASE UNCHANGED <<vars, reading>>
  <2>1. UNCHANGED <<pm, root, pc, outcome, reading>>
    BY <1>5 DEF vars, tree
  <2>2. ASSUME NEW q \in Reader PROVE OnTrack(reading[q])'
    <3>1. PICK s : s = reading[q]
      OBVIOUS
    <3>2. OnTrack(s)'
      BY <2>1, <3>1, TrackUnmoved DEF SInv
    <3> QED
      BY <2>1, <3>1, <3>2
  <2> QED
    BY <1>1, <2>1, <2>2 DEF SInv
<1>6. Stopped => UNCHANGED vars
  BY DEF Stopped
<1>7. UNCHANGED allvars => UNCHANGED <<vars, reading>>
  BY DEF allvars
<1> QED
  BY <1>2, <1>3, <1>4, <1>5, <1>6, <1>7, Zenon DEF StoreNext

(* Before the first request no reader has begun.                           *)
LEMMA StoreStartsOnTrack ==
  StoreInit => SInv
<1> SUFFICES ASSUME StoreInit PROVE SInv
  OBVIOUS
<1>1. Init /\ reading = NoSearches
  BY DEF StoreInit
<1>2. WInv /\ pc = "idle"
  BY <1>1, InitWInv DEF Init
<1>3. ASSUME NEW r \in Reader PROVE OnTrack(reading[r])
  <2>1. reading[r] = NoSearch
    BY <1>1 DEF NoSearches
  <2> QED
    BY <2>1 DEF NoSearch, OnTrack, IsSearch
<1> QED
  BY <1>1, <1>2, <1>3 DEF SInv, Working, NoSearches

(* Search takes no lock, and no barrier: as long as the committed tree is  *)
(* one that a search at rest could walk, a search on its way returns what  *)
(* the tree it began with held, whatever the writer does up to the second  *)
(* call from then on (Search, copyToNewPage, the in-memory free list).     *)
THEOREM SearchesReadTheirSnapshot ==
  StoreSpec /\ []LiveKept /\ []BTreeShape /\ []SearchAgrees => []SnapshotRead
<1>1. SInv /\ LiveKept /\ BTreeShape /\ SearchAgrees /\ [StoreNext]_allvars => SInv'
  BY StoreNextKeepsTrack
<1>2. SInv => SnapshotRead
  BY DEF SInv, OnTrack, SnapshotRead
<1> QED
  BY <1>1, <1>2, StoreStartsOnTrack, PTL DEF StoreSpec

-----------------------------------------------------------------------------
(* The operators of CowDisk, as it is instantiated, are those of the store.*)
LEMMA OnDiskOpens ==
  \A m : OnDisk!LoadOrCreateRoot(m) = LoadOrCreateRoot(m)
<1>1. \A m : OnDisk!ExtendedLength(m) = ExtendedLength(m)
  BY Zenon DEF OnDisk!ExtendedLength, OnDisk!Fallocated, OnDisk!Ftruncated, OnDisk!Slot,
     OnDisk!Larger, ExtendedLength, Fallocated, Ftruncated, Slot, Larger
<1>2. \A m : OnDisk!ExtendFile(m) = ExtendFile(m)
  BY <1>1, Zenon DEF OnDisk!ExtendFile, OnDisk!Failed, OnDisk!NextPage, OnDisk!NoSpace,
     OnDisk!NoMap, OnDisk!NoError, ExtendFile, Failed, NextPage, NoSpace, NoMap, NoError
<1>3. \A m : OnDisk!InBounds(m, 0) = InBounds(m, 0)
  BY Zenon DEF OnDisk!InBounds, OnDisk!Slot, InBounds, Slot
<1>4. \A m : OnDisk!Allocate(m) = Allocate(m)
  BY <1>2, <1>3, Zenon DEF OnDisk!Allocate, OnDisk!Failed, OnDisk!NextPage,
     OnDisk!AllocateViaFreeList, OnDisk!NoError, OnDisk!Panicked,
     Allocate, Failed, NextPage, AllocateViaFreeList, NoError, Panicked
<1> QED
  BY <1>4, Zenon DEF OnDisk!LoadOrCreateRoot, OnDisk!ReadsEOF, OnDisk!NoError,
     LoadOrCreateRoot, ReadsEOF, NoError

(* The map, and the tree, that a version of the master page leads to.      *)
MapAt(m, r)  == IF r = 0 THEN << >> ELSE Contents(m, r)
TreeAt(m, r) == [root |-> r, image |-> [p \in Reach(m, r) |-> m.page[p]]]
NamedMaps    == {MapAt(pm, version.root) : version \in masters}

(* The maps the committed roots name, said with the words of the store:    *)
(* what Disk calls the promise.                                            *)
LEMMA TreesNamed ==
  /\ CommittedTrees = {TreeAt(pm, m.root) : m \in {version \in masters : version.root # 0}}
  /\ Stored(pm) = MapAt(pm, pm.root)
  BY DEF CommittedTrees, TreeAt, Stored, MapAt

(* What the invariant of CowDisk says of the roots.                        *)
LEMMA RootsOnDisk ==
  ASSUME OnDisk!DiskInv
  PROVE  /\ Master(pm) \in masters /\ root \in PageNums /\ root \in Live
         /\ pm.root \in {0, root}
         /\ \A version \in masters : version.root # 0 => version.root \in PageNums
<1>1. Master(pm) \in masters
  BY DEF OnDisk!DiskInv, OnDisk!VersionsLead, OnDisk!Master, Master
<1>2. OnDisk!IInv
  BY DEF OnDisk!DiskInv
<1>3. root \in Live /\ pm.root \in {0, root}
  BY <1>2 DEF OnDisk!IInv, OnDisk!MasterNamesLiveRoot
<1>4. root \in PageNums
  <2>1. \A p \in Live : p \in OnDisk!PageNums
    BY <1>2, OnDisk!LivePages, PageLayoutAssumption, PageManagerAssumption
       DEF OnDisk!MasterHeaderSize, OnDisk!PointerSize, MasterHeaderSize, PointerSize
  <2> QED
    BY <2>1, <1>3 DEF OnDisk!PageNums, PageNums
<1>5. ASSUME NEW version \in masters, version.root # 0
      PROVE  version.root \in PageNums
  <2>1. PICK t \in CommittedTrees : OnDisk!Intact(t, version)
    BY <1>5 DEF OnDisk!DiskInv, OnDisk!VersionsLead
  <2>2. version.root \in 1 .. pm.cur - 1
    BY <2>1 DEF OnDisk!Intact
  <2>3. pm.cur \in Nat /\ pm.cur <= DiskPages
    <3>1. OnDisk!WellFormed(pm)
      BY <1>2 DEF OnDisk!IInv
    <3>2. pm.cur \in Nat /\ pm.end \in Nat /\ pm.flen \in Nat /\ OnDisk!FileCovers(pm)
      BY <3>1 DEF OnDisk!WellFormed, OnDisk!PageManagers
    <3> QED
      BY <3>2, PageManagerAssumption DEF OnDisk!FileCovers
  <2> QED
    BY <2>2, <2>3, PageManagerAssumption DEF PageNums
<1> QED
  BY <1>1, <1>3, <1>4, <1>5

(* A step of an operation leaves the trees on the disk as they are.        *)
LEMMA WorkOnDisk ==
  ASSUME OnDisk!DiskInv, NEW vs \in Seq(Nodes), NEW ps \in Seq(Nat), OnDisk!WorkCached(vs, ps)
  PROVE  OnDisk!DiskInv' /\ NamedMaps' \subseteq NamedMaps /\ NamedMaps' \subseteq {Stored(pm')}
<1>1. /\ OnDisk!IInv /\ OnDisk!Work(vs, ps)
      /\ \A version \in masters : version.root = pm.root
      /\ masters' = masters \cup {Master(pm')}
  BY DEF OnDisk!DiskInv, OnDisk!WorkCached, OnDisk!Settled, OnDisk!WriteCached, OnDisk!Master, Master
<1>2. /\ Master(pm) \in masters /\ root \in PageNums /\ root \in Live /\ pm.root \in {0, root}
  BY RootsOnDisk
<1>3. \A p \in Live : pm'.page[p] = pm.page[p]
  BY <1>1, OnDisk!WorkKeeps, PageLayoutAssumption, PageManagerAssumption
     DEF OnDisk!MasterHeaderSize, OnDisk!PointerSize, MasterHeaderSize, PointerSize
<1>4. pm'.root = pm.root
  <2>1. OnDisk!Evolves(pm, pm')
    BY <1>1, OnDisk!WorkEvolves, PageLayoutAssumption, PageManagerAssumption
       DEF OnDisk!IInv, OnDisk!MasterHeaderSize, OnDisk!PointerSize, MasterHeaderSize, PointerSize
  <2> QED
    BY <2>1 DEF OnDisk!Evolves
<1>5. Reach(pm', root) = Reach(pm, root) /\ Contents(pm', root) = Contents(pm, root)
  BY <1>2, <1>3, ReachSame DEF Live
<1>6. MapAt(pm', pm.root) = MapAt(pm, pm.root)
  BY <1>2, <1>5 DEF MapAt
<1>7. \A version \in masters' : version.root = pm.root
  BY <1>1, <1>4 DEF Master
<1>8. NamedMaps' \subseteq NamedMaps /\ NamedMaps' \subseteq {Stored(pm')}
  BY <1>2, <1>4, <1>6, <1>7, TreesNamed DEF NamedMaps, Stored, MapAt, Master
<1>9. pm.root # 0 => TreeAt(pm', pm.root) = TreeAt(pm, pm.root)
  BY <1>2, <1>3, <1>5 DEF TreeAt, Live
<1>10. CommittedTrees' = CommittedTrees
  <2>1. \A version \in masters : TreeAt(pm, version.root) = TreeAt(pm, pm.root)
    BY <1>1
  <2>2. \A version \in masters' : TreeAt(pm', version.root) = TreeAt(pm', pm.root)
    BY <1>7
  <2>3. CASE pm.root = 0
    <3>1. CommittedTrees = {} /\ CommittedTrees' = {}
      BY <2>3, <1>1, <1>7 DEF CommittedTrees
    <3> QED
      BY <3>1
  <2>4. CASE pm.root # 0
    <3>1. CommittedTrees = {TreeAt(pm, pm.root)}
      BY <2>1, <2>4, <1>1, <1>2, TreesNamed DEF Master
    <3>2. CommittedTrees' = {TreeAt(pm', version.root) : version \in {v \in masters' : v.root # 0}}
      BY DEF CommittedTrees, TreeAt
    <3>3. CommittedTrees' = {TreeAt(pm', pm.root)}
      BY <2>2, <2>4, <3>2, <1>1, <1>2, <1>7
    <3> QED
      BY <2>4, <3>1, <3>3, <1>9
  <2> QED
    BY <2>3, <2>4
<1>11. OnDisk!DiskWork(vs, ps)
  BY <1>10 DEF OnDisk!DiskWork, OnDisk!Outrun
<1> QED
  BY <1>8, <1>11, OnDisk!DiskWorkKeeps, PageLayoutAssumption, PageManagerAssumption
     DEF OnDisk!MasterHeaderSize, OnDisk!PointerSize, MasterHeaderSize, PointerSize

(* A commit adds the tree it makes, and the map it holds.                  *)
LEMMA CommitOnDisk ==
  ASSUME OnDisk!DiskInv, NEW fl, OnDisk!CommitForced(fl, root', Live')
  PROVE  OnDisk!DiskInv' /\ NamedMaps' \subseteq NamedMaps \cup {Stored(pm')}
         /\ root' # root /\ (pm'.root # 0 /\ pm'.root # pm.root)
<1>1. /\ OnDisk!IInv /\ OnDisk!Commit(fl, root', Live') /\ root' # root
      /\ masters' = masters \cup {Master(pm')}
  BY DEF OnDisk!DiskInv, OnDisk!CommitForced, OnDisk!WriteCached, OnDisk!Master, Master
<1>2. pm' = OnDisk!HandleMasterPage(pm, fl, root') /\ Live' \subseteq 1 .. pm.cur - 1 /\ root' \in Live'
  BY <1>1 DEF OnDisk!Commit, OnDisk!Owned
<1>3. pm'.page = pm.page /\ pm'.root = root'
  <2>1. OnDisk!WellFormed(pm)
    BY <1>1 DEF OnDisk!IInv
  <2>2. pm \in OnDisk!PageManagers
    BY <2>1 DEF OnDisk!WellFormed
  <2> QED
    BY <1>2, <2>2 DEF OnDisk!HandleMasterPage, OnDisk!PageManagers
<1>4. Master(pm) \in masters /\ root \in PageNums /\ pm.root \in {0, root}
  BY RootsOnDisk
<1>5. root' # 0 /\ root' # pm.root
  BY <1>1, <1>2, <1>4
<1>6. \A r : TreeAt(pm', r) = TreeAt(pm, r) /\ MapAt(pm', r) = MapAt(pm, r)
  <2>1. Children(pm') = Children(pm)
    BY <1>3 DEF Children
  <2>2. \A r : Reach(pm', r) = Reach(pm, r)
    BY <2>1 DEF Reach
  <2> QED
    BY <1>3, <2>2 DEF TreeAt, MapAt, Contents
<1>7. NamedMaps' \subseteq NamedMaps \cup {Stored(pm')}
  <2>1. NamedMaps' = {MapAt(pm', version.root) : version \in masters'}
    BY DEF NamedMaps, MapAt
  <2>2. Stored(pm') = MapAt(pm', Master(pm').root)
    BY DEF Stored, MapAt, Master
  <2> QED
    BY <2>1, <2>2, <1>1, <1>6 DEF NamedMaps
<1>8. CommittedTrees' = CommittedTrees \cup {OnDisk!Tree(root', Live')}
  <2>1. CommittedTrees' = {TreeAt(pm', version.root) : version \in {v \in masters' : v.root # 0}}
    BY DEF CommittedTrees, TreeAt
  <2>2. OnDisk!Tree(root', Live') = TreeAt(pm', Master(pm').root)
    BY <1>3 DEF OnDisk!Tree, TreeAt, Live, Master
  <2>3. Master(pm').root = root'
    BY <1>3 DEF Master
  <2> QED
    BY <2>1, <2>2, <2>3, <1>1, <1>5, <1>6, TreesNamed
<1>9. OnDisk!DiskCommit(fl, root', Live')
  BY <1>8 DEF OnDisk!DiskCommit, OnDisk!Abandoned
<1>10. OnDisk!DiskInv'
  BY <1>9, OnDisk!DiskCommitKeeps, PageLayoutAssumption, PageManagerAssumption
     DEF OnDisk!MasterHeaderSize, OnDisk!PointerSize, MasterHeaderSize, PointerSize
<1> QED
  BY <1>1, <1>3, <1>5, <1>7, <1>10

(* A barrier takes versions of the master page off the disk, and their     *)
(* trees.                                                                  *)
LEMMA BarrierOnDisk ==
  ASSUME OnDisk!DiskInv, UNCHANGED tree, NEW ps \in {AllPages, {0}},
         Flush(pm, ps) \/ FlushFailed(ps)
  PROVE  OnDisk!DiskInv' /\ NamedMaps' \subseteq NamedMaps
<1>1. pm' = pm /\ root' = root /\ freelist' = freelist /\ Live' = Live
  BY DEF tree, Live
<1>2. Master(pm) \in masters
  BY RootsOnDisk
<1>3. masters' \subseteq masters
  BY <1>2 DEF Flush, FlushFailed
<1>4. NamedMaps' \subseteq NamedMaps
  BY <1>1, <1>3 DEF NamedMaps
<1>5. ps \in {OnDisk!AllPages, {0}}
  BY DEF OnDisk!AllPages, OnDisk!PageNums, AllPages, PageNums
<1>6. CASE Flush(pm, ps)
  <2>1. CommittedTrees' = OnDisk!StillNamed
    <3>1. CommittedTrees' = {TreeAt(pm, version.root) : version \in {v \in masters' : v.root # 0}}
      BY <1>1 DEF CommittedTrees, TreeAt
    <3>2. \A r : TreeAt(pm, r).root = r
      BY DEF TreeAt
    <3>3. OnDisk!StillNamed = {t \in CommittedTrees : \E version \in masters' : version.root = t.root}
      BY DEF OnDisk!StillNamed
    <3> QED
      BY <3>1, <3>2, <3>3, <1>3, TreesNamed
  <2>2. OnDisk!Flush(pm, ps)
    BY <1>6 DEF OnDisk!Flush, OnDisk!Master, Flush, Master
  <2>3. OnDisk!BarrierPassed(ps)
    BY <2>1, <2>2, <1>1 DEF OnDisk!BarrierPassed, OnDisk!vars
  <2>4. OnDisk!DiskInv'
    BY <2>3, <1>5, OnDisk!BarrierKeeps, PageLayoutAssumption, PageManagerAssumption
       DEF OnDisk!MasterHeaderSize, OnDisk!PointerSize, MasterHeaderSize, PointerSize
  <2> QED
    BY <2>4, <1>4
<1>7. CASE FlushFailed(ps)
  <2>1. masters' = masters
    BY <1>7 DEF FlushFailed
  <2>2. CommittedTrees' = CommittedTrees
    BY <2>1, <1>1 DEF CommittedTrees
  <2>3. OnDisk!FlushFailed(ps)
    BY <1>7 DEF OnDisk!FlushFailed, FlushFailed
  <2>4. OnDisk!BarrierFailed(ps)
    BY <2>2, <2>3, <1>1 DEF OnDisk!BarrierFailed, OnDisk!vars
  <2>5. OnDisk!DiskInv'
    BY <2>4, <1>5, OnDisk!BarrierKeeps, PageLayoutAssumption, PageManagerAssumption
       DEF OnDisk!MasterHeaderSize, OnDisk!PointerSize, MasterHeaderSize, PointerSize
  <2> QED
    BY <2>5, <1>4
<1> QED
  BY <1>6, <1>7

(* A step that keeps the discipline of the disk.                           *)
LEMMA StepOnDisk ==
  ASSUME OnDisk!DiskInv, DiskStep
  PROVE  /\ OnDisk!DiskInv'
         /\ root' = root => NamedMaps' \subseteq NamedMaps
         /\ root' # root => /\ NamedMaps' \subseteq NamedMaps \cup {Stored(pm')}
                            /\ 0 \notin lost'
<1>1. CASE \E vs \in NodesWritten :
             vs \in Seq(Nodes) /\ Retired \in Seq(Nat) /\ OnDisk!WorkCached(vs, Retired)
  <2>1. PICK vs : vs \in Seq(Nodes) /\ Retired \in Seq(Nat) /\ OnDisk!WorkCached(vs, Retired)
    BY <1>1
  <2>2. PICK ps : ps = Retired
    OBVIOUS
  <2>3. OnDisk!DiskInv' /\ NamedMaps' \subseteq NamedMaps
    BY <2>1, <2>2, WorkOnDisk
  <2>4. root' = root
    BY <2>1 DEF OnDisk!WorkCached, OnDisk!Work, OnDisk!Persist
  <2> QED
    BY <2>3, <2>4
<1>2. CASE \E fl \in {freelist, Append(freelist, root)} : OnDisk!CommitForced(fl, root', Live')
  <2>1. PICK fl : OnDisk!CommitForced(fl, root', Live')
    BY <1>2
  <2>2. /\ OnDisk!DiskInv' /\ NamedMaps' \subseteq NamedMaps \cup {Stored(pm')}
        /\ root' # root /\ pm'.root # pm.root
    BY <2>1, CommitOnDisk
  <2>3. OnDisk!WriteCached(pm, pm')
    BY <2>1 DEF OnDisk!CommitForced
  <2>4. OnDisk!Master(pm') # OnDisk!Master(pm)
    BY <2>2 DEF OnDisk!Master
  <2>5. 0 \notin lost'
    BY <2>3, <2>4 DEF OnDisk!WriteCached, OnDisk!Written
  <2> QED
    BY <2>2, <2>5
<1>3. CASE /\ \E ps \in {AllPages, {0}} : Flush(pm, ps) \/ FlushFailed(ps)
           /\ UNCHANGED tree
  <2>1. OnDisk!DiskInv' /\ NamedMaps' \subseteq NamedMaps
    BY <1>3, BarrierOnDisk
  <2>2. root' = root
    BY <1>3 DEF tree
  <2> QED
    BY <2>1, <2>2
<1>4. CASE UNCHANGED <<tree, disk>>
  <2>1. /\ pm' = pm /\ root' = root /\ freelist' = freelist /\ Live' = Live
        /\ dirty' = dirty /\ lost' = lost /\ masters' = masters
    BY <1>4 DEF tree, disk, Live
  <2>2. CommittedTrees' = CommittedTrees
    BY <2>1 DEF CommittedTrees
  <2>3. UNCHANGED OnDisk!diskvars
    BY <2>1, <2>2 DEF OnDisk!diskvars, OnDisk!vars, OnDisk!disk
  <2>4. OnDisk!DiskInv'
    BY <2>3, OnDisk!DiskNextKeeps, PageLayoutAssumption, PageManagerAssumption
       DEF OnDisk!MasterHeaderSize, OnDisk!PointerSize, MasterHeaderSize, PointerSize
  <2>5. NamedMaps' = NamedMaps
    BY <2>1 DEF NamedMaps
  <2> QED
    BY <2>1, <2>4, <2>5
<1> QED
  BY <1>1, <1>2, <1>3, <1>4 DEF DiskStep

(* A new store.                                                            *)
LEMMA StartsOnDisk ==
  ASSUME StoreInit, OnDisk!InitWith(NewNode)
  PROVE  OnDisk!DiskInv /\ NamedMaps \subseteq promised
<1>1. /\ dirty = {} /\ lost = {} /\ masters = {Master(pm)} /\ promised = {Stored(pm)}
  BY DEF StoreInit, CleanDisk
<1>2. NewNode \in Nodes
  BY DEF Nodes, NewNode
<1>3. OnDisk!Init
  BY <1>2 DEF OnDisk!Init
<1>4. pm.root = 0
  BY <1>3, OnDisk!InitIInv, PageLayoutAssumption, PageManagerAssumption
     DEF OnDisk!MasterHeaderSize, OnDisk!PointerSize, MasterHeaderSize, PointerSize
<1>5. CommittedTrees = {}
  BY <1>1, <1>4 DEF CommittedTrees, Master
<1>6. OnDisk!DiskInitWith(NewNode)
  BY <1>1, <1>5 DEF OnDisk!DiskInitWith, OnDisk!CleanDisk, OnDisk!Master, Master, OnDisk!NoView
<1>7. OnDisk!DiskInv
  BY <1>2, <1>6, OnDisk!DiskInitInv, PageLayoutAssumption, PageManagerAssumption
     DEF OnDisk!DiskInit, OnDisk!MasterHeaderSize, OnDisk!PointerSize, MasterHeaderSize, PointerSize
<1>8. NamedMaps \subseteq promised
  BY <1>1 DEF NamedMaps, MapAt, Stored, Master
<1> QED
  BY <1>7, <1>8

(* A call is answered with nil by its second barrier, and by it alone.     *)
LEMMA NilByBarrier ==
  ASSUME Serve, Barrier, pc \in Working => outcome = "pending", outcome' = NoError
  PROVE  pc = "barrier" /\ UNCHANGED tree
<1>1. Fsync \/ Barrier2
  <2>1. StartInsert \/ StartDelete => pc = "start"
    BY Zenon DEF StartInsert, StartDelete
  <2>2. InsertIntoInternal \/ InsertIntoLeaf => pc = "insert"
    BY Zenon DEF InsertIntoInternal, InsertIntoLeaf
  <2>3. DeleteFromInternal \/ DeleteKeyFromInternal \/ DeleteFromLeaf => pc = "delete"
    BY Zenon DEF DeleteFromInternal, DeleteKeyFromInternal, DeleteFromLeaf
  <2>4. PropagateUp \/ Finish => pc = "return"
    BY Zenon DEF PropagateUp, Finish
  <2>5. NextRequest => pc = "next"
    BY Zenon DEF NextRequest
  <2>6. Commit => pc \in {"commit", "commitUnsynced"}
    BY Zenon DEF Commit
  <2> QED
    BY <2>1, <2>2, <2>3, <2>4, <2>5, <2>6 DEF Serve, Barrier
<1>2. Fsync => pc = "fsync" /\ (outcome' = outcome \/ outcome' = SyncError)
  BY Zenon DEF Fsync, Reply, Same
<1>3. Barrier2 => (pc = "barrier" \/ outcome' = SyncError) /\ UNCHANGED tree
  BY Zenon DEF Barrier2, Reply
<1>4. SyncError # NoError /\ NoError # "pending"
  BY DEF SyncError, NoError
<1> QED
  BY <1>1, <1>2, <1>3, <1>4 DEF Working

(* Inductive: as long as none of the trees on the disk misses a page, each *)
(* version of the master page leads to a map that was promised, and the    *)
(* process that opens the file finds one.                                  *)
Durable ==
  /\ pc \in Working => outcome = "pending"
  /\ reopened # << >> => pc = "broken" /\ Recoverable
  /\ promised # {} /\ reopened = << >> =>
       OnDisk!DiskInv /\ NamedMaps \subseteq promised /\ (pc = "barrier" => 0 \notin lost)

(* The hypothesis on a step.                                               *)
KeepsDiscipline == promised' # {} => DiskStep /\ (Applied => root' # root)

(* An operation that still works has not reported an outcome.              *)
LEMMA WorkingPends ==
  ASSUME pc \in Working => outcome = "pending", Invoke \/ Serve
  PROVE  pc' \in Working => outcome' = "pending"
<1>1. CASE Invoke
  BY <1>1, Zenon DEF Invoke
<1>2. CASE pc \in Working /\ Steady
  BY <1>2 DEF Steady, Working
<1>3. CASE Commit
  <2>1. pc' \in {"broken", "barrier", "barrierUnsynced"}
    BY <1>3, Zenon DEF Commit, Break
  <2> QED
    BY <2>1 DEF Working
<1>4. CASE pc' = "idle"
  BY <1>4 DEF Working
<1> QED
  BY <1>1, <1>2, <1>3, <1>4, ServeServes DEF Served

(* A step of the server keeps what a crash would find: the mapped and the  *)
(* stored pages of a committed root hold the map that was promised.        *)
LEMMA ServeKeepsDurable ==
  ASSUME Durable, Invoke \/ Serve, Cached, KeepsDiscipline, promised' # {}
  PROVE  /\ promised # {} /\ reopened' = << >> /\ reopened = << >>
         /\ OnDisk!DiskInv' /\ NamedMaps' \subseteq promised' /\ (pc' = "barrier" => 0 \notin lost')
<1>1. pc # "broken"
  BY ServeServes, Zenon DEF Invoke, Served, Working
<1>2. /\ reopened = << >> /\ reopened' = << >> /\ promised # {}
      /\ Barrier /\ outcome' = NoError => promised' = {Stored(pm')}
      /\ ~(Barrier /\ outcome' = NoError) => promised \subseteq promised'
      /\ ~Barrier /\ Applied => Stored(pm') \in promised'
  <2>1. reopened = << >> /\ reopened' = << >>
    BY <1>1 DEF Cached, Durable
  <2> DEFINE nil   == Barrier /\ outcome' = NoError
             whole == Whole /\ promised # {}
  <2>2. promised' = CASE nil -> IF promised = {} THEN {} ELSE {Stored(pm')}
                      [] Applied -> IF whole THEN promised \cup {Stored(pm')} ELSE {}
                      [] OTHER -> promised
    BY Zenon DEF Cached
  <2>3. ~(nil /\ Applied)
    BY DEF Applied, NoError
  <2> HIDE DEF nil, whole
  <2>4. CASE nil
    <3>1. promised' = IF promised = {} THEN {} ELSE {Stored(pm')}
      BY <2>2, <2>3, <2>4
    <3> QED
      BY <3>1, <2>1, <2>4 DEF nil
  <2>5. CASE ~nil /\ Applied
    <3>1. promised' = IF whole THEN promised \cup {Stored(pm')} ELSE {}
      BY <2>2, <2>5
    <3> QED
      BY <3>1, <2>1, <2>5 DEF nil, whole
  <2>6. CASE ~nil /\ ~Applied
    <3>1. promised' = promised
      BY <2>2, <2>6
    <3> QED
      BY <3>1, <2>1, <2>6 DEF nil
  <2> QED
    BY <2>4, <2>5, <2>6
<1>3. /\ OnDisk!DiskInv /\ NamedMaps \subseteq promised /\ (pc = "barrier" => 0 \notin lost)
      /\ pc \in Working => outcome = "pending"
  BY <1>2 DEF Durable
<1>4. /\ OnDisk!DiskInv'
      /\ root' = root => NamedMaps' \subseteq NamedMaps
      /\ root' # root => /\ NamedMaps' \subseteq NamedMaps \cup {Stored(pm')}
                         /\ 0 \notin lost'
      /\ Applied => root' # root
  BY <1>3, StepOnDisk DEF KeepsDiscipline
<1>5. /\ root' # root => ~Barrier /\ Applied
      /\ pc' = "barrier" => Applied
  <2>1. CASE Invoke
    <3>1. root' = root /\ pc' = "start"
      BY <2>1, Zenon DEF Invoke, tree
    <3> QED
      BY <3>1
  <2>2. CASE pc \in Working /\ Steady
    BY <2>2 DEF Steady
  <2>3. CASE pc \in {"commit", "commitUnsynced"} /\ Commit
    <3>1. (UNCHANGED tree /\ pc' = "broken") \/ outcome' = "applied"
      BY <2>3, Zenon DEF Commit, Break
    <3>2. outcome = "pending"
      BY <2>3, <1>3 DEF Working
    <3> QED
      BY <3>1, <3>2, <2>3 DEF Applied, Barrier, tree
  <2>4. CASE pc' = "idle" /\ UNCHANGED tree
    BY <2>4 DEF tree
  <2> QED
    BY <2>1, <2>2, <2>3, <2>4, ServeServes DEF Served
<1>6. NamedMaps' \subseteq promised'
  <2>1. CASE Barrier /\ outcome' = NoError
    <3>1. Serve
      BY <2>1 DEF Invoke, Barrier
    <3>2. pc = "barrier" /\ UNCHANGED tree
      BY <3>1, <2>1, <1>3, NilByBarrier
    <3>3. Flush(pm, Synced)
      BY <2>1 DEF Cached, Passed
    <3>4. masters' = {Master(pm)} /\ pm' = pm
      BY <3>2, <3>3, <1>3 DEF Flush, tree
    <3>5. NamedMaps' = {Stored(pm')}
      BY <3>4 DEF NamedMaps, MapAt, Stored, Master
    <3> QED
      BY <3>5, <2>1, <1>2
  <2>2. CASE ~(Barrier /\ outcome' = NoError)
    BY <2>2, <1>2, <1>3, <1>4, <1>5
  <2> QED
    BY <2>1, <2>2
<1> QED
  BY <1>2, <1>4, <1>5, <1>6

(* What a new process finds in the file is what CowDisk says it finds.     *)
LEMMA ReopenedOnDisk ==
  ASSUME Platform = "linux", OnDisk!DiskInv, NEW version \in masters
  PROVE  OnDisk!Leads(version,
           LoadOrCreateRoot(NewPageManager(LeftBy(pm, version, [p \in PageNums |-> Garbage]))).pm)
<1> DEFINE junk == [p \in OnDisk!PageNums \cap (dirty \cup lost) |-> Garbage]
           all  == [p \in PageNums |-> Garbage]
<1>1. Garbage \in Nodes
  <2>1. NewNode \in Nodes
    BY DEF NewNode, Nodes
  <2>2. \A n \in Nodes : [n EXCEPT !.ok = FALSE] \in Nodes
    BY DEF Nodes
  <2> QED
    BY <2>1, <2>2 DEF Garbage
<1>2. junk \in [OnDisk!PageNums \cap (dirty \cup lost) -> Nodes]
  BY <1>1
<1>3. OnDisk!PageNums = PageNums
  BY DEF OnDisk!PageNums, PageNums
<1>4. [p \in PageNums |-> IF p \in dirty \cup lost THEN junk[p] ELSE pm.page[p]]
        = [p \in PageNums |-> IF p \in dirty \cup lost THEN all[p] ELSE pm.page[p]]
  BY <1>3
<1> HIDE DEF junk, all
<1>5. OnDisk!LeftBy(pm, version, junk) = LeftBy(pm, version, all)
  BY <1>3, <1>4, Zenon DEF OnDisk!LeftBy, LeftBy
<1>6. OnDisk!NewPageManager(LeftBy(pm, version, all)) = NewPageManager(LeftBy(pm, version, all))
  BY Zenon DEF OnDisk!NewPageManager, NewPageManager
<1>7. OnDisk!Reopened(version, junk) = LoadOrCreateRoot(NewPageManager(LeftBy(pm, version, all)))
  BY <1>5, <1>6, OnDiskOpens DEF OnDisk!Reopened
<1>8. OnDisk!Leads(version, OnDisk!Reopened(version, junk).pm)
  BY <1>2, OnDisk!DiskInvLeads, PageLayoutAssumption, PageManagerAssumption
     DEF OnDisk!MasterHeaderSize, OnDisk!PointerSize, MasterHeaderSize, PointerSize
<1> QED
  BY <1>7, <1>8 DEF all

(* And that is a map that was promised, none of its pages being free.      *)
LEMMA CrashRecovers ==
  ASSUME Platform = "linux", Durable, CrashAndReopen
  PROVE  Recoverable'
<1>1. PICK version \in masters :
        /\ reopened = << >> /\ promised' = promised
        /\ reopened' = <<LoadOrCreateRoot(NewPageManager(
                           LeftBy(pm, version, [p \in PageNums |-> Garbage])))>>
  BY Zenon DEF CrashAndReopen
<1>2. SUFFICES ASSUME promised # {}, NEW n,
                      n = LoadOrCreateRoot(NewPageManager(
                            LeftBy(pm, version, [p \in PageNums |-> Garbage]))).pm
               PROVE  /\ Stored(n) \in promised
                      /\ n.root # 0 => ToSet(n.free) \cap Reach(n, n.root) = {}
  <2> DEFINE found == LoadOrCreateRoot(NewPageManager(
                        LeftBy(pm, version, [p \in PageNums |-> Garbage])))
  <2> HIDE DEF found
  <2>1. reopened' = <<found>> /\ promised' = promised
    BY <1>1 DEF found
  <2>2. ToSet(reopened') = {found}
    BY <2>1 DEF ToSet
  <2>3. promised # {} =>
          /\ Stored(found.pm) \in promised
          /\ found.pm.root # 0 => ToSet(found.pm.free) \cap Reach(found.pm, found.pm.root) = {}
    BY <1>2 DEF found
  <2> QED
    BY <2>1, <2>2, <2>3 DEF Recoverable, Stored
<1>3. OnDisk!DiskInv /\ NamedMaps \subseteq promised
  BY <1>1, <1>2 DEF Durable
<1>4. n.root = version.root /\ (version.root # 0 => \E t \in CommittedTrees : OnDisk!Holds(n, t))
  BY <1>2, <1>3, ReopenedOnDisk DEF OnDisk!Leads
<1>5. MapAt(pm, version.root) \in promised
  BY <1>3 DEF NamedMaps
<1>6. CASE version.root = 0
  BY <1>4, <1>5, <1>6 DEF Stored, MapAt
<1>7. CASE version.root # 0
  <2>1. PICK t \in CommittedTrees : OnDisk!Holds(n, t)
    BY <1>4, <1>7
  <2>2. t.root = n.root /\ t.root \in PageNums
    BY <2>1, <1>3, <1>4, <1>7, RootsOnDisk DEF OnDisk!Holds
  <2>3. t = TreeAt(pm, t.root)
    <3>1. PICK v \in masters : t = TreeAt(pm, v.root)
      BY <2>1, TreesNamed
    <3> QED
      BY <3>1 DEF TreeAt
  <2>4. t.image = [p \in Reach(pm, t.root) |-> pm.page[p]]
    <3>1. PICK r : r = t.root
      OBVIOUS
    <3>2. t = [root |-> r, image |-> [p \in Reach(pm, r) |-> pm.page[p]]]
      BY <2>3, <3>1 DEF TreeAt
    <3> QED
      BY <3>1, <3>2
  <2>5. \A p \in Reach(pm, t.root) :
          n.page[p] = pm.page[p] /\ p \notin OnDisk!Range(n.free)
    BY <2>1, <2>4 DEF OnDisk!Holds
  <2>6. Reach(n, t.root) = Reach(pm, t.root) /\ Contents(n, t.root) = Contents(pm, t.root)
    BY <2>2, <2>5, ReachSame
  <2>7. Stored(n) = MapAt(pm, version.root)
    BY <2>2, <2>6, <1>4, <1>7 DEF Stored, MapAt
  <2>8. ToSet(n.free) \cap Reach(n, n.root) = {}
    BY <2>2, <2>5, <2>6 DEF ToSet, OnDisk!Range
  <2> QED
    BY <2>7, <2>8, <1>5
<1> QED
  BY <1>6, <1>7

(* Every step keeps what is durable.                                       *)
LEMMA StoreNextDurable ==
  ASSUME Platform = "linux", Durable, [StoreNext]_allvars,
         [KeepsDiscipline]_<<tree, disk, outcome>>
  PROVE  Durable'
<1>1. ASSUME UNCHANGED <<tree, disk, promised, reopened>>,
             pc' \in Working => outcome' = "pending",
             reopened # << >> => pc' = "broken", pc' # "broken" => pc' = pc
      PROVE  Durable'
  <2>1. /\ pm' = pm /\ root' = root /\ freelist' = freelist /\ Live' = Live
        /\ dirty' = dirty /\ lost' = lost /\ masters' = masters
        /\ promised' = promised /\ reopened' = reopened
    BY <1>1 DEF tree, disk, Live
  <2>2. Recoverable => Recoverable'
    BY <2>1 DEF Recoverable
  <2>3. OnDisk!DiskInv => OnDisk!DiskInv' /\ NamedMaps' = NamedMaps
    <3>1. DiskStep
      BY <1>1 DEF DiskStep
    <3>2. NamedMaps' = NamedMaps
      BY <2>1 DEF NamedMaps
    <3> QED
      BY <3>1, <3>2, StepOnDisk
  <2> QED
    BY <1>1, <2>1, <2>2, <2>3 DEF Durable
<1>2. CASE (Invoke \/ Serve) /\ Cached
  <2>1. pc' \in Working => outcome' = "pending"
    BY <1>2, WorkingPends DEF Durable
  <2>2. pc # "broken" /\ reopened' = reopened
    BY <1>2, ServeServes, Zenon DEF Invoke, Served, Working, Cached
  <2>3. CASE KeepsDiscipline
    BY <1>2, <2>1, <2>2, <2>3, ServeKeepsDurable DEF Durable
  <2>4. CASE UNCHANGED <<tree, disk, outcome>>
    <3>1. KeepsDiscipline
      BY <2>4 DEF KeepsDiscipline, DiskStep, Applied
    <3> QED
      BY <2>3, <3>1
  <2> QED
    BY <2>3, <2>4
<1>3. CASE \E r \in Reader : (SearchBegin(r) \/ Read(r)) /\ UNCHANGED cache
  <2>1. PICK r \in Reader : SearchBegin(r) \/ Read(r)
    BY <1>3, Zenon
  <2>2. pc # "broken"
    BY <2>1, Zenon DEF SearchBegin, Read, ReadSlice, ReadCopy, Fault
  <2>3. UNCHANGED vars \/ Break
    BY <2>1, Zenon DEF SearchBegin, Read, ReadSlice, ReadCopy, Fault
  <2>4. UNCHANGED <<disk, promised, reopened>>
    BY <1>3 DEF cache
  <2>5. CASE UNCHANGED vars
    <3>1. UNCHANGED tree /\ pc' = pc /\ outcome' = outcome
      BY <2>5 DEF vars
    <3> QED
      BY <3>1, <2>2, <2>4, <1>1 DEF Durable
  <2>6. CASE Break
    <3>1. UNCHANGED tree /\ pc' = "broken"
      BY <2>6, Zenon DEF Break
    <3> QED
      BY <3>1, <2>4, <1>1 DEF Working
  <2> QED
    BY <2>3, <2>5, <2>6
<1>4. CASE CrashAndReopen
  <2>1. pc' = "broken" /\ reopened' # << >>
    <3>1. pc' = "broken" /\ \E m : reopened' = <<m>>
      BY <1>4, Zenon DEF CrashAndReopen
    <3> QED
      BY <3>1
  <2> QED
    BY <1>4, <2>1, CrashRecovers DEF Durable, Working
<1>5. CASE (Stopped /\ UNCHANGED <<reading, cache>>) \/ UNCHANGED allvars
  <2>1. UNCHANGED vars /\ UNCHANGED cache
    BY <1>5 DEF Stopped, allvars
  <2>2. UNCHANGED tree /\ pc' = pc /\ outcome' = outcome /\ UNCHANGED <<disk, promised, reopened>>
    BY <2>1 DEF vars, cache
  <2> QED
    BY <2>2, <1>1 DEF Durable
<1> QED
  BY <1>2, <1>3, <1>4, <1>5 DEF StoreNext

(* On Linux, as long as the store keeps the discipline of CowDisk: a crash *)
(* at any moment leaves a file that opens to a map the store has promised, *)
(* that before or after the call in progress, and once a call is answered  *)
(* with nil, that after it; and none of its pages is free (the barriers of *)
(* Insert, Delete and BatchInsert around HandleMasterPage).                *)
THEOREM CrashLeavesPromisedMap ==
  ASSUME Platform = "linux"
  PROVE  StoreSpec /\ DiskImplemented => []Recoverable
<1>1. StoreInit /\ OnDisk!InitWith(NewNode) => Durable
  <2> SUFFICES ASSUME StoreInit, OnDisk!InitWith(NewNode) PROVE Durable
    OBVIOUS
  <2>1. pc = "idle" /\ reopened = << >>
    BY DEF StoreInit, Init
  <2>2. OnDisk!DiskInv /\ NamedMaps \subseteq promised
    BY StartsOnDisk
  <2> QED
    BY <2>1, <2>2 DEF Durable, Working
<1>2. Durable /\ [StoreNext]_allvars /\ [KeepsDiscipline]_<<tree, disk, outcome>> => Durable'
  BY StoreNextDurable
<1>3. Durable => Recoverable
  BY DEF Durable, Recoverable, ToSet
<1> QED
  BY <1>1, <1>2, <1>3, PTL DEF StoreSpec, DiskImplemented, KeepsDiscipline
=============================================================================

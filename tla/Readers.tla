------------------------------ MODULE Readers -------------------------------
(***************************************************************************)
(* Search beside the writer: it runs in the goroutines of its callers and  *)
(* takes no lock.  It reads BTree.root once, and then one page per level:  *)
(* Read slices the mapping and copies the page out of the slice, and both  *)
(* the tree and the mapping may move on between any two of these steps.    *)
(*                                                                         *)
(* A copy is taken in one step.  A page that is written while it is copied *)
(* has been given away, and of those nothing is claimed (see Outrun).      *)
(***************************************************************************)
EXTENDS BTree

CONSTANTS
  Reader,
  Wanted   \* keys the readers look for

ASSUME ReadersAssumption == Wanted \subseteq Key

VARIABLES
  reading   \* reading[r]: the state of a reader's Search
           \*   pc      "idle", "slice", "copy", "done"
           \*   key     looked for
           \*   page    to be read next
           \*   mapped  the mapping its slice was taken from, by its length
           \*   result  what it has returned
           \*   expect  history: what the tree of its root held under key
           \*   age     history: commits since then, as far as they matter

NoSearch == [pc |-> "idle", key |-> 0, page |-> 0, mapped |-> 0,
             result |-> NotFound, expect |-> NotFound, age |-> "current"]

NoSearches == [r \in Reader |-> NoSearch]

Lookup(map, k) == IF k \in DOMAIN map THEN <<k, map[k]>> ELSE NotFound

SearchBegin(r) ==
  /\ reading[r].pc = "idle" /\ pc # "broken"
  /\ \E k \in Wanted :
       reading' = [reading EXCEPT ![r] =
         [NoSearch EXCEPT !.pc = "slice", !.key = k, !.page = root,
                          !.expect = Lookup(Contents(pm, root), k)]]
  /\ UNCHANGED vars

(* A slice of the mapping; out of its bounds it panics.                    *)
ReadSlice(r) ==
  /\ reading[r].pc = "slice" /\ pc # "broken"
  /\ IF InBounds(pm, reading[r].page)
     THEN reading' = [reading EXCEPT ![r].pc = "copy", ![r].mapped = pm.mapped] /\ UNCHANGED vars
     ELSE Break /\ UNCHANGED reading

(* Deviation: the search goes on from the page it has just read.           *)
VisitStays(s, n) ==
  IF n.type = "internal" /\ ~ContainsKey(n, s.key) THEN [s EXCEPT !.pc = "slice"]
  ELSE [s EXCEPT !.pc = "done",
                 !.result = IF ContainsKey(n, s.key) THEN GetKV(n, FindIndex(n, s.key)) ELSE @]

(* The level above n: the pair is here, or nowhere, or further down.       *)
Visit(s, n) ==
  LET i == FindIndex(n, s.key)
  IN CASE ContainsKey(n, s.key) ->
            [s EXCEPT !.pc = "done", !.result = GetKV(n, i)]
       [] ~ContainsKey(n, s.key) /\ n.type = "leaf" -> [s EXCEPT !.pc = "done"]
       [] OTHER -> [s EXCEPT !.pc = "slice", !.page = GetPtr(n, i)]

(* The slice is good for the file whatever has become of mmapData.         *)
Sliced(p) == IF Slot(p) = 0 THEN Garbage ELSE pm.page[Slot(p)]

ReadCopy(r) ==
  /\ reading[r].pc = "copy" /\ pc # "broken"
  /\ reading' = [reading EXCEPT ![r] = Visit(@, Sliced(reading[r].page))]
  /\ UNCHANGED vars

(* extendMmap may move the mapping, or unmaps it first; the slice points   *)
(* into the old one, and copying from it ends the process.                 *)
Fault(r) ==
  /\ reading[r].pc = "copy" /\ pc # "broken" /\ reading[r].mapped # pm.mapped
  /\ Break /\ UNCHANGED reading

Read(r) == ReadSlice(r) \/ ReadCopy(r) \/ Fault(r)

-----------------------------------------------------------------------------
(* History.  A commit makes the tree a search reads an old one, and the    *)
(* call after it may be given its pages.                                   *)
Aged(age) ==
  CASE age = "current" /\ outcome # "applied" /\ outcome' = "applied" -> "old"
    [] age = "old" /\ pc = "idle" /\ pc' = "start"                   -> "outrun"
    [] OTHER                                                         -> age

Ageing ==
  reading' = [r \in Reader |->
               IF reading[r].pc \in {"slice", "copy"}
               THEN [reading[r] EXCEPT !.age = Aged(@)] ELSE reading[r]]

(* A search that no second call has started to outrun returns what the     *)
(* tree it began with held, whatever is persisted, committed and retired   *)
(* under it: the pages of a commit stay as they are for one more call.     *)
SnapshotRead ==
  \A r \in Reader :
    reading[r].pc = "done" /\ reading[r].age # "outrun" => reading[r].result = reading[r].expect

(* Every search returns, an outrun one too: the stale pointers it follows  *)
(* lead to a leaf in the end.                                              *)
SearchReturns ==
  \A r \in Reader :
    reading[r].pc = "slice" ~> reading[r].pc = "done" \/ pc = "broken"
=============================================================================

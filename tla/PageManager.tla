---------------------------- MODULE PageManager -----------------------------
(***************************************************************************)
(* Package pagemanager: pages of one memory-mapped file, handed out from   *)
(* the free list of the master page (page 0) or from the preallocated tail *)
(* of the file.                                                            *)
(*                                                                         *)
(* A page manager is one record, so that a caller can thread it through    *)
(* the calls of one operation:                                             *)
(*   cur, end   currentPageNum and endPageNum, lost when the process ends  *)
(*   mapped     pages of mmapData; 0 is the nil slice                      *)
(*   flen       length of the file in pages                                *)
(*   root, free the master page: root page number, free page numbers       *)
(*   page       content of the other pages, as the mapping shows it        *)
(*                                                                         *)
(* A call returns [pm |-> ..., page |-> ..., err |-> ...].                 *)
(***************************************************************************)
EXTENDS PageLayout

CONSTANTS
  PreAllocatePageNum,  \* pages added when the file is extended (80)
  DiskPages,           \* pages the file system has room for
  MapPages,            \* pages the address space has room for
  AddrPages,           \* pages a uint32 byte offset can address (2^20)
  Platform             \* which page_manager_*.go is built

ASSUME PageManagerAssumption ==
  /\ PreAllocatePageNum \in Nat \ {0, 1}
  /\ DiskPages \in Nat \ {0}
  /\ MapPages \in Nat
  /\ AddrPages \in Nat /\ AddrPages > 2
  /\ Platform \in {"linux", "darwin"}

NoError  == "nil"
NoSpace  == "no space"        \* fallocate or ftruncate failed
NoMap    == "no mapping"      \* mmap or mremap failed
Panicked == "panic"           \* a slice expression out of bounds
Clobber  == "master clobbered" \* a node is written over the master page

PageNums == 1 .. DiskPages - 1
Larger(a, b) == IF a >= b THEN a ELSE b
Failed(pm, err) == [pm |-> pm, page |-> 0, err |-> err]

(* A file that does not exist yet: os.O_CREATE makes it empty. *)
NewFile(zero) ==
  [cur |-> 0, end |-> 0, mapped |-> 0, flen |-> 0,
   root |-> 0, free |-> << >>, page |-> [p \in PageNums |-> zero]]

(* A page manager for a file that may exist: both counters start at zero. *)
NewPageManager(file) == [file EXCEPT !.cur = 0, !.end = 0, !.mapped = 0]

(* pageNum * maxPageSize is computed in 32 bits, and so is the end of the  *)
(* slice: the last addressable page has end 0 and its slice panics.        *)
Slot(p) == p % AddrPages

(* Deviation: only the start of the slice is looked at.                    *)
InBoundsLoose(pm, p) == Slot(p) < pm.mapped

InBounds(pm, p) == Slot(p) + 1 < AddrPages /\ Slot(p) < pm.mapped

(* "edge case meaning the engine is attempting to read the master" *)
ReadsEOF(pm, p) == pm.end = 0 /\ p = 0

(* Deviation: the page number goes into the page instead of the buffer.    *)
WriteNumber(pm, p, v) ==
  [pm |-> [pm EXCEPT !.page[Slot(p)] = p], page |-> p, err |-> NoError]

Write(pm, p, v) ==
  IF ~InBounds(pm, p) THEN Failed(pm, Panicked)
  ELSE IF Slot(p) = 0 THEN Failed(pm, Clobber)
  ELSE [pm |-> [pm EXCEPT !.page[Slot(p)] = v], page |-> p, err |-> NoError]

(* Deviation: the page handed out stays on the free list.                  *)
AllocateWithoutRemoval(pm) == [pm |-> pm, page |-> Head(pm.free), err |-> NoError]

AllocateViaFreeList(pm) ==
  [pm |-> [pm EXCEPT !.free = Tail(@)], page |-> Head(pm.free), err |-> NoError]

NextPage(pm) ==
  [pm |-> [pm EXCEPT !.cur = @ + 1], page |-> pm.cur, err |-> NoError]

(* Length of the file after the extension.  fallocate only grows a file,   *)
(* from the cursor on.  ftruncate sets its length, counted from end, which *)
(* is the length of the file in all but a process that has just opened an  *)
(* existing one: that file is cut.                                         *)
Fallocated(pm) == Larger(pm.flen, Slot(pm.cur) + PreAllocatePageNum)
Ftruncated(pm) == Slot(pm.end) + PreAllocatePageNum

ExtendedLength(pm) == IF Platform = "linux" THEN Fallocated(pm) ELSE Ftruncated(pm)

(* Deviation: after the extension pages are handed out from the first on.  *)
ExtendFileRestarts(pm) ==
  IF ExtendedLength(pm) > DiskPages THEN Failed(pm, NoSpace)
  ELSE NextPage([pm EXCEPT !.flen = ExtendedLength(pm), !.mapped = ExtendedLength(pm),
                           !.end = @ + PreAllocatePageNum, !.cur = IF @ > 0 THEN 1 ELSE 0])

(* The mapping always covers the whole file.  When mapping fails mmapData  *)
(* has already been overwritten with nil.                                  *)
ExtendFile(pm) ==
  LET len == ExtendedLength(pm)
  IN CASE len > DiskPages -> Failed(pm, NoSpace)
       [] len <= DiskPages /\ len > MapPages ->
            Failed([pm EXCEPT !.flen = len, !.mapped = 0], NoMap)
       [] OTHER ->
            NextPage([pm EXCEPT !.flen = len, !.mapped = len,
                                !.end = @ + PreAllocatePageNum])

Allocate(pm) ==
  CASE pm.end # 0 /\ ~InBounds(pm, 0)  -> Failed(pm, Panicked)
    [] pm.end # 0 /\ InBounds(pm, 0) /\ pm.free # << >> -> AllocateViaFreeList(pm)
    [] pm.end # 0 /\ InBounds(pm, 0) /\ pm.free = << >> /\ pm.cur < pm.end
         -> NextPage(pm)
    [] OTHER -> ExtendFile(pm)

=============================================================================

-------------------------------- MODULE Disk ----------------------------------
(***************************************************************************)
(* What the kernel does with the pages of the mapped file: it may write a  *)
(* changed page to the disk at any time, and must have written it when a   *)
(* barrier (fsync, msync) that covers it answers nil.  The operators take  *)
(* the page manager before and after a step.                               *)
(***************************************************************************)
EXTENDS MasterPage

VARIABLES
  dirty,    \* pages written since the last barrier that covered them
  lost,     \* pages a barrier has failed for, and not written since: the
            \* kernel counts them as clean, and no later barrier writes them
  masters   \* versions of the master page the disk may hold

disk == <<dirty, lost, masters>>

(* The file as far as one master page on the disk leads to it.             *)
Master(m) == [root |-> m.root, free |-> m.free]

AllPages == PageNums \cup {0}

(* Nothing is cached of a file that has just been made.                    *)
CleanDisk(m) == dirty = {} /\ lost = {} /\ masters = {Master(m)}

(* The pages a step of the writer has written; 0 is the master page.       *)
Written(m, n) ==
  {p \in PageNums : n.page[p] # m.page[p]} \cup IF Master(n) # Master(m) THEN {0} ELSE {}

WriteCached(m, n) ==
  /\ dirty' = dirty \cup Written(m, n)
  /\ lost' = lost \ Written(m, n)
  /\ masters' = masters \cup {Master(n)}

(* Pages ps, the master page among them, reach the disk, unless they count *)
(* as clean.                                                               *)
Flush(m, ps) ==
  /\ dirty' = dirty \ ps
  /\ masters' = IF 0 \in lost THEN masters ELSE {Master(m)}
  /\ UNCHANGED lost

FlushFailed(ps) ==
  /\ dirty' = dirty \ ps
  /\ lost' = lost \cup (dirty \cap ps)
  /\ UNCHANGED masters

(* Whichever version of the master page the disk holds, it names the root  *)
(* of m.                                                                   *)
Settled(m) == \A version \in masters : version.root = m.root

(* The file a crash leaves behind: a page that was not forced out holds    *)
(* anything.                                                               *)
LeftBy(m, version, junk) ==
  [m EXCEPT !.root = version.root, !.free = version.free,
            !.page = [p \in PageNums |-> IF p \in dirty \cup lost THEN junk[p] ELSE @[p]]]

=============================================================================

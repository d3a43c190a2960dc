--------------------------- MODULE CowStoreProofs ---------------------------
(***************************************************************************)
(* For every page size, disk size and page content: under the discipline   *)
(* of CowStore no page is on the free lists twice, Allocate gives away no  *)
(* page of the committed tree, and no such page is overwritten.            *)
(***************************************************************************)
EXTENDS CowStore, ListLemmas

(* The file reaches as far as pages are handed out.                        *)
FileCovers(m) == m.cur <= m.end /\ m.end <= m.flen /\ m.flen <= DiskPages

(* The page manager between two operations of a process that has not       *)
(* panicked: its cursor is within reach of a 32-bit offset, and the free   *)
(* list holds pages already handed out, each once.                         *)
WellFormed(m) ==
  /\ m \in PageManagers
  /\ m.cur >= 2 /\ m.cur < AddrPages /\ m.end # 0
  /\ FileCovers(m)
  /\ Range(m.free) \subseteq 1 .. m.cur - 1
  /\ IsInjective(m.free)

(* n is m after some allocations: free pages and pages beyond the cursor   *)
(* are the only ones that may have been given away and written.            *)
Evolves(m, n) ==
  /\ WellFormed(n)
  /\ n.root = m.root
  /\ n.cur >= m.cur
  /\ Range(n.free) \subseteq Range(m.free)
  /\ \A p \in (1 .. m.cur - 1) \ Range(m.free) : n.page[p] = m.page[p]

(* CowStore's safety invariants follow from this inductive one: besides    *)
(* them it says that what is on the in-memory free list has been handed    *)
(* out, so that no fresh page can be on it.                                *)
IInv ==
  /\ WellFormed(pm)
  /\ TypeOK
  /\ Range(freelist) \subseteq 1 .. pm.cur - 1
  /\ NoDoubleFree
  /\ LiveNotAllocatable
  /\ MasterNamesLiveRoot

-----------------------------------------------------------------------------
(* A page manager n that an allocation can leave behind when it answers    *)
(* err, or a page of the free list, which leaves the list, or the page at  *)
(* the cursor, which moves on.  No page is written.                        *)
Gives(m, n, page, err) ==
  /\ n \in PageManagers /\ n.end # 0 /\ FileCovers(n)
  /\ n.root = m.root /\ n.page = m.page
  /\ Range(n.free) \subseteq Range(m.free) /\ IsInjective(n.free)
  /\ \/ err # NoError /\ n.cur = m.cur
     \/ /\ err = NoError /\ n.cur = m.cur /\ page \in Nat
        /\ page \in Range(m.free) \ Range(n.free)
     \/ err = NoError /\ n.cur = m.cur + 1 /\ page = m.cur

(* A page manager whose file is unmapped, and one whose file has grown.    *)
Unmapped(m, f) == [m EXCEPT !.flen = f, !.mapped = 0]
Grown(m, f, e) == [m EXCEPT !.flen = f, !.mapped = f, !.end = e]

(* n is m but for its file: f pages, of which e can be handed out.         *)
OtherFile(m, n, f, e) ==
  /\ n \in PageManagers /\ n.cur = m.cur /\ n.flen = f /\ n.end = e
  /\ n.root = m.root /\ n.free = m.free /\ n.page = m.page

(* Neither touches the cursor, the free list or a page.                    *)
LEMMA FileReplaced ==
  ASSUME NEW m \in PageManagers, NEW f \in Nat, NEW e \in Nat
  PROVE  OtherFile(m, Unmapped(m, f), f, m.end) /\ OtherFile(m, Grown(m, f, e), f, e)
<1>1. ASSUME NEW n, n = [m EXCEPT !.flen = f, !.mapped = 0]
      PROVE  OtherFile(m, n, f, m.end)
  BY <1>1 DEF PageManagers, OtherFile
<1>2. ASSUME NEW n, n = [m EXCEPT !.flen = f, !.mapped = f, !.end = e]
      PROVE  OtherFile(m, n, f, e)
  BY <1>2 DEF PageManagers, OtherFile
<1> QED
  BY <1>1, <1>2, Zenon DEF Unmapped, Grown

(* A page manager whose cursor has moved.                                  *)
LEMMA CursorMoved ==
  ASSUME NEW m \in PageManagers
  PROVE  \A n : n = [m EXCEPT !.cur = m.cur + 1] =>
              /\ n \in PageManagers /\ n.cur = m.cur + 1 /\ n.end = m.end /\ n.flen = m.flen
              /\ n.root = m.root /\ n.free = m.free /\ n.page = m.page
  BY DEF PageManagers

(* Extending the file touches neither the free list nor a page.            *)
LEMMA ExtendFileGives ==
  ASSUME NEW m, WellFormed(m), ~(m.cur < m.end)
  PROVE  Gives(m, ExtendFile(m).pm, ExtendFile(m).page, ExtendFile(m).err)
<1> DEFINE a   == ExtendFile(m)
           len == ExtendedLength(m)
           P   == PreAllocatePageNum
<1>1. /\ m \in PageManagers /\ IsInjective(m.free) /\ m.end # 0 /\ FileCovers(m)
      /\ m.cur \in Nat /\ m.end \in Nat /\ m.mapped \in Nat /\ m.flen \in Nat
  BY DEF WellFormed, PageManagers
<1>2. P \in Nat \ {0} /\ MapPages \in Nat /\ DiskPages \in Nat
  BY PageManagerAssumption
<1>3. len \in Nat /\ len >= m.end + P /\ m.cur = m.end
  <2>1. m.cur = m.end /\ m.cur < AddrPages /\ AddrPages \in Nat
    BY <1>1, PageManagerAssumption DEF WellFormed, FileCovers
  <2>2. m.cur % AddrPages = m.cur /\ m.end % AddrPages = m.end
    BY <2>1, <1>1
  <2> QED
    BY <2>1, <2>2, <1>1, <1>2 DEF ExtendedLength, Fallocated, Ftruncated, Larger, Slot
<1>4. a = CASE len > DiskPages -> Failed(m, NoSpace)
            [] len <= DiskPages /\ len > MapPages -> Failed(Unmapped(m, len), NoMap)
            [] OTHER -> NextPage(Grown(m, len, m.end + P))
  BY DEF ExtendFile, Unmapped, Grown
<1> HIDE DEF a, len
<1>5. CASE len > DiskPages
  <2>1. a = Failed(m, NoSpace)
    BY <1>2, <1>3, <1>4, <1>5
  <2>2. a.pm = m /\ a.err # NoError
    BY <2>1 DEF Failed, NoSpace, NoError
  <2> QED
    BY <2>2, <1>1 DEF Gives, a
<1>6. CASE len <= DiskPages /\ len > MapPages
  <2> DEFINE unmapped == Unmapped(m, len)
  <2>1. a = Failed(unmapped, NoMap)
    BY <1>2, <1>3, <1>4, <1>6
  <2>2. OtherFile(m, unmapped, len, m.end)
    BY <1>1, <1>3, FileReplaced
  <2> HIDE DEF unmapped
  <2>3. a.pm = unmapped /\ a.err # NoError
    BY <2>1 DEF Failed, NoMap, NoError
  <2>4. FileCovers(unmapped)
    BY <2>2, <1>1, <1>2, <1>3, <1>6 DEF OtherFile, FileCovers
  <2> QED
    BY <2>2, <2>3, <2>4, <1>1 DEF Gives, OtherFile, a
<1>7. CASE len <= DiskPages /\ ~(len > MapPages)
  <2> DEFINE end == m.end + P
             grown == Grown(m, len, end)
  <2>1. a = NextPage(grown)
    BY <1>2, <1>3, <1>4, <1>7
  <2>2. end \in Nat /\ end # 0
    BY <1>1, <1>2
  <2>3. m.cur + 1 <= end /\ end <= len /\ len <= DiskPages
    BY <1>1, <1>2, <1>3, <1>7
  <2> HIDE DEF end
  <2>4. OtherFile(m, grown, len, end)
    BY <2>2, <1>1, <1>3, FileReplaced
  <2> HIDE DEF grown
  <2>5. a.pm = [grown EXCEPT !.cur = grown.cur + 1] /\ a.page = grown.cur /\ a.err = NoError
    BY <2>1 DEF NextPage
  <2>6. /\ a.pm \in PageManagers /\ a.pm.cur = grown.cur + 1 /\ a.pm.end = grown.end
        /\ a.pm.flen = grown.flen
        /\ a.pm.root = grown.root /\ a.pm.free = grown.free /\ a.pm.page = grown.page
    BY <2>4, <2>5, CursorMoved, Zenon DEF OtherFile
  <2>7. FileCovers(a.pm)
    BY <2>3, <2>4, <2>6 DEF OtherFile, FileCovers
  <2> QED
    BY <2>2, <2>4, <2>5, <2>6, <2>7, <1>1 DEF Gives, OtherFile, a
<1> QED
  BY <1>2, <1>3, <1>5, <1>6, <1>7

(* Whatever Allocate answers, it gives away a free page or the next one.   *)
LEMMA AllocateGives ==
  ASSUME NEW m, WellFormed(m)
  PROVE  Gives(m, Allocate(m).pm, Allocate(m).page, Allocate(m).err)
<1> DEFINE a == Allocate(m)
<1>1. /\ m \in PageManagers /\ m.end # 0 /\ m.free \in Seq(Nat) /\ IsInjective(m.free)
      /\ m.cur \in Nat /\ m.end \in Nat /\ FileCovers(m)
  BY DEF WellFormed, PageManagers
<1>2. CASE ~InBounds(m, 0)
  <2>1. a = Failed(m, Panicked)
    BY <1>1, <1>2 DEF Allocate
  <2>2. a.pm = m /\ a.err # NoError
    BY <2>1 DEF Failed, Panicked, NoError
  <2> QED
    BY <2>2, <1>1 DEF Gives
<1>3. CASE InBounds(m, 0) /\ m.free # << >>
  <2>1. a = AllocateViaFreeList(m)
    BY <1>1, <1>3 DEF Allocate
  <2>2. /\ Tail(m.free) \in Seq(Nat) /\ IsInjective(Tail(m.free))
        /\ Head(m.free) \in Range(m.free)
        /\ Range(Tail(m.free)) = Range(m.free) \ {Head(m.free)}
    BY <1>1, <1>3, TailOfInjective
  <2>3. Head(m.free) \in Nat
    BY <1>1, <1>3
  <2>4. /\ a.pm = [m EXCEPT !.free = Tail(m.free)] /\ a.page = Head(m.free)
        /\ a.err = NoError
    BY <2>1 DEF AllocateViaFreeList
  <2>5. /\ a.pm \in PageManagers /\ a.pm.free = Tail(m.free) /\ a.pm.cur = m.cur
        /\ a.pm.end = m.end /\ a.pm.flen = m.flen /\ a.pm.root = m.root /\ a.pm.page = m.page
    BY <2>4, <2>2, <1>1 DEF PageManagers
  <2> QED
    BY <2>2, <2>3, <2>4, <2>5, <1>1 DEF Gives, FileCovers
<1>4. CASE InBounds(m, 0) /\ m.free = << >> /\ m.cur < m.end
  <2>1. a = NextPage(m)
    BY <1>1, <1>4 DEF Allocate
  <2>2. a.pm = [m EXCEPT !.cur = m.cur + 1] /\ a.page = m.cur /\ a.err = NoError
    BY <2>1 DEF NextPage
  <2>3. /\ a.pm \in PageManagers /\ a.pm.free = m.free /\ a.pm.cur = m.cur + 1
        /\ a.pm.end = m.end /\ a.pm.flen = m.flen
        /\ a.pm.root = m.root /\ a.pm.page = m.page
    BY <2>2, <1>1 DEF PageManagers
  <2>4. FileCovers(a.pm)
    BY <2>3, <1>1, <1>4 DEF FileCovers, PageManagers
  <2> QED
    BY <2>2, <2>3, <2>4, <1>1 DEF Gives
<1>5. CASE InBounds(m, 0) /\ m.free = << >> /\ ~(m.cur < m.end)
  <2>1. a = ExtendFile(m)
    BY <1>1, <1>5 DEF Allocate
  <2> QED
    BY <2>1, <1>5, ExtendFileGives, Zenon
<1> QED
  BY <1>2, <1>3, <1>4, <1>5

(* Persisting a node writes a page that was free or beyond the cursor.     *)
LEMMA CopyEvolves ==
  ASSUME NEW m, WellFormed(m), NEW v \in Content,
         CopyToNewPage(m, v).err \notin {Panicked, Clobber}
  PROVE  Evolves(m, CopyToNewPage(m, v).pm)
<1> DEFINE a == Allocate(m)
           r == CopyToNewPage(m, v)
<1>1. /\ a.pm \in PageManagers /\ a.pm.end # 0 /\ FileCovers(a.pm)
      /\ a.pm.root = m.root /\ a.pm.page = m.page
      /\ Range(a.pm.free) \subseteq Range(m.free) /\ IsInjective(a.pm.free)
      /\ \/ a.err # NoError /\ a.pm.cur = m.cur
         \/ /\ a.err = NoError /\ a.pm.cur = m.cur /\ a.page \in Nat
            /\ a.page \in Range(m.free) \ Range(a.pm.free)
         \/ /\ a.err = NoError /\ a.pm.cur = m.cur + 1 /\ a.page = m.cur
  BY AllocateGives DEF Gives
<1>2. /\ m.cur \in Nat /\ m.cur >= 2 /\ m.cur < AddrPages /\ AddrPages \in Nat
      /\ Range(m.free) \subseteq 1 .. m.cur - 1
  BY PageManagerAssumption DEF WellFormed, PageManagers
<1> HIDE DEF a
<1>3. CASE a.err # NoError
  <2>1. r.pm = a.pm
    BY <1>3 DEF CopyToNewPage, Store, a
  <2> QED
    BY <2>1, <1>1, <1>2, <1>3 DEF Evolves, WellFormed
<1>4. CASE a.err = NoError
  <2>1. r = Write(a.pm, a.page, v) /\ r.err \notin {Panicked, Clobber}
    BY <1>4 DEF CopyToNewPage, Store, a
  <2>2. /\ InBounds(a.pm, a.page)
        /\ r.pm = [a.pm EXCEPT !.page[Slot(a.page)] = v]
    BY <2>1 DEF Write, Failed
  <2>3. a.page \in Nat /\ a.page < AddrPages /\ a.page \notin (1 .. m.cur - 1) \ Range(m.free)
    BY <1>1, <1>2, <1>4
  <2>4. Slot(a.page) = a.page /\ a.page + 1 < AddrPages
    BY <2>2, <2>3, <1>2 DEF Slot, InBounds
  <2>5. /\ r.pm \in PageManagers /\ r.pm.cur = a.pm.cur /\ r.pm.end = a.pm.end
        /\ r.pm.flen = a.pm.flen /\ r.pm.root = a.pm.root /\ r.pm.free = a.pm.free
    BY <2>2, <1>1 DEF PageManagers
  <2>6. \A p \in (1 .. m.cur - 1) \ Range(m.free) : r.pm.page[p] = m.page[p]
    BY <2>2, <2>3, <2>4, <1>1 DEF PageManagers
  <2>7. r.pm.cur < AddrPages /\ r.pm.cur >= m.cur
    BY <2>4, <2>5, <1>1, <1>2, <1>4
  <2>8. Range(r.pm.free) \subseteq 1 .. r.pm.cur - 1
    BY <2>5, <2>7, <1>1, <1>2 DEF PageManagers
  <2> QED
    BY <2>5, <2>6, <2>7, <2>8, <1>1, <1>2 DEF Evolves, WellFormed, FileCovers
<1> QED
  BY <1>3, <1>4

(* Allocations one after the other.                                        *)
LEMMA EvolvesTransitive ==
  ASSUME NEW l, NEW m, NEW n, WellFormed(l), Evolves(l, m), Evolves(m, n)
  PROVE  Evolves(l, n)
<1>1. l.cur \in Nat /\ m.cur \in Nat /\ n.cur \in Nat /\ m.cur >= l.cur
  BY DEF Evolves, WellFormed, PageManagers
<1>2. (1 .. l.cur - 1) \ Range(l.free) \subseteq (1 .. m.cur - 1) \ Range(m.free)
  BY <1>1 DEF Evolves
<1> QED
  BY <1>1, <1>2 DEF Evolves

(* So does persisting two.                                                 *)
LEMMA CopyPairEvolves ==
  ASSUME NEW m, WellFormed(m), NEW v \in Content, NEW w \in Content,
         CopyPair(m, v, w).err \notin {Panicked, Clobber}
  PROVE  Evolves(m, CopyPair(m, v, w).pm)
<1> DEFINE a == CopyToNewPage(m, v)
           b == CopyToNewPage(a.pm, w)
           r == CopyPair(m, v, w)
<1>1. CASE a.err = NoError
  <2>1. r.pm = b.pm /\ r.err = b.err
    BY <1>1 DEF CopyPair, Second, Paired
  <2>2. Evolves(m, a.pm)
    BY <1>1, CopyEvolves DEF NoError, Panicked, Clobber
  <2>3. WellFormed(a.pm)
    BY <2>2 DEF Evolves
  <2>4. Evolves(a.pm, b.pm)
    BY <2>1, <2>3, CopyEvolves
  <2> QED
    BY <2>1, <2>2, <2>4, EvolvesTransitive
<1>2. CASE a.err # NoError
  <2>1. r.pm = a.pm /\ r.err = a.err
    BY <1>2 DEF CopyPair, Second, Paired
  <2> QED
    BY <2>1, CopyEvolves
<1> QED
  BY <1>1, <1>2

-----------------------------------------------------------------------------
(* A new store: the first page allocated is the master page, which names   *)
(* no root yet, and the second one the root.                               *)
LEMMA InitIInv ==
  Init => IInv /\ pm.root = 0
<1> SUFFICES ASSUME NEW zero \in Content, InitWith(zero) PROVE IInv /\ pm.root = 0
  BY DEF Init
<1> DEFINE m0 == NewPageManager(NewFile(zero))
           a1 == Allocate(m0)
           a2 == Allocate(a1.pm)
           P  == PreAllocatePageNum
<1>1. /\ P \in Nat /\ P >= 2 /\ DiskPages \in Nat /\ MapPages \in Nat
      /\ AddrPages \in Nat /\ AddrPages > 2
  BY PageManagerAssumption
<1>2. /\ m0 \in PageManagers /\ m0.cur = 0 /\ m0.end = 0 /\ m0.flen = 0
      /\ m0.root = 0 /\ m0.free = << >>
  <2> DEFINE file == NewFile(zero)
  <2>1. << >> \in Seq(Nat) /\ [p \in PageNums |-> zero] \in [PageNums -> Content]
    OBVIOUS
  <2>2. /\ file \in PageManagers /\ file.cur = 0 /\ file.end = 0 /\ file.flen = 0
        /\ file.root = 0 /\ file.free = << >>
    BY <2>1 DEF NewFile, PageManagers
  <2>3. m0 = [file EXCEPT !.cur = 0, !.end = 0, !.mapped = 0]
    BY DEF NewPageManager
  <2> HIDE DEF m0, file
  <2> QED
    BY <2>2, <2>3 DEF PageManagers
<1> HIDE DEF m0
<1>3. /\ LoadOrCreateRoot(m0).err = NoError
      /\ pm = LoadOrCreateRoot(m0).pm /\ root = LoadOrCreateRoot(m0).page
      /\ freelist = << >> /\ live = {LoadOrCreateRoot(m0).page}
  BY DEF InitWith, m0
<1>4. a1.err = NoError /\ LoadOrCreateRoot(m0) = a2
  BY <1>2, <1>3 DEF LoadOrCreateRoot, ReadsEOF
<1>5. ExtendedLength(m0) = P
  <2>1. 0 % AddrPages = 0
    BY <1>1
  <2> QED
    BY <2>1, <1>1, <1>2 DEF ExtendedLength, Fallocated, Ftruncated, Slot, Larger
<1>6. a1 = ExtendFile(m0)
  BY <1>2 DEF Allocate
<1>7. a1 = NextPage(Grown(m0, P, P)) /\ P <= DiskPages
  <2>1. ExtendFile(m0) =
          CASE P > DiskPages -> Failed(m0, NoSpace)
            [] P <= DiskPages /\ P > MapPages -> Failed(Unmapped(m0, P), NoMap)
            [] OTHER -> NextPage(Grown(m0, P, m0.end + P))
    BY <1>5 DEF ExtendFile, Unmapped, Grown
  <2>2. m0.end + P = P
    BY <1>1, <1>2
  <2>3. \A n : Failed(n, NoSpace).err # NoError /\ Failed(n, NoMap).err # NoError
    BY DEF Failed, NoSpace, NoMap, NoError
  <2> QED
    BY <2>1, <2>2, <2>3, <1>1, <1>4, <1>6
<1> DEFINE g == Grown(m0, P, P)
<1>8. OtherFile(m0, g, P, P) /\ g.mapped = P
  <2>1. OtherFile(m0, g, P, P)
    BY <1>1, <1>2, FileReplaced
  <2>2. g.mapped = P
    BY <1>2 DEF Grown, PageManagers
  <2> QED
    BY <2>1, <2>2
<1> HIDE DEF a1, g
<1>9. a1.pm = [g EXCEPT !.cur = g.cur + 1]
  BY <1>7 DEF NextPage, g
<1>10. /\ a1.pm \in PageManagers /\ a1.pm.cur = 1 /\ a1.pm.end = P /\ a1.pm.flen = P
       /\ a1.pm.root = 0 /\ a1.pm.free = << >> /\ a1.pm.mapped = P
  <2>1. /\ a1.pm \in PageManagers /\ a1.pm.cur = g.cur + 1 /\ a1.pm.end = g.end
        /\ a1.pm.flen = g.flen
        /\ a1.pm.root = g.root /\ a1.pm.free = g.free
    BY <1>8, <1>9, CursorMoved, Zenon DEF OtherFile
  <2>2. a1.pm.mapped = g.mapped
    BY <1>8, <1>9 DEF OtherFile, PageManagers
  <2> QED
    BY <2>1, <2>2, <1>2, <1>8 DEF OtherFile
<1>11. InBounds(a1.pm, 0)
  <2>1. 0 % AddrPages = 0
    BY <1>1
  <2> QED
    BY <2>1, <1>1, <1>10 DEF InBounds, Slot
<1>12. a2 = NextPage(a1.pm)
  BY <1>1, <1>10, <1>11 DEF Allocate
<1>13. a2.pm = [a1.pm EXCEPT !.cur = a1.pm.cur + 1] /\ a2.page = 1
  BY <1>10, <1>12 DEF NextPage
<1> HIDE DEF a2
<1>14. /\ a2.pm \in PageManagers /\ a2.pm.cur = 2 /\ a2.pm.end = P /\ a2.pm.flen = P
       /\ a2.pm.root = 0 /\ a2.pm.free = << >>
  <2>1. /\ a2.pm \in PageManagers /\ a2.pm.cur = a1.pm.cur + 1 /\ a2.pm.end = a1.pm.end
        /\ a2.pm.flen = a1.pm.flen
        /\ a2.pm.root = a1.pm.root /\ a2.pm.free = a1.pm.free
    BY <1>10, <1>13, CursorMoved, Zenon
  <2> QED
    BY <2>1, <1>10
<1>15. pm = a2.pm /\ root = 1 /\ freelist = << >> /\ live = {1}
  BY <1>3, <1>4, <1>13
<1>16. Range(pm.free) = {} /\ IsInjective(pm.free) /\ Range(freelist) = {} /\ IsInjective(freelist)
  BY <1>14, <1>15, EmptyList
<1>17. /\ pm \in PageManagers /\ pm.cur = 2 /\ pm.end = P /\ pm.flen = P /\ pm.root = 0
  BY <1>14, <1>15
<1>18. WellFormed(pm)
  <2>1. P <= DiskPages
    BY <1>7
  <2> QED
    BY <2>1, <1>1, <1>16, <1>17 DEF WellFormed, FileCovers
<1>19. TypeOK
  BY <1>15, <1>17 DEF TypeOK
<1> QED
  BY <1>15, <1>16, <1>17, <1>18, <1>19
     DEF IInv, NoDoubleFree, LiveNotAllocatable, MasterNamesLiveRoot

(* The page manager a step of an operation leaves behind is the one it     *)
(* found, after some allocations.                                          *)
LEMMA WorkEvolves ==
  ASSUME WellFormed(pm), NEW vs \in Seq(Content), NEW ps, Work(vs, ps)
  PROVE  Evolves(pm, pm') /\ \E r : Persist(r, ps) /\ r.pm = pm'
<1>1. CASE Persist([pm |-> pm, err |-> NoError], ps)
  <2>1. pm' = pm
    BY <1>1 DEF Persist
  <2>2. pm.cur \in Nat
    BY DEF WellFormed, PageManagers
  <2>3. Evolves(pm, pm)
    BY <2>2 DEF Evolves
  <2> QED
    BY <1>1, <2>1, <2>3
<1>2. CASE Len(vs) = 1 /\ Persist(CopyToNewPage(pm, vs[1]), ps)
  <2>1. vs[1] \in Content
    BY <1>2
  <2> QED
    BY <1>2, <2>1, CopyEvolves DEF Persist
<1>3. CASE Len(vs) = 2 /\ Persist(CopyPair(pm, vs[1], vs[2]), ps)
  <2>1. vs[1] \in Content /\ vs[2] \in Content
    BY <1>3
  <2> QED
    BY <1>3, <2>1, CopyPairEvolves DEF Persist
<1> QED
  BY <1>1, <1>2, <1>3, Zenon DEF Work

(* A step of an operation keeps the invariant and the committed pages.     *)
LEMMA WorkKeeps ==
  ASSUME IInv, NEW vs \in Seq(Content), NEW ps \in Seq(Nat), Work(vs, ps)
  PROVE  IInv' /\ \A p \in live : pm'.page[p] = pm.page[p]
<1>1. Evolves(pm, pm')
  BY WorkEvolves DEF IInv
<1>2. /\ Retirable(pm', ps) /\ freelist' = freelist \o ps
      /\ root' = root /\ live' = live
  BY WorkEvolves DEF IInv, Persist
<1>3. /\ pm.cur \in Nat /\ pm'.cur \in Nat /\ pm'.cur >= pm.cur
      /\ pm'.root = pm.root /\ Range(pm'.free) \subseteq Range(pm.free)
      /\ WellFormed(pm') /\ pm' \in PageManagers /\ IsInjective(pm'.free)
  BY <1>1 DEF IInv, Evolves, WellFormed, PageManagers
<1>4. /\ freelist \in Seq(Nat) /\ IsInjective(freelist)
      /\ Range(freelist) \subseteq 1 .. pm.cur - 1
      /\ Range(pm.free) \cap Range(freelist) = {}
  BY DEF IInv, TypeOK, NoDoubleFree
<1>5. /\ IsInjective(ps)
      /\ Range(ps) \subseteq (1 .. pm'.cur - 1) \ (Range(pm'.free) \cup Range(freelist))
  BY <1>2 DEF Retirable, Owned
<1>7. /\ freelist' \in Seq(Nat) /\ IsInjective(freelist')
      /\ Range(freelist') = Range(freelist) \cup Range(ps)
  BY <1>2, <1>4, <1>5, ConcatOfInjective
<1>8. Range(freelist') \subseteq 1 .. pm'.cur - 1
  BY <1>3, <1>4, <1>5, <1>7
<1>9. NoDoubleFree'
  BY <1>3, <1>4, <1>5, <1>7 DEF NoDoubleFree
<1>10. LiveNotAllocatable'
  BY <1>2, <1>3 DEF IInv, LiveNotAllocatable
<1>11. MasterNamesLiveRoot'
  BY <1>2, <1>3 DEF IInv, MasterNamesLiveRoot
<1>12. TypeOK'
  BY <1>2, <1>3, <1>7 DEF IInv, TypeOK
<1>13. \A p \in live : pm'.page[p] = pm.page[p]
  BY <1>1 DEF IInv, LiveNotAllocatable, Evolves
<1> QED
  BY <1>3, <1>8, <1>9, <1>10, <1>11, <1>12, <1>13 DEF IInv

(* So does a commit: the free list it publishes holds no page of the tree  *)
(* it publishes.                                                           *)
LEMMA CommitKeeps ==
  ASSUME IInv, NEW fl, NEW newRoot, NEW kept, Commit(fl, newRoot, kept)
  PROVE  IInv' /\ \A p \in live : pm'.page[p] = pm.page[p]
<1>1. /\ WellFormed(pm) /\ pm \in PageManagers /\ pm.cur \in Nat /\ pm.free \in Seq(Nat)
      /\ Range(pm.free) \subseteq 1 .. pm.cur - 1 /\ IsInjective(pm.free)
  BY DEF IInv, WellFormed, PageManagers
<1>2. /\ fl \in Seq(Nat) /\ IsInjective(fl) /\ Range(fl) \subseteq 1 .. pm.cur - 1
      /\ Range(pm.free) \cap Range(fl) = {}
  <2>1. CASE fl = freelist
    BY <2>1 DEF IInv, TypeOK, NoDoubleFree
  <2>2. CASE root \in Owned(pm, freelist) /\ fl = Append(freelist, root)
    <3>1. /\ freelist \in Seq(Nat) /\ IsInjective(freelist) /\ root \in Nat
          /\ root \notin Range(freelist) /\ root \notin Range(pm.free)
          /\ root \in 1 .. pm.cur - 1
          /\ Range(freelist) \subseteq 1 .. pm.cur - 1
          /\ Range(pm.free) \cap Range(freelist) = {}
      BY <2>2 DEF IInv, TypeOK, NoDoubleFree, Owned
    <3>2. /\ fl \in Seq(Nat) /\ IsInjective(fl) /\ Range(fl) = Range(freelist) \cup {root}
      BY <3>1, <2>2, AppendToInjective
    <3> QED
      BY <3>1, <3>2
  <2> QED
    BY <2>1, <2>2 DEF Commit
<1>3. /\ kept \subseteq (1 .. pm.cur - 1) \ (Range(pm.free) \cup Range(fl))
      /\ newRoot \in kept /\ root' = newRoot /\ freelist' = << >> /\ live' = kept
      /\ pm' = HandleMasterPage(pm, fl, newRoot)
  BY DEF Commit, Owned
<1> DEFINE free == IF Len(pm.free) + Len(fl) < FreeSlots THEN pm.free \o fl ELSE pm.free
<1>4. /\ free \in Seq(Nat) /\ IsInjective(free)
      /\ Range(free) \subseteq Range(pm.free) \cup Range(fl)
  BY <1>1, <1>2, ConcatOfInjective
<1>5. pm' = [pm EXCEPT !.root = newRoot, !.free = free]
  BY <1>3 DEF HandleMasterPage
<1> HIDE DEF free
<1>6. newRoot \in Nat
  BY <1>1, <1>3
<1>7. /\ pm' \in PageManagers /\ pm'.root = newRoot /\ pm'.free = free
      /\ pm'.cur = pm.cur /\ pm'.end = pm.end /\ pm'.flen = pm.flen /\ pm'.page = pm.page
  BY <1>1, <1>4, <1>5, <1>6 DEF PageManagers
<1>8. WellFormed(pm')
  BY <1>1, <1>2, <1>4, <1>7 DEF WellFormed, FileCovers
<1>9. Range(freelist') = {} /\ IsInjective(freelist') /\ freelist' \in Seq(Nat)
  BY <1>3, EmptyList
<1>10. NoDoubleFree'
  BY <1>4, <1>7, <1>9 DEF NoDoubleFree
<1>11. LiveNotAllocatable'
  BY <1>3, <1>4, <1>7 DEF LiveNotAllocatable
<1>12. MasterNamesLiveRoot'
  BY <1>3, <1>7 DEF MasterNamesLiveRoot
<1>13. TypeOK'
  BY <1>1, <1>3, <1>6, <1>7, <1>9 DEF TypeOK
<1> QED
  BY <1>7, <1>8, <1>9, <1>10, <1>11, <1>12, <1>13 DEF IInv

(* The bounded lists of Next are lists.                                    *)
LEMMA AtMostTwoInSeq ==
  ASSUME NEW S, NEW T, S \subseteq T
  PROVE  AtMostTwo(S) \subseteq Seq(T)
<1> SUFFICES ASSUME NEW n \in 0 .. 2, NEW s \in [1 .. n -> S] PROVE s \in Seq(T)
  BY DEF AtMostTwo
<1>1. n \in Nat /\ s \in [1 .. n -> T]
  OBVIOUS
<1> QED
  BY <1>1

(* So are those of retired pages.                                          *)
LEMMA RetireesInSeq ==
  AtMostTwo(Retirees) \subseteq Seq(Nat)
<1>1. Retirees \subseteq Nat
  BY PageManagerAssumption DEF Retirees, PageNums
<1> QED
  BY <1>1, AtMostTwoInSeq

(* A user of the page manager that does no more than Work and Commit allow *)
(* takes steps of the specification.                                       *)
LEMMA DisciplinedStep ==
  ASSUME IInv
  PROVE  /\ \A vs \in Seq(Content), ps \in Seq(Nat) :
              Len(ps) <= 2 /\ Work(vs, ps) => Next
         /\ \A fl, newRoot, kept : Commit(fl, newRoot, kept) => Next
<1>1. ASSUME NEW vs \in Seq(Content), NEW ps \in Seq(Nat), Len(ps) <= 2, Work(vs, ps)
      PROVE  Next
  <2>1. vs \in AtMostTwo(Content)
    <3>1. Len(vs) \in 0 .. 2
      BY <1>1 DEF Work
    <3>2. vs \in [1 .. Len(vs) -> Content]
      OBVIOUS
    <3> QED
      BY <3>1, <3>2 DEF AtMostTwo
  <2>2. WellFormed(pm') /\ Retirable(pm', ps)
    BY <1>1, WorkEvolves DEF IInv, Evolves, Persist
  <2>3. pm'.cur \in Nat /\ pm'.cur <= DiskPages /\ DiskPages \in Nat
    BY <2>2, PageManagerAssumption DEF WellFormed, FileCovers, PageManagers
  <2>4. Range(ps) \subseteq Retirees
    BY <2>2, <2>3 DEF Retirable, Owned, Retirees, PageNums
  <2>5. ps \in AtMostTwo(Retirees)
    <3>1. Len(ps) \in 0 .. 2
      <4>1. Len(ps) <= 2
        BY <1>1, Zenon
      <4>2. Len(ps) \in Nat
        OBVIOUS
      <4>3. \A n \in Nat : n <= 2 => n \in 0 .. 2
        OBVIOUS
      <4> QED
        BY <4>1, <4>2, <4>3, Zenon
    <3>2. \A i \in 1 .. Len(ps) : ps[i] \in Retirees
      BY <2>4 DEF Range
    <3>3. ps \in [1 .. Len(ps) -> Retirees]
      BY <3>2
    <3> QED
      BY <3>1, <3>3 DEF AtMostTwo
  <2> QED
    BY <1>1, <2>1, <2>5 DEF Next
<1>2. ASSUME NEW fl, NEW newRoot, NEW kept, Commit(fl, newRoot, kept)
      PROVE  Next
  <2>1. /\ fl \in {freelist, Append(freelist, root)}
        /\ kept \in SUBSET Owned(pm, fl) /\ newRoot \in kept
    BY <1>2 DEF Commit
  <2> QED
    BY <1>2, <2>1 DEF Next
<1> QED
  BY <1>1, <1>2

(* No page of the committed tree can be given away, and the pages of the   *)
(* tree are pages of the file.                                             *)
LEMMA LivePages ==
  ASSUME IInv
  PROVE  \A p \in live : p \in PageNums /\ p < pm.cur /\ \A f \in Range(pm.free) : Slot(f) # p
<1> SUFFICES ASSUME NEW p \in live
             PROVE  p \in PageNums /\ p < pm.cur /\ \A f \in Range(pm.free) : Slot(f) # p
  OBVIOUS
<1>1. /\ pm.cur \in Nat /\ pm.cur < AddrPages /\ pm.cur <= DiskPages
      /\ AddrPages \in Nat /\ DiskPages \in Nat
      /\ Range(pm.free) \subseteq 1 .. pm.cur - 1
  BY PageManagerAssumption DEF IInv, WellFormed, FileCovers, PageManagers
<1>2. p \in 1 .. pm.cur - 1 /\ p \notin Range(pm.free)
  BY DEF IInv, LiveNotAllocatable
<1>3. ASSUME NEW f \in Range(pm.free) PROVE Slot(f) = f
  <2>1. f \in Nat /\ f < AddrPages
    BY <1>1
  <2> QED
    BY <2>1, <1>1 DEF Slot
<1> QED
  BY <1>1, <1>2, <1>3 DEF PageNums

(* Every step keeps the invariant and the committed pages.                 *)
LEMMA NextKeeps ==
  ASSUME IInv, [Next]_vars
  PROVE  IInv' /\ \A p \in live : pm'.page[p] = pm.page[p]
<1>1. CASE UNCHANGED vars
  BY <1>1 DEF vars, IInv, TypeOK, NoDoubleFree, LiveNotAllocatable, MasterNamesLiveRoot
<1>2. ASSUME NEW vs \in AtMostTwo(Content), NEW ps \in AtMostTwo(Retirees), Work(vs, ps)
      PROVE  IInv' /\ \A p \in live : pm'.page[p] = pm.page[p]
  <2>1. vs \in Seq(Content) /\ ps \in Seq(Nat)
    BY AtMostTwoInSeq, RetireesInSeq
  <2> QED
    BY <1>2, <2>1, WorkKeeps
<1>3. CASE Next
  BY <1>2, <1>3, CommitKeeps DEF Next
<1> QED
  BY <1>1, <1>3

-----------------------------------------------------------------------------
(* The inductive invariant holds in every state.                           *)
THEOREM Inductive ==
  Spec => []IInv
<1>1. IInv /\ [Next]_vars => IInv'
  BY NextKeeps
<1> QED
  BY <1>1, InitIInv, PTL DEF Spec

(* Every variable keeps its type, whatever the sizes.                      *)
THEOREM TypeCorrect ==
  Spec => []TypeOK
<1>1. IInv => TypeOK
  BY DEF IInv
<1> QED
  BY <1>1, Inductive, PTL

(* No page is on the free lists twice: Allocate never hands one page to    *)
(* two nodes (allocateViaFreeList, HandleMasterPage).                      *)
THEOREM NoPageFreedTwice ==
  Spec => []NoDoubleFree
<1>1. IInv => NoDoubleFree
  BY DEF IInv
<1> QED
  BY <1>1, Inductive, PTL

(* Neither the free list nor the tail of the file holds a committed page.  *)
THEOREM CommittedPagesNotAllocatable ==
  Spec => []LiveNotAllocatable
<1>1. IInv => LiveNotAllocatable
  BY DEF IInv
<1> QED
  BY <1>1, Inductive, PTL

(* The master page names the committed tree, from the first commit on.     *)
THEOREM MasterPageNamesTree ==
  Spec => []MasterNamesLiveRoot
<1>1. IInv => MasterNamesLiveRoot
  BY DEF IInv
<1> QED
  BY <1>1, Inductive, PTL

(* No page number wraps: the process panics (a slice of mmapData whose end *)
(* is 0) before Allocate hands out a page whose byte offset a uint32 would *)
(* take for the master page, for every width of offsets.                   *)
THEOREM NoOffsetWraps ==
  Spec => []OffsetsDistinct
<1>1. IInv => OffsetsDistinct
  <2> SUFFICES ASSUME IInv, NEW p \in 1 .. pm.cur
               PROVE  Slot(p) = p
    BY DEF OffsetsDistinct
  <2>1. pm.cur \in Nat /\ pm.cur < AddrPages /\ AddrPages \in Nat
    BY PageManagerAssumption DEF IInv, WellFormed, PageManagers
  <2>2. p \in Nat /\ p < AddrPages
    BY <2>1
  <2> QED
    BY <2>1, <2>2 DEF Slot
<1> QED
  BY <1>1, Inductive, PTL

(* Copy on write: no step writes a page of the committed tree, for every   *)
(* page size, disk size, page content and build of the page manager.       *)
THEOREM CommittedPagesNeverWritten ==
  Spec => CopyOnWrite
<1>1. IInv /\ [Next]_vars => [\A p \in live : pm'.page[p] = pm.page[p]]_vars
  BY NextKeeps
<1> QED
  BY <1>1, Inductive, PTL DEF Spec, CopyOnWrite
=============================================================================

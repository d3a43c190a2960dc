--------------------------------- MODULE TreeProofs -------------------------
(***************************************************************************)
(* The walks over the pages of a tree, the methods of Node and the repairs *)
(* of one level. Closure is the smallest set of pages that pointers do not *)
(* lead out of: a walk sees no page but its own, and goes on after a step  *)
(* as it would have started there. A rotation, a merge and a split move    *)
(* the cuts between nodes, and nothing else.                               *)
(***************************************************************************)
EXTENDS Tree, ListLemmas, FiniteSetTheorems, SequenceTheorems

(* What pages S point to, with S itself.                                   *)
Onward(to, S) == S \cup (PageNums \cap UNION {to[p] : p \in S})

Closed(to, S) == Onward(to, S) = S

(* The smallest closed set around S.                                       *)
Hull(to, S) ==
  {q \in PageNums : \A T \in SUBSET PageNums : S \subseteq T /\ Closed(to, T) => q \in T}

Walks(to, f) ==
  f = [S \in SUBSET PageNums |-> IF Onward(to, S) = S THEN S ELSE f[Onward(to, S)]]

(* One step along the pointers stays among the pages and forgets none.     *)
LEMMA OnwardFromPages ==
  ASSUME NEW to, NEW S \in SUBSET PageNums
  PROVE  Onward(to, S) \in SUBSET PageNums /\ S \subseteq Onward(to, S)
<1>1. ASSUME NEW q \in Onward(to, S) PROVE q \in PageNums
  BY <1>1 DEF Onward
<1>2. ASSUME NEW q \in S PROVE q \in Onward(to, S)
  BY <1>2 DEF Onward
<1> QED
  BY <1>1, <1>2

(* A walk from S ends in its hull, so that walks are defined.              *)
LEMMA HullWalks ==
  ASSUME NEW to
  PROVE  Walks(to, [S \in SUBSET PageNums |-> Hull(to, S)])
<1> DEFINE f == [S \in SUBSET PageNums |-> Hull(to, S)]
<1>1. ASSUME NEW S \in SUBSET PageNums
      PROVE  f[S] = IF Onward(to, S) = S THEN S ELSE f[Onward(to, S)]
  <2>1. Onward(to, S) \in SUBSET PageNums
    BY OnwardFromPages
  <2>2. f[S] = Hull(to, S) /\ f[Onward(to, S)] = Hull(to, Onward(to, S))
    BY <2>1
  <2>3. CASE Onward(to, S) = S
    <3>1. Hull(to, S) = S
      BY <2>3 DEF Hull, Closed
    <3> QED
      BY <3>1, <2>2, <2>3
  <2>4. CASE Onward(to, S) # S
    <3>1. \A T \in SUBSET PageNums : Closed(to, T) => (S \subseteq T <=> Onward(to, S) \subseteq T)
      BY DEF Closed, Onward
    <3>2. Hull(to, S) = Hull(to, Onward(to, S))
      BY <3>1 DEF Hull
    <3> QED
      BY <3>2, <2>2, <2>4
  <2> QED
    BY <2>3, <2>4
<1> QED
  BY <1>1 DEF Walks

(* Among finitely many sets one has no proper superset.                    *)
LEMMA LargestSet ==
  ASSUME NEW U, IsFiniteSet(U), NEW Z \in SUBSET (SUBSET U), Z # {}
  PROVE  \E S \in Z : \A T \in Z : ~(S \subseteq T /\ S # T)
<1> DEFINE W == {U \ S : S \in Z}
           R == StrictSubsetOrdering(U)
<1>1. W \subseteq SUBSET U /\ W # {}
  <2>1. PICK S \in Z : TRUE
    OBVIOUS
  <2>2. U \ S \in W
    OBVIOUS
  <2>3. \A T \in W : T \subseteq U
    OBVIOUS
  <2> HIDE DEF W
  <2> QED
    BY <2>2, <2>3
<1>2. IsWellFoundedOn(R, SUBSET U)
  BY FS_StrictSubsetOrderingWellFounded, FS_FiniteSubsetsOfFinite
<1> HIDE DEF R, W
<1>3. PICK w \in W : \A v \in W : ~(<<v, w>> \in R)
  BY <1>1, <1>2, WFMin
<1>4. PICK S \in Z : w = U \ S
  BY <1>3 DEF W
<1>5. ASSUME NEW T \in Z, S \subseteq T, S # T
      PROVE  FALSE
  <2>1. U \ T \in W /\ w \in SUBSET U /\ U \ T \in SUBSET U
    BY <1>4 DEF W
  <2>2. U \ T \subseteq w /\ U \ T # w
    BY <1>4, <1>5
  <2>3. <<U \ T, w>> \in R
    BY <2>1, <2>2, Zenon DEF R, StrictSubsetOrdering
  <2> QED
    BY <2>1, <2>3, <1>3
<1> QED
  BY <1>5

(* The disk has finitely many pages, which is why the pages reached from a *)
(* root are found in a bounded number of steps.                            *)
LEMMA PagesFinite ==
  IsFiniteSet(PageNums)
<1>1. 1 \in Int /\ DiskPages - 1 \in Int
  BY PageManagerAssumption
<1> QED
  BY <1>1, FS_Interval, Zenon DEF PageNums

(* So a walk, defined as the code would recurse, ends in the hull.         *)
LEMMA WalkEndsInHull ==
  ASSUME NEW to, NEW f, Walks(to, f)
  PROVE  \A S \in SUBSET PageNums : f[S] = Hull(to, S)
<1> DEFINE Z == {S \in SUBSET PageNums : f[S] # Hull(to, S)}
           h == [S \in SUBSET PageNums |-> Hull(to, S)]
<1> SUFFICES ASSUME Z # {} PROVE FALSE
  OBVIOUS
<1>1. PICK S \in Z : \A T \in Z : ~(S \subseteq T /\ S # T)
  <2>1. Z \in SUBSET (SUBSET PageNums)
    OBVIOUS
  <2> HIDE DEF Z
  <2> QED
    BY <2>1, PagesFinite, LargestSet
<1>2. S \in SUBSET PageNums /\ f[S] # Hull(to, S)
  OBVIOUS
<1>3. Onward(to, S) \in SUBSET PageNums /\ S \subseteq Onward(to, S)
  BY <1>2, OnwardFromPages
<1>4. /\ f[S] = IF Onward(to, S) = S THEN S ELSE f[Onward(to, S)]
      /\ h[S] = IF Onward(to, S) = S THEN S ELSE h[Onward(to, S)]
  <2>1. Walks(to, h)
    BY HullWalks
  <2> HIDE DEF h
  <2> QED
    BY <2>1, <1>2 DEF Walks
<1>5. f[Onward(to, S)] = Hull(to, Onward(to, S)) \/ Onward(to, S) = S
  BY <1>1, <1>3
<1> QED
  BY <1>2, <1>3, <1>4, <1>5

(* Closure(to, r): closed, with r in it, and the smallest such set.        *)
LEMMA ClosureIsHull ==
  ASSUME NEW to, NEW r \in PageNums
  PROVE  Closure(to, r) = Hull(to, {r})
<1> DEFINE f == CHOOSE g : Walks(to, g)
<1>1. Closure(to, r) = f[{r}]
  BY DEF Closure, Walks, Onward
<1>2. Walks(to, f)
  BY HullWalks
<1> HIDE DEF f
<1> QED
  BY <1>1, <1>2, WalkEndsInHull

(* No page is out of reach of what leads out of a closed set.              *)
LEMMA ClosedMeans ==
  ASSUME NEW to, NEW S \in SUBSET PageNums
  PROVE  Closed(to, S) <=> \A p \in S : \A q \in to[p] : q \in PageNums => q \in S
  BY DEF Closed, Onward

(* The pages reached from r are the smallest set that holds r and every    *)
(* page a member points to.                                                *)
LEMMA ClosureProperties ==
  ASSUME NEW to, NEW r \in PageNums
  PROVE  /\ Closure(to, r) \subseteq PageNums /\ r \in Closure(to, r)
         /\ Closed(to, Closure(to, r))
         /\ \A T \in SUBSET PageNums : r \in T /\ Closed(to, T) => Closure(to, r) \subseteq T
<1>1. Closure(to, r) = Hull(to, {r})
  BY ClosureIsHull
<1>2. Hull(to, {r}) \subseteq PageNums /\ r \in Hull(to, {r})
  BY DEF Hull
<1>3. \A T \in SUBSET PageNums : r \in T /\ Closed(to, T) => Hull(to, {r}) \subseteq T
  BY DEF Hull
<1>4. ASSUME NEW p \in Hull(to, {r}), NEW q \in to[p], q \in PageNums
      PROVE  q \in Hull(to, {r})
  <2>1. ASSUME NEW T \in SUBSET PageNums, {r} \subseteq T, Closed(to, T)
        PROVE  q \in T
    <3>1. p \in T
      BY <2>1 DEF Hull
    <3> QED
      BY <3>1, <2>1, <1>4, ClosedMeans
  <2> QED
    BY <2>1, <1>4 DEF Hull
<1>5. Closed(to, Hull(to, {r}))
  BY <1>2, <1>4, ClosedMeans
<1> QED
  BY <1>1, <1>2, <1>3, <1>5

(* A walk sees no page but its own.                                        *)
LEMMA ClosureSame ==
  ASSUME NEW to, NEW ot, NEW r \in PageNums,
         \A p \in Closure(to, r) : ot[p] = to[p]
  PROVE  Closure(ot, r) = Closure(to, r)
<1> DEFINE C == Closure(to, r)
           D == Closure(ot, r)
<1>1. /\ C \subseteq PageNums /\ r \in C /\ Closed(to, C)
      /\ \A T \in SUBSET PageNums : r \in T /\ Closed(to, T) => C \subseteq T
  BY ClosureProperties
<1>2. /\ D \subseteq PageNums /\ r \in D /\ Closed(ot, D)
      /\ \A T \in SUBSET PageNums : r \in T /\ Closed(ot, T) => D \subseteq T
  BY ClosureProperties
<1>3. \A p \in C : ot[p] = to[p]
  OBVIOUS
<1> HIDE DEF C, D
<1>4. Closed(ot, C)
  BY <1>1, <1>3, ClosedMeans
<1>5. D \subseteq C
  BY <1>1, <1>2, <1>4
<1>6. Closed(to, D)
  BY <1>2, <1>3, <1>5, ClosedMeans
<1>7. C \subseteq D
  BY <1>1, <1>2, <1>6
<1> QED
  BY <1>5, <1>7 DEF C, D

(* A walk from a page is that page, and the walk from the next one.        *)
LEMMA ClosureFrom ==
  ASSUME NEW to, NEW r \in PageNums
  PROVE  /\ to[r] = {} => Closure(to, r) = {r}
         /\ \A s \in PageNums :
              to[r] = {s} => Closure(to, r) = {r} \cup Closure(to, s)
         /\ \A s \in Closure(to, r) : Closure(to, s) \subseteq Closure(to, r)
<1> DEFINE C(s) == Closure(to, s)
<1>1. \A s \in PageNums :
        /\ C(s) \subseteq PageNums /\ s \in C(s) /\ Closed(to, C(s))
        /\ \A T \in SUBSET PageNums : s \in T /\ Closed(to, T) => C(s) \subseteq T
  BY ClosureProperties
<1> HIDE DEF C
<1>2. ASSUME to[r] = {} PROVE C(r) = {r}
  <2>1. Closed(to, {r})
    BY <1>2, ClosedMeans
  <2> QED
    BY <2>1, <1>1
<1>3. ASSUME NEW s \in C(r) PROVE C(s) \subseteq C(r)
  BY <1>1
<1>4. ASSUME NEW s \in PageNums, to[r] = {s} PROVE C(r) = {r} \cup C(s)
  <2>1. s \in C(r)
    BY <1>1, <1>4, ClosedMeans
  <2>2. Closed(to, {r} \cup C(s))
    <3>1. {r} \cup C(s) \in SUBSET PageNums
      BY <1>1
    <3>2. \A p \in C(s) : \A q \in to[p] : q \in PageNums => q \in C(s)
      BY <1>1, ClosedMeans
    <3> QED
      BY <3>1, <3>2, <1>1, <1>4, ClosedMeans
  <2> QED
    BY <2>1, <2>2, <1>1, <1>3
<1> QED
  BY <1>2, <1>3, <1>4 DEF C

-----------------------------------------------------------------------------
(* A set of indices has a least one.                                       *)
LEMMA LeastIndex ==
  ASSUME NEW Z, Z \subseteq Nat, Z # {}
  PROVE  \E i \in Z : \A j \in Z : i <= j
<1>1. PICK i \in Z : \A j \in Z : ~(<<j, i>> \in OpToRel(<, Nat))
  BY NatLessThanWellFounded, WFMin
<1>2. \A j \in Z : ~(j < i)
  BY <1>1 DEF OpToRel
<1> QED
  BY <1>2

(* FindIndex: the first slot whose key is not smaller than k, or the one   *)
(* past the last.                                                          *)
LEMMA FindIndexIsFirst ==
  ASSUME NEW n, n.kvs \in Seq(Key \X Val), NEW k
  PROVE  /\ FindIndex(n, k) \in 0 .. Len(n.kvs)
         /\ \A j \in 1 .. FindIndex(n, k) : ~(k <= n.kvs[j][1])
         /\ FindIndex(n, k) < Len(n.kvs) => k <= n.kvs[FindIndex(n, k) + 1][1]
<1> DEFINE I == {i \in 1 .. Len(n.kvs) : k <= n.kvs[i][1]}
           first == CHOOSE i \in I : \A j \in I : i =< j
<1>1. FindIndex(n, k) = IF (IF I # {} THEN first ELSE 0) = 0 THEN Len(n.kvs)
                        ELSE (IF I # {} THEN first ELSE 0) - 1
  BY DEF FindIndex, SelectInSeq, GetNKeys, Min
<1>2. Len(n.kvs) \in Nat /\ I \subseteq Nat
  OBVIOUS
<1>3. I # {} => first \in I /\ \A j \in I : first =< j
  <2>1. I # {} => \E i \in I : \A j \in I : i =< j
    <3> HIDE DEF I
    <3> QED
      BY <1>2, LeastIndex
  <2> QED
    BY <2>1
<1>4. CASE I = {}
  <2>1. FindIndex(n, k) = Len(n.kvs)
    BY <1>1, <1>4
  <2> QED
    BY <2>1, <1>2, <1>4
<1>5. CASE I # {}
  <2>1. first \in 1 .. Len(n.kvs) /\ k <= n.kvs[first][1]
    BY <1>3, <1>5
  <2>2. \A j \in I : first =< j
    BY <1>3, <1>5
  <2> HIDE DEF first
  <2>3. FindIndex(n, k) = first - 1
    BY <1>1, <1>5, <2>1
  <2>4. \A j \in 1 .. first - 1 : ~(k <= n.kvs[j][1])
    BY <1>2, <2>1, <2>2
  <2> QED
    BY <1>2, <2>1, <2>3, <2>4
<1> QED
  BY <1>4, <1>5

-----------------------------------------------------------------------------
(* What Search makes of the pages it reads.                                *)
Found(m, C, k) == {n \in {m.page[p] : p \in C} : ContainsKey(n, k)}

Answer(found, k) ==
  IF found = {} THEN NotFound
  ELSE LET n == CHOOSE n \in found : TRUE IN GetKV(n, FindIndex(n, k))

(* A lookup is decided by the pages its descent can reach.                 *)
LEMMA SearchAnswers ==
  ASSUME NEW m, NEW r, NEW k
  PROVE  Search(m, r, k) = Answer(Found(m, Closure(SearchedAfter(m, k), r), k), k)
  BY Zenon DEF Search, Found, Answer

(* A search sees no page outside a set that it does not leave.             *)
LEMMA SearchSame ==
  ASSUME NEW m, NEW n, NEW k, NEW T \in SUBSET PageNums, NEW r \in T,
         Closed(SearchedAfter(m, k), T), \A p \in T : n.page[p] = m.page[p]
  PROVE  Search(n, r, k) = Search(m, r, k)
<1> DEFINE C == Closure(SearchedAfter(m, k), r)
<1>1. C \subseteq T
  BY ClosureProperties
<1>2. \A p \in C : SearchedAfter(n, k)[p] = SearchedAfter(m, k)[p]
  BY <1>1 DEF SearchedAfter
<1>3. Closure(SearchedAfter(n, k), r) = C
  BY <1>2, ClosureSame
<1> HIDE DEF C
<1>4. Found(n, C, k) = Found(m, C, k)
  BY <1>1 DEF Found
<1> QED
  BY <1>3, <1>4, SearchAnswers DEF C

(* One level of a search: the pair is here, or nowhere, or where the       *)
(* search from the next page finds it.                                     *)
LEMMA SearchLevel ==
  ASSUME NEW m, NEW k, NEW r \in PageNums, NEW n, n = m.page[r]
  PROVE  /\ ContainsKey(n, k) => Search(m, r, k) = GetKV(n, FindIndex(n, k))
         /\ ~ContainsKey(n, k) /\ n.type = "leaf" => Search(m, r, k) = NotFound
         /\ ~ContainsKey(n, k) /\ n.type # "leaf" /\ GetPtr(n, FindIndex(n, k)) \in PageNums =>
              Search(m, r, k) = Search(m, GetPtr(n, FindIndex(n, k)), k)
<1> DEFINE to == SearchedAfter(m, k)
           next == GetPtr(n, FindIndex(n, k))
<1>1. to[r] = IF n.type = "leaf" \/ ContainsKey(n, k) THEN {} ELSE {next}
  BY DEF SearchedAfter
<1> HIDE DEF to, next
<1>2. ASSUME ContainsKey(n, k)
      PROVE  Search(m, r, k) = GetKV(n, FindIndex(n, k))
  <2>1. Closure(to, r) = {r}
    BY <1>1, <1>2, ClosureFrom
  <2>2. Found(m, {r}, k) = {n}
    BY <1>2 DEF Found
  <2>3. Answer({n}, k) = GetKV(n, FindIndex(n, k))
    BY DEF Answer
  <2> QED
    BY <2>1, <2>2, <2>3, SearchAnswers DEF to
<1>3. ASSUME ~ContainsKey(n, k), n.type = "leaf"
      PROVE  Search(m, r, k) = NotFound
  <2>1. Closure(to, r) = {r}
    BY <1>1, <1>3, ClosureFrom
  <2>2. Found(m, {r}, k) = {}
    BY <1>3 DEF Found
  <2> QED
    BY <2>1, <2>2, SearchAnswers DEF to, Answer
<1>4. ASSUME ~ContainsKey(n, k), n.type # "leaf", next \in PageNums
      PROVE  Search(m, r, k) = Search(m, next, k)
  <2>1. Closure(to, r) = {r} \cup Closure(to, next)
    BY <1>1, <1>4, ClosureFrom
  <2>2. Found(m, {r} \cup Closure(to, next), k) = Found(m, Closure(to, next), k)
    BY <1>4 DEF Found
  <2> QED
    BY <2>1, <2>2, SearchAnswers DEF to
<1> QED
  BY <1>2, <1>3, <1>4 DEF next

-----------------------------------------------------------------------------
(* The pairs a node can hold.                                              *)
KVs == Key \X Val

(* The keys of a list grow.                                                *)
InOrder(kvs) == \A i, j \in DOMAIN kvs : i < j => kvs[i][1] < kvs[j][1]

(* A node as NewNode, InsertKV and DeleteKV leave it.                      *)
IsNode(n) == n \in Nodes /\ Len(n.ptr) = Len(n.kvs) + 1

-----------------------------------------------------------------------------
(* InsertAt and RemoveAt, element by element.                              *)
LEMMA InsertedList ==
  ASSUME NEW S, NEW s \in Seq(S), NEW e \in S, NEW i \in 1 .. Len(s) + 1
  PROVE  /\ InsertAt(s, i, e) \in Seq(S)
         /\ Len(InsertAt(s, i, e)) = Len(s) + 1
         /\ \A j \in 1 .. Len(s) + 1 :
              InsertAt(s, i, e)[j] = IF j < i THEN s[j] ELSE IF j = i THEN e ELSE s[j - 1]
<1> DEFINE a == SubSeq(s, 1, i - 1)
           b == SubSeq(s, i, Len(s))
           c == a \o <<e>>
<1>0. Len(s) \in Nat /\ i \in Int /\ \A j \in 1 .. Len(s) : s[j] \in S
  OBVIOUS
<1>1. a \in Seq(S) /\ Len(a) = i - 1 /\ \A j \in 1 .. i - 1 : a[j] = s[j]
  BY <1>0, SubSeqProperties
<1>2. b \in Seq(S) /\ Len(b) = Len(s) - i + 1 /\ \A j \in 1 .. Len(s) - i + 1 : b[j] = s[i + j - 1]
  BY <1>0, SubSeqProperties
<1> HIDE DEF a, b
<1>3. <<e>> \in Seq(S) /\ Len(<<e>>) = 1 /\ <<e>>[1] = e
  OBVIOUS
<1>4. c \in Seq(S) /\ Len(c) = i /\ \A j \in 1 .. i : c[j] = IF j < i THEN s[j] ELSE e
  <2>1. c \in Seq(S) /\ Len(c) = Len(a) + 1
        /\ \A j \in 1 .. Len(a) + 1 : c[j] = IF j <= Len(a) THEN a[j] ELSE <<e>>[j - Len(a)]
    BY <1>1, <1>3, ConcatProperties
  <2> HIDE DEF c
  <2>2. ASSUME NEW j \in 1 .. i PROVE c[j] = IF j < i THEN s[j] ELSE e
    <3>1. CASE j < i
      BY <2>1, <1>1, <3>1, <1>0
    <3>2. CASE j = i
      <4>1. j - Len(a) = 1
        BY <3>2, <1>1
      <4> QED
        BY <2>1, <1>1, <1>3, <3>2, <4>1, <1>0
    <3> QED
      BY <3>1, <3>2, <1>0
  <2> QED
    BY <2>1, <2>2, <1>1, <1>0
<1> HIDE DEF c
<1>5. InsertAt(s, i, e) = c \o b
  BY DEF InsertAt, a, b, c
<1>6. /\ c \o b \in Seq(S) /\ Len(c \o b) = Len(s) + 1
      /\ \A j \in 1 .. Len(s) + 1 : (c \o b)[j] = IF j <= i THEN c[j] ELSE b[j - i]
  <2>1. Len(c) + Len(b) = Len(s) + 1
    BY <1>0, <1>2, <1>4
  <2>2. /\ c \o b \in Seq(S) /\ Len(c \o b) = Len(c) + Len(b)
        /\ \A j \in 1 .. Len(c) + Len(b) : (c \o b)[j] = IF j <= Len(c) THEN c[j] ELSE b[j - Len(c)]
    BY <1>2, <1>4, ConcatProperties
  <2> QED
    BY <2>1, <2>2, <1>4
<1>7. ASSUME NEW j \in 1 .. Len(s) + 1
      PROVE  (c \o b)[j] = IF j < i THEN s[j] ELSE IF j = i THEN e ELSE s[j - 1]
  <2>1. CASE j <= i
    BY <2>1, <1>4, <1>6
  <2>2. CASE j > i
    <3>1. j - i \in 1 .. Len(s) - i + 1 /\ i + (j - i) - 1 = j - 1
      BY <2>2, <1>0
    <3> QED
      BY <3>1, <2>2, <1>2, <1>6
  <2>3. j <= i \/ j > i
    BY <1>0
  <2> QED
    BY <2>1, <2>2, <2>3, Zenon
<1> QED
  BY <1>5, <1>6, <1>7

(* A list with the element at i taken out.                                 *)
LEMMA RemovedList ==
  ASSUME NEW S, NEW s \in Seq(S), NEW i \in 1 .. Len(s)
  PROVE  /\ RemoveAt(s, i) \in Seq(S)
         /\ Len(RemoveAt(s, i)) = Len(s) - 1
         /\ \A j \in 1 .. Len(s) - 1 :
              RemoveAt(s, i)[j] = IF j < i THEN s[j] ELSE s[j + 1]
<1> DEFINE a == SubSeq(s, 1, i - 1)
           b == SubSeq(s, i + 1, Len(s))
<1>0. Len(s) \in Nat /\ i \in Int /\ \A j \in 1 .. Len(s) : s[j] \in S
  OBVIOUS
<1>1. a \in Seq(S) /\ Len(a) = i - 1 /\ \A j \in 1 .. i - 1 : a[j] = s[j]
  BY <1>0, SubSeqProperties
<1>2. b \in Seq(S) /\ Len(b) = Len(s) - i /\ \A j \in 1 .. Len(s) - i : b[j] = s[i + j]
  BY <1>0, SubSeqProperties
<1> HIDE DEF a, b
<1>3. RemoveAt(s, i) = a \o b
  BY DEF RemoveAt, a, b
<1>4. /\ a \o b \in Seq(S) /\ Len(a \o b) = Len(s) - 1
      /\ \A j \in 1 .. Len(s) - 1 : (a \o b)[j] = IF j <= i - 1 THEN a[j] ELSE b[j - (i - 1)]
  <2>1. Len(a) + Len(b) = Len(s) - 1
    BY <1>0, <1>1, <1>2
  <2>2. /\ a \o b \in Seq(S) /\ Len(a \o b) = Len(a) + Len(b)
        /\ \A j \in 1 .. Len(a) + Len(b) : (a \o b)[j] = IF j <= Len(a) THEN a[j] ELSE b[j - Len(a)]
    BY <1>1, <1>2, ConcatProperties
  <2> QED
    BY <2>1, <2>2, <1>1
<1>5. ASSUME NEW j \in 1 .. Len(s) - 1
      PROVE  (a \o b)[j] = IF j < i THEN s[j] ELSE s[j + 1]
  <2>1. CASE j < i
    BY <2>1, <1>1, <1>4
  <2>2. CASE ~(j < i)
    <3>1. j - (i - 1) \in 1 .. Len(s) - i /\ i + (j - (i - 1)) = j + 1 /\ ~(j <= i - 1)
      BY <2>2, <1>0
    <3> QED
      BY <3>1, <2>2, <1>2, <1>4
  <2> QED
    BY <2>1, <2>2
<1> QED
  BY <1>3, <1>4, <1>5

-----------------------------------------------------------------------------
(* The index a key has in a node is the one its neighbours leave it.       *)
(* findIndex returns the place before which every key is smaller and at    *)
(* which none is.                                                          *)
LEMMA FindIndexFits ==
  ASSUME NEW n, n.kvs \in Seq(KVs), NEW k \in Key, NEW i \in 0 .. Len(n.kvs),
         \A j \in 1 .. i : n.kvs[j][1] < k,
         i < Len(n.kvs) => k <= n.kvs[i + 1][1]
  PROVE  FindIndex(n, k) = i
<1> DEFINE f == FindIndex(n, k)
<1>1. /\ f \in 0 .. Len(n.kvs) /\ \A j \in 1 .. f : ~(k <= n.kvs[j][1])
      /\ f < Len(n.kvs) => k <= n.kvs[f + 1][1]
  BY FindIndexIsFirst DEF KVs
<1>2. k \in Nat /\ \A j \in 1 .. Len(n.kvs) : n.kvs[j][1] \in Nat
  <2>1. Key \subseteq Nat
    BY NodeAssumption
  <2>2. \A j \in 1 .. Len(n.kvs) : n.kvs[j] \in KVs
    OBVIOUS
  <2>3. \A kv \in KVs : kv[1] \in Key
    BY DEF KVs
  <2> QED
    BY <2>1, <2>2, <2>3
<1> HIDE DEF f
<1>3. Len(n.kvs) \in Nat
  OBVIOUS
<1>4. ~(f < i)
  <2> SUFFICES ASSUME f < i PROVE FALSE
    OBVIOUS
  <2>1. f + 1 \in 1 .. i /\ f < Len(n.kvs)
    BY <1>1, <1>3
  <2>2. n.kvs[f + 1][1] < k /\ k <= n.kvs[f + 1][1] /\ n.kvs[f + 1][1] \in Nat
    BY <2>1, <1>1, <1>2, <1>3
  <2> QED
    BY <2>2, <1>2
<1>5. ~(i < f)
  <2> SUFFICES ASSUME i < f PROVE FALSE
    OBVIOUS
  <2>1. i + 1 \in 1 .. f /\ i < Len(n.kvs)
    BY <1>1, <1>3
  <2> QED
    BY <2>1, <1>1
<1>6. f = i
  BY <1>1, <1>3, <1>4, <1>5
<1> QED
  BY <1>6 DEF f

(* ContainsKey is membership: a binary search misses nothing.              *)
THEOREM ContainsKeyIsMembership ==
  ASSUME NEW n, n.kvs \in Seq(KVs), InOrder(n.kvs), NEW k \in Key
  PROVE  ContainsKey(n, k) <=> \E i \in 1 .. Len(n.kvs) : n.kvs[i][1] = k
<1>0. Len(n.kvs) \in Nat /\ DOMAIN n.kvs = 1 .. Len(n.kvs)
  OBVIOUS
<1>1. FindIndex(n, k) \in 0 .. Len(n.kvs)
  BY FindIndexIsFirst DEF KVs
<1>2. ContainsKey(n, k) <=>
        FindIndex(n, k) < Len(n.kvs) /\ n.kvs[FindIndex(n, k) + 1][1] = k
  BY DEF ContainsKey, GetNKeys, GetKV
<1>3. ASSUME NEW i \in 1 .. Len(n.kvs), n.kvs[i][1] = k PROVE FindIndex(n, k) = i - 1
  <2>1. \A j \in 1 .. i - 1 : n.kvs[j][1] < k
    BY <1>0, <1>3 DEF InOrder
  <2>2. i - 1 \in 0 .. Len(n.kvs) /\ k <= n.kvs[(i - 1) + 1][1]
    BY <1>0, <1>3, NodeAssumption
  <2> QED
    BY <2>1, <2>2, FindIndexFits
<1>4. ASSUME NEW i \in 1 .. Len(n.kvs), n.kvs[i][1] = k PROVE ContainsKey(n, k)
  BY <1>0, <1>2, <1>3, <1>4
<1>5. ASSUME ContainsKey(n, k) PROVE \E i \in 1 .. Len(n.kvs) : n.kvs[i][1] = k
  BY <1>0, <1>1, <1>2, <1>5
<1> QED
  BY <1>4, <1>5

-----------------------------------------------------------------------------
(* A node with other pairs and pointers.                                   *)
With(n, kvs, ptr) == [n EXCEPT !.kvs = kvs, !.ptr = ptr]

(* A node with other pairs and pointers is a node, and keeps its type.     *)
LEMMA NodeWith ==
  ASSUME NEW n, n \in Nodes, NEW kvs, kvs \in Seq(KVs), NEW ptr, ptr \in Seq(Nat)
  PROVE  /\ With(n, kvs, ptr) \in Nodes
         /\ With(n, kvs, ptr).kvs = kvs /\ With(n, kvs, ptr).ptr = ptr
         /\ With(n, kvs, ptr).type = n.type /\ With(n, kvs, ptr).ok = n.ok
         /\ Len(ptr) = Len(kvs) + 1 => IsNode(With(n, kvs, ptr))
         /\ \A k, p : With(With(n, kvs, ptr), k, p) = With(n, k, p)
  BY DEF Nodes, KVs, IsNode, With

(* s with e at place i.                                                    *)
Put(s, i, e) == [s EXCEPT ![i] = e]

(* The pointers of a leaf lead nowhere.                                    *)
Nils(s) == \A x \in 1 .. Len(s) : s[x] = 0

(* A list of nil pointers stays one when a nil pointer is put into it or   *)
(* taken out.                                                              *)
LEMMA NilsKept ==
  ASSUME NEW s \in Seq(Nat), Nils(s)
  PROVE  /\ \A i \in 1 .. Len(s) + 1 : Nils(InsertAt(s, i, 0))
         /\ \A i \in 1 .. Len(s) : Nils(RemoveAt(s, i))
         /\ \A i \in 1 .. Len(s) : Nils(Put(s, i, s[i])) /\ Nils(Put(s, i, 0))
         /\ \A k \in 1 .. Len(s) : Nils(SubSeq(s, 1, k))
<1>1. PICK S : S = Nat
  OBVIOUS
<1>2. s \in Seq(S) /\ 0 \in S
  BY <1>1
<1>3. Len(s) \in Nat /\ (\A x \in 1 .. Len(s) : s[x] = 0)
  BY DEF Nils
<1>4. ASSUME NEW i \in 1 .. Len(s) + 1 PROVE Nils(InsertAt(s, i, 0))
  <2> DEFINE t == InsertAt(s, i, 0)
  <2>1. /\ Len(t) = Len(s) + 1
        /\ \A j \in 1 .. Len(s) + 1 : t[j] = IF j < i THEN s[j] ELSE IF j = i THEN 0 ELSE s[j - 1]
    BY <1>2, InsertedList
  <2> HIDE DEF t
  <2>2. ASSUME NEW j \in 1 .. Len(s) + 1 PROVE t[j] = 0
    <3>1. CASE j < i
      <4>1. j \in 1 .. Len(s)
        BY <3>1, <1>3
      <4> QED
        BY <4>1, <3>1, <2>1, <1>3
    <3>2. CASE j = i
      BY <3>2, <2>1
    <3>3. CASE j > i
      <4>1. j - 1 \in 1 .. Len(s) /\ ~(j < i) /\ j # i
        BY <3>3, <1>3
      <4> QED
        BY <4>1, <2>1, <1>3
    <3> QED
      BY <3>1, <3>2, <3>3
  <2> QED
    BY <2>1, <2>2 DEF Nils, t
<1>5. ASSUME NEW i \in 1 .. Len(s) PROVE Nils(RemoveAt(s, i))
  <2> DEFINE t == RemoveAt(s, i)
  <2>1. Len(t) = Len(s) - 1 /\ \A j \in 1 .. Len(s) - 1 : t[j] = IF j < i THEN s[j] ELSE s[j + 1]
    BY <1>2, RemovedList
  <2> HIDE DEF t
  <2>2. ASSUME NEW j \in 1 .. Len(s) - 1 PROVE t[j] = 0
    <3>1. j \in 1 .. Len(s) /\ j + 1 \in 1 .. Len(s)
      BY <1>3
    <3> QED
      BY <3>1, <2>1, <1>3
  <2> QED
    BY <2>1, <2>2 DEF Nils, t
<1>6. ASSUME NEW i \in 1 .. Len(s) PROVE Nils(Put(s, i, 0)) /\ s[i] = 0
  <2>1. Len(Put(s, i, 0)) = Len(s) /\ \A j \in 1 .. Len(s) : Put(s, i, 0)[j] = IF j = i THEN 0 ELSE s[j]
    BY <1>2 DEF Put
  <2> QED
    BY <2>1, <1>3 DEF Nils
<1>7. ASSUME NEW k \in 1 .. Len(s) PROVE Nils(SubSeq(s, 1, k))
  <2>1. Len(SubSeq(s, 1, k)) = k /\ \A j \in 1 .. k : SubSeq(s, 1, k)[j] = s[j]
    BY <1>2
  <2>2. \A j \in 1 .. k : j \in 1 .. Len(s)
    BY <1>3
  <2> QED
    BY <2>1, <2>2, <1>3 DEF Nils
<1> QED
  BY <1>4, <1>5, <1>6, <1>7

(* A pair goes to slot i when the keys before it are smaller and those     *)
(* after it are not.                                                       *)
FitsAt(kvs, i, kv) ==
  /\ \A j \in 1 .. i : kvs[j][1] < kv[1]
  /\ i < Len(kvs) => kv[1] <= kvs[i + 1][1]

(* insertKV puts a pair that fits at i there, with a nil pointer beside    *)
(* it.                                                                     *)
LEMMA InsertKVAt ==
  ASSUME NEW n, IsNode(n), NEW kv \in KVs, NEW i \in 0 .. Len(n.kvs),
         FitsAt(n.kvs, i, kv), InsertKV(n, kv).ok
  PROVE  /\ InsertKV(n, kv) = With(n, InsertAt(n.kvs, i + 1, kv), InsertAt(n.ptr, i + 1, 0))
         /\ IsNode(InsertKV(n, kv)) /\ n.ok
         /\ InsertKV(n, kv).kvs = InsertAt(n.kvs, i + 1, kv)
         /\ InsertKV(n, kv).ptr = InsertAt(n.ptr, i + 1, 0)
         /\ InsertKV(n, kv).type = n.type
<1>1. n.kvs \in Seq(KVs) /\ n.ptr \in Seq(Nat) /\ Len(n.ptr) = Len(n.kvs) + 1 /\ n \in Nodes
  BY DEF IsNode, Nodes, KVs
<1>2. kv[1] \in Key
  BY DEF KVs
<1>3. FindIndex(n, kv[1]) = i
  BY <1>1, <1>2, FindIndexFits DEF FitsAt
<1> DEFINE kvs == InsertAt(n.kvs, i + 1, kv)
           ptr == InsertAt(n.ptr, i + 1, 0)
<1>4. InsertKV(n, kv) = With(n, kvs, ptr)
  <2>1. [n EXCEPT !.ok = FALSE].ok = FALSE
    BY <1>1 DEF Nodes
  <2>2. InsertKV(n, kv) = [n EXCEPT !.ok = FALSE] \/ InsertKV(n, kv) = With(n, kvs, ptr)
    BY <1>3, Zenon DEF InsertKV, With
  <2> QED
    BY <2>1, <2>2
<1>5. kvs \in Seq(KVs) /\ Len(kvs) = Len(n.kvs) + 1
  <2>1. i + 1 \in 1 .. Len(n.kvs) + 1
    BY <1>1
  <2>2. ASSUME NEW s \in Seq(KVs), NEW p \in 1 .. Len(s) + 1
        PROVE  InsertAt(s, p, kv) \in Seq(KVs) /\ Len(InsertAt(s, p, kv)) = Len(s) + 1
    BY InsertedList
  <2> QED
    BY <2>1, <2>2, <1>1
<1>6. ptr \in Seq(Nat) /\ Len(ptr) = Len(n.ptr) + 1
  <2>0. 0 \in Nat
    OBVIOUS
  <2>1. ASSUME NEW s \in Seq(Nat), NEW p \in 1 .. Len(s) + 1
        PROVE  InsertAt(s, p, 0) \in Seq(Nat) /\ Len(InsertAt(s, p, 0)) = Len(s) + 1
    <3>1. PICK N : N = Nat
      OBVIOUS
    <3>2. s \in Seq(N) /\ 0 \in N
      BY <3>1
    <3>3. InsertAt(s, p, 0) \in Seq(N) /\ Len(InsertAt(s, p, 0)) = Len(s) + 1
      BY <3>2, InsertedList
    <3> QED
      BY <3>1, <3>3
  <2>2. i + 1 \in 1 .. Len(n.ptr) + 1
    BY <1>1
  <2> QED
    BY <2>1, <2>2, <1>1
<1> HIDE DEF kvs, ptr
<1>7. Len(ptr) = Len(kvs) + 1
  BY <1>1, <1>5, <1>6
<1>8. /\ IsNode(With(n, kvs, ptr)) /\ With(n, kvs, ptr).ok = n.ok /\ With(n, kvs, ptr).type = n.type
      /\ With(n, kvs, ptr).kvs = kvs /\ With(n, kvs, ptr).ptr = ptr
  BY <1>1, <1>5, <1>6, <1>7, NodeWith
<1> QED
  BY <1>4, <1>8 DEF kvs, ptr

(* deleteKV takes out the pair and the pointer at one index.               *)
LEMMA DeleteKVAt ==
  ASSUME NEW n, IsNode(n), NEW i \in 0 .. Len(n.kvs) - 1
  PROVE  /\ DeleteKV(n, i) = With(n, RemoveAt(n.kvs, i + 1), RemoveAt(n.ptr, i + 1))
         /\ IsNode(DeleteKV(n, i)) /\ DeleteKV(n, i).ok = n.ok
         /\ DeleteKV(n, i).kvs = RemoveAt(n.kvs, i + 1) /\ DeleteKV(n, i).ptr = RemoveAt(n.ptr, i + 1)
         /\ DeleteKV(n, i).type = n.type
<1>1. n.kvs \in Seq(KVs) /\ n.ptr \in Seq(Nat) /\ Len(n.ptr) = Len(n.kvs) + 1 /\ n \in Nodes
  BY DEF IsNode, Nodes, KVs
<1>2. i + 1 \in 1 .. Len(n.kvs) /\ i + 1 \in 1 .. Len(n.ptr)
  BY <1>1
<1> DEFINE kvs == RemoveAt(n.kvs, i + 1)
           ptr == RemoveAt(n.ptr, i + 1)
<1>3. kvs \in Seq(KVs) /\ Len(kvs) = Len(n.kvs) - 1
  BY <1>1, <1>2, RemovedList
<1>4. ptr \in Seq(Nat) /\ Len(ptr) = Len(n.ptr) - 1
  BY <1>1, <1>2, RemovedList
<1>5. DeleteKV(n, i) = With(n, kvs, ptr)
  BY DEF DeleteKV, With
<1> HIDE DEF kvs, ptr
<1>6. Len(ptr) = Len(kvs) + 1
  BY <1>1, <1>3, <1>4
<1> QED
  BY <1>1, <1>3, <1>4, <1>5, <1>6, NodeWith DEF kvs, ptr

(* What InsertAt puts in place of what RemoveAt took.                      *)
LEMMA Replaced ==
  ASSUME NEW S, NEW s \in Seq(S), NEW e \in S, NEW i \in 1 .. Len(s)
  PROVE  InsertAt(RemoveAt(s, i), i, e) = [s EXCEPT ![i] = e]
<1> DEFINE r == RemoveAt(s, i)
           t == InsertAt(r, i, e)
           u == [s EXCEPT ![i] = e]
<1>1. r \in Seq(S) /\ Len(r) = Len(s) - 1
      /\ \A j \in 1 .. Len(s) - 1 : r[j] = IF j < i THEN s[j] ELSE s[j + 1]
  BY RemovedList
<1> HIDE DEF r
<1>2. t \in Seq(S) /\ Len(t) = Len(s)
      /\ \A j \in 1 .. Len(s) : t[j] = IF j < i THEN r[j] ELSE IF j = i THEN e ELSE r[j - 1]
  <2>1. Len(r) + 1 = Len(s)
    BY <1>1
  <2>2. t \in Seq(S) /\ Len(t) = Len(r) + 1
        /\ \A j \in 1 .. Len(r) + 1 : t[j] = IF j < i THEN r[j] ELSE IF j = i THEN e ELSE r[j - 1]
    BY <2>1, <1>1, InsertedList
  <2> QED
    BY <2>1, <2>2
<1>3. u \in Seq(S) /\ Len(u) = Len(s) /\ \A j \in 1 .. Len(s) : u[j] = IF j = i THEN e ELSE s[j]
  BY ExceptSeq
<1> HIDE DEF t, u
<1>4. ASSUME NEW j \in 1 .. Len(s) PROVE t[j] = u[j]
  <2>1. CASE j < i
    BY <2>1, <1>1, <1>2, <1>3
  <2>2. CASE j = i
    BY <2>2, <1>2, <1>3
  <2>3. CASE j > i
    <3>1. j - 1 \in 1 .. Len(s) - 1 /\ ~(j - 1 < i) /\ (j - 1) + 1 = j
      BY <2>3
    <3> QED
      BY <3>1, <2>3, <1>1, <1>2, <1>3
  <2> QED
    BY <2>1, <2>2, <2>3
<1> QED
  BY <1>2, <1>3, <1>4, SeqEqual DEF t, u, r

(* UpdateKV replaces a pair by one that belongs in its place, and loses    *)
(* the pointer to its left, which the callers put back.                    *)
LEMMA UpdateKVAt ==
  ASSUME NEW n, IsNode(n), NEW kv \in KVs, NEW i \in 0 .. Len(n.kvs) - 1,
         \A j \in 1 .. i : n.kvs[j][1] < kv[1],
         i + 1 < Len(n.kvs) => kv[1] <= n.kvs[i + 2][1],
         UpdateKV(n, i, kv).ok
  PROVE  /\ UpdateKV(n, i, kv) = With(n, [n.kvs EXCEPT ![i + 1] = kv], [n.ptr EXCEPT ![i + 1] = 0])
         /\ n.ok
<1> DEFINE d == DeleteKV(n, i)
<1>1. n.kvs \in Seq(KVs) /\ n.ptr \in Seq(Nat) /\ Len(n.ptr) = Len(n.kvs) + 1 /\ n \in Nodes
  BY DEF IsNode, Nodes, KVs
<1>2. i + 1 \in 1 .. Len(n.kvs) /\ i + 1 \in 1 .. Len(n.ptr)
  BY <1>1
<1> DEFINE kvs == RemoveAt(n.kvs, i + 1)
           ptr == RemoveAt(n.ptr, i + 1)
<1>3. IsNode(d) /\ d.ok = n.ok /\ d = With(n, kvs, ptr) /\ d.kvs = kvs /\ d.ptr = ptr
  BY DeleteKVAt
<1> HIDE DEF d
<1>4. kvs \in Seq(KVs) /\ Len(kvs) = Len(n.kvs) - 1
      /\ \A j \in 1 .. Len(n.kvs) - 1 : kvs[j] = IF j < i + 1 THEN n.kvs[j] ELSE n.kvs[j + 1]
  <2>1. ASSUME NEW s \in Seq(KVs), NEW p \in 1 .. Len(s)
        PROVE  RemoveAt(s, p) \in Seq(KVs) /\ Len(RemoveAt(s, p)) = Len(s) - 1
               /\ \A j \in 1 .. Len(s) - 1 : RemoveAt(s, p)[j] = IF j < p THEN s[j] ELSE s[j + 1]
    BY RemovedList
  <2> QED
    BY <2>1, <1>1, <1>2
<1>5. ptr \in Seq(Nat)
  BY <1>1, <1>2, RemovedList
<1>6. InsertAt(kvs, i + 1, kv) = [n.kvs EXCEPT ![i + 1] = kv]
      /\ InsertAt(ptr, i + 1, 0) = [n.ptr EXCEPT ![i + 1] = 0]
  <2>0. 0 \in Nat
    OBVIOUS
  <2>1. ASSUME NEW s \in Seq(Nat), NEW p \in 1 .. Len(s)
        PROVE  InsertAt(RemoveAt(s, p), p, 0) = [s EXCEPT ![p] = 0]
    BY <2>0, Replaced, Zenon
  <2>2. ASSUME NEW s \in Seq(KVs), NEW p \in 1 .. Len(s)
        PROVE  InsertAt(RemoveAt(s, p), p, kv) = [s EXCEPT ![p] = kv]
    BY Replaced, Zenon
  <2> QED
    BY <1>1, <1>2, <2>1, <2>2, Zenon
<1> HIDE DEF kvs, ptr
<1>7. i \in 0 .. Len(kvs) /\ FitsAt(kvs, i, kv)
  <2>1. i \in 0 .. Len(kvs) /\ \A j \in 1 .. i : j \in 1 .. Len(n.kvs) - 1
    BY <1>1, <1>4
  <2>2. \A j \in 1 .. i : kvs[j] = n.kvs[j]
    BY <2>1, <1>4
  <2>3. ASSUME i < Len(kvs) PROVE kv[1] <= kvs[i + 1][1]
    <3>1. i + 1 \in 1 .. Len(n.kvs) - 1 /\ i + 1 < Len(n.kvs) /\ (i + 1) + 1 = i + 2
      BY <2>3, <1>1, <1>4
    <3> QED
      BY <3>1, <1>4
  <2> QED
    BY <2>1, <2>2, <2>3 DEF FitsAt
<1>8. UpdateKV(n, i, kv) = InsertKV(d, kv)
  BY DEF UpdateKV, d
<1>9. InsertKV(d, kv) = With(d, InsertAt(kvs, i + 1, kv), InsertAt(ptr, i + 1, 0)) /\ d.ok
  BY <1>3, <1>7, <1>8, InsertKVAt
<1>10. With(d, InsertAt(kvs, i + 1, kv), InsertAt(ptr, i + 1, 0))
         = With(n, InsertAt(kvs, i + 1, kv), InsertAt(ptr, i + 1, 0))
  BY <1>1, <1>3, <1>4, <1>5, NodeWith
<1> QED
  BY <1>3, <1>6, <1>8, <1>9, <1>10
-----------------------------------------------------------------------------
(* The ends of a list: what a rotation takes off and puts on.              *)
LEMMA EndsOfList ==
  ASSUME NEW S, NEW s \in Seq(S), NEW e \in S
  PROVE  /\ InsertAt(s, 1, e) = <<e>> \o s
         /\ InsertAt(s, Len(s) + 1, e) = s \o <<e>>
         /\ s # << >> => /\ RemoveAt(s, 1) = SubSeq(s, 2, Len(s))
                         /\ RemoveAt(s, Len(s)) = SubSeq(s, 1, Len(s) - 1)
                         /\ s = <<s[1]>> \o SubSeq(s, 2, Len(s))
                         /\ s = SubSeq(s, 1, Len(s) - 1) \o <<s[Len(s)]>>
<1>1. Len(s) \in Nat /\ <<e>> \in Seq(S)
  OBVIOUS
<1>2. SubSeq(s, 1, 0) = << >> /\ SubSeq(s, Len(s) + 1, Len(s)) = << >>
  BY <1>1, SubSeqEmpty
<1>3. SubSeq(s, 1, Len(s)) = s
  BY SubSeqFull
<1>4. InsertAt(s, 1, e) = << >> \o <<e>> \o s
  BY <1>2, <1>3 DEF InsertAt
<1>5. InsertAt(s, Len(s) + 1, e) = s \o <<e>> \o << >>
  <2>1. (Len(s) + 1) - 1 = Len(s)
    BY <1>1
  <2> QED
    BY <2>1, <1>2, <1>3 DEF InsertAt
<1>6. << >> \o <<e>> = <<e>> /\ s \o <<e>> \in Seq(S)
  BY <1>1, ConcatEmptySeq, ConcatProperties
<1>7. (s \o <<e>>) \o << >> = s \o <<e>>
  BY <1>6, ConcatEmptySeq
<1>8. ASSUME s # << >>
      PROVE  /\ RemoveAt(s, 1) = SubSeq(s, 2, Len(s))
             /\ RemoveAt(s, Len(s)) = SubSeq(s, 1, Len(s) - 1)
             /\ s = <<s[1]>> \o SubSeq(s, 2, Len(s))
             /\ s = SubSeq(s, 1, Len(s) - 1) \o <<s[Len(s)]>>
  <2>1. Len(s) \in 1 .. Len(s) /\ 1 \in 1 .. Len(s)
    BY <1>1, <1>8
  <2>2. \A i \in 1 .. Len(s) : s[i] \in S
    OBVIOUS
  <2>3. SubSeq(s, 2, Len(s)) \in Seq(S) /\ SubSeq(s, 1, Len(s) - 1) \in Seq(S)
    BY <1>1, <2>1, <2>2, SubSeqProperties
  <2>4. RemoveAt(s, 1) = << >> \o SubSeq(s, 2, Len(s))
    BY <1>2 DEF RemoveAt
  <2>5. RemoveAt(s, Len(s)) = SubSeq(s, 1, Len(s) - 1) \o << >>
    BY <1>2 DEF RemoveAt
  <2>6. SubSeq(s, 1, Len(s)) = <<s[1]>> \o SubSeq(s, 1 + 1, Len(s))
    BY <2>1, SubSeqRecursiveFirst
  <2>7. SubSeq(s, 1, Len(s)) = SubSeq(s, 1, Len(s) - 1) \o <<s[Len(s)]>>
    BY <2>1, SubSeqRecursiveSecond
  <2>8. << >> \o SubSeq(s, 2, Len(s)) = SubSeq(s, 2, Len(s))
        /\ SubSeq(s, 1, Len(s) - 1) \o << >> = SubSeq(s, 1, Len(s) - 1)
    BY <2>3, ConcatEmptySeq
  <2>9. 1 + 1 = 2
    OBVIOUS
  <2> QED
    BY <2>4, <2>5, <2>6, <2>7, <2>8, <2>9, <1>3, Zenon
<1> QED
  BY <1>4, <1>5, <1>6, <1>7, <1>8, Zenon

(* A pair goes through the parent: the list it belongs to stays.           *)
LEMMA PairMoves ==
  ASSUME NEW S, NEW a \in Seq(S), NEW b \in Seq(S), NEW e \in S
  PROVE  /\ a # << >> => (RemoveAt(a, Len(a)) \o <<a[Len(a)]>>) \o InsertAt(b, 1, e) = (a \o <<e>>) \o b
         /\ b # << >> => (InsertAt(a, Len(a) + 1, e) \o <<b[1]>>) \o RemoveAt(b, 1) = (a \o <<e>>) \o b
<1>1. <<e>> \in Seq(S)
  OBVIOUS
<1>2. a \o (<<e>> \o b) = (a \o <<e>>) \o b
  BY <1>1, ConcatAssociative
<1>3. ASSUME a # << >>
      PROVE  (RemoveAt(a, Len(a)) \o <<a[Len(a)]>>) \o InsertAt(b, 1, e) = (a \o <<e>>) \o b
  <2>1. RemoveAt(a, Len(a)) \o <<a[Len(a)]>> = a /\ InsertAt(b, 1, e) = <<e>> \o b
    <3>1. RemoveAt(a, Len(a)) = SubSeq(a, 1, Len(a) - 1) /\ a = SubSeq(a, 1, Len(a) - 1) \o <<a[Len(a)]>>
      BY <1>3, EndsOfList
    <3>2. InsertAt(b, 1, e) = <<e>> \o b
      BY EndsOfList
    <3> QED
      BY <3>1, <3>2, Zenon
  <2> QED
    BY <2>1, <1>2, Zenon
<1>4. ASSUME b # << >>
      PROVE  (InsertAt(a, Len(a) + 1, e) \o <<b[1]>>) \o RemoveAt(b, 1) = (a \o <<e>>) \o b
  <2>1. RemoveAt(b, 1) = SubSeq(b, 2, Len(b)) /\ b = <<b[1]>> \o SubSeq(b, 2, Len(b))
    BY <1>4, EndsOfList
  <2>2. InsertAt(a, Len(a) + 1, e) = a \o <<e>>
    BY EndsOfList, ZenonT(30)
  <2>3. Len(b) \in Nat /\ 1 \in 1 .. Len(b) /\ \A i \in 1 .. Len(b) : b[i] \in S
    BY <1>4
  <2>4. SubSeq(b, 2, Len(b)) \in Seq(S) /\ <<b[1]>> \in Seq(S) /\ a \o <<e>> \in Seq(S)
    BY <2>3, <1>1, SubSeqProperties, ConcatProperties
  <2>5. ((a \o <<e>>) \o <<b[1]>>) \o SubSeq(b, 2, Len(b)) = (a \o <<e>>) \o (<<b[1]>> \o SubSeq(b, 2, Len(b)))
    <3> DEFINE p == a \o <<e>>
               q == <<b[1]>>
               r == SubSeq(b, 2, Len(b))
    <3>1. p \in Seq(S) /\ q \in Seq(S) /\ r \in Seq(S)
      BY <2>4
    <3> HIDE DEF p, q, r
    <3>2. (p \o q) \o r = p \o (q \o r)
      BY <3>1, ConcatAssociative, SMTT(30)
    <3> QED
      BY <3>2 DEF p, q, r
  <2> QED
    BY <2>1, <2>2, <2>5, Zenon
<1> QED
  BY <1>3, <1>4

(* The pointers of the thinner and of the fuller node of a rotation.       *)
LEMMA PointersMove ==
  ASSUME NEW S, NEW a \in Seq(S), NEW b \in Seq(S), NEW e \in S, a # << >>, b # << >>
  PROVE  /\ Len(a) > 1 => Put(RemoveAt(a, Len(a) - 1), Len(a) - 1, a[Len(a) - 1])
                          = SubSeq(a, 1, Len(a) - 1)
         /\ Put(InsertAt(b, 1, e), 1, a[Len(a)]) = <<a[Len(a)]>> \o b
         /\ SubSeq(a, 1, Len(a) - 1) \o (<<a[Len(a)]>> \o b) = a \o b
         /\ Put(Put(InsertAt(a, Len(a), e), Len(a), a[Len(a)]), Len(a) + 1, b[1])
              = a \o <<b[1]>>
         /\ (a \o <<b[1]>>) \o RemoveAt(b, 1) = a \o b
<1>1. /\ Len(a) \in Nat /\ Len(b) \in Nat /\ Len(a) >= 1 /\ Len(b) >= 1
      /\ \A i \in 1 .. Len(a) : a[i] \in S
      /\ \A i \in 1 .. Len(b) : b[i] \in S
  OBVIOUS
<1>2. a[Len(a)] \in S /\ b[1] \in S /\ <<a[Len(a)]>> \in Seq(S) /\ <<b[1]>> \in Seq(S)
  <2>1. a[Len(a)] \in S /\ b[1] \in S
    BY <1>1
  <2> QED
    BY <2>1
<1>3. SubSeq(a, 1, Len(a) - 1) \in Seq(S) /\ SubSeq(b, 2, Len(b)) \in Seq(S)
  BY <1>1, SubSeqProperties
<1>9. ASSUME NEW p \in Seq(S), NEW q \in Seq(S), NEW r \in Seq(S)
      PROVE  (p \o q) \o r = p \o (q \o r)
  BY ConcatAssociative, SMTT(30)
<1>10. ASSUME NEW s \in Seq(S), NEW x \in S, NEW i \in 1 .. Len(s) + 1
       PROVE  /\ InsertAt(s, i, x) \in Seq(S) /\ Len(InsertAt(s, i, x)) = Len(s) + 1
              /\ \A j \in 1 .. Len(s) + 1 :
                   InsertAt(s, i, x)[j] = IF j < i THEN s[j] ELSE IF j = i THEN x ELSE s[j - 1]
  BY InsertedList
<1>4. ASSUME Len(a) > 1
      PROVE  [RemoveAt(a, Len(a) - 1) EXCEPT ![Len(a) - 1] = a[Len(a) - 1]] = SubSeq(a, 1, Len(a) - 1)
  <2> DEFINE i == Len(a) - 1
             r == RemoveAt(a, i)
             t == [r EXCEPT ![i] = a[i]]
             u == SubSeq(a, 1, i)
  <2>1. i \in 1 .. Len(a) /\ i \in Int /\ a[i] \in S
    BY <1>1, <1>4
  <2>2. r \in Seq(S) /\ Len(r) = i /\ \A j \in 1 .. i : r[j] = IF j < i THEN a[j] ELSE a[j + 1]
    BY <2>1, RemovedList
  <2> HIDE DEF r
  <2>3. t \in Seq(S) /\ Len(t) = i /\ \A j \in 1 .. i : t[j] = IF j = i THEN a[i] ELSE r[j]
    <3>1. i \in 1 .. Len(r)
      BY <2>1, <2>2
    <3> QED
      BY <3>1, <2>1, <2>2, ExceptSeq
  <2>4. u \in Seq(S) /\ Len(u) = i /\ \A j \in 1 .. i : u[j] = a[j]
    BY <1>1, <2>1, SubSeqProperties
  <2> HIDE DEF t, u
  <2>5. \A j \in 1 .. i : t[j] = u[j]
    BY <2>1, <2>2, <2>3, <2>4
  <2> QED
    BY <2>3, <2>4, <2>5, SeqEqual DEF t, u, r
<1>5. \A x \in S : [InsertAt(b, 1, e) EXCEPT ![1] = x] = <<x>> \o b
  <2> TAKE x \in S
  <2> DEFINE r == InsertAt(b, 1, e)
             t == [r EXCEPT ![1] = x]
             u == InsertAt(b, 1, x)
  <2>1. 1 \in 1 .. Len(b) + 1
    BY <1>1
  <2>2. r \in Seq(S) /\ Len(r) = Len(b) + 1
        /\ \A j \in 1 .. Len(b) + 1 : r[j] = IF j < 1 THEN b[j] ELSE IF j = 1 THEN e ELSE b[j - 1]
    BY <2>1, <1>10
  <2>3. u \in Seq(S) /\ Len(u) = Len(b) + 1
        /\ \A j \in 1 .. Len(b) + 1 : u[j] = IF j < 1 THEN b[j] ELSE IF j = 1 THEN x ELSE b[j - 1]
    BY <2>1, <1>10
  <2> HIDE DEF r, u
  <2>4. t \in Seq(S) /\ Len(t) = Len(b) + 1 /\ \A j \in 1 .. Len(b) + 1 : t[j] = IF j = 1 THEN x ELSE r[j]
    <3>1. 1 \in 1 .. Len(r)
      BY <1>1, <2>2
    <3> QED
      BY <3>1, <2>2, ExceptSeq
  <2> HIDE DEF t
  <2>5. ASSUME NEW j \in 1 .. Len(b) + 1 PROVE t[j] = u[j]
    <3>1. CASE j = 1
      <4>1. ~(j < 1)
        BY <1>1
      <4> QED
        BY <3>1, <4>1, <2>3, <2>4, Zenon
    <3>2. CASE j # 1
      <4>1. ~(j < 1)
        BY <1>1
      <4>2. r[j] = b[j - 1] /\ u[j] = b[j - 1] /\ t[j] = r[j]
        BY <3>2, <4>1, <2>2, <2>3, <2>4, Zenon
      <4> QED
        BY <4>2
    <3> QED
      BY <3>1, <3>2
  <2>6. t = u
    BY <2>3, <2>4, <2>5, SeqEqual
  <2> QED
    BY <2>6, EndsOfList DEF t, u, r
<1>6. SubSeq(a, 1, Len(a) - 1) \o (<<a[Len(a)]>> \o b) = a \o b
  <2>1. SubSeq(a, 1, Len(a) - 1) \o (<<a[Len(a)]>> \o b)
          = (SubSeq(a, 1, Len(a) - 1) \o <<a[Len(a)]>>) \o b
    BY <1>2, <1>3, <1>9, ZenonT(30)
  <2>2. a = SubSeq(a, 1, Len(a) - 1) \o <<a[Len(a)]>>
    BY EndsOfList
  <2> QED
    BY <2>1, <2>2, Zenon
<1>7. (a \o <<b[1]>>) \o RemoveAt(b, 1) = a \o b
  <2>1. (a \o <<b[1]>>) \o SubSeq(b, 2, Len(b)) = a \o (<<b[1]>> \o SubSeq(b, 2, Len(b)))
    BY <1>2, <1>3, <1>9, ZenonT(30)
  <2>2. RemoveAt(b, 1) = SubSeq(b, 2, Len(b)) /\ b = <<b[1]>> \o SubSeq(b, 2, Len(b))
    BY EndsOfList
  <2> QED
    BY <2>1, <2>2, Zenon
<1>8. \A x \in S : [[InsertAt(a, Len(a), e) EXCEPT ![Len(a)] = a[Len(a)]] EXCEPT ![Len(a) + 1] = x]
                     = a \o <<x>>
  <2> TAKE x \in S
  <2> DEFINE r == InsertAt(a, Len(a), e)
             t == [r EXCEPT ![Len(a)] = a[Len(a)]]
             v == [t EXCEPT ![Len(a) + 1] = x]
             u == InsertAt(a, Len(a) + 1, x)
  <2>1. Len(a) \in 1 .. Len(a) + 1 /\ Len(a) + 1 \in 1 .. Len(a) + 1
    BY <1>1
  <2>2. r \in Seq(S) /\ Len(r) = Len(a) + 1
        /\ \A j \in 1 .. Len(a) + 1 : r[j] = IF j < Len(a) THEN a[j] ELSE IF j = Len(a) THEN e ELSE a[j - 1]
    BY <2>1, <1>10, ZenonT(30)
  <2>3. u \in Seq(S) /\ Len(u) = Len(a) + 1
        /\ \A j \in 1 .. Len(a) + 1 :
             u[j] = IF j < Len(a) + 1 THEN a[j] ELSE IF j = Len(a) + 1 THEN x ELSE a[j - 1]
    BY <2>1, <1>10, ZenonT(30)
  <2> HIDE DEF r, u
  <2>4. t \in Seq(S) /\ Len(t) = Len(a) + 1
        /\ \A j \in 1 .. Len(a) + 1 : t[j] = IF j = Len(a) THEN a[Len(a)] ELSE r[j]
    BY <2>1, <2>2, <1>2, ExceptSeq
  <2> HIDE DEF t
  <2>5. v \in Seq(S) /\ Len(v) = Len(a) + 1
        /\ \A j \in 1 .. Len(a) + 1 : v[j] = IF j = Len(a) + 1 THEN x ELSE t[j]
    BY <2>1, <2>4, ExceptSeq
  <2> HIDE DEF v
  <2>6. ASSUME NEW j \in 1 .. Len(a) + 1 PROVE v[j] = u[j]
    <3>1. CASE j < Len(a)
      <4>1. j # Len(a) /\ j # Len(a) + 1 /\ j < Len(a) + 1
        BY <3>1, <1>1
      <4> QED
        BY <3>1, <4>1, <2>2, <2>3, <2>4, <2>5, Zenon
    <3>2. CASE j = Len(a)
      <4>1. j # Len(a) + 1 /\ j < Len(a) + 1
        BY <3>2, <1>1
      <4>2. v[j] = t[j] /\ t[j] = a[Len(a)] /\ u[j] = a[j]
        BY <3>2, <4>1, <2>3, <2>4, <2>5, Zenon
      <4> QED
        BY <3>2, <4>2, Zenon
    <3>3. CASE j = Len(a) + 1
      <4>1. ~(j < Len(a) + 1)
        BY <3>3, <1>1
      <4> QED
        BY <3>3, <4>1, <2>3, <2>5, Zenon
    <3> QED
      BY <3>1, <3>2, <3>3, <1>1
  <2>7. v = u
    BY <2>3, <2>5, <2>6, SeqEqual
  <2> QED
    <3>1. InsertAt(a, Len(a) + 1, x) = a \o <<x>>
      BY EndsOfList, ZenonT(30)
    <3> QED
      BY <2>7, <3>1, Zenon DEF v, t, u, r
<1> QED
  BY <1>2, <1>4, <1>5, <1>6, <1>7, <1>8 DEF Put
(* The pointer lists of two neighbours when a rotation moves one pointer   *)
(* over, in either direction: put end to end they read as before.          *)
LEMMA PointerLists ==
  ASSUME NEW a \in Seq(Nat), NEW b \in Seq(Nat), NEW L \in Nat, Len(a) = L + 1, b # << >>
  PROVE  /\ L >= 1 => Put(RemoveAt(a, L), L, a[L]) = SubSeq(a, 1, L)
         /\ Put(InsertAt(b, 1, 0), 1, a[L + 1]) = <<a[L + 1]>> \o b
         /\ SubSeq(a, 1, L) \o (<<a[L + 1]>> \o b) = a \o b
         /\ Put(Put(InsertAt(a, L + 1, 0), L + 1, a[L + 1]), (L + 1) + 1, b[1]) = a \o <<b[1]>>
         /\ (a \o <<b[1]>>) \o RemoveAt(b, 1) = a \o b
         /\ SubSeq(a, 1, L) \in Seq(Nat) /\ Len(SubSeq(a, 1, L)) = L
         /\ <<a[L + 1]>> \o b \in Seq(Nat) /\ Len(<<a[L + 1]>> \o b) = Len(b) + 1
         /\ a \o <<b[1]>> \in Seq(Nat) /\ Len(a \o <<b[1]>>) = L + 2
<1>1. PICK N : N = Nat
  OBVIOUS
<1>2. a \in Seq(N) /\ b \in Seq(N) /\ 0 \in N /\ a # << >>
  BY <1>1
<1>3. /\ Len(a) > 1 => Put(RemoveAt(a, Len(a) - 1), Len(a) - 1, a[Len(a) - 1]) = SubSeq(a, 1, Len(a) - 1)
      /\ Put(InsertAt(b, 1, 0), 1, a[Len(a)]) = <<a[Len(a)]>> \o b
      /\ SubSeq(a, 1, Len(a) - 1) \o (<<a[Len(a)]>> \o b) = a \o b
      /\ Put(Put(InsertAt(a, Len(a), 0), Len(a), a[Len(a)]), Len(a) + 1, b[1]) = a \o <<b[1]>>
      /\ (a \o <<b[1]>>) \o RemoveAt(b, 1) = a \o b
  BY <1>2, PointersMove
<1>4. Len(a) = L + 1 /\ Len(a) - 1 = L /\ (L >= 1 => Len(a) > 1)
  OBVIOUS
<1>5. a[L + 1] \in Nat /\ b[1] \in Nat /\ <<a[L + 1]>> \in Seq(Nat) /\ <<b[1]>> \in Seq(Nat)
      /\ \A x \in 1 .. L : a[x] \in Nat
  <2>1. a[L + 1] \in Nat /\ b[1] \in Nat /\ \A x \in 1 .. L : a[x] \in Nat
    OBVIOUS
  <2> QED
    BY <2>1
<1>6. SubSeq(a, 1, L) \in Seq(Nat) /\ Len(SubSeq(a, 1, L)) = L
  BY <1>5, SubSeqProperties
<1>7. ASSUME NEW s \in Seq(Nat), NEW t \in Seq(Nat)
      PROVE  s \o t \in Seq(Nat) /\ Len(s \o t) = Len(s) + Len(t)
  BY ConcatProperties
<1>8. <<a[L + 1]>> \o b \in Seq(Nat) /\ Len(<<a[L + 1]>> \o b) = Len(b) + 1
  BY <1>5, <1>7
<1>9. a \o <<b[1]>> \in Seq(Nat) /\ Len(a \o <<b[1]>>) = L + 2
  BY <1>5, <1>7
<1> QED
  BY <1>3, <1>4, <1>6, <1>8, <1>9

-----------------------------------------------------------------------------
(* A pointer set in a node.                                                *)
LEMMA SetPtrWith ==
  ASSUME NEW n, n \in Nodes, NEW kvs, NEW ptr, NEW i, NEW p
  PROVE  /\ SetPtr(With(n, kvs, ptr), i, p) = With(n, kvs, [ptr EXCEPT ![i + 1] = p])
         /\ With(n, kvs, ptr).ok = n.ok /\ With(n, kvs, ptr).type = n.type
         /\ With(n, kvs, ptr).kvs = kvs /\ With(n, kvs, ptr).ptr = ptr
         /\ With(n, n.kvs, n.ptr) = n
<1>1. \A k, q : With(n, k, q) = [type |-> n.type, kvs |-> k, ptr |-> q, ok |-> n.ok]
  <2> TAKE k, q
  <2>1. With(n, k, q) \in [type : {n.type}, kvs : {k}, ptr : {q}, ok : {n.ok}]
    BY DEF With, Nodes
  <2> QED
    BY <2>1
<1>2. \A k, q : SetPtr(With(n, k, q), i, p) = With(With(n, k, q), k, [q EXCEPT ![i + 1] = p])
  BY DEF SetPtr, With, Nodes
<1>3. \A k, q, r : With(With(n, k, q), k, r) = With(n, k, r)
  BY DEF With, Nodes
<1>4. With(n, n.kvs, n.ptr) = n
  <2>1. n = [type |-> n.type, kvs |-> n.kvs, ptr |-> n.ptr, ok |-> n.ok]
    BY DEF Nodes
  <2> QED
    BY <2>1, <1>1, Zenon
<1>5. SetPtr(With(n, kvs, ptr), i, p) = With(n, kvs, [ptr EXCEPT ![i + 1] = p])
  <2>1. SetPtr(With(n, kvs, ptr), i, p) = With(With(n, kvs, ptr), kvs, [ptr EXCEPT ![i + 1] = p])
    BY <1>2
  <2>2. \A r : With(With(n, kvs, ptr), kvs, r) = With(n, kvs, r)
    BY <1>3
  <2> QED
    BY <2>1, <2>2
<1>6. With(n, kvs, ptr) = [type |-> n.type, kvs |-> kvs, ptr |-> ptr, ok |-> n.ok]
  BY <1>1
<1> QED
  BY <1>4, <1>5, <1>6

(* A parent and two neighbouring children, pair j of the parent between    *)
(* them.                                                                   *)
Around(parent, j, l, r) ==
  /\ IsNode(parent) /\ IsNode(l) /\ IsNode(r) /\ l.type = r.type
  /\ j \in 1 .. Len(parent.kvs)
  /\ InOrder(parent.kvs) /\ InOrder(l.kvs) /\ InOrder(r.kvs)
  /\ \A x \in 1 .. Len(l.kvs) :
       /\ l.kvs[x][1] < parent.kvs[j][1]
       /\ j > 1 => parent.kvs[j - 1][1] < l.kvs[x][1]
  /\ \A x \in 1 .. Len(r.kvs) :
       /\ parent.kvs[j][1] < r.kvs[x][1]
       /\ j < Len(parent.kvs) => r.kvs[x][1] < parent.kvs[j + 1][1]

(* Both rotations write two children and update the parent.               *)
Rotation(m, parent, v, w, kv, j, retired) ==
  LET c == PersistPair(m, v, w)
  IN Repaired(c.pm, SetPtr(SetPtr(UpdateKV(parent, j - 1, kv), j - 1, c.first), j, c.second),
              retired, c.err)

(* The parent after a rotation: a new separator, and the pages of the two  *)
(* children built.                                                         *)
RotatedParent(m, parent, v, w, kv, j) ==
  LET c == CopyPair(m, v, w)
  IN With(parent, [parent.kvs EXCEPT ![j] = kv], [parent.ptr EXCEPT ![j] = c.first, ![j + 1] = c.second])

(* The pages of the j-th child and the next are given up.                  *)
Retires(s, parent, j) == s.retired = <<parent.ptr[j], parent.ptr[j + 1]>>

(* What a repair promises that writes v and w in place of l and r: the     *)
(* pairs of the two and the one between them come in the same order, n of  *)
(* them in v, the pointers too, and the parent changes only at pair j and  *)
(* its pointers.                                                           *)
Redistributed(s, m, parent, j, l, r, n) ==
  /\ Retires(s, parent, j)
  /\ \E v \in Nodes, w \in Nodes, kv \in KVs :
       /\ s.pm = CopyPair(m, v, w).pm /\ s.err = CopyPair(m, v, w).err
       /\ s.node = RotatedParent(m, parent, v, w, kv, j)
       /\ IsNode(v) /\ IsNode(w) /\ v.type = l.type /\ w.type = r.type /\ v.ok /\ w.ok
       /\ Len(v.kvs) = n
       /\ (v.kvs \o <<kv>>) \o w.kvs = (l.kvs \o <<parent.kvs[j]>>) \o r.kvs
       /\ l.type = "internal" => v.ptr \o w.ptr = l.ptr \o r.ptr
       /\ l.type # "internal" /\ Nils(l.ptr) /\ Nils(r.ptr) => Nils(v.ptr) /\ Nils(w.ptr)

(* The parent of two rotated children: the separator replaced, the two     *)
(* pointers set to the new pages, and no panic only if both children fit a *)
(* page.                                                                   *)
LEMMA ParentOfRotation ==
  ASSUME NEW m, NEW parent, NEW v, NEW w, NEW kv \in KVs, NEW j \in 1 .. Len(parent.kvs),
         NEW retired, IsNode(parent),
         \A x \in 1 .. j - 1 : parent.kvs[x][1] < kv[1],
         j < Len(parent.kvs) => kv[1] <= parent.kvs[j + 1][1],
         Rotation(m, parent, v, w, kv, j, retired).err # Panicked
  PROVE  /\ v.ok /\ w.ok
         /\ Rotation(m, parent, v, w, kv, j, retired).pm = CopyPair(m, v, w).pm
         /\ Rotation(m, parent, v, w, kv, j, retired).err = CopyPair(m, v, w).err
         /\ Rotation(m, parent, v, w, kv, j, retired).node = RotatedParent(m, parent, v, w, kv, j)
<1> DEFINE s == Rotation(m, parent, v, w, kv, j, retired)
<1> DEFINE c == PersistPair(m, v, w)
<1> DEFINE up == UpdateKV(parent, j - 1, kv)
           n  == SetPtr(SetPtr(up, j - 1, c.first), j, c.second)
<1>1. parent.kvs \in Seq(KVs) /\ parent \in Nodes /\ Len(parent.kvs) \in Nat
  BY DEF IsNode, Nodes, KVs
<1>2. j \in Nat /\ (j - 1) + 1 = j /\ (j - 1) + 2 = j + 1 /\ j - 1 \in 0 .. Len(parent.kvs) - 1
  BY <1>1
<1>3. s = [pm |-> c.pm, node |-> n, retired |-> retired, err |-> IF n.ok THEN c.err ELSE Panicked]
  BY Zenon DEF Repaired, Rotation
<1> HIDE DEF n, s, c
<1>4. n.ok /\ s.pm = c.pm /\ s.err = c.err /\ s.err # Panicked /\ s.node = n
  BY <1>3 DEF s
<1>5. v.ok /\ w.ok /\ c = CopyPair(m, v, w)
  <2>1. CASE v.ok /\ w.ok
    BY <2>1 DEF PersistPair, c
  <2>2. CASE ~(v.ok /\ w.ok)
    BY <2>2, <1>4 DEF PersistPair, c
  <2> QED
    BY <2>1, <2>2
<1>6. up.ok
  BY <1>4 DEF n, SetPtr
<1>7. up = With(parent, [parent.kvs EXCEPT ![j] = kv], [parent.ptr EXCEPT ![j] = 0])
  <2> HIDE DEF up
  <2>1. j - 1 + 1 < Len(parent.kvs) => kv[1] <= parent.kvs[j - 1 + 2][1]
    BY <1>2
  <2>2. up = With(parent, [parent.kvs EXCEPT ![(j - 1) + 1] = kv], [parent.ptr EXCEPT ![(j - 1) + 1] = 0])
    BY <1>2, <1>6, <2>1, UpdateKVAt DEF up
  <2> QED
    BY <1>2, <2>2
<1> HIDE DEF up
<1>8. n = With(parent, [parent.kvs EXCEPT ![j] = kv],
               [[[parent.ptr EXCEPT ![j] = 0] EXCEPT ![j] = c.first] EXCEPT ![j + 1] = c.second])
  <2>0. ASSUME NEW kvs, NEW ptr, NEW i, NEW p
        PROVE  SetPtr(With(parent, kvs, ptr), i, p) = With(parent, kvs, [ptr EXCEPT ![i + 1] = p])
    BY <1>1, SetPtrWith
  <2>1. SetPtr(up, j - 1, c.first)
          = With(parent, [parent.kvs EXCEPT ![j] = kv],
                 [[parent.ptr EXCEPT ![j] = 0] EXCEPT ![(j - 1) + 1] = c.first])
    BY <2>0, <1>7
  <2>2. n = SetPtr(With(parent, [parent.kvs EXCEPT ![j] = kv],
                   [[parent.ptr EXCEPT ![j] = 0] EXCEPT ![j] = c.first]), j, c.second)
    BY <2>1, <1>2, Zenon DEF n
  <2> QED
    BY <2>2, <2>0
<1>9. [[[parent.ptr EXCEPT ![j] = 0] EXCEPT ![j] = c.first] EXCEPT ![j + 1] = c.second]
        = [parent.ptr EXCEPT ![j] = c.first, ![j + 1] = c.second]
  <2>1. [[parent.ptr EXCEPT ![j] = 0] EXCEPT ![j] = c.first] = [parent.ptr EXCEPT ![j] = c.first]
    BY <1>1 DEF Nodes
  <2> QED
    BY <2>1
<1> QED
  BY <1>4, <1>5, <1>8, <1>9 DEF s, RotatedParent
(* A pair of a node has a key, and keys are numbers.                       *)
LEMMA KeysAreNumbers ==
  ASSUME NEW kvs \in Seq(KVs), NEW x \in 1 .. Len(kvs)
  PROVE  kvs[x] \in KVs /\ kvs[x][1] \in Key /\ kvs[x][1] \in Nat
<1>1. kvs[x] \in KVs
  OBVIOUS
<1> QED
  BY <1>1, NodeAssumption DEF KVs

(* A key of the left child goes up between the parent's pairs around it.   *)
LEMMA GoesUp ==
  ASSUME NEW parent, NEW j, NEW l, NEW r, Around(parent, j, l, r),
         NEW kv \in KVs,
         \/ \E x \in 1 .. Len(l.kvs) : kv = l.kvs[x]
         \/ \E x \in 1 .. Len(r.kvs) : kv = r.kvs[x]
  PROVE  /\ \A x \in 1 .. j - 1 : parent.kvs[x][1] < kv[1]
         /\ j < Len(parent.kvs) => kv[1] <= parent.kvs[j + 1][1]
<1> DEFINE key(x) == parent.kvs[x][1]
           N == Len(parent.kvs)
<1>1. /\ parent.kvs \in Seq(KVs) /\ l.kvs \in Seq(KVs) /\ r.kvs \in Seq(KVs)
      /\ N \in Nat /\ j \in 1 .. N
  BY DEF Around, IsNode, Nodes, KVs
<1>2. \A x \in 1 .. N : key(x) \in Nat
  BY <1>1, KeysAreNumbers
<1>3. \A x, y \in 1 .. N : x < y => key(x) < key(y)
  BY <1>1 DEF Around, InOrder
<1>4. kv[1] \in Nat
  BY NodeAssumption DEF KVs
<1>5. /\ j > 1 => key(j - 1) < kv[1]
      /\ j < N => kv[1] < key(j + 1)
  <2>1. CASE \E x \in 1 .. Len(l.kvs) : kv = l.kvs[x]
    <3>1. (j > 1 => key(j - 1) < kv[1]) /\ kv[1] < key(j)
      BY <2>1 DEF Around
    <3>2. j < N => key(j) < key(j + 1) /\ key(j) \in Nat /\ key(j + 1) \in Nat
      BY <1>1, <1>2, <1>3
    <3> HIDE DEF key, N
    <3> QED
      BY <3>1, <3>2, <1>4
  <2>2. CASE \E x \in 1 .. Len(r.kvs) : kv = r.kvs[x]
    <3>1. (j < N => kv[1] < key(j + 1)) /\ key(j) < kv[1]
      BY <2>2 DEF Around
    <3>2. j > 1 => key(j - 1) < key(j) /\ key(j) \in Nat /\ key(j - 1) \in Nat
      BY <1>1, <1>2, <1>3
    <3> HIDE DEF key, N
    <3> QED
      BY <3>1, <3>2, <1>4
  <2> QED
    BY <2>1, <2>2
<1>6. ASSUME NEW x \in 1 .. j - 1 PROVE key(x) < kv[1]
  <2>1. j > 1 /\ j - 1 \in 1 .. N /\ x \in 1 .. N /\ (x = j - 1 \/ x < j - 1)
    BY <1>1
  <2>2. key(x) = key(j - 1) \/ key(x) < key(j - 1)
    BY <2>1, <1>3
  <2>3. key(x) \in Nat /\ key(j - 1) \in Nat /\ key(j - 1) < kv[1]
    BY <2>1, <1>2, <1>5
  <2> HIDE DEF key
  <2> QED
    BY <2>2, <2>3, <1>4
<1>7. j < N => kv[1] <= key(j + 1)
  <2>1. j < N => key(j + 1) \in Nat
    BY <1>1, <1>2, SMTT(30)
  <2> HIDE DEF key, N
  <2> QED
    BY <2>1, <1>4, <1>5
<1> QED
  BY <1>6, <1>7

(* Borrowing from the left sibling keeps every pair and every pointer in   *)
(* order: its last pair goes up, the pair between comes down, and its last *)
(* child changes sides.                                                    *)
THEOREM RotateRightKeepsOrder ==
  ASSUME NEW m, NEW parent, NEW left, NEW child, NEW i, Around(parent, i, left, child),
         left.kvs # << >>,
         NEW s, s = RotateRight(m, parent, left, child, i), s.err # Panicked
  PROVE  Redistributed(s, m, parent, i, left, child, Len(left.kvs) - 1)
<1> DEFINE last    == GetNKeys(left) - 1
           L       == Len(left.kvs)
           kv      == left.kvs[L]
           sep     == parent.kvs[i]
           down    == InsertKV(child, sep)
           fuller  == IF left.type = "internal" THEN SetPtr(down, 0, GetPtr(left, last + 1)) ELSE down
           thinner == SetPtr(DeleteKV(left, last), last, GetPtr(left, last))
<1>1. /\ left.kvs \in Seq(KVs) /\ left.ptr \in Seq(Nat) /\ Len(left.ptr) = L + 1 /\ left \in Nodes
      /\ child.kvs \in Seq(KVs) /\ child.ptr \in Seq(Nat) /\ Len(child.ptr) = Len(child.kvs) + 1
      /\ child \in Nodes /\ IsNode(left) /\ IsNode(child) /\ IsNode(parent)
      /\ parent.kvs \in Seq(KVs) /\ i \in 1 .. Len(parent.kvs)
      /\ left.type = child.type
  BY DEF Around, IsNode, Nodes, KVs
<1>2. /\ L \in Nat /\ L >= 1 /\ last = L - 1 /\ last + 1 = L /\ (last + 1) + 1 = L + 1
      /\ (i - 1) + 1 = i /\ i \in Nat /\ last \in 0 .. L - 1 /\ L \in 1 .. L /\ 0 + 1 = 1
  BY <1>1 DEF GetNKeys
<1>3. kv \in KVs /\ sep \in KVs
  BY <1>1, <1>2, KeysAreNumbers
<1>4. GetKV(left, last) = kv /\ GetKV(parent, i - 1) = sep
  BY <1>2, Zenon DEF GetKV
<1>5. GetPtr(left, last) = left.ptr[L] /\ GetPtr(left, last + 1) = left.ptr[L + 1]
  BY <1>2, Zenon DEF GetPtr
<1>6. s = Rotation(m, parent, thinner, fuller, kv, i, <<GetPtr(parent, i - 1), GetPtr(parent, i)>>)
  <2> HIDE DEF kv, sep, last, L
  <2> QED
    BY <1>4, Zenon DEF RotateRight, Rotation, last
<1>7. /\ \A x \in 1 .. i - 1 : parent.kvs[x][1] < kv[1]
      /\ i < Len(parent.kvs) => kv[1] <= parent.kvs[i + 1][1]
  BY <1>2, <1>3, GoesUp
<1> HIDE DEF kv, sep
<1>8. /\ thinner.ok /\ fuller.ok
      /\ s.pm = CopyPair(m, thinner, fuller).pm /\ s.err = CopyPair(m, thinner, fuller).err
      /\ s.node = RotatedParent(m, parent, thinner, fuller, kv, i)
  <2> DEFINE ret == <<GetPtr(parent, i - 1), GetPtr(parent, i)>>
             t   == Rotation(m, parent, thinner, fuller, kv, i, ret)
  <2> HIDE DEF thinner, fuller, ret
  <2>1. t.err # Panicked /\ s = t
    BY <1>6 DEF ret
  <2>2. /\ thinner.ok /\ fuller.ok
        /\ t.pm = CopyPair(m, thinner, fuller).pm
        /\ t.err = CopyPair(m, thinner, fuller).err
        /\ t.node = RotatedParent(m, parent, thinner, fuller, kv, i)
    BY <1>1, <1>3, <1>7, <2>1, ParentOfRotation
  <2> HIDE DEF t
  <2> QED
    BY <2>1, <2>2
<1>9. down.ok
  <2> HIDE DEF down
  <2> QED
    BY <1>8 DEF SetPtr
<1>10. /\ IsNode(down) /\ down.kvs = InsertAt(child.kvs, 1, sep)
       /\ down.ptr = InsertAt(child.ptr, 1, 0) /\ down.type = child.type
  <2>1. FitsAt(child.kvs, 0, sep)
    <3>1. ASSUME 0 < Len(child.kvs) PROVE sep[1] <= child.kvs[0 + 1][1]
      <4>1. 1 \in 1 .. Len(child.kvs)
        BY <1>1, <3>1
      <4>2. child.kvs[1][1] \in Nat /\ sep[1] \in Nat
        BY <4>1, <1>1, KeysAreNumbers DEF sep
      <4>3. sep[1] < child.kvs[1][1]
        BY <4>1 DEF Around, sep
      <4> QED
        BY <4>2, <4>3
    <3> QED
      BY <3>1 DEF FitsAt
  <2>2. 0 \in 0 .. Len(child.kvs)
    BY <1>1
  <2> QED
    BY <2>1, <2>2, <1>1, <1>2, <1>3, <1>9, InsertKVAt
<1>11. /\ <<left.ptr[L + 1]>> \o child.ptr \in Seq(Nat)
       /\ Len(<<left.ptr[L + 1]>> \o child.ptr) = Len(child.ptr) + 1
       /\ SubSeq(left.ptr, 1, L) \in Seq(Nat) /\ Len(SubSeq(left.ptr, 1, L)) = L
       /\ [RemoveAt(left.ptr, L) EXCEPT ![L] = left.ptr[L]] = SubSeq(left.ptr, 1, L)
       /\ [InsertAt(child.ptr, 1, 0) EXCEPT ![1] = left.ptr[L + 1]] = <<left.ptr[L + 1]>> \o child.ptr
       /\ SubSeq(left.ptr, 1, L) \o (<<left.ptr[L + 1]>> \o child.ptr) = left.ptr \o child.ptr
  <2>1. child.ptr # << >>
    BY <1>1
  <2> HIDE DEF L
  <2> DEFINE a == left.ptr
             b == child.ptr
  <2>2. a \in Seq(Nat) /\ b \in Seq(Nat) /\ Len(a) = L + 1 /\ b # << >> /\ L \in Nat /\ L >= 1
    BY <2>1, <1>1, <1>2
  <2> HIDE DEF a, b
  <2>3. /\ L >= 1 => Put(RemoveAt(a, L), L, a[L]) = SubSeq(a, 1, L)
        /\ Put(InsertAt(b, 1, 0), 1, a[L + 1]) = <<a[L + 1]>> \o b
        /\ SubSeq(a, 1, L) \o (<<a[L + 1]>> \o b) = a \o b
    BY <2>2, PointerLists
  <2>4. /\ SubSeq(a, 1, L) \in Seq(Nat) /\ Len(SubSeq(a, 1, L)) = L
        /\ <<a[L + 1]>> \o b \in Seq(Nat) /\ Len(<<a[L + 1]>> \o b) = Len(b) + 1
    BY <2>2, PointerLists
  <2> QED
    BY <2>2, <2>3, <2>4 DEF a, b, Put
<1>12. /\ IsNode(thinner) /\ thinner.type = left.type
       /\ thinner.kvs = RemoveAt(left.kvs, L) /\ thinner.ptr = SubSeq(left.ptr, 1, L)
  <2>1. /\ DeleteKV(left, last) = With(left, RemoveAt(left.kvs, last + 1), RemoveAt(left.ptr, last + 1))
        /\ DeleteKV(left, last).kvs = RemoveAt(left.kvs, last + 1)
        /\ IsNode(DeleteKV(left, last))
    BY <1>1, <1>2, DeleteKVAt
  <2>2. thinner = SetPtr(With(left, RemoveAt(left.kvs, L), RemoveAt(left.ptr, L)), last, left.ptr[L])
    BY <2>1, <1>2, <1>5
  <2>3. thinner = With(left, RemoveAt(left.kvs, L), [RemoveAt(left.ptr, L) EXCEPT ![last + 1] = left.ptr[L]])
    BY <2>2, <1>1, SetPtrWith
  <2>4. thinner = With(left, RemoveAt(left.kvs, L), SubSeq(left.ptr, 1, L))
    BY <2>3, <1>2, <1>11
  <2>5. RemoveAt(left.kvs, L) \in Seq(KVs) /\ Len(RemoveAt(left.kvs, L)) = L - 1
    BY <1>1, <1>2, RemovedList
  <2>6. Len(SubSeq(left.ptr, 1, L)) = Len(RemoveAt(left.kvs, L)) + 1
    BY <2>5, <1>2, <1>11
  <2> DEFINE k == RemoveAt(left.kvs, L)
             p == SubSeq(left.ptr, 1, L)
  <2>7. k \in Seq(KVs) /\ p \in Seq(Nat) /\ Len(p) = Len(k) + 1 /\ thinner = With(left, k, p)
    BY <2>4, <2>5, <2>6, <1>11
  <2> HIDE DEF k, p, thinner
  <2>8. IsNode(thinner) /\ thinner.type = left.type /\ thinner.kvs = k /\ thinner.ptr = p
    BY <2>7, <1>1, NodeWith, SMTT(30)
  <2> QED
    BY <2>8 DEF k, p
<1>13. /\ IsNode(fuller) /\ fuller.type = child.type /\ fuller.kvs = InsertAt(child.kvs, 1, sep)
       /\ left.type = "internal" => fuller.ptr = <<left.ptr[L + 1]>> \o child.ptr
  <2> HIDE DEF down
  <2>1. CASE left.type # "internal"
    BY <2>1, <1>10
  <2>2. CASE left.type = "internal"
    <3> DEFINE q == <<left.ptr[L + 1]>> \o child.ptr
    <3>1. down \in Nodes /\ down.kvs \in Seq(KVs) /\ Len(down.ptr) = Len(down.kvs) + 1
          /\ down.ptr \in Seq(Nat)
      BY <1>10 DEF IsNode, Nodes, KVs
    <3>2. fuller = SetPtr(With(down, down.kvs, down.ptr), 0, left.ptr[L + 1])
      BY <2>2, <1>5, <3>1, SetPtrWith
    <3>3. fuller = With(down, down.kvs, [down.ptr EXCEPT ![0 + 1] = left.ptr[L + 1]])
      BY <3>1, <3>2, SetPtrWith
    <3>4. fuller = With(down, down.kvs, q)
      BY <3>3, <1>2, <1>10, <1>11
    <3>5. q \in Seq(Nat) /\ Len(q) = Len(child.ptr) + 1
      BY <1>11
    <3>6. Len(q) = Len(down.kvs) + 1
      <4>1. Len(InsertAt(child.kvs, 1, sep)) = Len(child.kvs) + 1
        <5>1. 1 \in 1 .. Len(child.kvs) + 1
          BY <1>1
        <5> QED
          BY <5>1, <1>1, <1>3, InsertedList
      <4> HIDE DEF q
      <4> QED
        BY <4>1, <3>5, <1>1, <1>10
    <3> HIDE DEF q
    <3>7. IsNode(fuller) /\ fuller.type = down.type /\ fuller.kvs = down.kvs /\ fuller.ptr = q
      BY <3>1, <3>4, <3>5, <3>6, NodeWith
    <3> QED
      BY <3>7, <1>10 DEF q
  <2> QED
    BY <2>1, <2>2
<1>14. (thinner.kvs \o <<kv>>) \o fuller.kvs = (left.kvs \o <<sep>>) \o child.kvs
  <2> HIDE DEF thinner, fuller
  <2>1. (RemoveAt(left.kvs, L) \o <<left.kvs[L]>>) \o InsertAt(child.kvs, 1, sep)
          = (left.kvs \o <<sep>>) \o child.kvs
    <3>1. left.kvs # << >>
      OBVIOUS
    <3>2. ASSUME NEW a \in Seq(KVs), NEW b \in Seq(KVs), NEW e \in KVs, a # << >>
          PROVE  (RemoveAt(a, Len(a)) \o <<a[Len(a)]>>) \o InsertAt(b, 1, e) = (a \o <<e>>) \o b
      BY <3>2, PairMoves, ZenonT(30)
    <3> QED
      BY <1>1, <1>3, <3>1, <3>2
  <2> QED
    BY <2>1, <1>12, <1>13 DEF kv
<1>15. left.type = "internal" => thinner.ptr \o fuller.ptr = left.ptr \o child.ptr
  <2> HIDE DEF thinner, fuller
  <2> QED
    BY <1>11, <1>12, <1>13
<1>16. thinner \in Nodes /\ fuller \in Nodes
  BY <1>12, <1>13 DEF IsNode
<1>17. Len(thinner.kvs) = Len(left.kvs) - 1
  <2> HIDE DEF thinner
  <2> QED
    BY <1>1, <1>2, <1>12, RemovedList
<1>18. left.type # "internal" /\ Nils(left.ptr) /\ Nils(child.ptr)
         => Nils(thinner.ptr) /\ Nils(fuller.ptr)
  <2> SUFFICES ASSUME left.type # "internal", Nils(left.ptr), Nils(child.ptr)
               PROVE  Nils(thinner.ptr) /\ Nils(fuller.ptr)
    OBVIOUS
  <2>1. fuller.ptr = InsertAt(child.ptr, 1, 0)
    BY <1>10
  <2>2. L \in 1 .. Len(left.ptr) /\ 1 \in 1 .. Len(child.ptr) + 1
    BY <1>1, <1>2
  <2>3. Nils(InsertAt(child.ptr, 1, 0))
    BY <2>2, <1>1, NilsKept
  <2>4. Nils(SubSeq(left.ptr, 1, L))
    BY <2>2, <1>1, NilsKept
  <2> HIDE DEF thinner, fuller
  <2> QED
    BY <2>1, <2>3, <2>4, <1>12
<1> HIDE DEF thinner, fuller
<1>19. Retires(s, parent, i)
  <2>1. GetPtr(parent, i - 1) = parent.ptr[i] /\ GetPtr(parent, i) = parent.ptr[i + 1]
    BY <1>2, Zenon DEF GetPtr
  <2>2. s.retired = <<GetPtr(parent, i - 1), GetPtr(parent, i)>>
    BY <1>6 DEF Rotation, Repaired
  <2> QED
    BY <2>1, <2>2, Zenon DEF Retires
<1> QED
  BY <1>1, <1>3, <1>8, <1>12, <1>13, <1>14, <1>15, <1>16, <1>17, <1>18, <1>19 DEF Redistributed, sep

(* Borrowing from the right sibling: its first pair goes up, the pair      *)
(* between comes down, and its first child changes sides.                  *)
THEOREM RotateLeftKeepsOrder ==
  ASSUME NEW m, NEW parent, NEW child, NEW right, NEW i \in Nat,
         Around(parent, i + 1, child, right), right.kvs # << >>,
         NEW s, s = RotateLeft(m, parent, child, right, i), s.err # Panicked
  PROVE  Redistributed(s, m, parent, i + 1, child, right, Len(child.kvs) + 1)
<1> DEFINE n       == Len(child.kvs)
           j       == i + 1
           kv      == right.kvs[1]
           sep     == parent.kvs[j]
           ins     == InsertKV(child, sep)
           down    == SetPtr(ins, n, GetPtr(child, n))
           fuller  == IF right.type = "internal" THEN SetPtr(down, n + 1, GetPtr(right, 0)) ELSE down
           thinner == DeleteKV(right, 0)
<1>1. /\ child.kvs \in Seq(KVs) /\ child.ptr \in Seq(Nat) /\ Len(child.ptr) = n + 1 /\ child \in Nodes
      /\ right.kvs \in Seq(KVs) /\ right.ptr \in Seq(Nat) /\ Len(right.ptr) = Len(right.kvs) + 1
      /\ right \in Nodes /\ IsNode(right) /\ IsNode(child) /\ IsNode(parent)
      /\ parent.kvs \in Seq(KVs) /\ j \in 1 .. Len(parent.kvs)
      /\ child.type = right.type
  BY DEF Around, IsNode, Nodes, KVs
<1>2. /\ n \in Nat /\ j - 1 = i /\ 0 + 1 = 1 /\ 1 \in 1 .. Len(right.kvs) /\ 0 \in 0 .. Len(right.kvs) - 1
      /\ n \in 0 .. Len(child.kvs)
  <2>1. n \in Nat /\ n \in 0 .. Len(child.kvs) /\ j - 1 = i
    BY <1>1
  <2>2. Len(right.kvs) \in Nat /\ Len(right.kvs) # 0
    BY <1>1
  <2> QED
    BY <2>1, <2>2
<1>3. kv \in KVs /\ sep \in KVs
  BY <1>1, <1>2, KeysAreNumbers
<1>4. /\ GetKV(right, 0) = kv /\ GetKV(parent, i) = sep
      /\ GetPtr(child, n) = child.ptr[n + 1] /\ GetPtr(right, 0) = right.ptr[1]
  BY <1>2, Zenon DEF GetKV, GetPtr
<1>5. s = Rotation(m, parent, fuller, thinner, kv, j, <<GetPtr(parent, i), GetPtr(parent, i + 1)>>)
  <2> HIDE DEF kv, sep, n
  <2>1. GetNKeys(child) = n
    BY DEF GetNKeys, n
  <2>2. RotateLeft(m, parent, child, right, i)
          = Rotation(m, parent, fuller, thinner, kv, j, <<GetPtr(parent, i), GetPtr(parent, i + 1)>>)
    BY <2>1, <1>2, <1>4, Zenon DEF RotateLeft, Rotation
  <2> QED
    BY <2>2
<1>6. /\ \A x \in 1 .. j - 1 : parent.kvs[x][1] < kv[1]
      /\ j < Len(parent.kvs) => kv[1] <= parent.kvs[j + 1][1]
  <2> HIDE DEF j
  <2>1. Around(parent, j, child, right)
    BY DEF j
  <2> QED
    BY <2>1, <1>2, <1>3, GoesUp
<1> HIDE DEF kv, sep
<1>7. /\ fuller.ok /\ thinner.ok
      /\ s.pm = CopyPair(m, fuller, thinner).pm /\ s.err = CopyPair(m, fuller, thinner).err
      /\ s.node = RotatedParent(m, parent, fuller, thinner, kv, j)
  <2> DEFINE ret == <<GetPtr(parent, i), GetPtr(parent, i + 1)>>
             t   == Rotation(m, parent, fuller, thinner, kv, j, ret)
  <2> HIDE DEF thinner, fuller, ret, j
  <2>1. t.err # Panicked /\ s = t
    BY <1>5 DEF ret, j
  <2>2. /\ fuller.ok /\ thinner.ok
        /\ t.pm = CopyPair(m, fuller, thinner).pm
        /\ t.err = CopyPair(m, fuller, thinner).err
        /\ t.node = RotatedParent(m, parent, fuller, thinner, kv, j)
    BY <1>1, <1>3, <1>6, <2>1, ParentOfRotation
  <2> HIDE DEF t
  <2> QED
    BY <2>1, <2>2
<1>8. ins.ok
  <2> HIDE DEF ins
  <2> QED
    BY <1>7 DEF SetPtr
<1>9. /\ IsNode(ins) /\ ins.kvs = InsertAt(child.kvs, n + 1, sep)
      /\ ins.ptr = InsertAt(child.ptr, n + 1, 0) /\ ins.type = child.type
  <2>1. FitsAt(child.kvs, n, sep)
    <3> HIDE DEF j
    <3>1. Around(parent, j, child, right)
      BY DEF j
    <3>2. \A x \in 1 .. n : child.kvs[x][1] < sep[1]
      BY <3>1 DEF Around, sep
    <3> QED
      BY <3>2, <1>2 DEF FitsAt
  <2> QED
    BY <2>1, <1>1, <1>2, <1>3, <1>8, InsertKVAt
<1>10. /\ Put(Put(ins.ptr, n + 1, child.ptr[n + 1]), (n + 1) + 1, right.ptr[1]) = child.ptr \o <<right.ptr[1]>>
       /\ (child.ptr \o <<right.ptr[1]>>) \o RemoveAt(right.ptr, 1) = child.ptr \o right.ptr
       /\ child.ptr \o <<right.ptr[1]>> \in Seq(Nat) /\ Len(child.ptr \o <<right.ptr[1]>>) = n + 2
  <2> DEFINE a == child.ptr
             b == right.ptr
  <2>1. a \in Seq(Nat) /\ b \in Seq(Nat) /\ Len(a) = n + 1 /\ b # << >> /\ n \in Nat
    BY <1>1, <1>2
  <2> HIDE DEF a, b, n, ins
  <2>2. /\ Put(Put(InsertAt(a, n + 1, 0), n + 1, a[n + 1]), (n + 1) + 1, b[1]) = a \o <<b[1]>>
        /\ (a \o <<b[1]>>) \o RemoveAt(b, 1) = a \o b
        /\ a \o <<b[1]>> \in Seq(Nat) /\ Len(a \o <<b[1]>>) = n + 2
    BY <2>1, PointerLists
  <2> QED
    BY <2>2, <1>9 DEF a, b
<1>11. /\ ins \in Nodes /\ ins.kvs \in Seq(KVs) /\ Len(ins.kvs) = n + 1
       /\ ins.ptr \in Seq(Nat) /\ Len(ins.ptr) = n + 2
  <2>1. n + 1 \in 1 .. Len(child.kvs) + 1
    BY <1>2
  <2>2. Len(InsertAt(child.kvs, n + 1, sep)) = n + 1
    BY <2>1, <1>1, <1>3, InsertedList
  <2>3. ins \in Nodes /\ ins.kvs \in Seq(KVs) /\ ins.ptr \in Seq(Nat) /\ Len(ins.ptr) = Len(ins.kvs) + 1
    BY <1>9 DEF IsNode, Nodes, KVs
  <2> HIDE DEF ins
  <2> QED
    BY <2>2, <2>3, <1>2, <1>9
<1>12. /\ down = With(ins, ins.kvs, Put(ins.ptr, n + 1, child.ptr[n + 1]))
       /\ Put(ins.ptr, n + 1, child.ptr[n + 1]) \in Seq(Nat)
       /\ Len(Put(ins.ptr, n + 1, child.ptr[n + 1])) = n + 2
  <2> HIDE DEF ins, n
  <2>1. down = SetPtr(With(ins, ins.kvs, ins.ptr), n, child.ptr[n + 1])
    BY <1>4, <1>11, SetPtrWith
  <2>2. down = With(ins, ins.kvs, [ins.ptr EXCEPT ![n + 1] = child.ptr[n + 1]])
    BY <2>1, <1>11, SetPtrWith
  <2>3. child.ptr[n + 1] \in Nat /\ n + 1 \in 1 .. Len(ins.ptr)
    <3>1. n + 1 \in 1 .. Len(child.ptr) /\ n + 1 \in 1 .. Len(ins.ptr)
      BY <1>1, <1>2, <1>11
    <3> QED
      BY <3>1, <1>1, SMTT(30)
  <2>4. ASSUME NEW p \in Seq(Nat), NEW x \in Nat, NEW y \in 1 .. Len(p)
        PROVE  Put(p, y, x) \in Seq(Nat) /\ Len(Put(p, y, x)) = Len(p)
    BY ExceptSeq DEF Put
  <2> QED
    BY <2>2, <2>3, <2>4, <1>11 DEF Put
<1>13. /\ IsNode(fuller) /\ fuller.type = child.type /\ fuller.kvs = InsertAt(child.kvs, n + 1, sep)
       /\ right.type = "internal" => fuller.ptr = child.ptr \o <<right.ptr[1]>>
  <2> HIDE DEF ins, down, n
  <2>a. ASSUME NEW k \in Seq(KVs), NEW p \in Seq(Nat), Len(p) = Len(k) + 1
        PROVE  /\ IsNode(With(ins, k, p)) /\ With(ins, k, p).type = ins.type
               /\ With(ins, k, p).kvs = k /\ With(ins, k, p).ptr = p
    BY <2>a, <1>11, NodeWith
  <2>b. ASSUME NEW k, NEW p, NEW x, NEW y
        PROVE  SetPtr(With(ins, k, p), y, x) = With(ins, k, Put(p, y + 1, x))
    BY <1>11, SetPtrWith DEF Put
  <2>1. CASE right.type # "internal"
    <3> DEFINE p == Put(ins.ptr, n + 1, child.ptr[n + 1])
    <3>1. fuller = With(ins, ins.kvs, p) /\ p \in Seq(Nat) /\ Len(p) = Len(ins.kvs) + 1
      BY <2>1, <1>2, <1>11, <1>12
    <3> HIDE DEF p, fuller
    <3>2. IsNode(fuller) /\ fuller.type = ins.type /\ fuller.kvs = ins.kvs
      BY <3>1, <1>11, <2>a
    <3> QED
      BY <3>2, <2>1, <1>9
  <2>2. CASE right.type = "internal"
    <3> DEFINE q == child.ptr \o <<right.ptr[1]>>
    <3>1. fuller = SetPtr(With(ins, ins.kvs, Put(ins.ptr, n + 1, child.ptr[n + 1])), n + 1, right.ptr[1])
      BY <2>2, <1>4, <1>12
    <3>2. fuller = With(ins, ins.kvs, Put(Put(ins.ptr, n + 1, child.ptr[n + 1]), (n + 1) + 1, right.ptr[1]))
      BY <3>1, <2>b
    <3>3. fuller = With(ins, ins.kvs, q) /\ q \in Seq(Nat) /\ Len(q) = Len(ins.kvs) + 1
      <4>1. fuller = With(ins, ins.kvs, q)
        BY <3>2, <1>10
      <4>2. q \in Seq(Nat) /\ Len(q) = n + 2
        BY <1>10
      <4> HIDE DEF q
      <4> QED
        BY <4>1, <4>2, <1>2, <1>11
    <3> HIDE DEF q, fuller
    <3>4. IsNode(fuller) /\ fuller.type = ins.type /\ fuller.kvs = ins.kvs /\ fuller.ptr = q
      BY <3>3, <1>11, <2>a
    <3> QED
      BY <3>4, <1>9 DEF q
  <2> QED
    BY <2>1, <2>2
<1>14. /\ IsNode(thinner) /\ thinner.type = right.type
       /\ thinner.kvs = RemoveAt(right.kvs, 1) /\ thinner.ptr = RemoveAt(right.ptr, 1)
  BY <1>1, <1>2, DeleteKVAt
<1>15. (fuller.kvs \o <<kv>>) \o thinner.kvs = (child.kvs \o <<sep>>) \o right.kvs
  <2> HIDE DEF thinner, fuller
  <2>1. ASSUME NEW a \in Seq(KVs), NEW b \in Seq(KVs), NEW e \in KVs, b # << >>
        PROVE  (InsertAt(a, Len(a) + 1, e) \o <<b[1]>>) \o RemoveAt(b, 1) = (a \o <<e>>) \o b
    BY <2>1, PairMoves, ZenonT(30)
  <2>2. (InsertAt(child.kvs, n + 1, sep) \o <<right.kvs[1]>>) \o RemoveAt(right.kvs, 1)
          = (child.kvs \o <<sep>>) \o right.kvs
    BY <1>1, <1>3, <2>1
  <2> QED
    BY <2>2, <1>13, <1>14 DEF kv
<1>16. child.type = "internal" => fuller.ptr \o thinner.ptr = child.ptr \o right.ptr
  <2> HIDE DEF thinner, fuller
  <2> QED
    BY <1>1, <1>10, <1>13, <1>14
<1>17. thinner \in Nodes /\ fuller \in Nodes
  BY <1>13, <1>14 DEF IsNode
<1>18. Len(fuller.kvs) = Len(child.kvs) + 1
  <2>1. n + 1 \in 1 .. Len(child.kvs) + 1
    BY <1>2
  <2> HIDE DEF fuller
  <2> QED
    BY <2>1, <1>1, <1>3, <1>13, InsertedList
<1>19. child.type # "internal" /\ Nils(child.ptr) /\ Nils(right.ptr)
         => Nils(fuller.ptr) /\ Nils(thinner.ptr)
  <2> SUFFICES ASSUME child.type # "internal", Nils(child.ptr), Nils(right.ptr)
               PROVE  Nils(fuller.ptr) /\ Nils(thinner.ptr)
    OBVIOUS
  <2>1. fuller.ptr = Put(ins.ptr, n + 1, child.ptr[n + 1])
    <3> HIDE DEF ins, n
    <3>1. fuller = With(ins, ins.kvs, Put(ins.ptr, n + 1, child.ptr[n + 1]))
      BY <1>1, <1>12
    <3> HIDE DEF fuller
    <3> QED
      BY <3>1, <1>11, NodeWith, <1>12
  <2>2. Len(ins.ptr) = n + 2 /\ n + 1 \in 1 .. Len(child.ptr) /\ n + 1 \in 1 .. Len(child.ptr) + 1
        /\ 1 \in 1 .. Len(right.ptr) /\ n + 1 \in 1 .. Len(ins.ptr)
    <3> HIDE DEF ins, n
    <3>1. Len(ins.ptr) = n + 2 /\ n \in Nat /\ Len(child.ptr) = n + 1
      BY <1>1, <1>2, <1>11
    <3>2. Len(right.ptr) \in Nat /\ Len(right.ptr) >= 1
      BY <1>1
    <3> QED
      BY <3>1, <3>2
  <2>3. Nils(ins.ptr) /\ child.ptr[n + 1] = 0
    <3>1. Nils(InsertAt(child.ptr, n + 1, 0))
      BY <2>2, <1>1, NilsKept
    <3> HIDE DEF ins, n
    <3> QED
      BY <3>1, <2>2, <1>9 DEF Nils
  <2>4. Nils(Put(ins.ptr, n + 1, 0))
    <3> HIDE DEF ins, n
    <3> QED
      BY <2>2, <2>3, <1>11, NilsKept
  <2>5. Nils(RemoveAt(right.ptr, 1))
    BY <2>2, <1>1, NilsKept
  <2> HIDE DEF thinner, fuller, ins, n
  <2> QED
    BY <2>1, <2>3, <2>4, <2>5, <1>14
<1> HIDE DEF thinner, fuller
<1>20. Retires(s, parent, j)
  <2>1. s.retired = <<GetPtr(parent, i), GetPtr(parent, i + 1)>>
    BY DEF RotateLeft, Repaired
  <2> QED
    BY <2>1, Zenon DEF Retires, GetPtr
<1> QED
  BY <1>1, <1>3, <1>7, <1>13, <1>14, <1>15, <1>16, <1>17, <1>18, <1>19, <1>20 DEF Redistributed, sep

-----------------------------------------------------------------------------
(* InsertAll is its pairs inserted one after the other.                    *)
Folded(n, kvs, k, g) ==
  g = [s \in SUBSET (1 .. k) |->
         IF s = {} THEN n ELSE InsertKV(g[s \ {Max(s)}], kvs[Max(s)])]

(* The largest member of a set that holds the last place is that place,    *)
(* which is how the fold of InsertAll visits the pairs.                    *)
LEMMA MaxOfInitial ==
  ASSUME NEW k \in Nat, NEW s, s \subseteq 1 .. k + 1, k + 1 \in s
  PROVE  Max(s) = k + 1
<1>1. \A y \in s : k + 1 >= y
  OBVIOUS
<1>2. Max(s) \in s /\ \A y \in s : Max(s) >= y
  BY <1>1 DEF Max
<1> DEFINE top == Max(s)
<1>3. top \in 1 .. k + 1 /\ top >= k + 1
  BY <1>2
<1> HIDE DEF top
<1>4. top = k + 1
  BY <1>3
<1> QED
  BY <1>4 DEF top

(* The fold that inserts the first k pairs extends by one pair.            *)
LEMMA FoldExtends ==
  ASSUME NEW n, NEW kvs, NEW k \in Nat, NEW g, Folded(n, kvs, k, g)
  PROVE  \E h : Folded(n, kvs, k + 1, h)
<1> DEFINE h == [s \in SUBSET (1 .. k + 1) |->
                   IF k + 1 \in s THEN InsertKV(g[s \ {k + 1}], kvs[k + 1]) ELSE g[s]]
           u == [s \in SUBSET (1 .. k + 1) |->
                   IF s = {} THEN n ELSE InsertKV(h[s \ {Max(s)}], kvs[Max(s)])]
<1>1. ASSUME NEW s \in SUBSET (1 .. k) PROVE s \in SUBSET (1 .. k + 1) /\ k + 1 \notin s /\ h[s] = g[s]
  <2>1. s \in SUBSET (1 .. k + 1) /\ k + 1 \notin s
    OBVIOUS
  <2> QED
    BY <2>1
<1>2. ASSUME NEW s \in SUBSET (1 .. k)
      PROVE  g[s] = IF s = {} THEN n ELSE InsertKV(g[s \ {Max(s)}], kvs[Max(s)])
  BY Zenon DEF Folded
<1>3. ASSUME NEW s \in SUBSET (1 .. k + 1) PROVE h[s] = u[s]
  <2>0. u[s] = IF s = {} THEN n ELSE InsertKV(h[s \ {Max(s)}], kvs[Max(s)])
    OBVIOUS
  <2>1. CASE k + 1 \in s
    <3>1. Max(s) = k + 1 /\ s # {}
      BY <2>1, MaxOfInitial
    <3>2. s \ {k + 1} \in SUBSET (1 .. k)
      OBVIOUS
    <3>3. h[s] = InsertKV(g[s \ {k + 1}], kvs[k + 1])
      BY <2>1
    <3>4. h[s \ {k + 1}] = g[s \ {k + 1}]
      BY <3>2, <1>1
    <3> HIDE DEF h, u
    <3> QED
      BY <2>0, <3>1, <3>3, <3>4
  <2>2. CASE k + 1 \notin s
    <3>1. s \in SUBSET (1 .. k)
      BY <2>2
    <3>2. s \ {Max(s)} \in SUBSET (1 .. k)
      BY <3>1
    <3>3. h[s] = g[s] /\ h[s \ {Max(s)}] = g[s \ {Max(s)}]
      BY <3>1, <3>2, <1>1
    <3>4. g[s] = IF s = {} THEN n ELSE InsertKV(g[s \ {Max(s)}], kvs[Max(s)])
      BY <3>1, <1>2
    <3> HIDE DEF h, u
    <3> QED
      BY <2>0, <3>3, <3>4
  <2> QED
    BY <2>1, <2>2
<1>4. h = [s \in SUBSET (1 .. k + 1) |-> h[s]] /\ u = [s \in SUBSET (1 .. k + 1) |-> u[s]]
  OBVIOUS
<1>5. h = u
  <2> HIDE DEF h, u
  <2> QED
    BY <1>3, <1>4
<1>6. Folded(n, kvs, k + 1, h)
  <2> HIDE DEF h
  <2> QED
    BY <1>5, Zenon DEF Folded
<1> HIDE DEF h
<1> QED
  BY <1>6

(* So there is one for every length: the least length without one would    *)
(* follow a length with one.                                               *)
LEMMA FoldExists ==
  ASSUME NEW n, NEW kvs, NEW N \in Nat
  PROVE  \E g : Folded(n, kvs, N, g)
<1> DEFINE Missing == {k \in 0 .. N : \A g : ~Folded(n, kvs, k, g)}
<1>1. Folded(n, kvs, 0, [s \in {{}} |-> n])
  <2>1. SUBSET (1 .. 0) = {{}}
    OBVIOUS
  <2>2. \A g : [s \in {{}} |-> IF s = {} THEN n ELSE InsertKV(g[s \ {Max(s)}], kvs[Max(s)])] = [s \in {{}} |-> n]
    OBVIOUS
  <2> QED
    BY <2>1, <2>2, Zenon DEF Folded
<1>2. SUFFICES ASSUME Missing # {} PROVE FALSE
  BY <1>2
<1>3. PICK k \in Missing : \A j \in Missing : k <= j
  <2>1. Missing \subseteq Nat
    OBVIOUS
  <2> HIDE DEF Missing
  <2> QED
    BY <2>1, <1>2, LeastIndex
<1>4. k # 0
  BY <1>1
<1>5. k - 1 \in 0 .. N /\ k - 1 \notin Missing /\ (k - 1) + 1 = k
  BY <1>3, <1>4
<1>6. PICK g : Folded(n, kvs, k - 1, g)
  BY <1>5
<1>7. \E h : Folded(n, kvs, (k - 1) + 1, h)
  <2>1. k - 1 \in Nat
    BY <1>5
  <2> QED
    BY <2>1, <1>6, FoldExtends
<1> QED
  BY <1>5, <1>7
(* Inserting a list of pairs into a node is inserting them one after the   *)
(* other, in order.                                                        *)
LEMMA InsertAllUnrolls ==
  ASSUME NEW n, NEW kvs \in Seq(KVs)
  PROVE  \E f : /\ f[0] = n /\ f[Len(kvs)] = InsertAll(n, kvs)
                /\ \A k \in 0 .. Len(kvs) - 1 : f[k + 1] = InsertKV(f[k], kvs[k + 1])
<1> DEFINE N == Len(kvs)
           g == CHOOSE h : Folded(n, kvs, N, h)
           f == [k \in 0 .. N |-> g[1 .. k]]
<1>1. N \in Nat /\ DOMAIN kvs = 1 .. N
  OBVIOUS
<1>2. Folded(n, kvs, N, g)
  <2>1. \E h : Folded(n, kvs, N, h)
    BY <1>1, FoldExists
  <2> QED
    BY <2>1
<1>3. InsertAll(n, kvs) = g[1 .. N]
  <2>1. InsertAll(n, kvs) = (CHOOSE h : Folded(n, kvs, N, h))[1 .. N]
    BY <1>1, Zenon DEF InsertAll, FoldLeft, MapThenFoldSet, Folded
  <2> QED
    BY <2>1
<1> HIDE DEF g, N
<1>4. ASSUME NEW s \in SUBSET (1 .. N)
      PROVE  g[s] = IF s = {} THEN n ELSE InsertKV(g[s \ {Max(s)}], kvs[Max(s)])
  BY <1>2, Zenon DEF Folded
<1>5. f[0] = n
  <2>1. 1 .. 0 = {} /\ {} \in SUBSET (1 .. N) /\ 0 \in 0 .. N
    BY <1>1
  <2>2. g[{}] = n
    BY <2>1, <1>4
  <2> QED
    BY <2>1, <2>2
<1>6. f[N] = InsertAll(n, kvs)
  BY <1>1, <1>3
<1>7. ASSUME NEW k \in 0 .. N - 1 PROVE f[k + 1] = InsertKV(f[k], kvs[k + 1])
  <2>1. k \in Nat /\ k \in 0 .. N /\ k + 1 \in 0 .. N /\ 1 .. k + 1 \in SUBSET (1 .. N)
        /\ 1 .. k + 1 # {} /\ k + 1 \in 1 .. k + 1
    BY <1>1
  <2>2. Max(1 .. k + 1) = k + 1
    BY <2>1, MaxOfInitial
  <2>3. (1 .. k + 1) \ {k + 1} = 1 .. k
    BY <2>1
  <2>4. g[1 .. k + 1] = InsertKV(g[(1 .. k + 1) \ {k + 1}], kvs[k + 1])
    BY <2>1, <2>2, <1>4
  <2>5. f[k + 1] = g[1 .. k + 1] /\ f[k] = g[1 .. k]
    BY <2>1
  <2> QED
    BY <2>3, <2>4, <2>5
<1> QED
  BY <1>5, <1>6, <1>7 DEF N

(* A pair inserted leaves a node, whether it fits or not.                  *)
LEMMA InsertKVIsNode ==
  ASSUME NEW n, IsNode(n), NEW kv \in KVs
  PROVE  /\ IsNode(InsertKV(n, kv)) /\ InsertKV(n, kv).type = n.type
         /\ InsertKV(n, kv).ok => n.ok
         /\ Nils(n.ptr) => Nils(InsertKV(n, kv).ptr)
<1> DEFINE i == FindIndex(n, kv[1])
<1>1. n.kvs \in Seq(KVs) /\ n.ptr \in Seq(Nat) /\ Len(n.ptr) = Len(n.kvs) + 1 /\ n \in Nodes
  BY DEF IsNode, Nodes, KVs
<1>2. i \in 0 .. Len(n.kvs)
  BY <1>1, FindIndexIsFirst DEF KVs
<1> HIDE DEF i
<1>3. \/ InsertKV(n, kv) = [n EXCEPT !.ok = FALSE]
      \/ InsertKV(n, kv) = With(n, InsertAt(n.kvs, i + 1, kv), InsertAt(n.ptr, i + 1, 0))
  BY Zenon DEF InsertKV, With, i
<1>4. CASE InsertKV(n, kv) = [n EXCEPT !.ok = FALSE]
  <2>1. /\ [n EXCEPT !.ok = FALSE] \in Nodes
        /\ [n EXCEPT !.ok = FALSE].kvs = n.kvs /\ [n EXCEPT !.ok = FALSE].ptr = n.ptr
        /\ [n EXCEPT !.ok = FALSE].ok = FALSE /\ [n EXCEPT !.ok = FALSE].type = n.type
    BY <1>1 DEF Nodes
  <2> QED
    BY <2>1, <1>1, <1>4 DEF IsNode
<1>5. CASE InsertKV(n, kv) = With(n, InsertAt(n.kvs, i + 1, kv), InsertAt(n.ptr, i + 1, 0))
  <2> DEFINE k == InsertAt(n.kvs, i + 1, kv)
             p == InsertAt(n.ptr, i + 1, 0)
  <2>1. i + 1 \in 1 .. Len(n.kvs) + 1 /\ i + 1 \in 1 .. Len(n.ptr) + 1 /\ 0 \in Nat
    BY <1>1, <1>2
  <2>2. k \in Seq(KVs) /\ Len(k) = Len(n.kvs) + 1
    BY <2>1, <1>1, InsertedList
  <2>3. p \in Seq(Nat) /\ Len(p) = Len(n.ptr) + 1
    <3>1. PICK N : N = Nat
      OBVIOUS
    <3>2. n.ptr \in Seq(N) /\ 0 \in N
      BY <3>1, <1>1
    <3>3. p \in Seq(N) /\ Len(p) = Len(n.ptr) + 1
      BY <2>1, <3>2, InsertedList
    <3> QED
      BY <3>1, <3>3
  <2> HIDE DEF k, p
  <2>4. Len(p) = Len(k) + 1
    BY <2>2, <2>3, <1>1
  <2>5. Nils(n.ptr) => Nils(p)
    BY <2>1, <1>1, NilsKept DEF p
  <2> QED
    BY <2>2, <2>3, <2>4, <2>5, <1>1, <1>5, NodeWith DEF k, p
<1> QED
  BY <1>3, <1>4, <1>5
(* Pairs that come after those of a node are appended to it.               *)
LEMMA InsertAllAppends ==
  ASSUME NEW n, IsNode(n), NEW kvs \in Seq(KVs), InOrder(n.kvs \o kvs), InsertAll(n, kvs).ok
  PROVE  /\ IsNode(InsertAll(n, kvs)) /\ InsertAll(n, kvs).type = n.type /\ n.ok
         /\ InsertAll(n, kvs).kvs = n.kvs \o kvs
         /\ \A x \in 1 .. Len(n.kvs) : InsertAll(n, kvs).ptr[x] = n.ptr[x]
<1> DEFINE N == Len(kvs)
           L == Len(n.kvs)
           c == n.kvs \o kvs
<1>1. /\ n.kvs \in Seq(KVs) /\ n.ptr \in Seq(Nat) /\ Len(n.ptr) = L + 1 /\ n \in Nodes
      /\ L \in Nat /\ N \in Nat
  BY DEF IsNode, Nodes, KVs
<1>2. /\ c \in Seq(KVs) /\ Len(c) = L + N
      /\ \A x \in 1 .. L + N : c[x] = IF x <= L THEN n.kvs[x] ELSE kvs[x - L]
  BY <1>1, ConcatProperties
<1>3. \A x, y \in 1 .. L + N : x < y => c[x][1] < c[y][1]
  <2> HIDE DEF c
  <2>1. DOMAIN c = 1 .. L + N
    BY <1>2
  <2> QED
    BY <2>1 DEF InOrder, c
<1>4. PICK f : /\ f[0] = n /\ f[N] = InsertAll(n, kvs)
               /\ \A k \in 0 .. N - 1 : f[k + 1] = InsertKV(f[k], kvs[k + 1])
  BY InsertAllUnrolls
<1> HIDE DEF c, N, L
<1> DEFINE Appended(r, k) == /\ Len(r.kvs) = L + k
                             /\ \A x \in 1 .. L + k : r.kvs[x] = c[x]
                             /\ \A x \in 1 .. L : r.ptr[x] = n.ptr[x]
           P(k) == /\ IsNode(f[k]) /\ f[k].type = n.type
                   /\ f[k].ok => n.ok /\ Appended(f[k], k)
<1>5. P(0)
  <2>1. \A x \in 1 .. L : n.kvs[x] = c[x]
    BY <1>1, <1>2
  <2>2. Len(n.kvs) = L + 0 /\ 1 .. L + 0 = 1 .. L
    BY <1>1 DEF L
  <2> QED
    BY <2>1, <2>2, <1>4
<1>6. ASSUME NEW k \in 0 .. N - 1, P(k) PROVE P(k + 1)
  <2> DEFINE r  == f[k]
             kv == kvs[k + 1]
             s  == InsertKV(r, kv)
             at == L + k
  <2>1. k \in Nat /\ k + 1 \in 1 .. N /\ at \in Nat /\ at + 1 \in 1 .. L + N /\ at + 1 = L + (k + 1)
        /\ ~(at + 1 <= L) /\ (at + 1) - L = k + 1
    BY <1>1
  <2>2. kv \in KVs /\ kv = c[at + 1]
    <3>1. kv \in KVs
      BY <2>1 DEF N
    <3>2. c[at + 1] = kvs[(at + 1) - L]
      BY <2>1, <1>2
    <3> QED
      BY <3>1, <3>2, <2>1
  <2>3. f[k + 1] = s
    BY <1>4
  <2>4. IsNode(r) /\ r.type = n.type /\ (r.ok => n.ok /\ Appended(r, k))
    BY <1>6
  <2> HIDE DEF r, kv, at
  <2>5. IsNode(s) /\ s.type = r.type /\ (s.ok => r.ok)
    BY <2>2, <2>4, InsertKVIsNode
  <2>6. ASSUME s.ok PROVE n.ok /\ Appended(s, k + 1)
    <3>1. n.ok /\ Appended(r, k)
      BY <2>4, <2>5, <2>6
    <3>2. Len(r.kvs) = at /\ \A x \in 1 .. at : r.kvs[x] = c[x]
      BY <3>1 DEF at
    <3>3. FitsAt(r.kvs, at, kv) /\ at \in 0 .. Len(r.kvs)
      <4>1. ASSUME NEW x \in 1 .. at PROVE r.kvs[x][1] < kv[1]
        <5>1. x \in 1 .. L + N /\ x < at + 1
          BY <2>1, <1>1
        <5>2. c[x][1] < c[at + 1][1]
          BY <5>1, <2>1, <1>3
        <5> QED
          BY <5>2, <3>2, <2>2
      <4> QED
        BY <4>1, <3>2, <2>1 DEF FitsAt
    <3>4. s.kvs = InsertAt(r.kvs, at + 1, kv) /\ s.ptr = InsertAt(r.ptr, at + 1, 0)
      BY <2>2, <2>4, <2>6, <3>3, InsertKVAt
    <3>5. r.kvs \in Seq(KVs) /\ r.ptr \in Seq(Nat) /\ Len(r.ptr) = at + 1
      BY <2>4, <3>2 DEF IsNode, Nodes, KVs
    <3>6. Len(s.kvs) = at + 1
          /\ \A x \in 1 .. at + 1 :
               s.kvs[x] = IF x < at + 1 THEN r.kvs[x] ELSE IF x = at + 1 THEN kv ELSE r.kvs[x - 1]
      <4>1. at + 1 \in 1 .. Len(r.kvs) + 1
        BY <3>2, <2>1
      <4>2. ASSUME NEW a \in Seq(KVs), NEW i \in 1 .. Len(a) + 1
            PROVE  /\ Len(InsertAt(a, i, kv)) = Len(a) + 1
                   /\ \A x \in 1 .. Len(a) + 1 :
                        InsertAt(a, i, kv)[x] = IF x < i THEN a[x] ELSE IF x = i THEN kv ELSE a[x - 1]
        BY <2>2, InsertedList
      <4> QED
        BY <4>1, <4>2, <3>2, <3>4, <3>5, SMTT(30)
    <3>7. \A x \in 1 .. at + 1 : s.kvs[x] = c[x]
      <4>1. ASSUME NEW x \in 1 .. at + 1 PROVE s.kvs[x] = c[x]
        <5>1. CASE x < at + 1
          <6>1. x \in 1 .. at
            BY <5>1, <2>1
          <6> QED
            BY <5>1, <6>1, <3>2, <3>6
        <5>2. CASE x = at + 1
          <6>1. ~(at + 1 < at + 1)
            BY <2>1
          <6> QED
            BY <5>2, <6>1, <3>6, <2>2
        <5> QED
          BY <5>1, <5>2, <2>1
      <4> QED
        BY <4>1
    <3>8. \A x \in 1 .. L : s.ptr[x] = r.ptr[x]
      <4>1. PICK S : S = Nat
        OBVIOUS
      <4>2. r.ptr \in Seq(S) /\ 0 \in S
        BY <4>1, <3>5
      <4>3. at + 1 \in 1 .. Len(r.ptr) + 1
        BY <3>5, <2>1
      <4>4. \A x \in 1 .. Len(r.ptr) + 1 :
              InsertAt(r.ptr, at + 1, 0)[x] = IF x < at + 1 THEN r.ptr[x] ELSE IF x = at + 1 THEN 0 ELSE r.ptr[x - 1]
        <5>1. ASSUME NEW a \in Seq(S), NEW e \in S, NEW i \in 1 .. Len(a) + 1
              PROVE  \A x \in 1 .. Len(a) + 1 :
                       InsertAt(a, i, e)[x] = IF x < i THEN a[x] ELSE IF x = i THEN e ELSE a[x - 1]
          BY InsertedList
        <5> QED
          BY <5>1, <4>2, <4>3
      <4>5. \A x \in 1 .. L : x \in 1 .. Len(r.ptr) + 1 /\ x < at + 1
        BY <1>1, <2>1, <3>5 DEF at
      <4> QED
        BY <4>4, <4>5, <3>4
    <3> QED
      BY <3>1, <3>6, <3>7, <3>8, <2>1
  <2> QED
    BY <2>3, <2>4, <2>5, <2>6
<1>7. P(N)
  <2> DEFINE Missing == {k \in 0 .. N : ~P(k)}
  <2>1. SUFFICES ASSUME ~P(N) PROVE FALSE
    OBVIOUS
  <2>2. N \in Missing /\ Missing \subseteq Nat
    BY <2>1, <1>1
  <2> HIDE DEF P
  <2>3. PICK k \in Missing : \A j \in Missing : k <= j
    <3> HIDE DEF Missing
    <3> QED
      BY <2>2, LeastIndex
  <2>4. k # 0 /\ k \in 0 .. N
    BY <2>3, <1>5
  <2>5. k - 1 \in 0 .. N - 1 /\ k - 1 \in 0 .. N /\ (k - 1) + 1 = k /\ ~(k <= k - 1)
    BY <2>4, <1>1
  <2>6. P(k - 1)
    BY <2>3, <2>5
  <2>7. P(k)
    BY <2>5, <2>6, <1>6
  <2> QED
    BY <2>3, <2>7
<1>8. InsertAll(n, kvs).kvs = c
  <2> DEFINE r == InsertAll(n, kvs)
  <2>1. IsNode(r) /\ Len(r.kvs) = L + N /\ \A x \in 1 .. L + N : r.kvs[x] = c[x]
    BY <1>4, <1>7
  <2> HIDE DEF r
  <2>2. r.kvs \in Seq(KVs)
    BY <2>1 DEF IsNode, Nodes, KVs
  <2>3. r.kvs = c
    BY <2>1, <2>2, <1>2, SeqEqual
  <2> QED
    BY <2>3 DEF r
<1>9. /\ IsNode(f[N]) /\ f[N].type = n.type /\ n.ok
      /\ \A x \in 1 .. L : f[N].ptr[x] = n.ptr[x]
  BY <1>4, <1>7
<1> QED
  BY <1>4, <1>8, <1>9 DEF c, L
(* Whatever its pairs are, and whether or not they fit, a fold of insertKV *)
(* returns a node.                                                         *)
LEMMA InsertAllIsNode ==
  ASSUME NEW n, IsNode(n), NEW kvs \in Seq(KVs)
  PROVE  /\ IsNode(InsertAll(n, kvs)) /\ InsertAll(n, kvs).type = n.type
         /\ InsertAll(n, kvs).ok => n.ok
         /\ Nils(n.ptr) => Nils(InsertAll(n, kvs).ptr)
<1> DEFINE N == Len(kvs)
<1>1. N \in Nat /\ \A k \in 1 .. N : kvs[k] \in KVs
  OBVIOUS
<1>2. PICK f : /\ f[0] = n /\ f[N] = InsertAll(n, kvs)
               /\ \A k \in 0 .. N - 1 : f[k + 1] = InsertKV(f[k], kvs[k + 1])
  BY InsertAllUnrolls
<1> HIDE DEF N
<1> DEFINE P(k) == /\ IsNode(f[k]) /\ f[k].type = n.type /\ (f[k].ok => n.ok)
                   /\ (Nils(n.ptr) => Nils(f[k].ptr))
           Missing == {k \in 0 .. N : ~P(k)}
<1>3. P(0)
  BY <1>2
<1>4. ASSUME NEW k \in 0 .. N - 1, P(k) PROVE P(k + 1)
  <2>1. kvs[k + 1] \in KVs /\ f[k + 1] = InsertKV(f[k], kvs[k + 1])
    BY <1>1, <1>2
  <2> QED
    BY <2>1, <1>4, InsertKVIsNode, SMTT(30)
<1>5. P(N)
  <2>1. SUFFICES ASSUME ~P(N) PROVE FALSE
    OBVIOUS
  <2>2. N \in Missing /\ Missing \subseteq Nat
    BY <2>1, <1>1
  <2> HIDE DEF P
  <2>3. PICK k \in Missing : \A j \in Missing : k <= j
    <3> HIDE DEF Missing
    <3> QED
      BY <2>2, LeastIndex
  <2>4. k # 0 /\ k \in 0 .. N
    BY <2>3, <1>3
  <2>5. k - 1 \in 0 .. N - 1 /\ k - 1 \in 0 .. N /\ (k - 1) + 1 = k /\ ~(k <= k - 1)
    BY <2>4, <1>1
  <2>6. P(k - 1)
    BY <2>3, <2>5
  <2>7. P(k)
    BY <2>5, <2>6, <1>4
  <2> QED
    BY <2>3, <2>7
<1> QED
  BY <1>2, <1>5

(* A node of which only the pointers change.                               *)
LEMMA PtrWith ==
  ASSUME NEW n \in Nodes, NEW p
  PROVE  [n EXCEPT !.ptr = p] = With(n, n.kvs, p)
<1>1. [n EXCEPT !.ptr = p] \in [type : {n.type}, kvs : {n.kvs}, ptr : {p}, ok : {n.ok}]
  BY DEF Nodes
<1>2. With(n, n.kvs, p) \in [type : {n.type}, kvs : {n.kvs}, ptr : {p}, ok : {n.ok}]
  BY DEF Nodes, With
<1> QED
  BY <1>1, <1>2

(* The pairs of two neighbours and the one between them are in order.      *)
LEMMA AroundInOrder ==
  ASSUME NEW parent, NEW j, NEW l, NEW r, Around(parent, j, l, r)
  PROVE  InOrder((l.kvs \o <<parent.kvs[j]>>) \o r.kvs)
<1> DEFINE sep == parent.kvs[j]
           a   == l.kvs \o <<sep>>
           c   == a \o r.kvs
           L   == Len(l.kvs)
           R   == Len(r.kvs)
<1>1. /\ l.kvs \in Seq(KVs) /\ r.kvs \in Seq(KVs) /\ parent.kvs \in Seq(KVs) /\ j \in 1 .. Len(parent.kvs)
      /\ L \in Nat /\ R \in Nat
  BY SMTT(30) DEF Around, IsNode, Nodes, KVs
<1>2. sep \in KVs /\ sep[1] \in Nat
  BY <1>1, KeysAreNumbers
<1> HIDE DEF sep
<1>3. a \in Seq(KVs) /\ Len(a) = L + 1 /\ a[L + 1] = sep /\ \A x \in 1 .. L : a[x] = l.kvs[x]
  <2>1. <<sep>> \in Seq(KVs) /\ Len(<<sep>>) = 1 /\ <<sep>>[1] = sep
    BY <1>2
  <2>2. a \in Seq(KVs) /\ Len(a) = L + 1
        /\ \A x \in 1 .. L + 1 : a[x] = IF x <= L THEN l.kvs[x] ELSE <<sep>>[x - L]
    BY <1>1, <2>1, ConcatProperties
  <2> HIDE DEF a, L
  <2>3. L + 1 \in 1 .. L + 1 /\ ~(L + 1 <= L) /\ (L + 1) - L = 1
    BY <1>1
  <2>4. \A x \in 1 .. L : x \in 1 .. L + 1 /\ x <= L
    BY <1>1
  <2>5. a[L + 1] = <<sep>>[1]
    BY <2>2, <2>3
  <2>6. \A x \in 1 .. L : a[x] = l.kvs[x]
    BY <2>2, <2>4
  <2> QED
    BY <2>1, <2>2, <2>5, <2>6
<1>4. /\ c \in Seq(KVs) /\ Len(c) = (L + 1) + R
      /\ \A x \in 1 .. (L + 1) + R : c[x] = IF x <= L + 1 THEN a[x] ELSE r.kvs[x - (L + 1)]
  <2>1. /\ c \in Seq(KVs) /\ Len(c) = Len(a) + Len(r.kvs)
        /\ \A x \in 1 .. Len(a) + Len(r.kvs) : c[x] = IF x <= Len(a) THEN a[x] ELSE r.kvs[x - Len(a)]
    <3> HIDE DEF a
    <3> QED
      BY <1>1, <1>3, ConcatProperties
  <2> HIDE DEF c, a
  <2> QED
    BY <2>1, <1>3
<1>5. /\ \A x \in 1 .. L : l.kvs[x][1] \in Nat /\ l.kvs[x][1] < sep[1]
      /\ \A x \in 1 .. R : r.kvs[x][1] \in Nat /\ sep[1] < r.kvs[x][1]
      /\ \A x, y \in 1 .. L : x < y => l.kvs[x][1] < l.kvs[y][1]
      /\ \A x, y \in 1 .. R : x < y => r.kvs[x][1] < r.kvs[y][1]
  <2>1. /\ \A x \in 1 .. L : l.kvs[x][1] \in Nat
        /\ \A x \in 1 .. R : r.kvs[x][1] \in Nat
    BY <1>1, KeysAreNumbers
  <2>2. DOMAIN l.kvs = 1 .. L /\ DOMAIN r.kvs = 1 .. R
    BY <1>1
  <2> QED
    BY <2>1, <2>2 DEF Around, InOrder, sep
<1> HIDE DEF a, c, L, R
<1>6. /\ \A x \in 1 .. L : c[x] = l.kvs[x]
      /\ c[L + 1] = sep
      /\ \A x \in (L + 2) .. (L + 1) + R : c[x] = r.kvs[x - (L + 1)] /\ x - (L + 1) \in 1 .. R
  <2>1. \A x \in 1 .. L : x \in 1 .. (L + 1) + R /\ x <= L + 1
    BY <1>1
  <2>2. L + 1 \in 1 .. (L + 1) + R /\ L + 1 <= L + 1
    BY <1>1
  <2>3. \A x \in (L + 2) .. (L + 1) + R :
          x \in 1 .. (L + 1) + R /\ ~(x <= L + 1) /\ x - (L + 1) \in 1 .. R
    BY <1>1
  <2> QED
    BY <2>1, <2>2, <2>3, <1>3, <1>4
<1>7. ASSUME NEW x \in 1 .. (L + 1) + R, NEW y \in 1 .. (L + 1) + R, x < y PROVE c[x][1] < c[y][1]
  <2>1. CASE y \in 1 .. L
    <3>1. x \in 1 .. L
      BY <2>1, <1>7, <1>1
    <3> QED
      BY <3>1, <2>1, <1>5, <1>6, <1>7
  <2>2. CASE y = L + 1
    <3>1. x \in 1 .. L
      BY <2>2, <1>7, <1>1
    <3> QED
      BY <3>1, <2>2, <1>5, <1>6
  <2>3. CASE y \in (L + 2) .. (L + 1) + R
    <3>1. c[y] = r.kvs[y - (L + 1)] /\ y - (L + 1) \in 1 .. R
      BY <2>3, <1>6
    <3>2. c[y][1] \in Nat /\ sep[1] < c[y][1]
      BY <3>1, <1>5
    <3>3. CASE x \in 1 .. L
      <4>1. c[x][1] \in Nat /\ c[x][1] < sep[1]
        BY <3>3, <1>5, <1>6
      <4> QED
        BY <4>1, <3>2, <1>2
    <3>4. CASE x = L + 1
      BY <3>4, <3>2, <1>6
    <3>5. CASE x \in (L + 2) .. (L + 1) + R
      <4>1. c[x] = r.kvs[x - (L + 1)] /\ x - (L + 1) \in 1 .. R
        BY <3>5, <1>6
      <4>2. x - (L + 1) < y - (L + 1)
        BY <1>7, <1>1
      <4> QED
        BY <4>1, <4>2, <3>1, <1>5
    <3>6. x \in 1 .. L \/ x = L + 1 \/ x \in (L + 2) .. (L + 1) + R
      BY <1>1
    <3> QED
      BY <3>3, <3>4, <3>5, <3>6
  <2>4. y \in 1 .. L \/ y = L + 1 \/ y \in (L + 2) .. (L + 1) + R
    BY <1>1
  <2> QED
    BY <2>1, <2>2, <2>3, <2>4
<1>8. DOMAIN c = 1 .. (L + 1) + R
  BY <1>4
<1>9. InOrder(c)
  BY <1>7, <1>8 DEF InOrder
<1> QED
  BY <1>9 DEF c, a, sep
(* What a merge promises: one page with the pairs of both and the one      *)
(* between them, in order, their pointers too; the parent loses pair j.    *)
Merged(s, m, parent, j, l, r) ==
  /\ Retires(s, parent, j)
  /\ \E v \in Nodes :
       /\ s.pm = CopyToNewPage(m, v).pm /\ s.err = CopyToNewPage(m, v).err
       /\ s.node = With(parent, RemoveAt(parent.kvs, j),
                        Put(RemoveAt(parent.ptr, j), j, CopyToNewPage(m, v).page))
       /\ IsNode(v) /\ v.type = l.type /\ v.ok
       /\ v.kvs = (l.kvs \o <<parent.kvs[j]>>) \o r.kvs
       /\ l.type = "internal" => v.ptr = l.ptr \o r.ptr
       /\ l.type # "internal" /\ Nils(l.ptr) => Nils(v.ptr)

(* Merging two children keeps every pair and every pointer in order.       *)
THEOREM MergeKeepsOrder ==
  ASSUME NEW m, NEW parent, NEW i \in Nat, NEW left, NEW right, NEW s,
         left = LoadAsNode(m, GetPtr(parent, i)), right = LoadAsNode(m, GetPtr(parent, i + 1)),
         Around(parent, i + 1, left, right),
         s = MergeChildren(m, parent, i), s.err # Panicked
  PROVE  Merged(s, m, parent, i + 1, left, right)
<1> DEFINE n      == Len(left.kvs)
           j      == i + 1
           sep    == parent.kvs[j]
           ins    == InsertKV(left, sep)
           down   == SetPtr(ins, n, GetPtr(left, n))
           pairs  == InsertAll(down, right.kvs)
           merged == IF right.type = "internal"
                     THEN [pairs EXCEPT !.ptr = SubSeq(@, 1, n + 1) \o right.ptr]
                     ELSE pairs
           c      == IF merged.ok /\ right.ok THEN CopyToNewPage(m, merged) ELSE Failed(m, Panicked)
           up     == SetPtr(DeleteKV(parent, i), i, c.page)
<1>1. /\ left.kvs \in Seq(KVs) /\ left.ptr \in Seq(Nat) /\ Len(left.ptr) = n + 1 /\ left \in Nodes
      /\ right.kvs \in Seq(KVs) /\ right.ptr \in Seq(Nat) /\ Len(right.ptr) = Len(right.kvs) + 1
      /\ right \in Nodes /\ IsNode(left) /\ IsNode(right) /\ IsNode(parent)
      /\ parent \in Nodes /\ parent.kvs \in Seq(KVs) /\ j \in 1 .. Len(parent.kvs)
      /\ left.type = right.type
  BY DEF Around, IsNode, Nodes, KVs
<1>2. /\ n \in Nat /\ j - 1 = i /\ n \in 0 .. Len(left.kvs) /\ i \in 0 .. Len(parent.kvs) - 1
      /\ Len(right.kvs) \in Nat
  BY <1>1, SMTT(30)
<1>3. sep \in KVs
  BY <1>1, KeysAreNumbers
<1>4. GetKV(parent, i) = sep /\ GetPtr(left, n) = left.ptr[n + 1] /\ GetNKeys(left) = n
  BY Zenon DEF GetKV, GetPtr, GetNKeys
<1>5. s = Repaired(c.pm, up, Siblings(parent, i), c.err)
  <2> HIDE DEF sep, n
  <2>1. MergeChildren(m, parent, i) = Repaired(c.pm, up, Siblings(parent, i), c.err)
    BY <1>4, Zenon DEF MergeChildren
  <2> QED
    BY <2>1
<1> HIDE DEF up, c
<1>6. up.ok /\ s.pm = c.pm /\ s.err = c.err /\ s.node = up /\ c.err # Panicked
  <2>1. s = [pm |-> c.pm, node |-> up, retired |-> Siblings(parent, i),
             err |-> IF up.ok THEN c.err ELSE Panicked]
    BY <1>5, Zenon DEF Repaired
  <2> QED
    BY <2>1
<1> HIDE DEF merged
<1>7. merged.ok /\ c = CopyToNewPage(m, merged)
  <2>1. CASE merged.ok /\ right.ok
    BY <2>1 DEF c
  <2>2. CASE ~(merged.ok /\ right.ok)
    BY <2>2, <1>6 DEF c, Failed
  <2> QED
    BY <2>1, <2>2
<1> HIDE DEF pairs
<1>8. pairs.ok
  BY <1>7 DEF merged
<1> HIDE DEF ins, sep
(* The node down, whatever became of the insertion.                        *)
<1>9. IsNode(ins) /\ ins.type = left.type /\ (ins.ok => left.ok)
  BY <1>1, <1>3, InsertKVIsNode DEF ins
<1>10. ins \in Nodes /\ ins.kvs \in Seq(KVs) /\ ins.ptr \in Seq(Nat) /\ Len(ins.ptr) = Len(ins.kvs) + 1
  BY <1>9 DEF IsNode, Nodes, KVs
<1>11. ASSUME NEW k \in Seq(KVs), NEW p \in Seq(Nat), Len(p) = Len(k) + 1
       PROVE  /\ IsNode(With(ins, k, p)) /\ With(ins, k, p).type = ins.type
              /\ With(ins, k, p).kvs = k /\ With(ins, k, p).ptr = p /\ With(ins, k, p).ok = ins.ok
  BY <1>10, <1>11, NodeWith
<1>12. down = With(ins, ins.kvs, Put(ins.ptr, n + 1, left.ptr[n + 1]))
  <2> HIDE DEF n
  <2>1. down = SetPtr(With(ins, ins.kvs, ins.ptr), n, left.ptr[n + 1])
    BY <1>4, <1>10, SetPtrWith
  <2>2. down = With(ins, ins.kvs, [ins.ptr EXCEPT ![n + 1] = left.ptr[n + 1]])
    BY <2>1, <1>10, SetPtrWith
  <2> QED
    BY <2>2 DEF Put
<1> HIDE DEF down
<1>13. left.ptr[n + 1] \in Nat
  <2>1. n + 1 \in 1 .. Len(left.ptr)
    BY <1>1, <1>2
  <2> QED
    BY <2>1, <1>1
<1>14. ASSUME NEW p \in Seq(Nat), NEW x \in Nat, NEW y
       PROVE  /\ Put(p, y, x) \in Seq(Nat) /\ Len(Put(p, y, x)) = Len(p)
              /\ \A z \in 1 .. Len(p) : Put(p, y, x)[z] = IF z = y THEN x ELSE p[z]
  <2>1. CASE y \in 1 .. Len(p)
    BY <2>1, ExceptSeq DEF Put
  <2>2. CASE y \notin 1 .. Len(p)
    <3>1. [p EXCEPT ![y] = x] = p
      BY <2>2
    <3> QED
      BY <3>1, <2>2 DEF Put
  <2> QED
    BY <2>1, <2>2
<1>15. IsNode(down) /\ down.type = left.type /\ down.ok = ins.ok /\ down.kvs = ins.kvs
       /\ down.ptr = Put(ins.ptr, n + 1, left.ptr[n + 1])
  <2> DEFINE p == Put(ins.ptr, n + 1, left.ptr[n + 1])
  <2>1. p \in Seq(Nat) /\ Len(p) = Len(ins.kvs) + 1
    BY <1>10, <1>13, <1>14
  <2> HIDE DEF p
  <2>2. down = With(ins, ins.kvs, p)
    BY <1>12 DEF p
  <2> QED
    BY <2>1, <2>2, <1>9, <1>10, <1>11 DEF p
<1>16. down.ok /\ ins.ok /\ IsNode(pairs) /\ pairs.type = left.type
  <2>1. IsNode(pairs) /\ pairs.type = down.type /\ (pairs.ok => down.ok)
    BY <1>1, <1>15, InsertAllIsNode DEF pairs
  <2> QED
    BY <2>1, <1>8, <1>15
(* So the separator has been appended.                                     *)
<1>17. ins.kvs = left.kvs \o <<sep>> /\ ins.ptr = InsertAt(left.ptr, n + 1, 0)
  <2>1. FitsAt(left.kvs, n, sep)
    <3>1. \A x \in 1 .. n : left.kvs[x][1] < sep[1]
      BY DEF Around, sep
    <3> QED
      BY <3>1, <1>2 DEF FitsAt
  <2>2. ins.kvs = InsertAt(left.kvs, n + 1, sep) /\ ins.ptr = InsertAt(left.ptr, n + 1, 0)
    BY <2>1, <1>1, <1>2, <1>3, <1>16, InsertKVAt DEF ins
  <2>3. InsertAt(left.kvs, n + 1, sep) = left.kvs \o <<sep>>
    <3>1. ASSUME NEW a \in Seq(KVs), NEW e \in KVs PROVE InsertAt(a, Len(a) + 1, e) = a \o <<e>>
      BY EndsOfList, ZenonT(30)
    <3> QED
      BY <3>1, <1>1, <1>3
  <2> QED
    BY <2>2, <2>3
<1>18. Len(ins.kvs) = n + 1 /\ Len(ins.ptr) = n + 2
  <2>1. <<sep>> \in Seq(KVs) /\ Len(<<sep>>) = 1
    BY <1>3
  <2>2. Len(left.kvs \o <<sep>>) = Len(left.kvs) + 1
    BY <2>1, <1>1, ConcatProperties
  <2> HIDE DEF n
  <2>3. Len(ins.kvs) = n + 1
    BY <2>2, <1>17 DEF n
  <2> QED
    BY <2>3, <1>2, <1>10
<1>19. \A x \in 1 .. n + 1 : down.ptr[x] = left.ptr[x]
  <2> HIDE DEF n
  <2>1. \A x \in 1 .. n + 2 : down.ptr[x] = IF x = n + 1 THEN left.ptr[n + 1] ELSE ins.ptr[x]
    <3>1. \A x \in 1 .. Len(ins.ptr) :
            Put(ins.ptr, n + 1, left.ptr[n + 1])[x] = IF x = n + 1 THEN left.ptr[n + 1] ELSE ins.ptr[x]
      BY <1>10, <1>13, <1>14, SMTT(30)
    <3> QED
      BY <3>1, <1>15, <1>18
  <2>3. PICK S : S = Nat
    OBVIOUS
  <2>2. ASSUME NEW a \in Seq(S), NEW e \in S, NEW y \in 1 .. Len(a) + 1
        PROVE  /\ InsertAt(a, y, e) \in Seq(S) /\ Len(InsertAt(a, y, e)) = Len(a) + 1
               /\ \A x \in 1 .. Len(a) + 1 :
                    InsertAt(a, y, e)[x] = IF x < y THEN a[x] ELSE IF x = y THEN e ELSE a[x - 1]
    BY InsertedList
  <2>4. left.ptr \in Seq(S) /\ 0 \in S /\ n + 1 \in 1 .. Len(left.ptr) + 1
    BY <2>3, <1>1, <1>2 DEF n
  <2>5. \A x \in 1 .. Len(left.ptr) + 1 :
          ins.ptr[x] = IF x < n + 1 THEN left.ptr[x] ELSE IF x = n + 1 THEN 0 ELSE left.ptr[x - 1]
    <3>1. \A x \in 1 .. Len(left.ptr) + 1 :
            InsertAt(left.ptr, n + 1, 0)[x]
              = IF x < n + 1 THEN left.ptr[x] ELSE IF x = n + 1 THEN 0 ELSE left.ptr[x - 1]
      <4>1. PICK a \in Seq(S), e \in S, y \in Nat : a = left.ptr /\ e = 0 /\ y = n + 1 /\ y \in 1 .. Len(a) + 1
        BY <2>4, <1>2
      <4>2. \A x \in 1 .. Len(a) + 1 :
              InsertAt(a, y, e)[x] = IF x < y THEN a[x] ELSE IF x = y THEN e ELSE a[x - 1]
        BY <2>2, <4>1
      <4> QED
        BY <4>1, <4>2
    <3> QED
      BY <3>1, <1>17
  <2>6. \A x \in 1 .. n : x \in 1 .. n + 2 /\ x # n + 1 /\ x < n + 1 /\ x \in 1 .. Len(left.ptr) + 1
    BY <1>1, <1>2, SMTT(30) DEF n
  <2>7. \A x \in 1 .. n : down.ptr[x] = left.ptr[x]
    BY <2>1, <2>5, <2>6
  <2>8. n + 1 \in 1 .. n + 2 /\ \A x \in 1 .. n + 1 : x \in 1 .. n \/ x = n + 1
    BY <1>2
  <2> QED
    BY <2>1, <2>7, <2>8
<1>20. /\ pairs.kvs = (left.kvs \o <<sep>>) \o right.kvs
       /\ \A x \in 1 .. n + 1 : pairs.ptr[x] = down.ptr[x]
  <2>1. InOrder(down.kvs \o right.kvs)
    <3>1. InOrder((left.kvs \o <<parent.kvs[j]>>) \o right.kvs)
      BY AroundInOrder
    <3> QED
      BY <3>1, <1>15, <1>17 DEF sep
  <2>2. /\ pairs.kvs = down.kvs \o right.kvs
        /\ \A x \in 1 .. Len(down.kvs) : pairs.ptr[x] = down.ptr[x]
    BY <2>1, <1>1, <1>8, <1>15, InsertAllAppends DEF pairs
  <2> QED
    BY <2>2, <1>15, <1>17, <1>18
<1>21. pairs \in Nodes /\ pairs.kvs \in Seq(KVs) /\ pairs.ptr \in Seq(Nat)
       /\ Len(pairs.ptr) = Len(pairs.kvs) + 1
  BY <1>16 DEF IsNode, Nodes, KVs
<1>22. Len(pairs.kvs) = (n + 1) + Len(right.kvs)
  <2>1. ins.kvs \o right.kvs = pairs.kvs
    BY <1>17, <1>20
  <2>2. Len(ins.kvs \o right.kvs) = Len(ins.kvs) + Len(right.kvs)
    BY <1>1, <1>10, ConcatProperties
  <2> QED
    BY <2>1, <2>2, <1>18
<1> HIDE DEF n
<1>23. SubSeq(pairs.ptr, 1, n + 1) = left.ptr
  <2>1. n + 1 \in Nat /\ n + 1 \in Int /\ 1 .. n + 1 \subseteq 1 .. Len(pairs.ptr)
    <3>1. PICK R \in Nat : R = Len(right.kvs)
      BY <1>2
    <3>2. Len(pairs.ptr) = ((n + 1) + R) + 1
      BY <3>1, <1>21, <1>22
    <3> QED
      BY <3>2, <1>2
  <2>2. \A x \in 1 .. n + 1 : pairs.ptr[x] \in Nat
    BY <2>1, <1>21, SMTT(30)
  <2> DEFINE p == SubSeq(pairs.ptr, 1, n + 1)
  <2>3. p \in Seq(Nat) /\ Len(p) = n + 1 /\ \A x \in 1 .. n + 1 : p[x] = pairs.ptr[x]
    BY <2>1, <2>2, SubSeqProperties
  <2> HIDE DEF p
  <2>4. \A x \in 1 .. Len(p) : p[x] = left.ptr[x]
    BY <2>3, <1>19, <1>20
  <2>5. p = left.ptr
    BY <2>3, <2>4, <1>1, SeqEqual
  <2> QED
    BY <2>5 DEF p
<1>24. /\ IsNode(merged) /\ merged.type = left.type /\ merged.kvs = pairs.kvs
       /\ right.type = "internal" => merged.ptr = left.ptr \o right.ptr
  <2>1. CASE right.type # "internal"
    BY <2>1, <1>16 DEF merged
  <2>2. CASE right.type = "internal"
    <3> DEFINE q == left.ptr \o right.ptr
    <3>1. merged = [pairs EXCEPT !.ptr = q]
      BY <2>2, <1>23 DEF merged
    <3>2. q \in Seq(Nat) /\ Len(q) = Len(left.ptr) + Len(right.ptr)
      BY <1>1, ConcatProperties, ZenonT(30)
    <3> HIDE DEF q
    <3>3. merged = With(pairs, pairs.kvs, q)
      BY <3>1, <1>21, PtrWith
    <3>4. Len(q) = Len(pairs.kvs) + 1
      <4>1. PICK R \in Nat : R = Len(right.kvs)
        BY <1>2
      <4>2. Len(left.ptr) = n + 1 /\ Len(right.ptr) = R + 1 /\ Len(pairs.kvs) = (n + 1) + R
        BY <4>1, <1>1, <1>22
      <4>3. Len(q) = (n + 1) + (R + 1)
        BY <3>2, <4>2
      <4> QED
        BY <4>2, <4>3, <1>2
    <3>5. IsNode(merged) /\ merged.type = pairs.type /\ merged.kvs = pairs.kvs /\ merged.ptr = q
      <4>1. ASSUME NEW k \in Seq(KVs), NEW p \in Seq(Nat), Len(p) = Len(k) + 1
            PROVE  /\ IsNode(With(pairs, k, p)) /\ With(pairs, k, p).type = pairs.type
                   /\ With(pairs, k, p).kvs = k /\ With(pairs, k, p).ptr = p
        BY <4>1, <1>21, NodeWith
      <4> QED
        BY <4>1, <3>2, <3>3, <3>4, <1>21
    <3> QED
      BY <3>5, <1>16 DEF q
  <2> QED
    BY <2>1, <2>2
<1>25. up = With(parent, RemoveAt(parent.kvs, j), Put(RemoveAt(parent.ptr, j), j, c.page))
  <2>1. DeleteKV(parent, i) = With(parent, RemoveAt(parent.kvs, j), RemoveAt(parent.ptr, j))
    BY <1>1, <1>2, DeleteKVAt
  <2>2. SetPtr(With(parent, RemoveAt(parent.kvs, j), RemoveAt(parent.ptr, j)), i, c.page)
          = With(parent, RemoveAt(parent.kvs, j), Put(RemoveAt(parent.ptr, j), i + 1, c.page))
    <3>1. ASSUME NEW k, NEW p, NEW x
          PROVE  SetPtr(With(parent, k, p), i, x) = With(parent, k, Put(p, i + 1, x))
      BY <1>1, SetPtrWith, SMTT(30) DEF Put
    <3> QED
      BY <3>1
  <2> QED
    BY <2>1, <2>2 DEF up
<1>26. merged \in Nodes
  BY <1>24 DEF IsNode
<1>27. left.type # "internal" /\ Nils(left.ptr) => Nils(merged.ptr)
  <2> SUFFICES ASSUME left.type # "internal", Nils(left.ptr) PROVE Nils(merged.ptr)
    OBVIOUS
  <2>1. n + 1 \in 1 .. Len(left.ptr) /\ n + 1 \in 1 .. Len(left.ptr) + 1 /\ n + 1 \in 1 .. Len(ins.ptr)
    BY <1>1, <1>2, <1>18
  <2>2. Nils(ins.ptr)
    BY <2>1, <1>1, <1>17, NilsKept
  <2>3. left.ptr[n + 1] = 0
    BY <2>1 DEF Nils
  <2>4. down.ptr = Put(ins.ptr, n + 1, left.ptr[n + 1])
    BY <1>15
  <2>5. Nils(down.ptr)
    BY <2>1, <2>2, <2>3, <2>4, <1>10, NilsKept
  <2>6. Nils(pairs.ptr)
    BY <2>5, <1>1, <1>15, InsertAllIsNode DEF pairs
  <2> QED
    BY <2>6, <1>1 DEF merged
<1>28. Retires(s, parent, j)
  <2>1. s.retired = Siblings(parent, i)
    BY <1>5 DEF Repaired
  <2> QED
    BY <2>1, Zenon DEF Retires, Siblings, GetPtr
<1> QED
  BY <1>1, <1>6, <1>7, <1>20, <1>24, <1>25, <1>26, <1>27, <1>28 DEF Merged, sep
-----------------------------------------------------------------------------
(* A part of a node's pairs is in order.                                   *)
LEMMA PartOfList ==
  ASSUME NEW S, NEW s \in Seq(S), NEW a \in Nat \ {0}, NEW b \in Nat, a <= b + 1, b <= Len(s)
  PROVE  /\ SubSeq(s, a, b) \in Seq(S) /\ Len(SubSeq(s, a, b)) = b - a + 1
         /\ \A x \in 1 .. b - a + 1 : a + x - 1 \in 1 .. Len(s) /\ SubSeq(s, a, b)[x] = s[a + x - 1]
<1>1. Len(s) \in Nat /\ a \in Int /\ b \in Int /\ \A x \in a .. b : s[x] \in S
  OBVIOUS
<1>2. \A x \in 1 .. b - a + 1 : a + x - 1 \in 1 .. Len(s)
  BY <1>1
<1>3. /\ SubSeq(s, a, b) \in Seq(S) /\ Len(SubSeq(s, a, b)) = IF a <= b THEN b - a + 1 ELSE 0
      /\ \A x \in 1 .. b - a + 1 : SubSeq(s, a, b)[x] = s[a + x - 1]
  BY <1>1, SubSeqProperties
<1>4. (IF a <= b THEN b - a + 1 ELSE 0) = b - a + 1
  BY <1>1
<1> QED
  BY <1>2, <1>3, <1>4

(* A half that could be built holds its part of the pairs and pointers.    *)
LEMMA HalfHolds ==
  ASSUME NEW n, IsNode(n), InOrder(n.kvs), NEW a \in Nat \ {0}, NEW b \in Nat,
         a <= b + 1, b <= Len(n.kvs), Half(n, a, b).ok
  PROVE  /\ IsNode(Half(n, a, b)) /\ Half(n, a, b).type = n.type
         /\ Half(n, a, b).kvs = SubSeq(n.kvs, a, b)
         /\ Half(n, a, b).ptr = SubSeq(n.ptr, a, b + 1)
<1> DEFINE new == [NewNode EXCEPT !.type = n.type]
           k   == SubSeq(n.kvs, a, b)
           p   == SubSeq(n.ptr, a, b + 1)
           r   == InsertAll(new, k)
<1>1. n.kvs \in Seq(KVs) /\ n.ptr \in Seq(Nat) /\ Len(n.ptr) = Len(n.kvs) + 1 /\ n \in Nodes
      /\ Len(n.kvs) \in Nat
  BY DEF IsNode, Nodes, KVs
<1>2. /\ new \in Nodes /\ new.kvs = << >> /\ new.type = n.type /\ IsNode(new)
  <2>1. << >> \in Seq(KVs) /\ <<0>> \in Seq(Nat) /\ Len(<<0>>) = 1 /\ Len(<< >>) = 0
    OBVIOUS
  <2>2. n.type \in {"leaf", "internal"}
    BY <1>1 DEF Nodes
  <2>3. new \in [type : {n.type}, kvs : {<< >>}, ptr : {<<0>>}, ok : {TRUE}]
    BY DEF NewNode
  <2> HIDE DEF new
  <2> QED
    <3>1. new.kvs = << >> /\ new.type = n.type /\ new.ptr = <<0>> /\ new.ok = TRUE
      BY <2>3
    <3>2. new = [type |-> new.type, kvs |-> new.kvs, ptr |-> new.ptr, ok |-> new.ok]
      BY <2>3
    <3>3. new \in Nodes
      BY <2>1, <2>2, <3>1, <3>2 DEF Nodes, KVs
    <3>4. Len(new.ptr) = Len(new.kvs) + 1
      BY <2>1, <3>1
    <3> QED
      BY <3>1, <3>3, <3>4 DEF IsNode
<1>3. /\ k \in Seq(KVs) /\ Len(k) = b - a + 1
      /\ \A x \in 1 .. b - a + 1 : a + x - 1 \in 1 .. Len(n.kvs) /\ k[x] = n.kvs[a + x - 1]
  BY <1>1, PartOfList, SMTT(30)
<1>4. p \in Seq(Nat) /\ Len(p) = (b + 1) - a + 1
  <2>1. PICK N : N = Nat
    OBVIOUS
  <2>2. n.ptr \in Seq(N) /\ b + 1 \in Nat /\ a <= (b + 1) + 1 /\ b + 1 <= Len(n.ptr)
    BY <2>1, <1>1
  <2>3. p \in Seq(N) /\ Len(p) = (b + 1) - a + 1
    BY <2>2, PartOfList
  <2> QED
    BY <2>1, <2>3
<1> HIDE DEF new, k, p
<1>5. InOrder(k)
  <2>1. DOMAIN k = 1 .. b - a + 1 /\ DOMAIN n.kvs = 1 .. Len(n.kvs)
    BY <1>1, <1>3
  <2>2. ASSUME NEW x \in 1 .. b - a + 1, NEW y \in 1 .. b - a + 1, x < y PROVE k[x][1] < k[y][1]
    <3>1. a + x - 1 < a + y - 1
      BY <2>2
    <3>2. n.kvs[a + x - 1][1] < n.kvs[a + y - 1][1]
      BY <3>1, <2>1, <1>3 DEF InOrder
    <3> QED
      BY <3>2, <1>3
  <2> QED
    BY <2>1, <2>2 DEF InOrder
<1>6. Half(n, a, b) = [r EXCEPT !.ptr = p]
  BY DEF Half, r, new, k, p
<1> HIDE DEF r
<1>7. r.ok
  BY <1>6
<1>8. IsNode(r) /\ r.type = n.type /\ r.kvs = k
  <2>1. new.kvs \o k = k
    BY <1>2, <1>3, ConcatEmptySeq
  <2>2. InOrder(new.kvs \o k)
    BY <2>1, <1>5
  <2>3. /\ IsNode(r) /\ r.type = new.type /\ r.kvs = new.kvs \o k
    BY <2>2, <1>2, <1>3, <1>7, InsertAllAppends DEF r
  <2> QED
    BY <2>1, <2>3, <1>2
<1>9. r \in Nodes
  BY <1>8 DEF IsNode
<1>10. Half(n, a, b) = With(r, k, p)
  BY <1>6, <1>8, <1>9, PtrWith
<1>11. Len(p) = Len(k) + 1
  BY <1>3, <1>4
<1>12. /\ IsNode(With(r, k, p)) /\ With(r, k, p).type = r.type
       /\ With(r, k, p).kvs = k /\ With(r, k, p).ptr = p
  BY <1>3, <1>4, <1>9, <1>11, NodeWith
<1> QED
  BY <1>8, <1>10, <1>12 DEF k, p

(* A split leaves every pair and every pointer in one place, in order: the *)
(* left half, the median, the right half.                                  *)
THEOREM SplitKeepsOrder ==
  ASSUME NEW n, IsNode(n), InOrder(n.kvs), n.kvs # << >>, Split(n).left.ok, Split(n).right.ok
  PROVE  /\ IsNode(Split(n).left) /\ Split(n).left.type = n.type
         /\ IsNode(Split(n).right) /\ Split(n).right.type = n.type
         /\ Split(n).median \in 0 .. Len(n.kvs) - 1
         /\ Len(Split(n).left.kvs) = Len(n.kvs) \div 2
         /\ (Split(n).left.kvs \o <<n.kvs[Split(n).median + 1]>>) \o Split(n).right.kvs = n.kvs
         /\ Split(n).left.ptr \o Split(n).right.ptr = n.ptr
<1> DEFINE N   == Len(n.kvs)
           med == GetNKeys(n) \div 2
           v   == Half(n, 1, med)
           w   == Half(n, med + 2, GetNKeys(n))
<1>1. n.kvs \in Seq(KVs) /\ n.ptr \in Seq(Nat) /\ Len(n.ptr) = N + 1 /\ n \in Nodes
  BY DEF IsNode, Nodes, KVs
<1>2. N \in Nat /\ N # 0
  BY <1>1
<1>3. GetNKeys(n) = N
  BY DEF GetNKeys
<1>4. med \in Nat /\ med + 1 <= N
  <2> HIDE DEF N
  <2> QED
    BY <1>2, <1>3
<1>5. Split(n).left = v /\ Split(n).right = w /\ Split(n).median = med
  <2> HIDE DEF v, w, med
  <2>1. Split(n) = [left |-> v, right |-> w, median |-> med]
    BY Zenon DEF Split, v, w, med
  <2> QED
    BY <2>1
<1> HIDE DEF med, N
<1>6. /\ IsNode(v) /\ v.type = n.type /\ v.kvs = SubSeq(n.kvs, 1, med) /\ v.ptr = SubSeq(n.ptr, 1, med + 1)
  <2>1. 1 \in Nat \ {0} /\ 1 <= med + 1 /\ med <= Len(n.kvs) /\ Half(n, 1, med).ok
    BY <1>2, <1>4, <1>5 DEF N
  <2> QED
    BY <2>1, <1>4, HalfHolds
<1>7. /\ IsNode(w) /\ w.type = n.type /\ w.kvs = SubSeq(n.kvs, med + 2, N) /\ w.ptr = SubSeq(n.ptr, med + 2, N + 1)
  <2>1. med + 2 \in Nat \ {0} /\ med + 2 <= N + 1 /\ N <= Len(n.kvs) /\ Half(n, med + 2, N).ok
    BY <1>2, <1>3, <1>4, <1>5 DEF N
  <2> QED
    BY <2>1, <1>2, <1>3, HalfHolds
<1> HIDE DEF v, w
<1>8. (v.kvs \o <<n.kvs[med + 1]>>) \o w.kvs = n.kvs
  <2>1. 1 \in 1 .. Len(n.kvs) /\ med + 1 \in 1 .. Len(n.kvs) /\ (med + 1) - 1 = med
    BY <1>2, <1>4 DEF N
  <2>2. SubSeq(n.kvs, 1, med + 1) = SubSeq(n.kvs, 1, (med + 1) - 1) \o <<n.kvs[med + 1]>>
    BY <2>1, <1>1, SubSeqRecursiveSecond
  <2>3. /\ 1 \in 1 .. Len(n.kvs) + 1 /\ med + 1 \in 1 - 1 .. Len(n.kvs)
        /\ Len(n.kvs) \in med + 1 .. Len(n.kvs) /\ (med + 1) + 1 = med + 2
    BY <1>2, <1>4 DEF N
  <2>4. SubSeq(n.kvs, 1, med + 1) \o SubSeq(n.kvs, (med + 1) + 1, Len(n.kvs)) = SubSeq(n.kvs, 1, Len(n.kvs))
    BY <2>3, <1>1, ConcatAdjacentSubSeq
  <2>5. SubSeq(n.kvs, 1, Len(n.kvs)) = n.kvs
    BY <1>1, SubSeqFull
  <2> QED
    BY <2>1, <2>2, <2>3, <2>4, <2>5, <1>6, <1>7 DEF N
<1>9. v.ptr \o w.ptr = n.ptr
  <2>1. PICK S : S = Nat
    OBVIOUS
  <2>2. n.ptr \in Seq(S)
    BY <2>1, <1>1
  <2>3. /\ 1 \in 1 .. Len(n.ptr) + 1 /\ med + 1 \in 1 - 1 .. Len(n.ptr)
        /\ Len(n.ptr) \in med + 1 .. Len(n.ptr) /\ (med + 1) + 1 = med + 2
    BY <1>1, <1>2, <1>4
  <2>4. SubSeq(n.ptr, 1, med + 1) \o SubSeq(n.ptr, (med + 1) + 1, Len(n.ptr)) = SubSeq(n.ptr, 1, Len(n.ptr))
    BY <2>2, <2>3, ConcatAdjacentSubSeq
  <2>5. SubSeq(n.ptr, 1, Len(n.ptr)) = n.ptr
    BY <2>2, SubSeqFull
  <2> QED
    BY <2>3, <2>4, <2>5, <1>1, <1>6, <1>7
<1>10. med \in 0 .. N - 1
  BY <1>2, <1>4
<1>11. Len(v.kvs) = N \div 2
  <2>1. 1 \in Nat \ {0} /\ 1 <= med + 1 /\ med <= Len(n.kvs)
    BY <1>4 DEF N
  <2>2. Len(SubSeq(n.kvs, 1, med)) = med - 1 + 1
    BY <2>1, <1>1, <1>4, PartOfList
  <2> QED
    BY <2>2, <1>3, <1>4, <1>6 DEF med
<1> QED
  BY <1>5, <1>6, <1>7, <1>8, <1>9, <1>10, <1>11 DEF N

(* Child l at index i of a parent, counted from 0, its keys between the    *)
(* parent's.                                                               *)
Under(parent, i, l) ==
  /\ IsNode(parent) /\ IsNode(l) /\ i \in 0 .. Len(parent.kvs)
  /\ InOrder(parent.kvs) /\ InOrder(l.kvs)
  /\ \A x \in 1 .. Len(l.kvs) :
       /\ i > 0 => parent.kvs[i][1] < l.kvs[x][1]
       /\ i < Len(parent.kvs) => l.kvs[x][1] < parent.kvs[i + 1][1]

(* What the split of a child promises: two pages, the right half written   *)
(* first, and the pair between them in the parent.                         *)
Divided(s, m, parent, i, l) ==
  /\ s.retired = <<parent.ptr[i + 1]>>
  /\ \E v \in Nodes, w \in Nodes, kv \in KVs :
       /\ s.pm = CopyPair(m, w, v).pm /\ s.err = CopyPair(m, w, v).err
       /\ s.node = With(parent, InsertAt(parent.kvs, i + 1, kv),
                        Put(Put(InsertAt(parent.ptr, i + 1, 0), i + 1, CopyPair(m, w, v).second),
                            (i + 1) + 1, CopyPair(m, w, v).first))
       /\ IsNode(v) /\ IsNode(w) /\ v.type = l.type /\ w.type = l.type /\ v.ok /\ w.ok
       /\ Len(v.kvs) = Len(l.kvs) \div 2
       /\ (v.kvs \o <<kv>>) \o w.kvs = l.kvs
       /\ v.ptr \o w.ptr = l.ptr

(* Splitting a full child before it is entered keeps every pair and every  *)
(* pointer in order; a child with room is left alone.                      *)
THEOREM SplitChildKeepsOrder ==
  ASSUME NEW m, NEW parent, NEW k, NEW i, NEW child, NEW s,
         i = FindIndex(parent, k), child = LoadAsNode(m, GetPtr(parent, i)),
         Under(parent, i, child), child.kvs # << >>,
         s = SplitChild(m, parent, k), s.err # Panicked
  PROVE  \/ s.pm = m /\ s.node = parent /\ s.retired = << >>
         \/ Overflow(child) /\ Divided(s, m, parent, i, child)
<1> DEFINE sp == Split(child)
           v  == sp.left
           w  == sp.right
           kv == GetKV(child, sp.median)
           c  == PersistPair(m, w, v)
           up == InsertKV(parent, kv)
           n  == SetPtr(SetPtr(up, i, c.second), i + 1, c.first)
<1>1. SplitChild(m, parent, k) =
        CASE ~child.ok -> Repaired(m, parent, << >>, Panicked)
          [] child.ok /\ ~Overflow(child) -> Repaired(m, parent, << >>, NoError)
          [] OTHER -> Repaired(c.pm, n, <<GetPtr(parent, i)>>, c.err)
  BY Zenon DEF SplitChild
<1> HIDE DEF sp, c, n
<1>2. \/ s = Repaired(m, parent, << >>, Panicked)
      \/ s = Repaired(m, parent, << >>, NoError)
      \/ Overflow(child) /\ s = Repaired(c.pm, n, <<GetPtr(parent, i)>>, c.err)
  BY <1>1, Zenon
<1>3. CASE s = Repaired(m, parent, << >>, Panicked)
  BY <1>3 DEF Repaired
<1>4. CASE s = Repaired(m, parent, << >>, NoError)
  BY <1>4 DEF Repaired
<1>5. CASE Overflow(child) /\ s = Repaired(c.pm, n, <<GetPtr(parent, i)>>, c.err)
  <2>1. n.ok /\ s.pm = c.pm /\ s.err = c.err /\ s.node = n /\ c.err # Panicked
    <3>1. s = [pm |-> c.pm, node |-> n, retired |-> <<GetPtr(parent, i)>>,
               err |-> IF n.ok THEN c.err ELSE Panicked]
      BY <1>5, Zenon DEF Repaired
    <3> QED
      BY <3>1
  <2>2. v.ok /\ w.ok /\ c = CopyPair(m, w, v)
    <3> HIDE DEF v, w
    <3>1. CASE w.ok /\ v.ok
      BY <3>1 DEF PersistPair, c
    <3>2. CASE ~(w.ok /\ v.ok)
      BY <3>2, <2>1 DEF PersistPair, c
    <3> QED
      BY <3>1, <3>2
  <2>3. up.ok
    <3> HIDE DEF up
    <3> QED
      BY <2>1 DEF n, SetPtr
  <2>4. /\ parent \in Nodes /\ IsNode(parent) /\ parent.kvs \in Seq(KVs) /\ i \in 0 .. Len(parent.kvs)
        /\ child.kvs \in Seq(KVs) /\ IsNode(child) /\ InOrder(child.kvs) /\ Len(parent.kvs) \in Nat
    BY DEF Under, IsNode, Nodes, KVs
  <2>5. /\ IsNode(v) /\ v.type = child.type /\ IsNode(w) /\ w.type = child.type
        /\ sp.median \in 0 .. Len(child.kvs) - 1
        /\ Len(v.kvs) = Len(child.kvs) \div 2
        /\ (v.kvs \o <<child.kvs[sp.median + 1]>>) \o w.kvs = child.kvs
        /\ v.ptr \o w.ptr = child.ptr
    BY <2>2, <2>4, SplitKeepsOrder DEF sp
  <2> HIDE DEF v, w
  <2>6. kv = child.kvs[sp.median + 1]
    BY Zenon DEF GetKV
  <2>7. sp.median + 1 \in 1 .. Len(child.kvs)
    BY <2>4, <2>5
  <2> HIDE DEF kv
  <2>8. kv \in KVs /\ kv[1] \in Nat
    BY <2>4, <2>6, <2>7, KeysAreNumbers
  <2>9. FitsAt(parent.kvs, i, kv)
    <3>1. /\ i > 0 => parent.kvs[i][1] < kv[1]
          /\ i < Len(parent.kvs) => kv[1] < parent.kvs[i + 1][1]
      BY <2>6, <2>7 DEF Under
    <3>2. \A x \in 1 .. Len(parent.kvs) : parent.kvs[x][1] \in Nat
      BY <2>4, KeysAreNumbers
    <3>3. \A x, y \in 1 .. Len(parent.kvs) : x < y => parent.kvs[x][1] < parent.kvs[y][1]
      BY <2>4 DEF Under, InOrder
    <3>4. ASSUME NEW x \in 1 .. i PROVE parent.kvs[x][1] < kv[1]
      <4>1. i > 0 /\ i \in 1 .. Len(parent.kvs) /\ x \in 1 .. Len(parent.kvs) /\ (x = i \/ x < i)
        BY <2>4
      <4> DEFINE p == parent.kvs[x][1]
                 q == parent.kvs[i][1]
      <4>2. (p = q \/ p < q) /\ p \in Nat /\ q \in Nat /\ q < kv[1]
        BY <4>1, <3>1, <3>2, <3>3
      <4> HIDE DEF p, q
      <4>3. p < kv[1]
        BY <4>2, <2>8
      <4> QED
        BY <4>3 DEF p
    <3>5. ASSUME i < Len(parent.kvs) PROVE kv[1] <= parent.kvs[i + 1][1]
      <4>1. i + 1 \in 1 .. Len(parent.kvs)
        BY <3>5, <2>4
      <4>2. parent.kvs[i + 1][1] \in Nat /\ kv[1] < parent.kvs[i + 1][1]
        BY <4>1, <3>1, <3>2, <3>5
      <4> QED
        BY <4>2, <2>8
    <3> QED
      BY <3>4, <3>5 DEF FitsAt
  <2>10. up = With(parent, InsertAt(parent.kvs, i + 1, kv), InsertAt(parent.ptr, i + 1, 0))
    BY <2>3, <2>4, <2>8, <2>9, InsertKVAt
  <2> HIDE DEF up
  <2>11. ASSUME NEW a, NEW p, NEW x, NEW y
         PROVE  SetPtr(With(parent, a, p), y, x) = With(parent, a, Put(p, y + 1, x))
    BY <2>4, SetPtrWith DEF Put
  <2>12. n = With(parent, InsertAt(parent.kvs, i + 1, kv),
                  Put(Put(InsertAt(parent.ptr, i + 1, 0), i + 1, c.second), (i + 1) + 1, c.first))
    <3>1. SetPtr(up, i, c.second) = With(parent, InsertAt(parent.kvs, i + 1, kv),
                                         Put(InsertAt(parent.ptr, i + 1, 0), i + 1, c.second))
      BY <2>10, <2>11
    <3> QED
      BY <3>1, <2>11 DEF n
  <2>13. v \in Nodes /\ w \in Nodes
    BY <2>5 DEF IsNode
  <2>14. s.retired = <<parent.ptr[i + 1]>>
    BY <1>5 DEF Repaired, GetPtr
  <2>15. Divided(s, m, parent, i, child)
    BY <2>1, <2>2, <2>5, <2>6, <2>8, <2>12, <2>13, <2>14 DEF Divided
  <2> QED
    BY <2>15, <1>5
<1> QED
  BY <1>2, <1>3, <1>4, <1>5

(* Whatever FillChild chooses for a node on its last pair, the pairs and   *)
(* pointers of the two siblings it touches stay in order.                  *)
THEOREM FillChildKeepsOrder ==
  ASSUME NEW m, NEW parent, NEW k, NEW i, NEW child, NEW left, NEW right, NEW s,
         i = FindIndex(parent, k), IsNode(parent), parent.kvs # << >>,
         child = LoadAsNode(m, GetPtr(parent, i)),
         left = LoadAsNode(m, GetPtr(parent, i - 1)),
         right = LoadAsNode(m, GetPtr(parent, i + 1)),
         i > 0 => Around(parent, i, left, child),
         i < Len(parent.kvs) => Around(parent, i + 1, child, right),
         s = FillChild(m, parent, k), s.err # Panicked
  PROVE  \/ s.pm = m /\ s.node = parent /\ s.retired = << >> /\ ~Underflow(child)
         \/ /\ i > 0
            /\ \/ ~Underflow(left) /\ Redistributed(s, m, parent, i, left, child, Len(left.kvs) - 1)
               \/ Merged(s, m, parent, i, left, child)
         \/ /\ i < Len(parent.kvs)
            /\ \/ ~Underflow(right) /\ Redistributed(s, m, parent, i + 1, child, right, Len(child.kvs) + 1)
               \/ Merged(s, m, parent, i + 1, child, right)
<1>1. /\ parent.kvs \in Seq(KVs) /\ Len(parent.kvs) \in Nat /\ Len(parent.kvs) # 0
      /\ i \in 0 .. Len(parent.kvs)
  <2>1. parent.kvs \in Seq(Key \X Val)
    BY DEF IsNode, Nodes
  <2> QED
    BY <2>1, FindIndexIsFirst DEF KVs
<1>2. \/ s = Repaired(m, parent, << >>, Panicked)
      \/ ~Underflow(child) /\ s = Repaired(m, parent, << >>, NoError)
      \/ i > 0 /\ ~Underflow(left) /\ s = RotateRight(m, parent, left, child, i)
      \/ i < Len(parent.kvs) /\ ~Underflow(right) /\ s = RotateLeft(m, parent, child, right, i)
      \/ s = MergeChildren(m, parent, IF i > 0 THEN i - 1 ELSE i)
  BY Zenon DEF FillChild, GetNKeys
<1>3. CASE s = Repaired(m, parent, << >>, Panicked)
  BY <1>3 DEF Repaired
<1>4. CASE ~Underflow(child) /\ s = Repaired(m, parent, << >>, NoError)
  BY <1>4 DEF Repaired
<1>5. CASE i > 0 /\ ~Underflow(left) /\ s = RotateRight(m, parent, left, child, i)
  <2>1. left.kvs # << >>
    BY <1>5 DEF Underflow, GetNKeys
  <2> QED
    BY <2>1, <1>5, RotateRightKeepsOrder
<1>6. CASE i < Len(parent.kvs) /\ ~Underflow(right) /\ s = RotateLeft(m, parent, child, right, i)
  <2>1. right.kvs # << >> /\ i \in Nat
    BY <1>1, <1>6 DEF Underflow, GetNKeys
  <2> QED
    BY <2>1, <1>6, RotateLeftKeepsOrder
<1>7. CASE s = MergeChildren(m, parent, IF i > 0 THEN i - 1 ELSE i)
  <2>1. CASE i > 0
    <3>1. i - 1 \in Nat /\ (i - 1) + 1 = i
      BY <2>1, <1>1
    <3>2. Merged(s, m, parent, (i - 1) + 1, left, child)
      BY <3>1, <2>1, <1>7, MergeKeepsOrder
    <3> QED
      BY <3>1, <3>2, <2>1
  <2>2. CASE ~(i > 0)
    <3>1. i \in Nat /\ i < Len(parent.kvs)
      BY <2>2, <1>1
    <3>2. Merged(s, m, parent, i + 1, child, right)
      BY <3>1, <2>2, <1>7, MergeKeepsOrder
    <3> QED
      BY <3>1, <3>2
  <2> QED
    BY <2>1, <2>2
<1> QED
  BY <1>2, <1>3, <1>4, <1>5, <1>6, <1>7

=============================================================================

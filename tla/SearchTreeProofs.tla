------------------------------ MODULE SearchTreeProofs ----------------------
(***************************************************************************)
(* The tree as a search tree, from call to call. The description of the    *)
(* pages is kept by every step of the recursion, so a search from the root *)
(* finds exactly what is below it. Insert and Delete keep the copy-on-     *)
(* write discipline: what an operation will still use is apart from what   *)
(* it has given up.                                                        *)
(***************************************************************************)
EXTENDS BTreeProofs

-----------------------------------------------------------------------------
(* One level of a world: the pairs below a page are those on it, and those *)
(* below its children, which are a level nearer to the leaves.             *)
LEMMA OneLevel ==
  ASSUME NEW m, NEW w, Holds(m, w), NEW p, p \in DOMAIN w
  PROVE  /\ ToSet(m.page[p].kvs) \subseteq w[p].pairs
         /\ Children(m)[p] \subseteq DOMAIN w
         /\ \A q \in Children(m)[p] : w[q].pairs \subseteq w[p].pairs /\ w[q].depth < w[p].depth
         /\ \A kv \in w[p].pairs :
              kv \in ToSet(m.page[p].kvs) \/ \E q \in Children(m)[p] : kv \in w[q].pairs
         /\ w[p].depth \in Nat
<1> DEFINE n == w[p].node
           d == w[p].depth
<1>1. p \in PageNums /\ m.page[p] = n /\ World(w)
  BY WorldOnPages
<1>2. /\ n \in Nodes /\ d \in Nat /\ (n.type = "leaf" <=> d = 0) /\ FitsBut(w, n.kvs, n.ptr, {}, d)
      /\ w[p].pairs = PairsBut(w, n.kvs, n.ptr, {}, d)
  BY <1>1, Zenon DEF World, Fits, PairsOf
<1> HIDE DEF n, d
<1>3. n.kvs \in Seq(KVs) /\ n.ptr \in Seq(Nat)
  BY <1>2, Zenon DEF FitsBut
<1>4. ToSet(n.kvs) = {n.kvs[x] : x \in 1 .. Len(n.kvs)} /\ ToSet(n.ptr) = {n.ptr[i] : i \in 1 .. Len(n.ptr)}
  BY <1>3, SetOfList
<1>5. Children(m)[p] = IF d = 0 THEN {} ELSE ToSet(n.ptr)
  BY <1>1, <1>2, Zenon DEF Children
<1>6. CASE d = 0
  <2>1. ~(d > 0)
    BY <1>6
  <2>2. w[p].pairs = ToSet(n.kvs)
    BY <1>2, <1>4, <2>1, Zenon DEF PairsBut
  <2> QED
    BY <1>1, <1>2, <1>5, <1>6, <2>2, Zenon DEF d
<1>7. CASE d # 0
  <2>1. d > 0
    BY <1>2, <1>7
  <2>2. /\ \A i \in 1 .. Len(n.ptr) : n.ptr[i] \in DOMAIN w /\ w[n.ptr[i]].depth = d - 1
        /\ w[p].pairs = ToSet(n.kvs) \cup UNION {w[n.ptr[i]].pairs : i \in 1 .. Len(n.ptr)}
    <3>1. (1 .. Len(n.ptr)) \ {} = 1 .. Len(n.ptr)
      OBVIOUS
    <3> QED
      BY <1>2, <1>4, <2>1, <3>1, Zenon DEF FitsBut, ChildFits, PairsBut
  <2>3. d - 1 < d
    BY <1>2
  <2>4. \A q \in ToSet(n.ptr) : q \in DOMAIN w /\ w[q].depth < d /\ w[q].pairs \subseteq w[p].pairs
    BY <1>4, <2>2, <2>3, Zenon
  <2>5. \A kv \in w[p].pairs : kv \in ToSet(n.kvs) \/ \E q \in ToSet(n.ptr) : kv \in w[q].pairs
    BY <1>4, <2>2, Zenon
  <2>6. ToSet(n.kvs) \subseteq w[p].pairs
    BY <2>2, Zenon
  <2> QED
    BY <1>1, <1>2, <1>5, <1>7, <2>4, <2>5, <2>6, Zenon DEF d
<1> QED
  BY <1>6, <1>7

(* The pairs on the pages that are reached from a page of the world are    *)
(* those known to be below it.                                             *)
Stored(m, r) == UNION {ToSet(m.page[p].kvs) : p \in Reach(m, r)}

(* Following pointers from a page of the world reaches its pages only,     *)
(* and all the pairs below.                                                *)
LEMMA StoredBelow ==
  ASSUME NEW m, NEW w, Holds(m, w), NEW r, r \in DOMAIN w
  PROVE  Stored(m, r) = w[r].pairs /\ Reach(m, r) \subseteq DOMAIN w
<1> DEFINE to   == Children(m)
           C(p) == Reach(m, p)
<1>0. DOMAIN w \subseteq PageNums
  BY WorldOnPages
<1>1. \A p \in PageNums :
        /\ C(p) \subseteq PageNums /\ p \in C(p) /\ Closed(to, C(p))
        /\ \A T \in SUBSET PageNums : p \in T /\ Closed(to, T) => C(p) \subseteq T
  BY ClosureProperties DEF Reach
<1>2. \A p \in PageNums : \A q \in C(p) : C(q) \subseteq C(p)
  BY ClosureFrom DEF Reach
<1>3. \A p \in DOMAIN w :
         /\ ToSet(m.page[p].kvs) \subseteq w[p].pairs
         /\ to[p] \subseteq DOMAIN w
         /\ \A q \in to[p] : w[q].pairs \subseteq w[p].pairs /\ w[q].depth < w[p].depth
         /\ \A kv \in w[p].pairs :
              kv \in ToSet(m.page[p].kvs) \/ \E q \in to[p] : kv \in w[q].pairs
         /\ w[p].depth \in Nat
  BY OneLevel
<1> HIDE DEF C, to
<1>4. ASSUME NEW p \in DOMAIN w PROVE \A q \in to[p] : q \in C(p)
  <2>1. p \in PageNums /\ to[p] \subseteq PageNums
    BY <1>0, <1>3
  <2> QED
    BY <1>1, <2>1, ClosedMeans
<1>5. C(r) \subseteq {p \in DOMAIN w : w[p].pairs \subseteq w[r].pairs}
  <2> DEFINE T == {p \in DOMAIN w : w[p].pairs \subseteq w[r].pairs}
  <2>1. T \in SUBSET PageNums /\ r \in T /\ r \in PageNums
    BY <1>0
  <2>2. \A p \in T : \A q \in to[p] : q \in T
    BY <1>3, Zenon
  <2>3. Closed(to, T)
    BY <2>1, <2>2, ClosedMeans
  <2> HIDE DEF T
  <2>4. C(r) \subseteq T
    BY <1>1, <2>1, <2>3
  <2> QED
    BY <2>4 DEF T
<1>6. ASSUME NEW p \in C(r), NEW kv \in ToSet(m.page[p].kvs) PROVE kv \in w[r].pairs
  <2>1. p \in DOMAIN w /\ w[p].pairs \subseteq w[r].pairs
    BY <1>5
  <2> QED
    BY <1>3, <2>1, Zenon
<1>7. ASSUME NEW kv \in w[r].pairs PROVE \E p \in C(r) : kv \in ToSet(m.page[p].kvs)
  <2> DEFINE Bad == {p \in DOMAIN w : kv \in w[p].pairs /\ \A q \in C(p) : kv \notin ToSet(m.page[q].kvs)}
             Z   == {w[p].depth : p \in Bad}
  <2> SUFFICES ASSUME r \in Bad PROVE FALSE
    BY <1>7, Zenon
  <2>1. Z \subseteq Nat /\ Z # {}
    BY <1>3, Zenon
  <2> HIDE DEF Z
  <2>2. PICK i \in Z : \A j \in Z : i <= j
    BY <2>1, LeastIndex
  <2>3. PICK p \in Bad : i = w[p].depth
    BY <2>2, Zenon DEF Z
  <2>4. p \in DOMAIN w /\ kv \in w[p].pairs /\ (\A q \in C(p) : kv \notin ToSet(m.page[q].kvs))
        /\ p \in PageNums
    BY <1>0, <2>3, Zenon
  <2>5. kv \notin ToSet(m.page[p].kvs)
    BY <1>1, <2>4, Zenon
  <2>6. PICK q \in to[p] : kv \in w[q].pairs
    BY <1>3, <2>4, <2>5, Zenon
  <2>7. q \in DOMAIN w /\ q \in C(p) /\ w[q].depth < w[p].depth /\ w[q].depth \in Nat /\ w[p].depth \in Nat
    BY <1>3, <1>4, <2>4, <2>6, Zenon
  <2>8. C(q) \subseteq C(p)
    BY <1>2, <2>4, <2>7
  <2>9. q \in Bad
    BY <2>4, <2>6, <2>7, <2>8, Zenon
  <2>10. w[p].depth <= w[q].depth
    BY <2>2, <2>3, <2>9, Zenon DEF Z
  <2> QED
    BY <2>7, <2>10
<1>8. C(r) \subseteq DOMAIN w
  BY <1>5
<1> QED
  BY <1>6, <1>7, <1>8, Zenon DEF Stored, C

(* a is the answer about key k among pairs K.                              *)
Answers(a, K, k) ==
  \/ \E kv \in K : kv[1] = k /\ a = kv
  \/ (\A kv \in K : kv[1] # k) /\ a = NotFound

(* One step of a search: the answer is on the page, or is the answer of    *)
(* the child that FindIndex names.                                         *)
LEMMA SearchStep ==
  ASSUME NEW m, NEW w, Holds(m, w), NEW p, p \in DOMAIN w, NEW k \in Key
  PROVE  \/ Answers(Search(m, p, k), w[p].pairs, k)
         \/ \E q \in DOMAIN w :
              /\ w[q].depth < w[p].depth /\ Search(m, p, k) = Search(m, q, k)
              /\ \A a : Answers(a, w[q].pairs, k) => Answers(a, w[p].pairs, k)
<1> DEFINE n == w[p].node
           d == w[p].depth
           i == FindIndex(n, k)
<1>1. p \in PageNums /\ m.page[p] = n /\ World(w)
  BY WorldOnPages
<1>2. /\ Fits(w, n, d) /\ n \in Nodes /\ d \in Nat /\ (n.type = "leaf" <=> d = 0)
      /\ FitsBut(w, n.kvs, n.ptr, {}, d) /\ w[p].pairs = PairsBut(w, n.kvs, n.ptr, {}, d)
  BY <1>1, Zenon DEF World, Fits, PairsOf
<1>3. /\ n.kvs \in Seq(KVs) /\ n.kvs \in Seq(Key \X Val) /\ n.ptr \in Seq(Nat) /\ InOrder(n.kvs)
      /\ Len(n.ptr) = Len(n.kvs) + 1
  BY <1>2, Zenon DEF FitsBut, KVs
<1>4. i \in 0 .. Len(n.kvs)
  BY <1>3, FindIndexIsFirst
<1> HIDE DEF n, d, i
<1>5. \A x \in 1 .. Len(n.kvs) : n.kvs[x] \in w[p].pairs
  BY <1>2, Zenon DEF PairsBut
<1>6. CASE ContainsKey(n, k)
  <2>1. i < Len(n.kvs) /\ GetKV(n, i)[1] = k
    BY <1>6, Zenon DEF ContainsKey, i, GetNKeys
  <2>2. i + 1 \in 1 .. Len(n.kvs)
    BY <1>3, <1>4, <2>1
  <2>3. GetKV(n, i) \in w[p].pairs
    BY <1>5, <2>2, Zenon DEF GetKV
  <2>4. Search(m, p, k) = GetKV(n, i)
    BY <1>1, <1>6, SearchLevel DEF i
  <2> QED
    BY <2>1, <2>3, <2>4, Zenon DEF Answers
<1>7. CASE ~ContainsKey(n, k)
  <2>1. ~HasKey(n.kvs, k)
    BY <1>3, <1>7, ContainsKeyIsMembership DEF HasKey
  <2>2. CASE d = 0
    <3>1. Search(m, p, k) = NotFound
      BY <1>1, <1>2, <1>7, <2>2, SearchLevel
    <3>2. ~(d > 0)
      BY <2>2
    <3>3. w[p].pairs = {n.kvs[x] : x \in 1 .. Len(n.kvs)}
      BY <1>2, <3>2, Zenon DEF PairsBut
    <3> QED
      BY <2>1, <3>1, <3>3, Zenon DEF Answers, HasKey
  <2>3. CASE d # 0
    <3> DEFINE q == n.ptr[i + 1]
               N == Len(n.kvs)
    <3>1. d > 0 /\ d - 1 < d /\ n.type # "leaf"
      BY <1>2, <2>3
    <3>2. i + 1 \in 1 .. N + 1 /\ (i + 1) - 1 = i
      BY <1>3, <1>4
    <3>3. (1 .. Len(n.ptr)) \ {} = 1 .. N + 1
      BY <1>3
    <3>4. /\ \A h \in 1 .. N + 1 : ChildFits(w, n.kvs, h, n.ptr[h], d)
          /\ w[p].pairs = {n.kvs[x] : x \in 1 .. N} \cup UNION {w[n.ptr[h]].pairs : h \in 1 .. N + 1}
      BY <1>2, <3>1, <3>3, Zenon DEF FitsBut, PairsBut
    <3>5. q \in DOMAIN w /\ w[q].depth = d - 1
      BY <3>2, <3>4, Zenon DEF ChildFits
    <3>6. q \in PageNums
      BY <3>5, WorldOnPages
    <3>7. GetPtr(n, i) = q
      BY Zenon DEF GetPtr
    <3>8. Search(m, p, k) = Search(m, q, k)
      BY <1>1, <1>7, <3>1, <3>6, <3>7, SearchLevel DEF i
    <3>9. ASSUME NEW kv \in w[p].pairs, kv[1] = k PROVE kv \in w[q].pairs
      <4>1. \A x \in 1 .. N : kv # n.kvs[x]
        BY <2>1, <3>9, Zenon DEF HasKey
      <4>2. PICK h \in 1 .. N + 1 : kv \in w[n.ptr[h]].pairs
        BY <3>4, <4>1, Zenon
      <4>3. Between(n.kvs, h, k)
        BY <3>4, <3>9, <4>2, Zenon DEF ChildFits
      <4>4. i = h - 1
        BY <1>3, <4>3, BetweenIndex DEF i
      <4>5. h = i + 1
        BY <4>4
      <4> QED
        BY <4>2, <4>5
    <3>10. w[q].pairs \subseteq w[p].pairs
      BY <3>2, <3>4, Zenon
    <3>11. \A a : Answers(a, w[q].pairs, k) => Answers(a, w[p].pairs, k)
      BY <3>9, <3>10, Zenon DEF Answers
    <3>12. w[q].depth < w[p].depth
      BY <3>1, <3>5, Zenon DEF d
    <3> QED
      BY <3>5, <3>8, <3>11, <3>12, Zenon
  <2> QED
    BY <2>2, <2>3
<1> QED
  BY <1>6, <1>7

(* A search answers from the pairs below its page.                         *)
LEMMA SearchAmong ==
  ASSUME NEW m, NEW w, Holds(m, w), NEW r, r \in DOMAIN w, NEW k \in Key
  PROVE  Answers(Search(m, r, k), w[r].pairs, k)
<1> DEFINE Bad == {p \in DOMAIN w : ~Answers(Search(m, p, k), w[p].pairs, k)}
           Z   == {w[p].depth : p \in Bad}
<1> SUFFICES ASSUME r \in Bad PROVE FALSE
  BY Zenon
<1>0. \A p \in DOMAIN w : w[p].depth \in Nat
  BY OneLevel, Zenon
<1>1. Z \subseteq Nat /\ Z # {}
  BY <1>0, Zenon
<1> HIDE DEF Z
<1>2. PICK i \in Z : \A j \in Z : i <= j
  BY <1>1, LeastIndex
<1>3. PICK p \in Bad : i = w[p].depth
  BY <1>2, Zenon DEF Z
<1>4. p \in DOMAIN w /\ ~Answers(Search(m, p, k), w[p].pairs, k)
  BY <1>3, Zenon
<1>5. PICK q \in DOMAIN w :
        /\ w[q].depth < w[p].depth /\ Search(m, p, k) = Search(m, q, k)
        /\ \A a : Answers(a, w[q].pairs, k) => Answers(a, w[p].pairs, k)
  BY <1>4, SearchStep
<1>6. q \in Bad
  BY <1>4, <1>5, Zenon
<1>7. w[p].depth <= w[q].depth
  BY <1>2, <1>3, <1>6, Zenon DEF Z
<1> QED
  BY <1>0, <1>4, <1>5, <1>7

(* Contents, of a set of pairs in which no key is twice.                   *)
MapOf(K) == [k \in {kv[1] : kv \in K} |-> (CHOOSE kv \in K : kv[1] = k)[2]]

(* It is the map with exactly those pairs.                                 *)
LEMMA MapOfPairs ==
  ASSUME NEW K, K \subseteq KVs, Functional(K)
  PROVE  /\ \A k : k \in DOMAIN MapOf(K) <=> \E kv \in K : kv[1] = k
         /\ \A kv \in K : MapOf(K)[kv[1]] = kv[2] /\ kv = <<kv[1], MapOf(K)[kv[1]]>>
<1>1. \A k : k \in DOMAIN MapOf(K) <=> \E kv \in K : kv[1] = k
  BY Zenon DEF MapOf
<1>2. ASSUME NEW kv \in K PROVE MapOf(K)[kv[1]] = kv[2]
  <2>1. (CHOOSE a \in K : a[1] = kv[1]) = kv
    BY Zenon DEF Functional
  <2> QED
    BY <2>1, Zenon DEF MapOf
<1>3. ASSUME NEW kv \in K PROVE kv = <<kv[1], kv[2]>>
  BY DEF KVs
<1> QED
  BY <1>1, <1>2, <1>3

(* The map of a tree is the map of the pairs known to be below its root.   *)
LEMMA ContentsBelow ==
  ASSUME NEW m, NEW w, Holds(m, w), NEW r, r \in DOMAIN w
  PROVE  Contents(m, r) = MapOf(w[r].pairs) /\ w[r].pairs \subseteq KVs /\ Functional(w[r].pairs)
<1>1. Stored(m, r) = w[r].pairs
  BY StoredBelow
<1>2. Contents(m, r) = MapOf(Stored(m, r))
  BY Zenon DEF Contents, MapOf, Stored
<1>3. w[r].pairs \subseteq KVs /\ Functional(w[r].pairs)
  BY Zenon DEF Holds, World
<1> QED
  BY <1>1, <1>2, <1>3

(* Search agrees with the map of the tree, whatever page of the world it   *)
(* starts from.                                                            *)
THEOREM SearchIsLookup ==
  ASSUME NEW m, NEW w, Holds(m, w), NEW r, r \in DOMAIN w, NEW k \in Key
  PROVE  Search(m, r, k) = IF k \in DOMAIN Contents(m, r) THEN <<k, Contents(m, r)[k]>> ELSE NotFound
<1>1. Contents(m, r) = MapOf(w[r].pairs) /\ w[r].pairs \subseteq KVs /\ Functional(w[r].pairs)
  BY ContentsBelow
<1>2. Answers(Search(m, r, k), w[r].pairs, k)
  BY SearchAmong
<1>3. /\ \A x : x \in DOMAIN MapOf(w[r].pairs) <=> \E kv \in w[r].pairs : kv[1] = x
      /\ \A kv \in w[r].pairs : kv = <<kv[1], MapOf(w[r].pairs)[kv[1]]>>
  BY <1>1, MapOfPairs
<1> QED
  BY <1>1, <1>2, <1>3, Zenon DEF Answers

-----------------------------------------------------------------------------
(* A nil pointer put into a list.                                          *)
LEMMA PtrCutByInsertingNil ==
  ASSUME NEW s \in Seq(Nat), NEW j \in 1 .. Len(s)
  PROVE  PtrCutAt(InsertAt(s, j, 0), s, j)
<1>1. PICK S : S = Nat
  OBVIOUS
<1>2. s \in Seq(S) /\ 0 \in S /\ Len(s) \in Nat /\ j \in 1 .. Len(s) + 1
  BY <1>1
<1> DEFINE t == InsertAt(s, j, 0)
<1>3. /\ t \in Seq(S) /\ Len(t) = Len(s) + 1
      /\ \A x \in 1 .. Len(s) + 1 : t[x] = IF x < j THEN s[x] ELSE IF x = j THEN 0 ELSE s[x - 1]
  BY <1>2, InsertedList
<1> HIDE DEF t
<1>4. t \in Seq(Nat)
  BY <1>1, <1>3
<1>5. ASSUME NEW x \in 1 .. j - 1 PROVE s[x] = t[x]
  <2>1. x \in 1 .. Len(s) + 1 /\ x < j
    BY <1>2
  <2> QED
    BY <2>1, <1>3
<1>6. ASSUME NEW x \in j + 1 .. Len(s) PROVE s[x] = t[x + 1]
  <2>1. x + 1 \in 1 .. Len(s) + 1 /\ ~(x + 1 < j) /\ x + 1 # j /\ (x + 1) - 1 = x
    BY <1>2
  <2> QED
    BY <2>1, <1>3
<1> QED
  BY <1>3, <1>4, <1>5, <1>6, Zenon DEF PtrCutAt, t

(* The pairs K without those of key k.                                     *)
Without(K, k) == {u \in K : u[1] # k}

(* What a node holds of the leaf it was after a pair more or less.         *)
LeafHas(w, v, K) == Fits(w, v, 0) /\ PairsOf(w, v, 0) = K

(* The pairs of a leaf are its own.                                        *)
LEMMA LeafPairs ==
  ASSUME NEW w, NEW n
  PROVE  PairsOf(w, n, 0) = {n.kvs[x] : x \in 1 .. Len(n.kvs)}
<1>1. ~(0 > 0)
  OBVIOUS
<1>2. PairsOf(w, n, 0) = {n.kvs[x] : x \in 1 .. Len(n.kvs)} \cup {}
  BY <1>1, Zenon DEF PairsOf, PairsBut
<1> QED
  BY <1>2

(* A leaf is its pairs.                                                    *)
LEMMA LeafMeans ==
  ASSUME NEW w, NEW n
  PROVE  /\ Fits(w, n, 0) =>
              /\ IsNode(n) /\ n.ok /\ n.type = "leaf" /\ Nils(n.ptr)
              /\ n.kvs \in Seq(KVs) /\ n.ptr \in Seq(Nat) /\ Len(n.ptr) = Len(n.kvs) + 1
              /\ InOrder(n.kvs) /\ \A x \in 1 .. Len(n.kvs) : Small(n.kvs[x])
         /\ /\ IsNode(n) /\ n.ok /\ n.type = "leaf" /\ Nils(n.ptr)
            /\ \A S : FitsBut(w, n.kvs, n.ptr, S, 0)
            => Fits(w, n, 0)
         /\ \A kvs, ptr, S, T : /\ FitsBut(w, kvs, ptr, S, 0) <=> FitsBut(w, kvs, ptr, T, 0)
                                /\ PairsBut(w, kvs, ptr, S, 0) = PairsBut(w, kvs, ptr, T, 0)
<1>1. 0 \in Nat /\ ~(0 > 0) /\ 0 = 0
  OBVIOUS
<1>2. Fits(w, n, 0) => n \in Nodes /\ n.ok /\ n.type = "leaf" /\ Nils(n.ptr) /\ FitsBut(w, n.kvs, n.ptr, {}, 0)
  BY <1>1, Zenon DEF Fits
<1>3. FitsBut(w, n.kvs, n.ptr, {}, 0) =>
        /\ n.kvs \in Seq(KVs) /\ n.ptr \in Seq(Nat) /\ Len(n.ptr) = Len(n.kvs) + 1
        /\ InOrder(n.kvs) /\ \A x \in 1 .. Len(n.kvs) : Small(n.kvs[x])
  BY Zenon DEF FitsBut
<1>4. /\ IsNode(n) /\ n.ok /\ n.type = "leaf" /\ Nils(n.ptr)
      /\ \A S : FitsBut(w, n.kvs, n.ptr, S, 0)
      => Fits(w, n, 0)
  BY <1>1, Zenon DEF Fits, IsNode
<1>5. \A kvs, ptr, S, T : /\ FitsBut(w, kvs, ptr, S, 0) <=> FitsBut(w, kvs, ptr, T, 0)
                          /\ PairsBut(w, kvs, ptr, S, 0) = PairsBut(w, kvs, ptr, T, 0)
  BY <1>1, Zenon DEF FitsBut, PairsBut
<1> QED
  BY <1>2, <1>3, <1>4, <1>5, Zenon DEF IsNode

(* insertKV puts a pair of a new key into a leaf.                          *)
LEMMA LeafInsert ==
  ASSUME NEW w, NEW n, Fits(w, n, 0), NEW kv \in KVs, Small(kv), ~HasKey(n.kvs, kv[1]),
         NEW v, v = InsertKV(n, kv), v.ok
  PROVE  LeafHas(w, v, PairsOf(w, n, 0) \cup {kv}) /\ Len(v.kvs) = Len(n.kvs) + 1
<1>1. /\ IsNode(n) /\ n.ok /\ n.type = "leaf" /\ Nils(n.ptr)
      /\ n.kvs \in Seq(KVs) /\ n.ptr \in Seq(Nat) /\ Len(n.ptr) = Len(n.kvs) + 1
      /\ InOrder(n.kvs)
  BY LeafMeans
<1> DEFINE i == FindIndex(n, kv[1])
           j == i + 1
<1>2. kv[1] \in Key /\ kv[1] \in Nat
  BY NodeAssumption DEF KVs
<1>3. i \in 0 .. Len(n.kvs) /\ Between(n.kvs, i + 1, kv[1])
  BY <1>1, <1>2, IndexBetween
<1> HIDE DEF i
<1>4. Len(n.kvs) \in Nat /\ j \in 1 .. Len(n.kvs) + 1 /\ j \in 1 .. Len(n.ptr) /\ i + 1 = j /\ i = j - 1
  BY <1>1, <1>3
<1>5. /\ \A x \in 1 .. Len(n.kvs) : x < j => n.kvs[x][1] < kv[1]
      /\ \A x \in 1 .. Len(n.kvs) : x >= j => kv[1] < n.kvs[x][1]
  BY <1>1, <1>2, <1>3, <1>4, Placed
<1>6. FitsAt(n.kvs, i, kv)
  <2>1. \A x \in 1 .. i : x \in 1 .. Len(n.kvs) /\ x < j
    BY <1>3, <1>4
  <2>2. ASSUME i < Len(n.kvs) PROVE kv[1] <= n.kvs[i + 1][1]
    <3>1. j \in 1 .. Len(n.kvs) /\ j >= j
      BY <1>3, <1>4, <2>2
    <3>2. n.kvs[j][1] \in Nat
      BY <3>1, <1>1, KeysAreNumbers
    <3> QED
      BY <3>1, <3>2, <1>2, <1>5
  <2> QED
    BY <1>5, <2>1, <2>2, Zenon DEF FitsAt
<1> HIDE DEF j
<1>7. /\ IsNode(v) /\ v.kvs = InsertAt(n.kvs, j, kv) /\ v.ptr = InsertAt(n.ptr, j, 0)
      /\ v.type = n.type
  BY <1>1, <1>3, <1>4, <1>6, InsertKVAt
<1>8. CutAt(v.kvs, n.kvs, j) /\ v.kvs[j] = kv
  BY <1>1, <1>4, <1>7, CutByInserting
<1>9. PtrCutAt(v.ptr, n.ptr, j)
  BY <1>1, <1>4, <1>7, PtrCutByInsertingNil
<1>10. Nils(v.ptr)
  <2>1. j \in 1 .. Len(n.ptr) + 1
    BY <1>1, <1>4
  <2> QED
    BY <2>1, <1>1, <1>7, NilsKept
<1>11. Len(v.ptr) = Len(v.kvs) + 1 /\ Len(v.kvs) = Len(n.kvs) + 1
  BY <1>7, <1>8, Zenon DEF IsNode, CutAt
<1>12. LikeCut(w, v.kvs, v.ptr, n.kvs, n.ptr, j, 0)
  BY <1>8, <1>9, <1>11, CutFits
<1>13. FitsBut(w, n.kvs, n.ptr, {j}, 0) /\ PairsBut(w, n.kvs, n.ptr, {j}, 0) = PairsOf(w, n, 0)
  BY LeafMeans, Zenon DEF Fits, PairsOf
<1>14. /\ \A x \in 1 .. j - 1 : n.kvs[x][1] < v.kvs[j][1]
       /\ \A x \in j .. Len(n.kvs) : v.kvs[j][1] < n.kvs[x][1]
  <2>1. /\ \A x \in 1 .. j - 1 : x \in 1 .. Len(n.kvs) /\ x < j
        /\ \A x \in j .. Len(n.kvs) : x \in 1 .. Len(n.kvs) /\ x >= j
    BY <1>4
  <2> QED
    BY <1>5, <1>8, <2>1, Zenon
<1>15. FitsBut(w, v.kvs, v.ptr, {j, j + 1}, 0)
       /\ PairsBut(w, v.kvs, v.ptr, {j, j + 1}, 0) = PairsOf(w, n, 0) \cup {kv}
  BY <1>8, <1>12, <1>13, <1>14, Zenon DEF LikeCut
<1>16. Fits(w, v, 0) /\ PairsOf(w, v, 0) = PairsOf(w, n, 0) \cup {kv}
  <2>1. \A S : FitsBut(w, v.kvs, v.ptr, S, 0)
    BY <1>15, LeafMeans, Zenon
  <2>2. PairsOf(w, v, 0) = PairsBut(w, v.kvs, v.ptr, {j, j + 1}, 0)
    BY LeafMeans, Zenon DEF PairsOf
  <2> QED
    BY <1>1, <1>7, <1>10, <1>15, <2>1, <2>2, LeafMeans, Zenon
<1> QED
  BY <1>11, <1>16, Zenon DEF LeafHas

(* The place of a key that is there.                                       *)
LEMMA IndexOfKey ==
  ASSUME NEW n, n.kvs \in Seq(KVs), InOrder(n.kvs), NEW k \in Key, HasKey(n.kvs, k)
  PROVE  FindIndex(n, k) \in 0 .. Len(n.kvs) - 1 /\ n.kvs[FindIndex(n, k) + 1][1] = k
<1>1. ContainsKey(n, k)
  BY ContainsKeyIsMembership DEF HasKey
<1>2. FindIndex(n, k) \in 0 .. Len(n.kvs) /\ Len(n.kvs) \in Nat
  BY FindIndexIsFirst DEF KVs
<1>3. FindIndex(n, k) < Len(n.kvs) /\ n.kvs[FindIndex(n, k) + 1][1] = k
  BY <1>1 DEF ContainsKey, GetNKeys, GetKV
<1> QED
  BY <1>2, <1>3

(* deleteKV takes the pair of a key out of a leaf.                         *)
LEMMA LeafDelete ==
  ASSUME NEW w, NEW n, Fits(w, n, 0), NEW k \in Key, HasKey(n.kvs, k),
         NEW v, v = DeleteKV(n, FindIndex(n, k))
  PROVE  LeafHas(w, v, Without(PairsOf(w, n, 0), k)) /\ Len(v.kvs) = Len(n.kvs) - 1
<1>1. /\ IsNode(n) /\ n.ok /\ n.type = "leaf" /\ Nils(n.ptr)
      /\ n.kvs \in Seq(KVs) /\ n.ptr \in Seq(Nat) /\ Len(n.ptr) = Len(n.kvs) + 1
      /\ InOrder(n.kvs)
  BY LeafMeans
<1> DEFINE i == FindIndex(n, k)
           j == i + 1
<1>3. i \in 0 .. Len(n.kvs) - 1 /\ n.kvs[i + 1][1] = k
  BY <1>1, IndexOfKey
<1>a. v = DeleteKV(n, i)
  OBVIOUS
<1> HIDE DEF i
<1>4. Len(n.kvs) \in Nat /\ j \in 1 .. Len(n.kvs) /\ j \in 1 .. Len(n.ptr) /\ j \in 1 .. Len(n.ptr) - 1
  BY <1>1, <1>3
<1>5. /\ IsNode(v) /\ v.kvs = RemoveAt(n.kvs, j) /\ v.ptr = RemoveAt(n.ptr, j)
      /\ v.type = n.type /\ v.ok
  BY <1>1, <1>3, <1>a, DeleteKVAt
<1> DEFINE kv == n.kvs[j]
<1>6. kv \in KVs /\ kv[1] = k
  BY <1>1, <1>3, <1>4
<1> HIDE DEF j
<1>7. CutAt(n.kvs, v.kvs, j)
  BY <1>1, <1>4, <1>5, <1>6, CutByRemoving
<1>8. PtrCutAt(n.ptr, v.ptr, j)
  <2>1. 0 \in Nat
    OBVIOUS
  <2>2. Repoints(n.ptr, j, 0, 0)
    BY <1>1, <1>4, <2>1, PtrCutByRemoving
  <2> QED
    BY <1>5, <2>2, Zenon DEF Repoints
<1>9. Nils(v.ptr)
  BY <1>1, <1>4, <1>5, NilsKept
<1>10. LikeCut(w, n.kvs, n.ptr, v.kvs, v.ptr, j, 0)
  BY <1>1, <1>7, <1>8, CutFits
<1>11. FitsBut(w, n.kvs, n.ptr, {j, j + 1}, 0) /\ PairsBut(w, n.kvs, n.ptr, {j, j + 1}, 0) = PairsOf(w, n, 0)
  BY LeafMeans, Zenon DEF Fits, PairsOf
<1>12. /\ FitsBut(w, v.kvs, v.ptr, {j}, 0)
       /\ \A x \in 1 .. j - 1 : v.kvs[x][1] < n.kvs[j][1]
       /\ \A x \in j .. Len(v.kvs) : n.kvs[j][1] < v.kvs[x][1]
       /\ PairsOf(w, n, 0) = PairsBut(w, v.kvs, v.ptr, {j}, 0) \cup {kv}
  BY <1>10, <1>11, Zenon DEF LikeCut
<1>13. Len(v.kvs) = Len(n.kvs) - 1 /\ Len(v.kvs) \in Nat
  BY <1>7 DEF CutAt
<1>14. PairsBut(w, v.kvs, v.ptr, {j}, 0) = PairsOf(w, v, 0)
  BY LeafMeans, Zenon DEF PairsOf
<1>15. \A u \in PairsOf(w, v, 0) : u[1] # k
  <2>1. ASSUME NEW x \in 1 .. Len(v.kvs) PROVE v.kvs[x][1] # k
    <3>1. x \in 1 .. j - 1 \/ x \in j .. Len(v.kvs)
      BY <1>4
    <3>2. v.kvs[x][1] \in Nat /\ k \in Nat
      <4>1. v.kvs \in Seq(KVs)
        BY <1>5 DEF IsNode, Nodes, KVs
      <4> QED
        BY <4>1, <2>1, KeysAreNumbers, NodeAssumption
    <3> QED
      BY <1>6, <1>12, <3>1, <3>2
  <2>2. PairsOf(w, v, 0) = {v.kvs[x] : x \in 1 .. Len(v.kvs)}
    BY LeafPairs
  <2> QED
    BY <2>1, <2>2, Zenon
<1>16. Without(PairsOf(w, n, 0), k) = PairsOf(w, v, 0)
  BY <1>6, <1>12, <1>14, <1>15, Zenon DEF Without
<1>17. Fits(w, v, 0)
  <2>1. \A S : FitsBut(w, v.kvs, v.ptr, S, 0)
    BY <1>12, LeafMeans, Zenon
  <2> QED
    BY <1>1, <1>5, <1>9, <2>1, LeafMeans, Zenon
<1> QED
  BY <1>13, <1>16, <1>17, Zenon DEF LeafHas

-----------------------------------------------------------------------------
(* A level that waits for its child: once the child holds pairs h, in the  *)
(* place where the level will point to it, the level holds pairs g.        *)
Frame(w, f, d, g, h) ==
  /\ f.node \in Nodes /\ f.node.ok /\ f.node.type = "internal" /\ d \in Nat \ {0}
  /\ f.slot \in 0 .. Len(f.node.kvs)
  /\ FitsBut(w, f.node.kvs, f.node.ptr, {f.slot + 1}, d)
  /\ \A u \in h : Between(f.node.kvs, f.slot + 1, u[1])
  /\ g = PairsBut(w, f.node.kvs, f.node.ptr, {f.slot + 1}, d) \cup h

(* It waits on as the world grows.                                         *)
LEMMA FrameLater ==
  ASSUME NEW w, NEW x, Later(w, x), NEW f, NEW d, NEW g, NEW h, Frame(w, f, d, g, h)
  PROVE  Frame(x, f, d, g, h)
<1>1. FitsBut(w, f.node.kvs, f.node.ptr, {f.slot + 1}, d)
  BY Zenon DEF Frame
<1>2. /\ FitsBut(x, f.node.kvs, f.node.ptr, {f.slot + 1}, d)
      /\ PairsBut(x, f.node.kvs, f.node.ptr, {f.slot + 1}, d)
           = PairsBut(w, f.node.kvs, f.node.ptr, {f.slot + 1}, d)
  BY <1>1, LaterFits
<1> QED
  BY <1>2, Zenon DEF Frame

(* What is known of a page below a node d levels up, at its i-th pointer.  *)
Below(w, q, kvs, i, d) ==
  /\ q \in DOMAIN w /\ w[q].depth = d - 1 /\ w[q].node.kvs # << >>
  /\ \A u \in w[q].pairs : Between(kvs, i, u[1])

(* A node with other pairs and pointers is a node.                         *)
LEMMA WithIsNode ==
  \A m \in Nodes, kvs \in Seq(KVs), ps \in Seq(Nat) :
    LET x == With(m, kvs, ps)
    IN x \in Nodes /\ x.kvs = kvs /\ x.ptr = ps /\ x.type = m.type /\ x.ok = m.ok
BY DEF With, Nodes, KVs

(* A level whose child has come back is a node that fits, with the pairs   *)
(* it was waiting for.                                                     *)
LEMMA FrameFilled ==
  ASSUME NEW w, NEW f, NEW d, NEW g, NEW h, Frame(w, f, d, g, h),
         NEW q \in Nat, q \in DOMAIN w, w[q].pairs = h, w[q].depth = d - 1, w[q].node.kvs # << >>,
         NEW v, v = SetPtr(f.node, f.slot, q)
  PROVE  Fits(w, v, d) /\ PairsOf(w, v, d) = g /\ v.kvs = f.node.kvs /\ v.type = "internal"
<1> DEFINE n    == f.node
           j    == f.slot + 1
           full == Put(n.ptr, j, q)
<1>1. /\ n \in Nodes /\ n.ok /\ n.type = "internal" /\ d \in Nat /\ d > 0 /\ d # 0
      /\ f.slot \in 0 .. Len(n.kvs) /\ FitsBut(w, n.kvs, n.ptr, {j}, d)
      /\ (\A u \in h : Between(n.kvs, j, u[1]))
      /\ g = PairsBut(w, n.kvs, n.ptr, {j}, d) \cup h
  <2>1. d \in Nat \ {0}
    BY Zenon DEF Frame
  <2>2. d \in Nat /\ d > 0 /\ d # 0
    BY <2>1
  <2> QED
    BY <2>2, Zenon DEF Frame
<1>2. n.kvs \in Seq(KVs) /\ n.ptr \in Seq(Nat) /\ Len(n.ptr) = Len(n.kvs) + 1
  BY <1>1, Zenon DEF FitsBut
<1> HIDE DEF n
<1>3. j \in 1 .. Len(n.ptr)
  BY <1>1, <1>2
<1>4. v = With(n, n.kvs, full)
  <2>0. \A m \in Nodes : \A i :
          /\ SetPtr(With(m, m.kvs, m.ptr), i, q) = With(m, m.kvs, [m.ptr EXCEPT ![i + 1] = q])
          /\ With(m, m.kvs, m.ptr) = m
    BY DEF SetPtr, With, Nodes
  <2>1. /\ SetPtr(With(n, n.kvs, n.ptr), f.slot, q) = With(n, n.kvs, [n.ptr EXCEPT ![f.slot + 1] = q])
        /\ With(n, n.kvs, n.ptr) = n
    BY <1>1, <2>0, Zenon
  <2> QED
    BY <2>1, Zenon DEF Put, n
<1> HIDE DEF j
<1>5. SameBut(full, n.ptr, j) /\ full[j] = q
  <2>1. ASSUME NEW s \in Seq(Nat), NEW y \in 1 .. Len(s)
        PROVE  SameBut(Put(s, y, q), s, y) /\ Put(s, y, q)[y] = q
    <3>1. Put(s, y, q) \in Seq(Nat) /\ Len(Put(s, y, q)) = Len(s)
          /\ \A x \in 1 .. Len(s) : Put(s, y, q)[x] = IF x = y THEN q ELSE s[x]
      BY DEF Put
    <3> QED
      BY <3>1 DEF SameBut
  <2> QED
    BY <1>2, <1>3, <2>1
<1> HIDE DEF full
<1>6. OneMore({}, {j}, j)
  BY DEF OneMore
<1>7. Fills(w, n.kvs, full, n.ptr, {}, {j}, j, d)
  BY <1>5, <1>6, FilledFits
<1>8. ChildFits(w, n.kvs, j, full[j], d)
  BY <1>1, <1>5, Zenon DEF ChildFits
<1>9. FitsBut(w, n.kvs, full, {}, d) /\ PairsBut(w, n.kvs, full, {}, d) = g
  BY <1>1, <1>5, <1>7, <1>8, Zenon DEF Fills
<1>10. full \in Seq(Nat)
  BY <1>5, Zenon DEF SameBut
<1>11. v \in Nodes /\ v.kvs = n.kvs /\ v.ptr = full /\ v.type = n.type /\ v.ok = n.ok
  <2> DEFINE z == With(n, n.kvs, full)
  <2>1. z \in Nodes /\ z.kvs = n.kvs /\ z.ptr = full /\ z.type = n.type /\ z.ok = n.ok
    <3>1. n \in Nodes /\ n.kvs \in Seq(KVs) /\ full \in Seq(Nat)
      BY <1>1, <1>2, <1>10, Zenon
    <3> QED
      BY <3>1, WithIsNode, Zenon
  <2>2. v = z
    BY <1>4, Zenon
  <2> QED
    BY <2>1, <2>2
<1>12. v.type # "leaf"
  BY <1>1, <1>11
<1> QED
  BY <1>1, <1>9, <1>11, <1>12, Zenon DEF Fits, PairsOf, n

(* Going down: a node that fits becomes a level that waits for the child   *)
(* at its i-th pointer, counted from 0.                                    *)
Descends(w, n, d, i, h) ==
  /\ Below(w, n.ptr[i + 1], n.kvs, i + 1, d)
  /\ PairsOf(w, n, d) = PairsBut(w, n.kvs, n.ptr, {i + 1}, d) \cup w[n.ptr[i + 1]].pairs
  /\ \A f : f.node = n /\ f.slot = i =>
       Frame(w, f, d, PairsBut(w, n.kvs, n.ptr, {i + 1}, d) \cup h, h)

(* For whatever pairs belong below that pointer.                           *)
LEMMA GoesDown ==
  ASSUME NEW w, NEW n, NEW d, Fits(w, n, d), n.type = "internal", NEW i \in 0 .. Len(n.kvs),
         NEW h, \A u \in h : Between(n.kvs, i + 1, u[1])
  PROVE  Descends(w, n, d, i, h)
<1> DEFINE j == i + 1
<1>1. n \in Nodes /\ n.ok /\ d \in Nat /\ d # 0 /\ FitsBut(w, n.kvs, n.ptr, {}, d)
  <2>1. n.type # "leaf"
    OBVIOUS
  <2> QED
    BY <2>1, Zenon DEF Fits
<1>2. n.kvs \in Seq(KVs) /\ n.ptr \in Seq(Nat) /\ Len(n.ptr) = Len(n.kvs) + 1
  BY <1>1, Zenon DEF FitsBut
<1>3. j \in 1 .. Len(n.ptr) /\ d > 0 /\ d \in Nat \ {0} /\ j \notin {}
  BY <1>1, <1>2
<1>4. OneMore({}, {j}, j)
  BY DEF OneMore
<1>5. Fills(w, n.kvs, n.ptr, n.ptr, {}, {j}, j, d)
  BY <1>1, <1>3, <1>4, Emptied
<1>6. /\ FitsBut(w, n.kvs, n.ptr, {j}, d) /\ ChildFits(w, n.kvs, j, n.ptr[j], d)
      /\ PairsBut(w, n.kvs, n.ptr, {}, d) = PairsBut(w, n.kvs, n.ptr, {j}, d) \cup w[n.ptr[j]].pairs
  BY <1>1, <1>3, <1>5, Zenon DEF Fills
<1>7. Below(w, n.ptr[j], n.kvs, j, d)
  BY <1>6, Zenon DEF ChildFits, Below
<1>8. ASSUME NEW f, f.node = n, f.slot = i
      PROVE  Frame(w, f, d, PairsBut(w, n.kvs, n.ptr, {j}, d) \cup h, h)
  BY <1>1, <1>3, <1>6, <1>8, Zenon DEF Frame
<1> QED
  BY <1>6, <1>7, <1>8, Zenon DEF Descends, PairsOf

(* A key that belongs below one pointer of a node is nowhere else in it.   *)
LEMMA KeyBelow ==
  ASSUME NEW w, World(w), NEW n, NEW d, Fits(w, n, d), n.type = "internal",
         NEW i \in 0 .. Len(n.kvs), NEW k \in Key, Between(n.kvs, i + 1, k)
  PROVE  \A u \in PairsBut(w, n.kvs, n.ptr, {i + 1}, d) : u[1] # k
<1> DEFINE j == i + 1
<1>1. d \in Nat /\ d # 0 /\ FitsBut(w, n.kvs, n.ptr, {}, d)
  <2>1. n.type # "leaf"
    OBVIOUS
  <2> QED
    BY <2>1, Zenon DEF Fits
<1>2. n.kvs \in Seq(KVs) /\ n.ptr \in Seq(Nat) /\ Len(n.ptr) = Len(n.kvs) + 1 /\ InOrder(n.kvs)
  BY <1>1, Zenon DEF FitsBut
<1>3. d > 0 /\ Len(n.kvs) \in Nat /\ j \in 1 .. Len(n.kvs) + 1 /\ j \in Nat /\ k \in Nat
  BY <1>1, <1>2, NodeAssumption
<1>4. /\ \A x \in 1 .. Len(n.kvs) : x < j => n.kvs[x][1] < k
      /\ \A x \in 1 .. Len(n.kvs) : x >= j => k < n.kvs[x][1]
  BY <1>2, <1>3, Placed
<1> HIDE DEF j
<1>5. ASSUME NEW x \in 1 .. Len(n.kvs) PROVE n.kvs[x][1] # k
  <2>1. n.kvs[x][1] \in Nat
    BY <1>2, KeysAreNumbers
  <2>2. x < j \/ x >= j
    BY <1>3
  <2> QED
    BY <1>3, <1>4, <2>1, <2>2
<1>6. ASSUME NEW y \in (1 .. Len(n.ptr)) \ {j}, NEW u \in w[n.ptr[y]].pairs PROVE u[1] # k
  <2>1. ChildFits(w, n.kvs, y, n.ptr[y], d)
    BY <1>1, <1>3, Zenon DEF FitsBut
  <2>2. n.ptr[y] \in DOMAIN w /\ Between(n.kvs, y, u[1])
    BY <2>1, Zenon DEF ChildFits
  <2>3. u \in KVs
    BY <2>2, Zenon DEF World
  <2>4. u[1] \in Key /\ u[1] \in Nat
    BY <2>3, NodeAssumption DEF KVs
  <2>5. y \in 1 .. Len(n.kvs) + 1
    BY <1>2
  <2>6. /\ \A x \in 1 .. Len(n.kvs) : x < y => n.kvs[x][1] < u[1]
        /\ \A x \in 1 .. Len(n.kvs) : x >= y => u[1] < n.kvs[x][1]
    BY <1>2, <2>2, <2>4, <2>5, Placed
  <2>7. CASE y < j
    <3>1. y \in 1 .. Len(n.kvs) /\ y >= y
      BY <1>3, <2>5, <2>7
    <3>2. u[1] < n.kvs[y][1] /\ n.kvs[y][1] < k /\ n.kvs[y][1] \in Nat
      BY <1>2, <1>4, <2>6, <2>7, <3>1, KeysAreNumbers
    <3> QED
      BY <1>3, <2>4, <3>2
  <2>8. CASE j < y
    <3>1. j \in 1 .. Len(n.kvs) /\ j >= j
      BY <1>3, <2>5, <2>8
    <3>2. k < n.kvs[j][1] /\ n.kvs[j][1] < u[1] /\ n.kvs[j][1] \in Nat
      BY <1>2, <1>4, <2>6, <2>8, <3>1, KeysAreNumbers
    <3> QED
      BY <1>3, <2>4, <3>2
  <2>9. y < j \/ j < y
    BY <1>3, <2>5
  <2> QED
    BY <2>7, <2>8, <2>9
<1>7. PairsBut(w, n.kvs, n.ptr, {j}, d)
        = {n.kvs[x] : x \in 1 .. Len(n.kvs)} \cup UNION {w[n.ptr[y]].pairs : y \in (1 .. Len(n.ptr)) \ {j}}
  BY <1>3, Zenon DEF PairsBut
<1>8. \A u \in PairsBut(w, n.kvs, n.ptr, {j}, d) : u[1] # k
  BY <1>5, <1>6, <1>7, Zenon
<1> QED
  BY <1>8 DEF j

(* A level that waits for its child to take in a pair.                     *)
LEMMA DescendsToInsert ==
  ASSUME NEW w, NEW n, NEW d, Fits(w, n, d), n.type = "internal", NEW i \in 0 .. Len(n.kvs),
         NEW kv, Between(n.kvs, i + 1, kv[1]), NEW f, f.node = n, f.slot = i
  PROVE  /\ Below(w, n.ptr[i + 1], n.kvs, i + 1, d)
         /\ Frame(w, f, d, PairsOf(w, n, d) \cup {kv}, w[n.ptr[i + 1]].pairs \cup {kv})
<1> DEFINE q == n.ptr[i + 1]
           h == w[q].pairs \cup {kv}
<1>1. Descends(w, n, d, i, {})
  BY GoesDown
<1>2. Below(w, q, n.kvs, i + 1, d)
  BY <1>1, Zenon DEF Descends
<1>3. \A u \in h : Between(n.kvs, i + 1, u[1])
  BY <1>2, Zenon DEF Below
<1> HIDE DEF h
<1>4. Descends(w, n, d, i, h)
  BY <1>3, GoesDown
<1>5. Frame(w, f, d, PairsBut(w, n.kvs, n.ptr, {i + 1}, d) \cup h, h)
      /\ PairsOf(w, n, d) = PairsBut(w, n.kvs, n.ptr, {i + 1}, d) \cup w[q].pairs
  BY <1>4, Zenon DEF Descends
<1>6. PairsBut(w, n.kvs, n.ptr, {i + 1}, d) \cup h = PairsOf(w, n, d) \cup {kv}
  BY <1>5, Zenon DEF h
<1> QED
  BY <1>2, <1>5, <1>6, Zenon DEF h

(* What is deleted is there, where callers delete only what is.            *)
KeyIsThere(K, k) == DeletePresent => \E u \in K : u[1] = k

(* A level that waits for its child to lose a key.                         *)
LEMMA DescendsToDelete ==
  ASSUME NEW w, World(w), NEW n, NEW d, Fits(w, n, d), n.type = "internal",
         NEW i \in 0 .. Len(n.kvs), NEW k \in Key, Between(n.kvs, i + 1, k),
         NEW f, f.node = n, f.slot = i
  PROVE  /\ Below(w, n.ptr[i + 1], n.kvs, i + 1, d)
         /\ Frame(w, f, d, Without(PairsOf(w, n, d), k), Without(w[n.ptr[i + 1]].pairs, k))
         /\ KeyIsThere(PairsOf(w, n, d), k) => KeyIsThere(w[n.ptr[i + 1]].pairs, k)
<1> DEFINE q    == n.ptr[i + 1]
           h    == Without(w[q].pairs, k)
           rest == PairsBut(w, n.kvs, n.ptr, {i + 1}, d)
<1>1. Descends(w, n, d, i, {})
  BY GoesDown
<1>2. Below(w, q, n.kvs, i + 1, d)
  BY <1>1, Zenon DEF Descends
<1>3. \A u \in h : Between(n.kvs, i + 1, u[1])
  BY <1>2, Zenon DEF Below, Without
<1>7. \A u \in rest : u[1] # k
  BY KeyBelow
<1> HIDE DEF h
<1>4. Descends(w, n, d, i, h)
  BY <1>3, GoesDown
<1>5. Frame(w, f, d, rest \cup h, h) /\ PairsOf(w, n, d) = rest \cup w[q].pairs
  BY <1>4, Zenon DEF Descends
<1> HIDE DEF rest
<1>6. rest \cup h = Without(PairsOf(w, n, d), k)
  BY <1>5, <1>7, Zenon DEF h, Without
<1>8. KeyIsThere(PairsOf(w, n, d), k) => KeyIsThere(w[q].pairs, k)
  BY <1>5, <1>7, Zenon DEF KeyIsThere
<1> QED
  BY <1>2, <1>5, <1>6, <1>8, Zenon DEF h

-----------------------------------------------------------------------------
(* The root that a split of the old one makes, before it has any pair.     *)
NewRoot == [NewNode EXCEPT !.type = "internal"]

(* It is a node.                                                           *)
LEMMA NewRootIsNode ==
  /\ IsNode(NewRoot) /\ NewRoot \in Nodes /\ NewRoot.ok /\ NewRoot.type = "internal"
  /\ NewRoot.kvs = << >> /\ NewRoot.ptr = <<0>>
<1>1. NewRoot = [type |-> "internal", kvs |-> << >>, ptr |-> <<0>>, ok |-> TRUE]
  <2>1. NewNode \in Nodes /\ NewNode.kvs = << >> /\ NewNode.ptr = <<0>> /\ NewNode.ok = TRUE
    BY DEF NewNode, Nodes
  <2>2. \A m \in Nodes :
          [m EXCEPT !.type = "internal"] = [type |-> "internal", kvs |-> m.kvs, ptr |-> m.ptr, ok |-> m.ok]
    <3> TAKE m \in Nodes
    <3>1. [m EXCEPT !.type = "internal"] \in [type : {"internal"}, kvs : {m.kvs}, ptr : {m.ptr}, ok : {m.ok}]
      BY DEF Nodes
    <3> QED
      BY <3>1
  <2>3. NewRoot = [type |-> "internal", kvs |-> NewNode.kvs, ptr |-> NewNode.ptr, ok |-> NewNode.ok]
    BY <2>1, <2>2, Zenon DEF NewRoot
  <2> QED
    BY <2>1, <2>3
<1>2. << >> \in Seq(Key \X Val) /\ <<0>> \in Seq(Nat) /\ Len(<<0>>) = 1 /\ Len(<< >>) = 0
  OBVIOUS
<1>3. NewRoot \in Nodes
  BY <1>1, <1>2 DEF Nodes
<1> QED
  BY <1>1, <1>2, <1>3 DEF IsNode

(* What the split of a root promises.                                      *)
RootDivided(s, m, n) ==
  \E v, kv, u :
    /\ Halves(n, v, kv, u)
    /\ s.pm = CopyPair(m, u, v).pm /\ s.err = CopyPair(m, u, v).err
    /\ s.node = With(NewRoot, InsertAt(<< >>, 1, kv),
                     WithPointers(<<0>>, 1, CopyPair(m, u, v).second, CopyPair(m, u, v).first))

(* SplitRoot writes two halves, and makes a root of the pair between them. *)
LEMMA SplitRootDivides ==
  ASSUME NEW m, NEW n, IsNode(n), InOrder(n.kvs), n.kvs # << >>,
         NEW s, s = SplitRoot(m, n), s.err # Panicked
  PROVE  RootDivided(s, m, n)
<1> DEFINE sp == Split(n)
           v  == sp.left
           u  == sp.right
           kv == GetKV(n, sp.median)
           c  == PersistPair(m, u, v)
           up == InsertKV(NewRoot, kv)
           top == SetPtr(SetPtr(up, 0, c.second), 1, c.first)
<1>1. s = Repaired(c.pm, top, << >>, c.err)
  BY Zenon DEF SplitRoot, NewRoot
<1> HIDE DEF sp, c, top
<1>2. top.ok /\ s.pm = c.pm /\ s.err = c.err /\ s.node = top /\ c.err # Panicked
  <2>1. s = [pm |-> c.pm, node |-> top, retired |-> << >>,
             err |-> IF top.ok THEN c.err ELSE Panicked]
    BY <1>1, Zenon DEF Repaired
  <2> QED
    BY <2>1
<1>3. v.ok /\ u.ok /\ c = CopyPair(m, u, v)
  <2> HIDE DEF v, u
  <2>1. CASE u.ok /\ v.ok
    BY <2>1 DEF PersistPair, c
  <2>2. CASE ~(u.ok /\ v.ok)
    BY <2>2, <1>2 DEF PersistPair, c
  <2> QED
    BY <2>1, <2>2
<1>4. up.ok
  <2> HIDE DEF up
  <2> QED
    BY <1>2 DEF top, SetPtr
<1>5. /\ IsNode(v) /\ v.type = n.type /\ IsNode(u) /\ u.type = n.type
      /\ sp.median \in 0 .. Len(n.kvs) - 1
      /\ Len(v.kvs) = Len(n.kvs) \div 2
      /\ (v.kvs \o <<n.kvs[sp.median + 1]>>) \o u.kvs = n.kvs
      /\ v.ptr \o u.ptr = n.ptr
  BY <1>3, SplitKeepsOrder DEF sp
<1> HIDE DEF v, u
<1>6. kv = n.kvs[sp.median + 1]
  BY Zenon DEF GetKV
<1>7. sp.median + 1 \in 1 .. Len(n.kvs)
  <2>1. Len(n.kvs) \in Nat
    BY DEF IsNode, Nodes
  <2> QED
    BY <1>5, <2>1
<1> HIDE DEF kv
<1>8. kv \in KVs
  <2>1. n.kvs \in Seq(KVs)
    BY DEF IsNode, Nodes, KVs
  <2> QED
    BY <1>6, <1>7, <2>1
<1>9. up = With(NewRoot, InsertAt(<< >>, 1, kv), InsertAt(<<0>>, 1, 0))
  <2>1. 0 \in 0 .. Len(NewRoot.kvs) /\ FitsAt(NewRoot.kvs, 0, kv)
    <3>1. Len(<< >>) = 0 /\ FitsAt(<< >>, 0, kv)
      BY DEF FitsAt
    <3> QED
      BY <3>1, NewRootIsNode
  <2>2. up = With(NewRoot, InsertAt(NewRoot.kvs, 0 + 1, kv), InsertAt(NewRoot.ptr, 0 + 1, 0))
    BY <1>4, <1>8, <2>1, NewRootIsNode, InsertKVAt
  <2>3. 0 + 1 = 1
    OBVIOUS
  <2> QED
    BY <2>2, <2>3, NewRootIsNode
<1> HIDE DEF up
<1>10. ASSUME NEW a, NEW p, NEW x, NEW y
       PROVE  SetPtr(With(NewRoot, a, p), y, x) = With(NewRoot, a, Put(p, y + 1, x))
  BY NewRootIsNode, SetPtrWith DEF Put
<1>11. top = With(NewRoot, InsertAt(<< >>, 1, kv), WithPointers(<<0>>, 1, c.second, c.first))
  <2>1. SetPtr(up, 0, c.second) = With(NewRoot, InsertAt(<< >>, 1, kv),
                                       Put(InsertAt(<<0>>, 1, 0), 0 + 1, c.second))
    BY <1>9, <1>10
  <2>2. 0 + 1 = 1
    OBVIOUS
  <2>3. SetPtr(up, 0, c.second) = With(NewRoot, InsertAt(<< >>, 1, kv),
                                       Put(InsertAt(<<0>>, 1, 0), 1, c.second))
    BY <2>1, <2>2
  <2>4. top = With(NewRoot, InsertAt(<< >>, 1, kv),
                   Put(Put(InsertAt(<<0>>, 1, 0), 1, c.second), 1 + 1, c.first))
    BY <2>3, <1>10 DEF top
  <2> QED
    BY <2>4, Zenon DEF WithPointers
<1>12. Halves(n, v, kv, u)
  <2>1. v \in Nodes /\ u \in Nodes
    BY <1>5, Zenon DEF IsNode
  <2> QED
    BY <1>3, <1>5, <1>6, <1>8, <2>1, Zenon DEF Halves
<1> QED
  BY <1>2, <1>3, <1>11, <1>12, Zenon DEF RootDivided

(* The new root has the old one's pairs below it.                          *)
RootKept(s, w, x, n, d) ==
  /\ Later(w, x) /\ Holds(s.pm, x)
  /\ s.err = NoError =>
       /\ Fits(x, s.node, d + 1) /\ PairsOf(x, s.node, d + 1) = PairsOf(w, n, d)
       /\ s.node.kvs # << >> /\ s.node.type = "internal"

(* SplitRoot keeps the pairs of the tree, which is one level higher.       *)
THEOREM SplitRootKeepsPairs ==
  ASSUME RoomForThree, NEW m, NEW w, Holds(m, w), NEW n, NEW d, Fits(w, n, d), n.kvs # << >>,
         Overflow(n), NEW s, s = SplitRoot(m, n), Safe(s)
  PROVE  \E x : RootKept(s, w, x, n, d)
<1> DEFINE D == d + 1
<1>1. /\ IsNode(n) /\ InOrder(n.kvs) /\ d \in Nat /\ FitsBut(w, n.kvs, n.ptr, {}, d) /\ s.err # Panicked
  BY Zenon DEF Fits, FitsBut, IsNode, Safe
<1>2. D \in Nat \ {0} /\ D - 1 = d /\ D # 0 /\ D > 0
  BY <1>1
<1> HIDE DEF D
<1>3. PICK v, kv, u :
        /\ Halves(n, v, kv, u)
        /\ s.pm = CopyPair(m, u, v).pm /\ s.err = CopyPair(m, u, v).err
        /\ s.node = With(NewRoot, InsertAt(<< >>, 1, kv),
                         WithPointers(<<0>>, 1, CopyPair(m, u, v).second, CopyPair(m, u, v).first))
  <2>1. RootDivided(s, m, n)
    BY <1>1, SplitRootDivides
  <2> QED
    BY <2>1, Zenon DEF RootDivided
<1>4. FitsBut(w, << >>, <<0>>, {1}, D)
  <2>1. /\ << >> \in Seq(KVs) /\ <<0>> \in Seq(Nat) /\ Len(<<0>>) = Len(<< >>) + 1
        /\ 1 .. Len(<< >>) = {} /\ (1 .. Len(<<0>>)) \ {1} = {}
    OBVIOUS
  <2>2. InOrder(<< >>)
    BY DEF InOrder
  <2> QED
    BY <2>1, <2>2, Zenon DEF FitsBut
<1>5. \A t : Between(<< >>, 1, t)
  BY DEF Between
<1>6. Opened(w, << >>, <<0>>, 1, D, n.kvs, n.ptr)
  <2>1. 1 \in 1 .. Len(<< >>) + 1
    OBVIOUS
  <2>2. \A t \in PairsBut(w, n.kvs, n.ptr, {}, D - 1) : Between(<< >>, 1, t[1])
    BY <1>5
  <2> QED
    BY <1>1, <1>2, <1>4, <2>1, <2>2, Zenon DEF Opened
<1>7. OpenedPairs(w, << >>, <<0>>, 1, D, n.kvs, n.ptr) = PairsOf(w, n, d)
  <2>1. PairsBut(w, << >>, <<0>>, {1}, D) = {}
    <3>1. 1 .. Len(<< >>) = {} /\ (1 .. Len(<<0>>)) \ {1} = {}
      OBVIOUS
    <3> QED
      BY <1>2, <3>1, Zenon DEF PairsBut
  <2> QED
    BY <1>2, <2>1, Zenon DEF OpenedPairs, PairsOf
<1> DEFINE p == CopyPair(m, u, v)
<1>8. Safe(p)
  BY <1>3 DEF Safe
<1>9. Fits(w, n, D - 1)
  BY <1>2
<1>10. PICK x : /\ Later(w, x) /\ Holds(p.pm, x)
                /\ p.err = NoError =>
                     Widened(x, w, << >>, <<0>>, 1, D, n.kvs, n.ptr, kv, p.second, p.first)
  BY <1>3, <1>6, <1>8, <1>9, HalvesKeepPairs
<1> DEFINE kvs == InsertAt(<< >>, 1, kv)
           ptr == WithPointers(<<0>>, 1, p.second, p.first)
<1>11. s.pm = p.pm /\ s.err = p.err /\ s.node = With(NewRoot, kvs, ptr)
  BY <1>3, Zenon
<1> HIDE DEF p
<1>12. ASSUME s.err = NoError
       PROVE  /\ Fits(x, s.node, D) /\ PairsOf(x, s.node, D) = PairsOf(w, n, d)
              /\ s.node.kvs # << >> /\ s.node.type = "internal"
  <2>1. Widened(x, w, << >>, <<0>>, 1, D, n.kvs, n.ptr, kv, p.second, p.first)
    BY <1>10, <1>11, <1>12
  <2>2. /\ FitsBut(x, kvs, ptr, {}, D) /\ Len(kvs) = Len(<< >>) + 1 /\ kvs \in Seq(KVs)
        /\ PairsBut(x, kvs, ptr, {}, D) = PairsOf(w, n, d)
    BY <1>7, <2>1, Zenon DEF Widened
  <2> HIDE DEF kvs, ptr
  <2>3. kvs # << >>
    BY <2>2
  <2>4. ptr \in Seq(Nat)
    BY <2>2, Zenon DEF FitsBut
  <2> DEFINE z == With(NewRoot, kvs, ptr)
  <2>5. z \in Nodes /\ z.kvs = kvs /\ z.ptr = ptr /\ z.type = NewRoot.type /\ z.ok = NewRoot.ok
    BY <2>2, <2>4, NewRootIsNode, WithIsNode, Zenon
  <2> HIDE DEF z
  <2>6. z.type = "internal" /\ z.ok /\ z.type # "leaf"
    BY <2>5, NewRootIsNode
  <2>7. D \in Nat
    BY <1>2
  <2>8. Fits(x, z, D) /\ PairsOf(x, z, D) = PairsOf(w, n, d)
    BY <1>2, <2>2, <2>5, <2>6, <2>7, Zenon DEF Fits, PairsOf
  <2>9. s.node = z
    BY <1>11 DEF z
  <2> QED
    BY <2>3, <2>5, <2>6, <2>8, <2>9
<1> QED
  BY <1>10, <1>11, <1>12, Zenon DEF RootKept, D

(* An empty leaf is not full.                                              *)
LEMMA EmptyIsNotFull ==
  ASSUME RoomForThree, NEW w, NEW n, Fits(w, n, 0), n.kvs = << >>
  PROVE  ~Overflow(n)
<1>1. n.ptr \in Seq(Nat) /\ Len(n.ptr) = 1 /\ Nils(n.ptr)
  <2>1. n.ptr \in Seq(Nat) /\ Len(n.ptr) = Len(n.kvs) + 1 /\ Nils(n.ptr)
    BY Zenon DEF Fits, FitsBut
  <2> QED
    BY <2>1
<1>2. GetPtr(n, 0) = 0
  BY <1>1 DEF GetPtr, Nils
<1>3. GetSize(n) = (HeaderSize + PointerSize + 0 + KeyLenSize + ValLenSize) % Word
  BY <1>2, Zenon DEF GetSize
<1>4. GetSize(n) = 4 + HeaderSize + PointerSize
  BY <1>3 DEF KeyLenSize, ValLenSize, HeaderSize, PointerSize, Word
<1> QED
  BY <1>4, PageLayoutAssumption DEF RoomForThree, Overflow, KVOverhead, KeyLenSize, ValLenSize, OffsetSize, HeaderSize, PointerSize

-----------------------------------------------------------------------------
(* A level of the recursion that waits for its child.                      *)
Frames == [node : Nodes, slot : Nat, retire : BOOLEAN]

(* Page p can be the root of a tree.                                       *)
Rooted(w, p) == p \in DOMAIN w /\ (w[p].node.type = "internal" => w[p].node.kvs # << >>)

(* The keys of pairs K.                                                    *)
KeysOf(K) == {kv[1] : kv \in K}

(* Requests rs, served from pairs K on, insert no key that is there, and   *)
(* delete none that is not, where callers are disciplined.                 *)
Proper(K, rs) ==
  \A i \in DOMAIN rs :
    /\ rs[i].op = "insert" => rs[i].key \notin Before(KeysOf(K), rs, i)
    /\ DeletePresent /\ rs[i].op = "delete" => rs[i].key \in Before(KeysOf(K), rs, i)

(* The pairs that request r makes of pairs K.                              *)
Served(K, r) == IF r.op = "insert" THEN K \cup {<<r.key, r.val>>} ELSE Without(K, r.key)

(* Pairs K are what the request makes of those it has started from.        *)
Aims(w, K) == base \in DOMAIN w /\ K = Served(w[base].pairs, Head(todo))

(* The levels of stack st wait for a node d levels above the leaves, each  *)
(* for the pairs gs gives the next one.  A level that will be a child, or  *)
(* the root after an insertion, has pairs of its own.                      *)
Waiting(w, st, op, gs, d) ==
  /\ st \in Seq(Frames) /\ d \in Nat
  /\ \A l \in 1 .. Len(st) :
       /\ Frame(w, st[l], d + (Len(st) + 1 - l), gs[l], gs[l + 1])
       /\ l > 1 \/ op = "insert" => st[l].node.kvs # << >>

(* The node in memory is to get the pair of the request.                   *)
Inserting(w, n, kv, goal, d) ==
  /\ Fits(w, n, d) /\ (n.type = "internal" => n.kvs # << >>)
  /\ kv \in KVs /\ Small(kv) /\ goal = PairsOf(w, n, d) \cup {kv}
  /\ \A u \in PairsOf(w, n, d) : u[1] # kv[1]

(* The child that a deletion of k enters from node n has pairs to spare.   *)
Spare(w, n, k) ==
  n.type = "internal" /\ ~HasKey(n.kvs, k) /\ Len(w[GetPtr(n, FindIndex(n, k))].node.kvs) >= 2

(* The node in memory is to lose key k.  Unless it is the root it can lose *)
(* a pair and have one left, or it need lose none.                         *)
Deleting(w, n, k, goal, d, atRoot) ==
  /\ Fits(w, n, d) /\ (n.type = "internal" => n.kvs # << >> \/ Spare(w, n, k))
  /\ k \in Key /\ goal = Without(PairsOf(w, n, d), k) /\ KeyIsThere(PairsOf(w, n, d), k)
  /\ ~atRoot => n.kvs # << >> /\ (Len(n.kvs) >= 2 \/ Spare(w, n, k))

(* Page p has what the level above waits for.                              *)
Returning(w, p, op, goal, d, atRoot) ==
  /\ p \in DOMAIN w /\ w[p].depth = d /\ w[p].pairs = goal
  /\ ~atRoot \/ op = "insert" => w[p].node.kvs # << >>

(* The recursion, at each of its levels.                                   *)
Descent(w, gs, d) ==
  /\ Waiting(w, stack, Head(todo).op, gs, d) /\ Proper(gs[1], Tail(todo))
  /\ Aims(w, gs[1])
  /\ pc = "insert" =>
       /\ Head(todo).op = "insert" /\ key = Pair[1]
       /\ Inserting(w, node, Pair, gs[Len(stack) + 1], d)
  /\ pc = "delete" =>
       /\ Head(todo).op = "delete"
       /\ Deleting(w, node, key, gs[Len(stack) + 1], d, stack = << >>)
  /\ pc = "return" => Returning(w, ret, Head(todo).op, gs[Len(stack) + 1], d, stack = << >>)

(* A root to go on from, 0 after an error that was dropped, and what is    *)
(* left to do.                                                             *)
GoesOn(w, p, rs) == p = 0 \/ (Rooted(w, p) /\ Proper(w[p].pairs, rs))

(* What holds between any two steps, for a description w of the pages.     *)
Describes(w) ==
  /\ Holds(pm, w) /\ Rooted(w, root)
  /\ pc \in {"start", "insert", "delete", "return", "next"} => todo \in Seq(Request) /\ todo # << >>
  /\ pc \notin {"insert", "delete", "return", "broken"} => stack = << >>
  /\ pc = "start" => GoesOn(w, base, todo)
  /\ pc \in {"insert", "delete", "return"} => \E gs, d : Descent(w, gs, d)
  /\ pc = "next" => GoesOn(w, ret, Tail(todo)) /\ (ret = 0 \/ Aims(w, w[ret].pairs))
  /\ pc \in {"fsync", "commit", "commitUnsynced"} => base = 0 \/ Rooted(w, base)

(* The inductive invariant.                                                *)
Described == \E w : Describes(w)

(* As the world grows, a root stays one with the same pairs.               *)
LEMMA RootedLater ==
  ASSUME NEW w, NEW x, Later(w, x), NEW p, Rooted(w, p)
  PROVE  Rooted(x, p) /\ x[p] = w[p]
  BY Zenon DEF Rooted, Later

(* The aim stays.                                                          *)
LEMMA AimsLater ==
  ASSUME NEW w, NEW x, Later(w, x), NEW K, Aims(w, K), base' = base, todo' = todo
  PROVE  Aims(x, K)'
<1>1. base \in DOMAIN w /\ K = Served(w[base].pairs, Head(todo))
  BY Zenon DEF Aims
<1>2. base' \in DOMAIN x /\ x[base'] = w[base] /\ Head(todo') = Head(todo)
  BY <1>1 DEF Later
<1> QED
  BY <1>1, <1>2 DEF Aims

(* The levels wait on.                                                     *)
LEMMA WaitingLater ==
  ASSUME NEW w, NEW x, Later(w, x), NEW st, NEW op, NEW gs, NEW d, Waiting(w, st, op, gs, d)
  PROVE  Waiting(x, st, op, gs, d)
<1>1. ASSUME NEW l \in 1 .. Len(st)
      PROVE  Frame(x, st[l], d + (Len(st) + 1 - l), gs[l], gs[l + 1])
  <2>1. Frame(w, st[l], d + (Len(st) + 1 - l), gs[l], gs[l + 1])
    BY Zenon DEF Waiting
  <2> QED
    BY <2>1, FrameLater
<1> QED
  BY <1>1, Zenon DEF Waiting

(* A panic leaves the description as it is.                                *)
LEMMA BreakKeeps ==
  ASSUME NEW w, Describes(w), Break
  PROVE  Describes(w)'
<1>1. pm' = pm /\ root' = root /\ pc' = "broken"
  BY DEF Break, tree
<1>2. Holds(pm, w) /\ Rooted(w, root)
  BY Zenon DEF Describes
<1> QED
  BY <1>1, <1>2 DEF Describes

(* So does an error that is returned: the pages written are known.         *)
LEMMA FailKeeps ==
  ASSUME NEW w, Describes(w), NEW x, Later(w, x), Holds(pm', x), root' = root,
         NEW err, NEW dropped, Fail(err, dropped),
         dropped => todo \in Seq(Request) /\ todo # << >>
  PROVE  Describes(x)'
<1>1. Rooted(x, root)
  <2>1. Rooted(w, root)
    BY Zenon DEF Describes
  <2> QED
    BY <2>1, RootedLater
<1>2. stack' = << >> /\ (pc' = "idle" \/ (pc' = "next" /\ dropped /\ ret' = 0 /\ todo' = todo))
  BY DEF Fail, Unwind, Reply
<1> QED
  BY <1>1, <1>2 DEF Describes, GoesOn

(* A part of an operation either ends the recursion, with an error or a    *)
(* panic, or succeeds.                                                     *)
Succeeds(r) == Safe(r) /\ r.err = NoError /\ pm' = r.pm /\ root' = root

(* The frame of an action, once it is known what the part has written.     *)
LEMMA StepKeeps ==
  ASSUME NEW w, Describes(w), NEW r, NEW dropped, NEW ACTION then, Step(r, dropped, then),
         Safe(r) => \E x : Later(w, x) /\ Holds(r.pm, x),
         dropped => todo \in Seq(Request) /\ todo # << >>
  PROVE  Described' \/ (Succeeds(r) /\ then)
<1>1. CASE ~Safe(r)
  <2>1. Break
    BY <1>1 DEF Step, Safe
  <2>2. Describes(w)'
    BY <2>1, BreakKeeps
  <2> QED
    BY <2>2 DEF Described
<1>2. CASE Safe(r)
  <2>1. /\ Keep(r)
        /\ IF r.err = NoError THEN then ELSE Fail(r.err, dropped)
    BY <1>2 DEF Step, Safe
  <2>2. pm' = r.pm /\ root' = root
    BY <2>1 DEF Keep
  <2>3. CASE r.err = NoError
    BY <1>2, <2>1, <2>2, <2>3 DEF Succeeds
  <2>4. CASE r.err # NoError
    <3>1. PICK x : Later(w, x) /\ Holds(r.pm, x)
      BY <1>2
    <3>2. Holds(pm', x) /\ Fail(r.err, dropped)
      BY <2>1, <2>2, <2>4, <3>1
    <3>3. Describes(x)'
      BY <2>2, <3>1, <3>2, FailKeeps
    <3> QED
      BY <3>3 DEF Described
  <2> QED
    BY <2>3, <2>4
<1> QED
  BY <1>1, <1>2

-----------------------------------------------------------------------------
(* The keys in the tree before a later request, counted from the second    *)
(* one on: js is what the first one makes of ks.                           *)
LEMMA BeforeLater ==
  ASSUME NEW rs \in Seq(Request), rs # << >>, NEW ks, NEW js,
         \A k \in js : \/ k \in ks /\ k # rs[1].key
                       \/ k = rs[1].key /\ rs[1].op = "insert",
         NEW i \in DOMAIN Tail(rs)
  PROVE  /\ i + 1 \in DOMAIN rs /\ Tail(rs)[i] = rs[i + 1]
         /\ Before(js, Tail(rs), i) \subseteq Before(ks, rs, i + 1)
<1> DEFINE ts == Tail(rs)
<1>1. /\ i \in Nat /\ i >= 1 /\ i + 1 \in DOMAIN rs
      /\ \A j \in 1 .. i : ts[j] = rs[j + 1]
  <2>1. /\ Len(rs) \in Nat /\ Len(rs) >= 1 /\ DOMAIN ts = 1 .. Len(rs) - 1 /\ DOMAIN rs = 1 .. Len(rs)
        /\ \A j \in 1 .. Len(rs) - 1 : ts[j] = rs[j + 1]
    OBVIOUS
  <2> HIDE DEF ts
  <2> DEFINE N == Len(rs)
  <2>2. N \in Nat /\ N >= 1 /\ i \in 1 .. N - 1
    BY <2>1 DEF ts
  <2> HIDE DEF N
  <2>3. i \in Nat /\ i >= 1 /\ i + 1 \in 1 .. N /\ \A j \in 1 .. i : j \in 1 .. N - 1
    BY <2>2
  <2> QED
    BY <2>1, <2>3 DEF N
<1> HIDE DEF ts
<1>2. i \in 1 .. i
  BY <1>1
<1>3. ASSUME NEW k \in Before(js, ts, i) PROVE k \in Before(ks, rs, i + 1)
  <2>1. \/ k \in js /\ \A j \in 1 .. i - 1 : ts[j].key # k
        \/ \E h \in 1 .. i - 1 : ts[h].op = "insert" /\ k = ts[h].key
                                 /\ \A j \in h + 1 .. i - 1 : ts[j].key # k
    BY <1>3 DEF Before
  <2>2. CASE k \in ks /\ k # rs[1].key /\ \A j \in 1 .. i - 1 : ts[j].key # k
    <3>1. ASSUME NEW j \in 1 .. (i + 1) - 1 PROVE rs[j].key # k
      <4>1. CASE j = 1
        BY <2>2, <4>1
      <4>2. CASE j # 1
        <5>1. j - 1 \in 1 .. i - 1 /\ j - 1 \in 1 .. i /\ (j - 1) + 1 = j
          BY <1>1, <4>2
        <5>2. rs[j] = ts[j - 1]
          BY <1>1, <5>1
        <5> QED
          BY <2>2, <5>1, <5>2
      <4> QED
        BY <4>1, <4>2
    <3> QED
      BY <2>2, <3>1, Zenon DEF Before
  <2>3. ASSUME NEW g \in 1 .. i, rs[g].op = "insert", k = rs[g].key,
               \A j \in g .. i - 1 : ts[j].key # k
        PROVE  k \in Before(ks, rs, i + 1)
    <3>1. g \in 1 .. (i + 1) - 1
      BY <1>1
    <3>2. ASSUME NEW j \in g + 1 .. (i + 1) - 1 PROVE rs[j].key # rs[g].key
      <4>1. j - 1 \in g .. i - 1 /\ j - 1 \in 1 .. i /\ (j - 1) + 1 = j
        BY <1>1
      <4>2. rs[j] = ts[j - 1]
        BY <1>1, <4>1
      <4> QED
        BY <2>3, <4>1, <4>2
    <3> QED
      BY <2>3, <3>1, <3>2, Zenon DEF Before
  <2>4. CASE k = rs[1].key /\ rs[1].op = "insert" /\ \A j \in 1 .. i - 1 : ts[j].key # k
    <3>1. 1 \in 1 .. i
      BY <1>1
    <3> QED
      BY <2>3, <2>4, <3>1
  <2>5. ASSUME NEW h \in 1 .. i - 1, ts[h].op = "insert", k = ts[h].key,
               \A j \in h + 1 .. i - 1 : ts[j].key # k
        PROVE  k \in Before(ks, rs, i + 1)
    <3>1. h + 1 \in 1 .. i /\ h \in 1 .. i
      BY <1>1
    <3>2. rs[h + 1] = ts[h]
      BY <1>1, <3>1
    <3> QED
      BY <2>3, <2>5, <3>1, <3>2
  <2> QED
    BY <2>1, <2>2, <2>4, <2>5
<1> QED
  BY <1>1, <1>2, <1>3 DEF ts

(* And the other way around.                                               *)
LEMMA BeforeEarlier ==
  ASSUME NEW rs \in Seq(Request), rs # << >>, NEW ks, NEW js,
         \A k \in ks : k # rs[1].key => k \in js,
         rs[1].op = "insert" => rs[1].key \in js,
         NEW i \in DOMAIN Tail(rs)
  PROVE  Before(ks, rs, i + 1) \subseteq Before(js, Tail(rs), i)
<1> DEFINE ts == Tail(rs)
<1>1. i \in Nat /\ i >= 1 /\ \A j \in 1 .. i - 1 : ts[j] = rs[j + 1]
  <2>1. /\ Len(rs) \in Nat /\ Len(rs) >= 1 /\ DOMAIN ts = 1 .. Len(rs) - 1
        /\ \A j \in 1 .. Len(rs) - 1 : ts[j] = rs[j + 1]
    OBVIOUS
  <2> HIDE DEF ts
  <2> DEFINE N == Len(rs)
  <2>2. N \in Nat /\ N >= 1 /\ i \in 1 .. N - 1
    BY <2>1 DEF ts
  <2> HIDE DEF N
  <2>3. i \in Nat /\ i >= 1 /\ \A j \in 1 .. i - 1 : j \in 1 .. N - 1
    BY <2>2
  <2> QED
    BY <2>1, <2>3 DEF N
<1> HIDE DEF ts
<1>2. ASSUME NEW k, NEW g \in 1 .. i, \A j \in g + 1 .. (i + 1) - 1 : rs[j].key # k
      PROVE  \A j \in g .. i - 1 : ts[j].key # k
  <2> SUFFICES ASSUME NEW j \in g .. i - 1 PROVE ts[j].key # k
    OBVIOUS
  <2>1. j \in 1 .. i - 1 /\ j + 1 \in g + 1 .. (i + 1) - 1
    BY <1>1
  <2> QED
    BY <1>1, <1>2, <2>1
<1>3. ASSUME NEW k \in Before(ks, rs, i + 1) PROVE k \in Before(js, ts, i)
  <2>1. \/ k \in ks /\ \A j \in 1 .. (i + 1) - 1 : rs[j].key # k
        \/ \E h \in 1 .. (i + 1) - 1 : rs[h].op = "insert" /\ k = rs[h].key
                                       /\ \A j \in h + 1 .. (i + 1) - 1 : rs[j].key # k
    BY <1>3 DEF Before
  <2>2. CASE k \in ks /\ \A j \in 1 .. (i + 1) - 1 : rs[j].key # k
    <3>1. 1 \in 1 .. (i + 1) - 1 /\ 1 \in 1 .. i /\ \A j \in 1 + 1 .. (i + 1) - 1 : j \in 1 .. (i + 1) - 1
      BY <1>1
    <3>2. k \in js
      BY <2>2, <3>1
    <3>3. \A j \in 1 .. i - 1 : ts[j].key # k
      BY <1>2, <2>2, <3>1
    <3> QED
      BY <3>2, <3>3, Zenon DEF Before
  <2>3. ASSUME NEW h \in 1 .. (i + 1) - 1, rs[h].op = "insert", k = rs[h].key,
               \A j \in h + 1 .. (i + 1) - 1 : rs[j].key # k
        PROVE  k \in Before(js, ts, i)
    <3>1. h \in 1 .. i
      BY <1>1
    <3>2. \A j \in h .. i - 1 : ts[j].key # k
      BY <1>2, <2>3, <3>1
    <3>3. CASE h = 1
      BY <2>3, <3>2, <3>3, Zenon DEF Before
    <3>4. CASE h # 1
      <4>1. PICK g \in 1 .. i - 1 : h = g + 1
        <5>1. h - 1 \in 1 .. i - 1 /\ h = (h - 1) + 1
          BY <1>1, <3>1, <3>4
        <5> QED
          BY <5>1
      <4>2. ts[g] = rs[h]
        BY <1>1, <4>1
      <4>3. \A j \in g + 1 .. i - 1 : ts[j].key # ts[g].key
        BY <2>3, <3>2, <4>1, <4>2
      <4> QED
        BY <2>3, <4>2, <4>3, Zenon DEF Before
    <3> QED
      BY <3>3, <3>4
  <2> QED
    BY <2>1, <2>2, <2>3
<1> QED
  BY <1>3 DEF ts

(* Requests that are proper stay so after the first one, which makes pairs *)
(* J of K.                                                                 *)
LEMMA ProperLater ==
  ASSUME NEW rs \in Seq(Request), rs # << >>, NEW K, Proper(K, rs), NEW J,
         \A u \in J : \/ u \in K /\ u[1] # rs[1].key
                      \/ u[1] = rs[1].key /\ rs[1].op = "insert",
         \A u \in K : u[1] # rs[1].key => u \in J,
         rs[1].op = "insert" => \E u \in J : u[1] = rs[1].key
  PROVE  Proper(J, Tail(rs))
<1>1. /\ \A k \in KeysOf(J) : \/ k \in KeysOf(K) /\ k # rs[1].key
                              \/ k = rs[1].key /\ rs[1].op = "insert"
      /\ \A k \in KeysOf(K) : k # rs[1].key => k \in KeysOf(J)
      /\ rs[1].op = "insert" => rs[1].key \in KeysOf(J)
  BY DEF KeysOf
<1>2. ASSUME NEW i \in DOMAIN Tail(rs)
      PROVE  /\ Tail(rs)[i].op = "insert" => Tail(rs)[i].key \notin Before(KeysOf(J), Tail(rs), i)
             /\ DeletePresent /\ Tail(rs)[i].op = "delete" =>
                  Tail(rs)[i].key \in Before(KeysOf(J), Tail(rs), i)
  <2>1. /\ i + 1 \in DOMAIN rs /\ Tail(rs)[i] = rs[i + 1]
        /\ Before(KeysOf(J), Tail(rs), i) \subseteq Before(KeysOf(K), rs, i + 1)
    BY <1>1, BeforeLater
  <2>2. Before(KeysOf(K), rs, i + 1) \subseteq Before(KeysOf(J), Tail(rs), i)
    BY <1>1, BeforeEarlier
  <2>3. /\ rs[i + 1].op = "insert" => rs[i + 1].key \notin Before(KeysOf(K), rs, i + 1)
        /\ DeletePresent /\ rs[i + 1].op = "delete" => rs[i + 1].key \in Before(KeysOf(K), rs, i + 1)
    BY <2>1, Zenon DEF Proper
  <2> QED
    BY <2>1, <2>2, <2>3, Zenon
<1> QED
  BY <1>2, Zenon DEF Proper

(* The key that the first of them inserts is not there.                    *)
LEMMA ProperFirst ==
  ASSUME NEW rs \in Seq(Request), rs # << >>, NEW K, Proper(K, rs), rs[1].op = "insert"
  PROVE  \A u \in K : u[1] # rs[1].key
<1>1. 1 \in DOMAIN rs
  OBVIOUS
<1>2. rs[1].key \notin Before(KeysOf(K), rs, 1)
  BY <1>1, Zenon DEF Proper
<1>3. ASSUME NEW u \in K, u[1] = rs[1].key PROVE FALSE
  <2>1. rs[1].key \in KeysOf(K) /\ 1 .. 1 - 1 = {}
    BY <1>3 DEF KeysOf
  <2>2. rs[1].key \in Before(KeysOf(K), rs, 1)
    BY <2>1, Zenon DEF Before
  <2> QED
    BY <1>2, <2>2
<1> QED
  BY <1>3

(* And the one it deletes is.                                              *)
LEMMA ProperFirstThere ==
  ASSUME NEW rs \in Seq(Request), rs # << >>, NEW K, Proper(K, rs), rs[1].op = "delete"
  PROVE  KeyIsThere(K, rs[1].key)
<1> SUFFICES ASSUME DeletePresent PROVE \E u \in K : u[1] = rs[1].key
  BY DEF KeyIsThere
<1>1. 1 \in DOMAIN rs /\ \A h \in 1 .. 1 - 1 : FALSE
  OBVIOUS
<1>2. rs[1].key \in Before(KeysOf(K), rs, 1)
  BY <1>1, Zenon DEF Proper
<1>3. rs[1].key \in KeysOf(K)
  BY <1>1, <1>2, Zenon DEF Before
<1> QED
  BY <1>3 DEF KeysOf

-----------------------------------------------------------------------------
(* One more level waits.                                                   *)
LEMMA WaitingMore ==
  ASSUME NEW w, NEW st, NEW op, NEW gs, NEW d, Waiting(w, st, op, gs, d), d # 0,
         NEW f \in Frames, NEW h, Frame(w, f, d, gs[Len(st) + 1], h),
         st # << >> \/ op = "insert" => f.node.kvs # << >>
  PROVE  \E g : /\ Waiting(w, Append(st, f), op, g, d - 1)
                /\ g[1] = gs[1] /\ g[Len(Append(st, f)) + 1] = h
<1> DEFINE L == Len(st)
           t == Append(st, f)
           g == [l \in 1 .. L + 2 |-> IF l = L + 2 THEN h ELSE gs[l]]
<1>1. st \in Seq(Frames) /\ d \in Nat
  BY Zenon DEF Waiting
<1>2. /\ L \in Nat /\ t \in Seq(Frames) /\ Len(t) = L + 1 /\ t[L + 1] = f
      /\ (\A l \in 1 .. L : t[l] = st[l]) /\ (L > 0 => st # << >>) /\ (st = << >> => L = 0)
  BY <1>1
<1> HIDE DEF t
<1>3. ASSUME NEW l \in 1 .. L PROVE Frame(w, st[l], d + (L + 1 - l), gs[l], gs[l + 1])
  BY Zenon DEF Waiting
<1>4. ASSUME NEW l \in 1 .. L, l > 1 \/ op = "insert" PROVE st[l].node.kvs # << >>
  BY <1>4, Zenon DEF Waiting
<1> HIDE DEF L
<1>5. /\ d - 1 \in Nat /\ L + 2 \in 1 .. L + 2 /\ L + 1 \in 1 .. L + 2 /\ 1 \in 1 .. L + 2 /\ 1 # L + 2
      /\ L + 1 # L + 2 /\ (L + 1) + 1 = L + 2
      /\ \A l \in 1 .. L : l \in 1 .. L + 2 /\ l # L + 2 /\ l + 1 \in 1 .. L + 2 /\ l + 1 # L + 2
      /\ \A l \in 1 .. L + 1 : l \in 1 .. L \/ l = L + 1
      /\ \A l \in 1 .. L : (d - 1) + ((L + 1) + 1 - l) = d + (L + 1 - l)
      /\ (d - 1) + ((L + 1) + 1 - (L + 1)) = d
  BY <1>1, <1>2
<1>6. g[L + 2] = h /\ g[1] = gs[1] /\ g[L + 1] = gs[L + 1]
      /\ \A l \in 1 .. L : g[l] = gs[l] /\ g[l + 1] = gs[l + 1]
  BY <1>5
<1> HIDE DEF g
<1>7. ASSUME NEW l \in 1 .. L + 1
      PROVE  /\ Frame(w, t[l], (d - 1) + ((L + 1) + 1 - l), g[l], g[l + 1])
             /\ l > 1 \/ op = "insert" => t[l].node.kvs # << >>
  <2>1. CASE l \in 1 .. L
    BY <1>2, <1>3, <1>4, <1>5, <1>6, <2>1
  <2>2. CASE l = L + 1
    <3>1. Frame(w, f, d, gs[L + 1], h)
      BY DEF L
    <3>2. l > 1 => st # << >>
      BY <1>2, <2>2
    <3> QED
      BY <1>2, <1>5, <1>6, <2>2, <3>1, <3>2
  <2> QED
    BY <1>5, <2>1, <2>2
<1>8. Waiting(w, t, op, g, d - 1)
  BY <1>2, <1>5, <1>7, Zenon DEF Waiting
<1> QED
  BY <1>2, <1>5, <1>6, <1>8 DEF t

(* A list without its last element.                                        *)
LEMMA FrontOfList ==
  ASSUME NEW S, NEW s \in Seq(S), s # << >>
  PROVE  /\ Len(s) \in Nat /\ Len(s) >= 1 /\ Last(s) = s[Len(s)] /\ s[Len(s)] \in S
         /\ Front(s) \in Seq(S) /\ Len(Front(s)) = Len(s) - 1
         /\ \A l \in 1 .. Len(s) - 1 : Front(s)[l] = s[l]
         /\ (Front(s) # << >> => Len(s) > 1)
<1>1. Len(s) \in Nat /\ Len(s) >= 1 /\ s[Len(s)] \in S
  OBVIOUS
<1>2. SubSeq(s, 1, Len(s) - 1) \in Seq(S)
  BY <1>1
<1>3. Len(SubSeq(s, 1, Len(s) - 1)) = Len(s) - 1
  <2>1. PICK k : k = Len(s) - 1
    OBVIOUS
  <2>2. k \in Nat /\ k <= Len(s)
    BY <1>1, <2>1
  <2>3. CASE k = 0
    BY <2>1, <2>3
  <2>4. CASE k # 0
    <3>1. 1 <= k /\ k \in Int /\ 1 \in 1 .. Len(s) /\ k \in 1 .. Len(s)
      BY <1>1, <2>2, <2>4
    <3>2. Len(SubSeq(s, 1, k)) = k
      BY <1>1, <3>1
    <3> QED
      BY <2>1, <3>2
  <2> QED
    BY <2>3, <2>4
<1>4. \A l \in 1 .. Len(s) - 1 : SubSeq(s, 1, Len(s) - 1)[l] = s[l]
  BY <1>1
<1>5. SubSeq(s, 1, Len(s) - 1) # << >> => Len(s) > 1
  BY <1>1
<1> QED
  BY <1>1, <1>2, <1>3, <1>4, <1>5 DEF Front, Last

(* One less: the last level has its child back.                            *)
LEMMA WaitingLess ==
  ASSUME NEW w, NEW st, NEW op, NEW gs, NEW d, Waiting(w, st, op, gs, d), st # << >>
  PROVE  /\ Waiting(w, Front(st), op, gs, d + 1) /\ Len(st) = Len(Front(st)) + 1
         /\ Last(st) \in Frames /\ Frame(w, Last(st), d + 1, gs[Len(st)], gs[Len(st) + 1])
         /\ Front(st) # << >> \/ op = "insert" => Last(st).node.kvs # << >>
<1> DEFINE L == Len(st)
           t == Front(st)
<1>1. st \in Seq(Frames) /\ d \in Nat
  BY Zenon DEF Waiting
<1>2. /\ L \in Nat /\ L >= 1 /\ t \in Seq(Frames) /\ Len(t) = L - 1 /\ Last(st) = st[L]
      /\ (\A l \in 1 .. L - 1 : t[l] = st[l]) /\ st[L] \in Frames /\ (t # << >> => L > 1)
  BY <1>1, FrontOfList, Zenon
<1> HIDE DEF t
<1>3. ASSUME NEW l \in 1 .. L
      PROVE  /\ Frame(w, st[l], d + (L + 1 - l), gs[l], gs[l + 1])
             /\ l > 1 \/ op = "insert" => st[l].node.kvs # << >>
  BY Zenon DEF Waiting
<1> HIDE DEF L
<1>4. /\ L \in 1 .. L /\ (d + (L + 1 - L)) = d + 1 /\ d + 1 \in Nat
      /\ \A l \in 1 .. L - 1 : l \in 1 .. L /\ (d + 1) + ((L - 1) + 1 - l) = d + (L + 1 - l)
      /\ L = (L - 1) + 1
  BY <1>1, <1>2
<1>5. ASSUME NEW l \in 1 .. Len(t)
      PROVE  /\ Frame(w, t[l], (d + 1) + (Len(t) + 1 - l), gs[l], gs[l + 1])
             /\ l > 1 \/ op = "insert" => t[l].node.kvs # << >>
  BY <1>2, <1>3, <1>4
<1>6. Waiting(w, t, op, gs, d + 1)
  BY <1>2, <1>4, <1>5, Zenon DEF Waiting
<1>7. Frame(w, st[L], d + 1, gs[L], gs[L + 1])
  BY <1>3, <1>4
<1>8. t # << >> \/ op = "insert" => st[L].node.kvs # << >>
  BY <1>2, <1>3, <1>4
<1> QED
  BY <1>2, <1>4, <1>6, <1>7, <1>8 DEF t, L

-----------------------------------------------------------------------------
(* The request being served, its pair, and the requests after it.          *)
LEMMA RequestServed ==
  ASSUME NEW rs \in Seq(Request), rs # << >>
  PROVE  /\ Head(rs) = rs[1] /\ rs[1] \in Request /\ rs[1].key \in Key /\ <<rs[1].key, rs[1].val>> \in KVs
         /\ Tail(rs) \in Seq(Request)
<1>1. rs[1] \in Request /\ Head(rs) = rs[1] /\ Tail(rs) \in Seq(Request)
  OBVIOUS
<1> QED
  BY <1>1 DEF Request, KVs

(* A page that an operation starts from, read into memory.                *)
LEMMA RootLoads ==
  ASSUME NEW m, NEW w, Holds(m, w), NEW p, p = 0 \/ Rooted(w, p), NEW n, n = LoadAsNode(m, p), n.ok
  PROVE  /\ p # 0 /\ Rooted(w, p) /\ Fits(w, n, w[p].depth) /\ PairsOf(w, n, w[p].depth) = w[p].pairs
         /\ n.type = "internal" => n.kvs # << >>
<1>1. p # 0
  <2>1. CASE p = 0
    <3>1. Slot(p) = 0
      BY <2>1, PageManagerAssumption DEF Slot
    <3>2. n = Garbage
      BY <3>1 DEF LoadAsNode
    <3> QED
      BY <3>2 DEF Garbage, NewNode
  <2> QED
    BY <2>1
<1>2. Rooted(w, p) /\ p \in DOMAIN w
  BY <1>1, Zenon DEF Rooted
<1>3. n = w[p].node
  BY <1>2, LoadHeld
<1>4. World(w)
  BY Zenon DEF Holds
<1>5. Fits(w, n, w[p].depth) /\ PairsOf(w, n, w[p].depth) = w[p].pairs
  BY <1>2, <1>3, <1>4, Zenon DEF World
<1> QED
  BY <1>1, <1>2, <1>3, <1>5, Zenon DEF Rooted

(* An insertion starts with a node in memory that has the pairs of page p. *)
Entered(w, x, r, p, d) ==
  /\ Later(w, x) /\ Holds(r.pm, x)
  /\ r.err = NoError =>
       /\ Fits(x, r.node, d) /\ PairsOf(x, r.node, d) = w[p].pairs
       /\ r.node.type = "internal" => r.node.kvs # << >>

(* Whether the root is full or not.                                        *)
LEMMA SplitIfFullEnters ==
  ASSUME RoomForThree, NEW w, Holds(pm, w), NEW p, p = 0 \/ Rooted(w, p),
         NEW r, r = SplitIfFull(LoadAsNode(pm, p)), Safe(r)
  PROVE  Rooted(w, p) /\ \E x, d : Entered(w, x, r, p, d)
<1> DEFINE n == LoadAsNode(pm, p)
           d == w[p].depth
<1>1. n.ok
  <2>1. CASE ~n.ok
    <3>1. r.err = Panicked
      BY <2>1 DEF SplitIfFull, Repaired
    <3> QED
      BY <3>1 DEF Safe
  <2> QED
    BY <2>1
<1>2. /\ Rooted(w, p) /\ Fits(w, n, d) /\ PairsOf(w, n, d) = w[p].pairs
      /\ n.type = "internal" => n.kvs # << >>
  BY <1>1, RootLoads
<1>3. Later(w, w)
  BY Zenon DEF Later
<1> HIDE DEF n, d
<1>4. CASE Overflow(n)
  <2>1. r = SplitRoot(pm, n)
    BY <1>1, <1>4 DEF SplitIfFull, n
  <2>2. n.kvs # << >>
    <3>1. CASE n.kvs = << >>
      <4>1. n.type = "leaf"
        BY <1>2, <3>1 DEF Fits, Nodes
      <4>2. d = 0
        BY <1>2, <4>1, Zenon DEF Fits
      <4> QED
        BY <1>2, <1>4, <3>1, <4>2, EmptyIsNotFull
    <3> QED
      BY <3>1
  <2>3. PICK x : RootKept(r, w, x, n, d)
    BY <1>2, <1>4, <2>1, <2>2, SplitRootKeepsPairs
  <2>4. Entered(w, x, r, p, d + 1)
    BY <1>2, <2>3, Zenon DEF RootKept, Entered
  <2> QED
    BY <1>2, <2>4
<1>5. CASE ~Overflow(n)
  <2>1. r = Repaired(pm, n, << >>, NoError)
    BY <1>5 DEF SplitIfFull, n
  <2>2. r.pm = pm /\ r.node = n
    BY <2>1 DEF Repaired
  <2>3. Entered(w, w, r, p, d)
    BY <1>2, <1>3, <2>2, Zenon DEF Entered
  <2> QED
    BY <1>2, <2>3
<1> QED
  BY <1>4, <1>5

-----------------------------------------------------------------------------
(* No level waits when an operation starts.                                *)
LEMMA NoneWaiting ==
  ASSUME NEW w, NEW op, NEW gs, NEW d \in Nat
  PROVE  Waiting(w, << >>, op, gs, d)
<1>1. << >> \in Seq(Frames) /\ Len(<< >>) = 0 /\ 1 .. 0 = {}
  OBVIOUS
<1> QED
  BY <1>1, Zenon DEF Waiting

(* What Insert finds when it starts.                                       *)
LEMMA StartFacts ==
  ASSUME NEW w, Describes(w), pc = "start"
  PROVE  /\ Holds(pm, w) /\ Rooted(w, root) /\ todo \in Seq(Request) /\ todo # << >> /\ stack = << >>
         /\ base = 0 \/ Rooted(w, base)
         /\ Rooted(w, base) => base = 0 \/ Proper(w[base].pairs, todo)
  BY DEF Describes, GoesOn

(* Insert up to the recursion.                                             *)
LEMMA StartInsertKeeps ==
  ASSUME RoomForThree, NEW w, Describes(w), StartInsert
  PROVE  Described'
<1> DEFINE r   == SplitIfFull(LoadAsNode(pm, base))
           old == IF direct \/ r.err # NoError THEN << >> ELSE <<base>>
           R   == [r EXCEPT !.retired = old]
           Onwards == /\ pc' = "insert" /\ node' = r.node /\ key' = Head(todo).key
                    /\ UNCHANGED <<stack, ret>> /\ Same
<1>1. /\ pc = "start" /\ Head(todo).op = "insert"
      /\ IF Oversized(Pair)
         THEN Keep(Repaired(pm, NewNode, << >>, NoError)) /\ Fail(ErrOverflow, FALSE)
         ELSE Step(R, FALSE, Onwards)
  BY Zenon DEF StartInsert
<1>2. /\ Holds(pm, w) /\ Rooted(w, root) /\ todo \in Seq(Request) /\ todo # << >> /\ stack = << >>
      /\ base = 0 \/ Rooted(w, base)
      /\ Rooted(w, base) => base = 0 \/ Proper(w[base].pairs, todo)
  BY <1>1, StartFacts
<1>3. /\ Head(todo) = todo[1] /\ todo[1].key \in Key /\ Pair \in KVs /\ Pair[1] = todo[1].key
      /\ todo[1].op = "insert"
  <2>1. Head(todo) = todo[1] /\ todo[1].key \in Key /\ <<todo[1].key, todo[1].val>> \in KVs
    BY <1>2, RequestServed
  <2> QED
    BY <1>1, <2>1 DEF Pair
<1>4. CASE Oversized(Pair)
  <2>1. pm' = pm /\ root' = root /\ Fail(ErrOverflow, FALSE)
    BY <1>1, <1>4 DEF Keep, Repaired
  <2>2. Later(w, w)
    BY DEF Later
  <2>3. Holds(pm', w)
    BY <1>2, <2>1
  <2>4. Describes(w)'
    BY <2>1, <2>2, <2>3, FailKeeps
  <2> QED
    BY <2>4 DEF Described
<1>5. CASE ~Oversized(Pair)
  <2>1. Step(R, FALSE, Onwards)
    BY <1>1, <1>5
  <2>2. R.pm = r.pm /\ R.err = r.err
    <3>1. \A t : [t EXCEPT !.retired = old].pm = t.pm /\ [t EXCEPT !.retired = old].err = t.err
      OBVIOUS
    <3> QED
      BY <3>1
  <2> HIDE DEF R
  <2>3. ASSUME Safe(r)
        PROVE  Rooted(w, base) /\ \E x, d : Entered(w, x, r, base, d)
    BY <1>2, <2>3, SplitIfFullEnters
  <2> HIDE DEF r
  <2>4. Safe(R) => \E x : Later(w, x) /\ Holds(R.pm, x)
    BY <2>2, <2>3 DEF Entered, Safe
  <2>5. Described' \/ (Succeeds(R) /\ Onwards)
    BY <2>1, <2>4, StepKeeps
  <2>6. ASSUME Succeeds(R), Onwards
        PROVE  Described'
    <3>1. Safe(r) /\ r.err = NoError /\ pm' = r.pm /\ root' = root
      BY <2>2, <2>6 DEF Succeeds, Safe
    <3>2. PICK x, d : Entered(w, x, r, base, d)
      BY <2>3, <3>1
    <3>3. /\ Later(w, x) /\ Holds(pm', x) /\ Fits(x, r.node, d) /\ PairsOf(x, r.node, d) = w[base].pairs
          /\ r.node.type = "internal" => r.node.kvs # << >>
      BY <3>1, <3>2 DEF Entered
    <3>4. /\ pc' = "insert" /\ node' = r.node /\ key' = Pair[1] /\ stack' = << >> /\ todo' = todo
          /\ base' = base
      BY <1>2, <1>3, <2>6 DEF Same
    <3>5. base # 0
      <4>1. CASE base = 0
        <5>1. 0 \in DOMAIN w
          BY <2>3, <3>1, <4>1 DEF Rooted
        <5>2. PageOwned(pm, 0) /\ Cow!WellFormed(pm)
          BY <1>2, <5>1, Zenon DEF Holds
        <5> QED
          BY <5>2, WellFormedMeans DEF PageOwned
      <4> QED
        BY <4>1
    <3>6. Proper(w[base].pairs, todo) /\ Rooted(x, root)
      <4>1. Rooted(w, base)
        BY <2>3, <3>1
      <4> QED
        BY <1>2, <3>3, <3>5, <4>1, RootedLater
    <3> DEFINE K == w[base].pairs
    <3>17. PICK gs : gs = [l \in {1} |-> K \cup {Pair}]
      OBVIOUS
    <3>7. \A u \in K : u[1] # Pair[1]
      BY <1>2, <1>3, <3>6, ProperFirst
    <3>8. Proper(K \cup {Pair}, Tail(todo))
      <4>1. \A u \in K \cup {Pair} : \/ u \in K /\ u[1] # todo[1].key
                                     \/ u[1] = todo[1].key /\ todo[1].op = "insert"
        BY <1>3, <3>7
      <4>2. /\ \A u \in K : u[1] # todo[1].key => u \in K \cup {Pair}
            /\ todo[1].op = "insert" => \E u \in K \cup {Pair} : u[1] = todo[1].key
        BY <1>3
      <4> QED
        BY <1>2, <3>6, <4>1, <4>2, ProperLater
    <3>9. gs[1] = K \cup {Pair} /\ Len(<< >>) + 1 = 1
      BY <3>17
    <3>10. d \in Nat
      BY <3>3, Zenon DEF Fits
    <3>11. Small(Pair)
      <4>1. KVLen[Pair] \in Nat /\ MaxAllowedKVLen \in Nat
        BY <1>3, NodeAssumption, PageLayoutAssumption DEF KVs
      <4> QED
        BY <1>5, <4>1 DEF Oversized, Small
    <3> HIDE DEF K
    <3>12. Inserting(x, r.node, Pair, gs[1], d)
      BY <1>3, <3>3, <3>7, <3>9, <3>11, Zenon DEF Inserting, K
    <3>13. Waiting(x, << >>, todo[1].op, gs, d) /\ Proper(gs[1], Tail(todo))
      BY <3>8, <3>9, <3>10, NoneWaiting
    <3>14. Pair' = Pair /\ Head(todo)' = todo[1] /\ Tail(todo)' = Tail(todo)
      BY <1>3, <3>4 DEF Pair
    <3>15. Descent(x, gs, d)'
      <4>1. Waiting(x, stack', Head(todo').op, gs, d) /\ Proper(gs[1], Tail(todo'))
        BY <1>3, <3>4, <3>13
      <4>2. gs[Len(stack') + 1] = gs[1]
        BY <3>4, <3>9
      <4>3. Inserting(x, node', Pair', gs[Len(stack') + 1], d) /\ Head(todo').op = "insert" /\ key' = Pair'[1]
        BY <1>3, <3>4, <3>12, <3>14, <4>2
      <4>4. pc' # "delete" /\ pc' # "return"
        BY <3>4
      <4>5. Aims(x, gs[1])'
        <5>1. base \in DOMAIN w
          BY <2>3, <3>1, Zenon DEF Rooted
        <5>2. gs[1] = Served(w[base].pairs, Head(todo))
          BY <1>1, <3>9 DEF Served, Pair, K
        <5>3. Aims(w, gs[1])
          BY <5>1, <5>2, Zenon DEF Aims
        <5> QED
          BY <3>3, <3>4, <5>3, AimsLater
      <4> QED
        BY <4>1, <4>3, <4>4, <4>5, Zenon DEF Descent
    <3>16. Describes(x)'
      BY <1>2, <3>1, <3>3, <3>4, <3>6, <3>15 DEF Describes
    <3> QED
      BY <3>16 DEF Described
  <2> QED
    BY <2>5, <2>6
<1> QED
  BY <1>4, <1>5

-----------------------------------------------------------------------------
(* What a level of an insertion becomes when it enters child c: it waits,  *)
(* as f, for the child to have pairs h.                                    *)
InsertEnters(x, f, d, goal, c, kv, h) ==
  /\ f \in Frames /\ d # 0 /\ f.node.kvs # << >> /\ Frame(x, f, d, goal, h)
  /\ Inserting(x, c, kv, h, d - 1)

(* Splitting a full child, if it is one, and entering the child for kv.    *)
LEMMA InsertGoesDown ==
  ASSUME RoomForThree, NEW m, NEW w, Holds(m, w), NEW n, NEW kv, NEW goal, NEW d,
         Inserting(w, n, kv, goal, d), n.type = "internal",
         NEW s, s = SplitChild(m, n, kv[1]), Safe(s),
         NEW i, i = FindIndex(s.node, kv[1]), NEW c, c = LoadAsNode(s.pm, GetPtr(s.node, i)),
         NEW f, f = [node |-> s.node, slot |-> i, retire |-> FALSE]
  PROVE  \E x : /\ Later(w, x) /\ Holds(s.pm, x)
                /\ s.err = NoError /\ c.ok => \E h : InsertEnters(x, f, d, goal, c, kv, h)
<1>1. /\ Fits(w, n, d) /\ n.kvs # << >> /\ kv \in KVs /\ Small(kv)
      /\ goal = PairsOf(w, n, d) \cup {kv} /\ \A u \in PairsOf(w, n, d) : u[1] # kv[1]
  BY Zenon DEF Inserting
<1>2. PICK x : /\ KeepsPairs(s, w, x, n, d)
               /\ s.err = NoError => s.node = n \/ Len(s.node.kvs) = Len(n.kvs) + 1
  BY <1>1, SplitChildKeepsPairs
<1>3. Later(w, x) /\ Holds(s.pm, x)
  BY <1>2, Zenon DEF KeepsPairs
<1>4. ASSUME s.err = NoError, c.ok
      PROVE  \E h : InsertEnters(x, f, d, goal, c, kv, h)
  <2> DEFINE v == s.node
             q == v.ptr[i + 1]
             h == x[q].pairs \cup {kv}
  <2>1. Fits(x, v, d) /\ PairsOf(x, v, d) = PairsOf(w, n, d)
    BY <1>2, <1>4, Zenon DEF KeepsPairs
  <2>2. n.kvs \in Seq(KVs) /\ Len(n.kvs) \in Nat /\ Len(n.kvs) # 0
    <3>1. n.kvs \in Seq(KVs)
      BY <1>1, Zenon DEF Fits, FitsBut
    <3> QED
      BY <1>1, <3>1
  <2>3. v.kvs # << >>
    <3>1. CASE v = n
      BY <1>1, <3>1
    <3>2. CASE Len(v.kvs) = Len(n.kvs) + 1
      <4>1. Len(v.kvs) # Len(<< >>)
        BY <2>2, <3>2
      <4> QED
        BY <4>1
    <3> QED
      BY <1>2, <1>4, <3>1, <3>2
  <2>4. /\ v \in Nodes /\ v.kvs \in Seq(KVs) /\ v.ptr \in Seq(Nat) /\ Len(v.ptr) = Len(v.kvs) + 1
        /\ InOrder(v.kvs) /\ d \in Nat /\ (v.type = "leaf" <=> d = 0)
    BY <2>1, Zenon DEF Fits, FitsBut
  <2>5. v.type = "internal" /\ d # 0
    <3>1. d # 0
      BY <1>1, Zenon DEF Fits
    <3>2. v.type \in {"leaf", "internal"}
      BY <2>4 DEF Nodes
    <3> QED
      BY <2>4, <3>1, <3>2
  <2>6. kv[1] \in Key
    BY <1>1 DEF KVs
  <2>7. ~HasKey(v.kvs, kv[1])
    <3>1. ASSUME NEW z \in 1 .. Len(v.kvs) PROVE v.kvs[z][1] # kv[1]
      <4>1. v.kvs[z] \in PairsOf(x, v, d)
        BY Zenon DEF PairsOf, PairsBut
      <4> QED
        BY <1>1, <2>1, <4>1
    <3> QED
      BY <3>1, Zenon DEF HasKey
  <2>8. i \in 0 .. Len(v.kvs) /\ Between(v.kvs, i + 1, kv[1])
    BY <2>4, <2>6, <2>7, IndexBetween
  <2>9. f.node = v /\ f.slot = i
    OBVIOUS
  <2>10. f \in Frames
    <3>1. i \in Nat
      BY <2>4, <2>8
    <3> QED
      BY <2>4, <3>1 DEF Frames
  <2>11. Below(x, q, v.kvs, i + 1, d) /\ Frame(x, f, d, PairsOf(x, v, d) \cup {kv}, h)
    BY <2>1, <2>5, <2>8, <2>9, DescendsToInsert
  <2>12. q \in DOMAIN x /\ x[q].depth = d - 1 /\ x[q].node.kvs # << >>
    BY <2>11, Zenon DEF Below
  <2>13. c = x[q].node
    <3>1. GetPtr(v, i) = q
      BY Zenon DEF GetPtr
    <3>2. LoadAsNode(s.pm, q).ok
      BY <1>4, <3>1
    <3> QED
      BY <1>3, <2>12, <3>1, <3>2, LoadHeld
  <2>14. World(x)
    BY <1>3, Zenon DEF Holds
  <2>15. Fits(x, c, d - 1) /\ x[q].pairs = PairsOf(x, c, d - 1)
    BY <2>12, <2>13, <2>14, Zenon DEF World
  <2>16. x[q].pairs \subseteq PairsOf(x, v, d)
    <3>1. d > 0 /\ i + 1 \in 1 .. Len(v.ptr)
      BY <2>4, <2>5, <2>8
    <3> QED
      BY <3>1, Zenon DEF PairsOf, PairsBut
  <2>17. Inserting(x, c, kv, h, d - 1)
    BY <1>1, <2>1, <2>12, <2>13, <2>15, <2>16, Zenon DEF Inserting
  <2>18. Frame(x, f, d, goal, h)
    BY <1>1, <2>1, <2>11
  <2> QED
    BY <2>3, <2>5, <2>9, <2>10, <2>17, <2>18, Zenon DEF InsertEnters
<1> QED
  BY <1>3, <1>4

-----------------------------------------------------------------------------
(* What is known within the recursion.                                     *)
LEMMA DescentFacts ==
  ASSUME NEW w, Describes(w), pc \in {"insert", "delete", "return"}
  PROVE  /\ Holds(pm, w) /\ Rooted(w, root) /\ todo \in Seq(Request) /\ todo # << >>
         /\ \E gs, d : Descent(w, gs, d)
  BY DEF Describes

(* What has to be shown of a step within it.                               *)
LEMMA DescentNext ==
  ASSUME NEW w, Describes(w), pc \in {"insert", "delete", "return"}, NEW x, Later(w, x),
         Holds(pm', x), root' = root, todo' = todo, pc' \in {"insert", "delete", "return"},
         NEW gs, NEW d, Descent(x, gs, d)'
  PROVE  Described'
<1>1. Rooted(w, root) /\ todo \in Seq(Request) /\ todo # << >>
  BY DescentFacts
<1>2. Rooted(x, root)
  BY <1>1, RootedLater
<1>3. Describes(x)'
  BY <1>1, <1>2 DEF Describes
<1> QED
  BY <1>3 DEF Described

(* insert on an internal node.                                             *)
LEMMA InsertIntoInternalKeeps ==
  ASSUME RoomForThree, NEW w, Describes(w), InsertIntoInternal
  PROVE  Described'
<1>1. pc = "insert" /\ node.type = "internal"
  BY Zenon DEF InsertIntoInternal
<1>2. PICK s : s = SplitChild(pm, node, key)
  OBVIOUS
<1>3. PICK i, c : i = FindIndex(s.node, key) /\ c = LoadAsNode(s.pm, GetPtr(s.node, i))
  OBVIOUS
<1>4. PICK r : r = IF s.err # NoError THEN s
                   ELSE Repaired(s.pm, c, Append(s.retired, GetPtr(s.node, i)), NoError)
  OBVIOUS
<1>5. PICK f : f = [node |-> s.node, slot |-> i, retire |-> FALSE]
  OBVIOUS
<1> DEFINE Onwards == /\ node' = c
                    /\ stack' = Append(stack, f)
                    /\ UNCHANGED <<pc, key, ret>> /\ Same
<1>6. Step(r, Swallowed, Onwards)
  BY <1>2, <1>3, <1>4, <1>5, Zenon DEF InsertIntoInternal
<1>7. /\ Holds(pm, w) /\ Rooted(w, root) /\ todo \in Seq(Request) /\ todo # << >>
      /\ \E gs, d : Descent(w, gs, d)
  BY <1>1, DescentFacts
<1>8. PICK gs, d : Descent(w, gs, d)
  BY <1>7
<1>9. PICK kv, goal : kv = Pair /\ goal = gs[Len(stack) + 1]
  OBVIOUS
<1>10. /\ Waiting(w, stack, Head(todo).op, gs, d) /\ Proper(gs[1], Tail(todo))
       /\ Head(todo).op = "insert" /\ key = kv[1] /\ Inserting(w, node, kv, goal, d)
  BY <1>1, <1>8, <1>9, Zenon DEF Descent
<1>11. (Safe(r) => Safe(s)) /\ r.pm = s.pm /\ (Safe(r) /\ r.err = NoError => s.err = NoError /\ c.ok)
  <2>1. CASE s.err # NoError
    BY <1>4, <2>1
  <2>2. CASE s.err = NoError
    <3>1. r.pm = s.pm /\ r.err = IF c.ok THEN NoError ELSE Panicked
      BY <1>4, <2>2 DEF Repaired
    <3>2. Safe(s)
      BY <2>2 DEF Safe, NoError, Panicked, Clobber
    <3>3. Panicked # NoError
      BY DEF NoError, Panicked
    <3> QED
      BY <2>2, <3>1, <3>2, <3>3
  <2> QED
    BY <2>1, <2>2
<1>12. ASSUME Safe(s)
       PROVE  \E x : /\ Later(w, x) /\ Holds(s.pm, x)
                     /\ s.err = NoError /\ c.ok => \E h : InsertEnters(x, f, d, goal, c, kv, h)
  <2>1. s = SplitChild(pm, node, kv[1]) /\ i = FindIndex(s.node, kv[1])
    BY <1>2, <1>3, <1>10
  <2> QED
    BY <1>1, <1>3, <1>5, <1>7, <1>10, <1>12, <2>1, InsertGoesDown
<1>13. Safe(r) => \E x : Later(w, x) /\ Holds(r.pm, x)
  BY <1>11, <1>12
<1>14. Described' \/ (Succeeds(r) /\ Onwards)
  BY <1>6, <1>7, <1>13, StepKeeps
<1>15. ASSUME Succeeds(r), Onwards
       PROVE  Described'
  <2>1. Safe(s) /\ s.err = NoError /\ c.ok /\ pm' = s.pm /\ root' = root
    BY <1>11, <1>15 DEF Succeeds
  <2>2. PICK x : Later(w, x) /\ Holds(s.pm, x) /\ \E h : InsertEnters(x, f, d, goal, c, kv, h)
    BY <1>12, <2>1
  <2>3. PICK h : InsertEnters(x, f, d, goal, c, kv, h)
    BY <2>2
  <2>4. /\ f \in Frames /\ d # 0 /\ f.node.kvs # << >> /\ Frame(x, f, d, goal, h)
        /\ Inserting(x, c, kv, h, d - 1)
    BY <2>3, Zenon DEF InsertEnters
  <2>5. Waiting(x, stack, Head(todo).op, gs, d)
    BY <1>10, <2>2, WaitingLater
  <2>6. PICK g : /\ Waiting(x, Append(stack, f), Head(todo).op, g, d - 1)
                 /\ g[1] = gs[1] /\ g[Len(Append(stack, f)) + 1] = h
    BY <1>9, <2>4, <2>5, WaitingMore
  <2>7. /\ node' = c /\ stack' = Append(stack, f) /\ pc' = "insert" /\ key' = key /\ todo' = todo
        /\ Pair' = Pair /\ base' = base
    BY <1>1, <1>15 DEF Same, Pair
  <2>8. Descent(x, g, d - 1)'
    <3>1. Waiting(x, stack', Head(todo').op, g, d - 1) /\ Proper(g[1], Tail(todo'))
      BY <1>10, <2>6, <2>7
    <3>2. /\ Head(todo').op = "insert" /\ key' = Pair'[1]
          /\ Inserting(x, node', Pair', g[Len(stack') + 1], d - 1)
      BY <1>9, <1>10, <2>4, <2>6, <2>7
    <3>3. pc' # "delete" /\ pc' # "return"
      BY <2>7
    <3>4. Aims(x, g[1])'
      <4>1. Aims(w, g[1])
        BY <1>8, <2>6, Zenon DEF Descent
      <4> QED
        BY <2>2, <2>7, <4>1, AimsLater
    <3> QED
      BY <3>1, <3>2, <3>3, <3>4, Zenon DEF Descent
  <2> QED
    BY <1>1, <2>1, <2>2, <2>7, <2>8, DescentNext
<1> QED
  BY <1>14, <1>15

-----------------------------------------------------------------------------
(* A node that fits, persisted, is what the level above waits for.         *)
LEMMA PersistedReturns ==
  ASSUME NEW w, Holds(pm, w), NEW v, NEW d, v.ok => Fits(w, v, d), NEW goal, goal = PairsOf(w, v, d),
         NEW op, NEW atRoot, v.ok => (~atRoot \/ op = "insert" => v.kvs # << >>),
         NEW ps, NEW r, r = Retiring(Persisted(v), ps), Safe(r)
  PROVE  \E x : /\ Later(w, x) /\ Holds(r.pm, x)
                /\ r.err = NoError => Returning(x, r.page, op, goal, d, atRoot)
<1> DEFINE c == CopyToNewPage(pm, v)
<1>1. r.pm = Persisted(v).pm /\ r.err = Persisted(v).err /\ r.page = Persisted(v).page
  BY DEF Retiring
<1>2. v.ok
  <2>1. CASE ~v.ok
    <3>1. Persisted(v).err = Panicked
      BY <2>1 DEF Persisted, Failed
    <3> QED
      BY <1>1, <3>1 DEF Safe
  <2> QED
    BY <2>1
<1>3. Persisted(v) = c
  BY <1>2 DEF Persisted
<1> HIDE DEF c
<1>4. r.pm = c.pm /\ r.err = c.err /\ r.page = c.page
  BY <1>1, <1>3
<1>5. Safe(CopyToNewPage(pm, v))
  BY <1>4 DEF Safe, c
<1>6. PICK x : Later(w, x) /\ Holds(c.pm, x) /\ (c.err = NoError => On(x, c.page, w, v, d))
  <2>1. \E x : /\ Later(w, x) /\ Holds(CopyToNewPage(pm, v).pm, x)
               /\ CopyToNewPage(pm, v).err = NoError => On(x, CopyToNewPage(pm, v).page, w, v, d)
    BY <1>2, <1>5, PersistNode
  <2> QED
    BY <2>1, Zenon DEF c
<1>7. ASSUME r.err = NoError
      PROVE  Returning(x, r.page, op, goal, d, atRoot)
  <2>1. r.page \in DOMAIN x /\ x[r.page] = Entry(w, v, d)
    BY <1>4, <1>6, <1>7, Zenon DEF On
  <2>2. x[r.page].node = v /\ x[r.page].pairs = goal /\ x[r.page].depth = d
    BY <2>1 DEF Entry
  <2> QED
    BY <1>2, <2>1, <2>2, Zenon DEF Returning
<1> QED
  BY <1>4, <1>6, <1>7

(* A step that persists a node with the pairs the level above waits for.   *)
LEMMA PersistKeeps ==
  ASSUME NEW w, Describes(w), pc \in {"insert", "delete", "return"},
         NEW v, NEW ps, NEW r, r = Retiring(Persisted(v), ps),
         NEW st, NEW dropped, Step(r, dropped, Returned(r) /\ stack' = st),
         NEW gs, NEW d, NEW goal, goal = gs[Len(st) + 1],
         Waiting(w, st, Head(todo).op, gs, d), Proper(gs[1], Tail(todo)), Aims(w, gs[1]),
         v.ok => /\ Fits(w, v, d) /\ PairsOf(w, v, d) = goal
                 /\ st # << >> \/ Head(todo).op = "insert" => v.kvs # << >>
  PROVE  Described'
<1>1. Holds(pm, w) /\ todo \in Seq(Request) /\ todo # << >>
  BY DescentFacts
<1>2. PICK op, atRoot : op = Head(todo).op /\ atRoot = (st = << >>)
  OBVIOUS
<1>3. ASSUME Safe(r)
      PROVE  \E x : /\ Later(w, x) /\ Holds(r.pm, x)
                    /\ r.err = NoError => Returning(x, r.page, op, goal, d, atRoot)
  <2>1. v.ok
    <3>1. CASE ~v.ok
      <4>1. r.err = Panicked
        BY <3>1 DEF Retiring, Persisted, Failed
      <4> QED
        BY <1>3, <4>1 DEF Safe
    <3> QED
      BY <3>1
  <2>2. goal = PairsOf(w, v, d) /\ Fits(w, v, d) /\ (~atRoot \/ op = "insert" => v.kvs # << >>)
    BY <1>2, <2>1
  <2> QED
    BY <1>1, <1>3, <2>1, <2>2, PersistedReturns
<1>4. Safe(r) => \E x : Later(w, x) /\ Holds(r.pm, x)
  BY <1>3
<1>5. Described' \/ (Succeeds(r) /\ Returned(r) /\ stack' = st)
  BY <1>1, <1>4, StepKeeps
<1>6. ASSUME Succeeds(r), Returned(r), stack' = st
      PROVE  Described'
  <2>1. Safe(r) /\ r.err = NoError /\ pm' = r.pm /\ root' = root
    BY <1>6 DEF Succeeds
  <2>2. pc' = "return" /\ ret' = r.page /\ todo' = todo /\ base' = base
    BY <1>6 DEF Returned, Same
  <2>3. PICK x : Later(w, x) /\ Holds(r.pm, x) /\ Returning(x, r.page, op, goal, d, atRoot)
    BY <1>3, <2>1
  <2>4. Waiting(x, st, Head(todo).op, gs, d)
    BY <2>3, WaitingLater
  <2>5. Descent(x, gs, d)'
    <3>1. Waiting(x, stack', Head(todo').op, gs, d) /\ Proper(gs[1], Tail(todo'))
      BY <1>6, <2>2, <2>4
    <3>2. Returning(x, ret', Head(todo').op, gs[Len(stack') + 1], d, stack' = << >>)
      BY <1>2, <1>6, <2>2, <2>3
    <3>3. pc' # "delete" /\ pc' # "insert"
      BY <2>2
    <3>4. Aims(x, gs[1])'
      BY <2>2, <2>3, AimsLater
    <3> QED
      BY <3>1, <3>2, <3>3, <3>4, Zenon DEF Descent
  <2> QED
    BY <2>1, <2>2, <2>3, <2>5, DescentNext
<1> QED
  BY <1>5, <1>6

-----------------------------------------------------------------------------
(* A leaf that fits is at the bottom.                                      *)
LEMMA LeafIsAtBottom ==
  ASSUME NEW w, NEW n, NEW d, Fits(w, n, d), n.type = "leaf"
  PROVE  d = 0 /\ n.kvs \in Seq(KVs) /\ InOrder(n.kvs)
  BY Zenon DEF Fits, FitsBut

(* insert on a leaf.                                                       *)
LEMMA InsertIntoLeafKeeps ==
  ASSUME NEW w, Describes(w), InsertIntoLeaf
  PROVE  Described'
<1>1. pc = "insert" /\ node.type = "leaf"
  BY Zenon DEF InsertIntoLeaf
<1>2. PICK kv, n, st : kv = Pair /\ n = node /\ st = stack
  OBVIOUS
<1>3. PICK v : v = InsertKV(n, kv)
  OBVIOUS
<1>4. PICK r : r = Retiring(Persisted(v), << >>)
  OBVIOUS
<1>5. Step(r, Swallowed, Returned(r) /\ UNCHANGED stack)
  BY <1>2, <1>3, <1>4, Zenon DEF InsertIntoLeaf
<1>6. Step(r, Swallowed, Returned(r) /\ stack' = st)
  BY <1>2, <1>5 DEF Step
<1>7. PICK gs, d : Descent(w, gs, d)
  BY <1>1, DescentFacts
<1>8. PICK goal : goal = gs[Len(st) + 1]
  OBVIOUS
<1>9. /\ Waiting(w, st, Head(todo).op, gs, d) /\ Proper(gs[1], Tail(todo)) /\ Aims(w, gs[1])
      /\ Inserting(w, n, kv, goal, d)
  BY <1>1, <1>2, <1>7, <1>8, Zenon DEF Descent
<1>10. /\ Fits(w, n, d) /\ kv \in KVs /\ Small(kv) /\ goal = PairsOf(w, n, d) \cup {kv}
       /\ \A u \in PairsOf(w, n, d) : u[1] # kv[1]
  BY <1>9, Zenon DEF Inserting
<1>11. d = 0 /\ n.kvs \in Seq(KVs)
  BY <1>1, <1>2, <1>10, LeafIsAtBottom
<1>12. ~HasKey(n.kvs, kv[1])
  <2>1. ASSUME NEW z \in 1 .. Len(n.kvs) PROVE n.kvs[z][1] # kv[1]
    <3>1. n.kvs[z] \in PairsOf(w, n, d)
      BY Zenon DEF PairsOf, PairsBut
    <3> QED
      BY <1>10, <3>1
  <2> QED
    BY <2>1, Zenon DEF HasKey
<1>13. ASSUME v.ok
       PROVE  Fits(w, v, d) /\ PairsOf(w, v, d) = goal /\ v.kvs # << >>
  <2>1. LeafHas(w, v, goal) /\ Len(v.kvs) = Len(n.kvs) + 1
    BY <1>3, <1>10, <1>11, <1>12, <1>13, LeafInsert
  <2>2. Fits(w, v, d) /\ PairsOf(w, v, d) = goal
    BY <1>11, <2>1 DEF LeafHas
  <2>3. Len(n.kvs) \in Nat
    BY <1>11
  <2>4. v.kvs # << >>
    BY <2>1, <2>3
  <2> QED
    BY <2>2, <2>4
<1> QED
  BY <1>1, <1>4, <1>6, <1>8, <1>9, <1>13, PersistKeeps

(* A level that gets the page of its child back.                           *)
LEMMA PropagateUpKeeps ==
  ASSUME NEW w, Describes(w), PropagateUp
  PROVE  Described'
<1>1. pc = "return" /\ stack # << >>
  BY Zenon DEF PropagateUp
<1>2. PICK f, q, st : f = Last(stack) /\ q = ret /\ st = Front(stack)
  OBVIOUS
<1>3. PICK v : v = SetPtr(f.node, f.slot, q)
  OBVIOUS
<1>4. PICK r : r = Retiring(Persisted(v), IF f.retire THEN <<GetPtr(f.node, f.slot)>> ELSE << >>)
  OBVIOUS
<1>5. Step(r, Swallowed, Returned(r) /\ stack' = Front(stack))
  BY <1>2, <1>3, <1>4, Zenon DEF PropagateUp
<1>6. Step(r, Swallowed, Returned(r) /\ stack' = st)
  BY <1>2, <1>5 DEF Step
<1>7. PICK gs, d : Descent(w, gs, d)
  BY <1>1, DescentFacts
<1>8. PICK h : h = gs[Len(stack) + 1]
  OBVIOUS
<1>9. /\ Waiting(w, stack, Head(todo).op, gs, d) /\ Proper(gs[1], Tail(todo)) /\ Aims(w, gs[1])
      /\ Returning(w, q, Head(todo).op, h, d, stack = << >>)
  BY <1>1, <1>2, <1>7, <1>8, Zenon DEF Descent
<1>10. /\ Waiting(w, st, Head(todo).op, gs, d + 1) /\ Len(stack) = Len(st) + 1
       /\ f \in Frames /\ Frame(w, f, d + 1, gs[Len(stack)], h)
       /\ st # << >> \/ Head(todo).op = "insert" => f.node.kvs # << >>
  BY <1>1, <1>2, <1>8, <1>9, WaitingLess
<1>11. PICK goal : goal = gs[Len(st) + 1]
  OBVIOUS
<1>12. q \in DOMAIN w /\ w[q].depth = d /\ w[q].pairs = h /\ w[q].node.kvs # << >>
  BY <1>1, <1>9, Zenon DEF Returning
<1>13. q \in Nat
  <2>1. Holds(pm, w)
    BY <1>1, DescentFacts
  <2> QED
    BY <1>12, <2>1, PagesAreNumbers
<1>14. d \in Nat
  BY <1>9, Zenon DEF Waiting
<1>15. w[q].depth = (d + 1) - 1 /\ Frame(w, f, d + 1, goal, h)
  <2>1. (d + 1) - 1 = d
    BY <1>14
  <2> QED
    BY <1>10, <1>11, <1>12, <2>1
<1>16. Fits(w, v, d + 1) /\ PairsOf(w, v, d + 1) = goal /\ v.kvs = f.node.kvs
  BY <1>3, <1>12, <1>13, <1>15, FrameFilled
<1>17. st # << >> \/ Head(todo).op = "insert" => v.kvs # << >>
  BY <1>10, <1>16
<1> QED
  BY <1>1, <1>4, <1>6, <1>9, <1>10, <1>11, <1>16, <1>17, PersistKeeps

-----------------------------------------------------------------------------
(* A node without keys holds the pairs of its only child.                  *)
LEMMA OnlyChild ==
  ASSUME NEW w, NEW n, NEW d, Fits(w, n, d), n.type = "internal", n.kvs = << >>
  PROVE  Rooted(w, n.ptr[1]) /\ w[n.ptr[1]].pairs = PairsOf(w, n, d)
<1>1. Len(n.kvs) = 0 /\ 0 \in 0 .. Len(n.kvs) /\ 0 + 1 = 1
  OBVIOUS
<1>2. n.ptr \in Seq(Nat) /\ Len(n.ptr) = 1
  <2>1. n.ptr \in Seq(Nat) /\ Len(n.ptr) = Len(n.kvs) + 1
    BY Zenon DEF Fits, FitsBut
  <2> QED
    BY <1>1, <2>1
<1>3. d > 0
  <2>1. d \in Nat /\ (n.type = "leaf" <=> d = 0)
    BY Zenon DEF Fits
  <2> QED
    BY <2>1
<1>4. \A u \in {} : Between(n.kvs, 0 + 1, u[1])
  OBVIOUS
<1>5. Descends(w, n, d, 0, {})
  BY <1>1, <1>4, GoesDown
<1>6. /\ Below(w, n.ptr[1], n.kvs, 1, d)
      /\ PairsOf(w, n, d) = PairsBut(w, n.kvs, n.ptr, {1}, d) \cup w[n.ptr[1]].pairs
  BY <1>1, <1>5 DEF Descends
<1>7. PairsBut(w, n.kvs, n.ptr, {1}, d) = {}
  <2>1. 1 .. Len(n.kvs) = {} /\ (1 .. Len(n.ptr)) \ {1} = {}
    BY <1>1, <1>2
  <2> QED
    BY <1>3, <2>1, Zenon DEF PairsBut
<1> QED
  BY <1>6, <1>7, Zenon DEF Below, Rooted

(* The recursion has returned a new root.                                  *)
LEMMA FinishKeeps ==
  ASSUME NEW w, Describes(w), Finish
  PROVE  Described'
<1>1. pc = "return" /\ stack = << >>
  BY Zenon DEF Finish
<1>2. PICK p, n, del : p = ret /\ n = LoadAsNode(pm, p) /\ del = (Head(todo).op = "delete")
  OBVIOUS
<1>3. PICK old : old = IF del /\ ~direct THEN <<root>> ELSE << >>
  OBVIOUS
<1>4. PICK r : r = Repaired(pm, IF del THEN n ELSE NewNode, old, NoError)
  OBVIOUS
<1> DEFINE Onwards == /\ ret' = IF del /\ Collapses(n) THEN GetPtr(n, 0) ELSE p
                    /\ pc' = "next"
                    /\ Unwind /\ Same
<1>5. Step(r, FALSE, Onwards)
  BY <1>2, <1>3, <1>4, Zenon DEF Finish
<1>6. /\ Holds(pm, w) /\ Rooted(w, root) /\ todo \in Seq(Request) /\ todo # << >>
      /\ \E gs, d : Descent(w, gs, d)
  BY <1>1, DescentFacts
<1>7. PICK gs, d : Descent(w, gs, d)
  BY <1>6
<1>8. Proper(gs[1], Tail(todo)) /\ Returning(w, p, Head(todo).op, gs[1], d, TRUE)
  <2>1. Len(stack) + 1 = 1 /\ (stack = << >>) = TRUE
    BY <1>1
  <2>2. Proper(gs[1], Tail(todo)) /\ Returning(w, p, Head(todo).op, gs[Len(stack) + 1], d, stack = << >>)
    BY <1>1, <1>2, <1>7, Zenon DEF Descent
  <2> QED
    BY <2>1, <2>2
<1>9. /\ p \in DOMAIN w /\ w[p].depth = d /\ w[p].pairs = gs[1]
      /\ Head(todo).op = "insert" => w[p].node.kvs # << >>
  BY <1>8, Zenon DEF Returning
<1>10. Head(todo).op \in {"insert", "delete"}
  <2>1. Head(todo) = todo[1] /\ todo[1] \in Request
    BY <1>6, RequestServed
  <2> QED
    BY <2>1 DEF Request
<1>11. r.pm = pm /\ Later(w, w)
  BY <1>4 DEF Repaired, Later
<1>12. Described' \/ (Succeeds(r) /\ Onwards)
  <2>1. Safe(r) => \E x : Later(w, x) /\ Holds(r.pm, x)
    BY <1>6, <1>11
  <2> QED
    BY <1>5, <2>1, StepKeeps
<1>13. ASSUME Succeeds(r), Onwards
       PROVE  Described'
  <2>1. pm' = pm /\ root' = root /\ r.err = NoError
    BY <1>11, <1>13 DEF Succeeds
  <2>2. pc' = "next" /\ stack' = << >> /\ todo' = todo /\ base' = base
    BY <1>13 DEF Unwind, Same
  <2>3. GoesOn(w, ret', Tail(todo)) /\ w[ret'].pairs = gs[1]
    <3>1. CASE ~del
      <4>1. ret' = p /\ Head(todo).op = "insert"
        BY <1>2, <1>10, <1>13, <3>1
      <4> QED
        BY <1>8, <1>9, <4>1 DEF GoesOn, Rooted
    <3>2. CASE del
      <4>1. n.ok
        <5>1. r.err = IF n.ok THEN NoError ELSE Panicked
          BY <1>4, <3>2 DEF Repaired
        <5> QED
          BY <2>1, <5>1 DEF NoError, Panicked
      <4>2. n = w[p].node
        BY <1>2, <1>6, <1>9, <4>1, LoadHeld
      <4>3. World(w)
        BY <1>6, Zenon DEF Holds
      <4>4. Fits(w, n, d) /\ PairsOf(w, n, d) = gs[1]
        BY <1>9, <4>2, <4>3, Zenon DEF World
      <4>5. n.kvs \in Seq(KVs)
        BY <4>4, Zenon DEF Fits, FitsBut
      <4>6. CASE Collapses(n)
        <5>1. n.type = "internal" /\ n.kvs = << >>
          BY <4>5, <4>6 DEF Collapses, GetNKeys
        <5>2. ret' = n.ptr[1]
          <6>1. ret' = GetPtr(n, 0) /\ 0 + 1 = 1
            BY <1>13, <3>2, <4>6
          <6> QED
            BY <6>1 DEF GetPtr
        <5>3. Rooted(w, ret') /\ w[ret'].pairs = gs[1]
          BY <4>4, <5>1, <5>2, OnlyChild
        <5> QED
          BY <1>8, <5>3, Zenon DEF GoesOn
      <4>7. CASE ~Collapses(n)
        <5>1. ret' = p
          BY <1>13, <4>7
        <5>2. n.type = "internal" => n.kvs # << >>
          BY <4>7 DEF Collapses, GetNKeys
        <5> QED
          BY <1>8, <1>9, <4>2, <5>1, <5>2 DEF GoesOn, Rooted
      <4> QED
        BY <4>6, <4>7
    <3> QED
      BY <3>1, <3>2
  <2>4. Aims(w, w[ret].pairs)'
    <3>1. Aims(w, gs[1])
      BY <1>7, Zenon DEF Descent
    <3>2. Aims(w, gs[1])'
      BY <1>11, <2>2, <3>1, AimsLater
    <3> QED
      BY <2>3, <3>2 DEF Aims
  <2>5. Describes(w)'
    BY <1>6, <2>1, <2>2, <2>3, <2>4 DEF Describes
  <2> QED
    BY <2>5 DEF Described
<1> QED
  BY <1>12, <1>13

(* What holds of a state holds as long as nothing changes.                 *)
LEMMA DescribesStutter ==
  ASSUME NEW w, Describes(w), UNCHANGED vars
  PROVE  Describes(w)'
<1>1. /\ pm' = pm /\ root' = root /\ pc' = pc /\ todo' = todo /\ base' = base /\ node' = node
      /\ key' = key /\ stack' = stack /\ ret' = ret
  BY DEF vars, tree, level
<1>2. Pair' = Pair
  BY <1>1 DEF Pair
<1>3. ASSUME NEW gs, NEW d, Descent(w, gs, d) PROVE Descent(w, gs, d)'
  BY <1>1, <1>2, <1>3 DEF Descent, Aims
<1> QED
  BY <1>1, <1>3 DEF Describes, Aims

(* The steps that leave the tree as it is.                                 *)
LEMMA IdleStepKeeps ==
  ASSUME NEW w, Describes(w), NextRequest \/ Fsync \/ Barrier2 \/ Stopped
  PROVE  Described'
<1>1. Holds(pm, w) /\ Rooted(w, root)
  BY Zenon DEF Describes
<1>2. CASE NextRequest
  <2>1. /\ pc = "next" /\ base' = ret /\ todo' = Tail(todo) /\ pm' = pm /\ root' = root /\ stack' = stack
        /\ pc' = IF Tail(todo) = << >> THEN "fsync" ELSE "start"
    BY <1>2 DEF NextRequest, tree, level
  <2>2. GoesOn(w, ret, Tail(todo)) /\ todo \in Seq(Request) /\ todo # << >> /\ stack = << >>
    BY <2>1 DEF Describes
  <2>3. Tail(todo) \in Seq(Request)
    BY <2>2
  <2>4. ret = 0 \/ Rooted(w, ret)
    BY <2>2, Zenon DEF GoesOn
  <2>5. Describes(w)'
    BY <1>1, <2>1, <2>2, <2>3, <2>4 DEF Describes
  <2> QED
    BY <2>5 DEF Described
<1>3. CASE Fsync
  <2>1. /\ pc = "fsync" /\ pm' = pm /\ root' = root /\ stack' = stack
        /\ pc' = "idle" \/ (pc' \in {"commit", "commitUnsynced"} /\ base' = base)
    BY <1>3 DEF Fsync, tree, Same, Reply
  <2>2. stack = << >> /\ (base = 0 \/ Rooted(w, base))
    BY <2>1 DEF Describes
  <2>3. Describes(w)'
    BY <1>1, <2>1, <2>2 DEF Describes
  <2> QED
    BY <2>3 DEF Described
<1>4. CASE Barrier2
  <2>1. /\ pc \in {"barrier", "barrierUnsynced"} /\ pm' = pm /\ root' = root /\ stack' = stack
        /\ pc' = "idle"
    BY <1>4 DEF Barrier2, tree, Reply
  <2>2. stack = << >>
    BY <2>1 DEF Describes
  <2>3. Describes(w)'
    BY <1>1, <2>1, <2>2 DEF Describes
  <2> QED
    BY <2>3 DEF Described
<1>5. CASE Stopped
  <2>1. UNCHANGED vars
    BY <1>5 DEF Stopped
  <2>2. Describes(w)'
    BY <2>1, DescribesStutter
  <2> QED
    BY <2>2 DEF Described
<1> QED
  BY <1>2, <1>3, <1>4, <1>5

-----------------------------------------------------------------------------
(* The part of a world on pages R.                                         *)
Part(w, R) == [p \in R |-> w[p]]

(* Pages R lead to no other page.                                          *)
Whole(w, R) ==
  R \subseteq DOMAIN w
  /\ \A p \in R : w[p].depth # 0 => \A i \in 1 .. Len(w[p].node.ptr) : w[p].node.ptr[i] \in R

(* What is known of pages that lead to no other page is known without it.  *)
LEMMA PartIsWorld ==
  ASSUME NEW w, World(w), NEW R, Whole(w, R)
  PROVE  World(Part(w, R)) /\ DOMAIN Part(w, R) = R /\ \A p \in R : Part(w, R)[p] = w[p]
<1> DEFINE x == Part(w, R)
<1>1. DOMAIN x = R /\ (\A p \in R : x[p] = w[p]) /\ R \subseteq DOMAIN w
  BY Zenon DEF Part, Whole
<1> HIDE DEF x
<1>2. ASSUME NEW p \in R
      PROVE  /\ Fits(x, x[p].node, x[p].depth)
             /\ x[p].pairs = PairsOf(x, x[p].node, x[p].depth)
             /\ x[p].pairs \subseteq KVs /\ Functional(x[p].pairs)
  <2> DEFINE n   == w[p].node
             d   == w[p].depth
             kvs == n.kvs
             ptr == n.ptr
  <2>1. /\ Fits(w, n, d) /\ w[p].pairs = PairsOf(w, n, d)
        /\ w[p].pairs \subseteq KVs /\ Functional(w[p].pairs)
    BY <1>1, Zenon DEF World
  <2>2. FitsBut(w, kvs, ptr, {}, d) /\ d \in Nat
    BY <2>1, Zenon DEF Fits
  <2>3. d > 0 => d # 0
    BY <2>2
  <2>4. d > 0 => \A i \in 1 .. Len(ptr) : ptr[i] \in R
    BY <2>3, Zenon DEF Whole
  <2>5. FitsBut(x, kvs, ptr, {}, d) /\ PairsBut(x, kvs, ptr, {}, d) = PairsBut(w, kvs, ptr, {}, d)
    <3> HIDE DEF n, d
    <3>1. CASE d > 0
      <4>1. \A i \in (1 .. Len(ptr)) \ {} : ptr[i] \in DOMAIN x /\ x[ptr[i]] = w[ptr[i]]
        BY <1>1, <2>4, <3>1
      <4>2. \A i \in (1 .. Len(ptr)) \ {} : ChildFits(x, kvs, i, ptr[i], d)
        <5>1. \A i \in (1 .. Len(ptr)) \ {} : ChildFits(w, kvs, i, ptr[i], d)
          BY <2>2, <3>1, Zenon DEF FitsBut
        <5> QED
          BY <4>1, <5>1, Zenon DEF ChildFits
      <4>3. FitsBut(x, kvs, ptr, {}, d)
        BY <2>2, <4>2, Zenon DEF FitsBut
      <4>4. {x[ptr[i]].pairs : i \in (1 .. Len(ptr)) \ {}} = {w[ptr[i]].pairs : i \in (1 .. Len(ptr)) \ {}}
        BY <4>1, Zenon
      <4> QED
        BY <4>3, <4>4, Zenon DEF PairsBut
    <3>2. CASE ~(d > 0)
      BY <2>2, <3>2, Zenon DEF FitsBut, PairsBut
    <3> QED
      BY <3>1, <3>2
  <2>6. Fits(x, n, d) /\ PairsOf(x, n, d) = PairsOf(w, n, d)
    BY <2>1, <2>5, Zenon DEF Fits, PairsOf
  <2>7. x[p] = w[p]
    BY <1>1
  <2> QED
    BY <2>1, <2>6, <2>7, Zenon
<1>3. World(x)
  BY <1>1, <1>2, Zenon DEF World
<1> QED
  BY <1>1, <1>3 DEF x

(* A tree of the world leads to no other page.                             *)
LEMMA TreeIsWhole ==
  ASSUME NEW m, NEW w, Holds(m, w), NEW r, r \in DOMAIN w
  PROVE  Whole(w, Reach(m, r)) /\ r \in Reach(m, r)
<1> DEFINE R == Reach(m, r)
<1>1. DOMAIN w \subseteq PageNums /\ World(w) /\ \A p \in DOMAIN w : m.page[p] = w[p].node
  BY WorldOnPages
<1>2. R \subseteq PageNums /\ r \in R /\ Closed(Children(m), R)
  BY <1>1, ClosureProperties DEF Reach
<1>3. R \subseteq DOMAIN w
  BY StoredBelow
<1> HIDE DEF R
<1>4. ASSUME NEW p \in R, w[p].depth # 0, NEW i \in 1 .. Len(w[p].node.ptr)
      PROVE  w[p].node.ptr[i] \in R
  <2> DEFINE n == w[p].node
  <2>1. p \in DOMAIN w /\ m.page[p] = n /\ p \in PageNums
    BY <1>1, <1>3
  <2>2. n.type # "leaf" /\ n.ptr \in Seq(Nat)
    BY <1>1, <1>4, <2>1, Zenon DEF World, Fits, FitsBut
  <2>3. Children(m)[p] = ToSet(n.ptr)
    BY <2>1, <2>2, Zenon DEF Children
  <2>4. n.ptr[i] \in Children(m)[p]
    BY <1>4, <2>2, <2>3, SetOfList
  <2>5. Children(m)[p] \subseteq DOMAIN w
    BY <2>1, OneLevel
  <2> QED
    BY <1>1, <1>2, <2>4, <2>5, ClosedMeans
<1> QED
  BY <1>2, <1>3, <1>4, Zenon DEF Whole, R

(* HandleMasterPage writes no other page.                                  *)
LEMMA MasterPageOnly ==
  ASSUME NEW m, Cow!WellFormed(m), NEW fl, NEW r, NEW n, n = HandleMasterPage(m, fl, r)
  PROVE  n.page = m.page /\ (Mapped(m) => Mapped(n))
<1>1. m \in Cow!PageManagers
  BY DEF Cow!WellFormed
<1>2. PICK f : f = IF Len(m.free) + Len(fl) < FreeSlots THEN m.free \o fl ELSE m.free
  OBVIOUS
<1>3. n = [m EXCEPT !.root = r, !.free = f]
  BY <1>2, Zenon DEF HandleMasterPage
<1>4. n.page = m.page /\ n.mapped = m.mapped /\ n.flen = m.flen
  BY <1>1, <1>3 DEF Cow!PageManagers
<1> QED
  BY <1>4 DEF Mapped

(* A commit.                                                               *)
LEMMA CommitDescribed ==
  ASSUME NEW w, Describes(w), Commit, Cow!IInv'
  PROVE  Described'
<1>1. pc \in {"commit", "commitUnsynced"}
  BY Zenon DEF Commit
<1>2. Holds(pm, w) /\ (base = 0 \/ Rooted(w, base)) /\ stack = << >>
  BY <1>1 DEF Describes
<1>3. CASE Break
  <2>1. Describes(w)'
    BY <1>3, BreakKeeps
  <2> QED
    BY <2>1 DEF Described
<1>4. CASE ~Break
  <2>1. /\ pm' = HandleMasterPage(pm, RetiredAtCommit, base) /\ root' = base /\ stack' = stack
        /\ pc' \in {"barrier", "barrierUnsynced"}
    BY <1>4 DEF Commit, level
  <2>2. PICK n, r : n = pm' /\ r = root'
    OBVIOUS
  <2>3. Cow!WellFormed(pm) /\ Mapped(pm)
    BY <1>2, Zenon DEF Holds
  <2>4. n.page = pm.page /\ Mapped(n)
    BY <2>1, <2>2, <2>3, MasterPageOnly
  <2>5. Cow!WellFormed(n) /\ r \in Reach(n, r) /\ \A p \in Reach(n, r) : PageOwned(n, p) /\ p # 0
    <3>1. /\ Cow!WellFormed(pm') /\ root' \in Reach(pm', root')
          /\ \A p \in Reach(pm', root') : p \in 1 .. pm'.cur - 1 /\ p \notin Range(pm'.free)
      BY DEF Cow!IInv, Cow!LiveNotAllocatable, Cow!MasterNamesLiveRoot, Live, Cow!Range, Range
    <3>2. n.cur \in Nat
      BY <2>2, <3>1, WellFormedMeans
    <3> QED
      BY <2>2, <3>1, <3>2 DEF PageOwned
  <2>6. Rooted(w, r) /\ r \in DOMAIN w
    BY <1>2, <2>1, <2>2, <2>5, Zenon DEF Rooted
  <2>7. PICK R : R = Reach(pm, r)
    OBVIOUS
  <2>8. Whole(w, R) /\ r \in R
    BY <1>2, <2>6, <2>7, TreeIsWhole
  <2>9. Reach(n, r) = R
    <3>1. Children(n) = Children(pm)
      BY <2>4, Zenon DEF Children
    <3> QED
      BY <2>7, <3>1, Zenon DEF Reach
  <2>10. PICK x : x = Part(w, R)
    OBVIOUS
  <2>11. World(w) /\ \A p \in DOMAIN w : pm.page[p] = w[p].node
    BY <1>2, WorldOnPages
  <2>12. World(x) /\ DOMAIN x = R /\ (\A p \in R : x[p] = w[p]) /\ R \subseteq DOMAIN w
    BY <2>8, <2>10, <2>11, PartIsWorld, Zenon DEF Whole
  <2>13. Holds(n, x)
    <3>1. ASSUME NEW p \in DOMAIN x PROVE PageOwned(n, p) /\ n.page[p] = x[p].node
      <4>1. p \in R /\ p \in DOMAIN w /\ x[p] = w[p]
        BY <2>12
      <4> QED
        BY <2>4, <2>5, <2>9, <2>11, <4>1
    <3> QED
      BY <2>4, <2>5, <2>12, <3>1, Zenon DEF Holds
  <2>14. Rooted(x, r)
    BY <2>6, <2>8, <2>12, Zenon DEF Rooted
  <2>15. Describes(x)'
    BY <1>2, <2>1, <2>2, <2>13, <2>14 DEF Describes
  <2> QED
    BY <2>15 DEF Described
<1> QED
  BY <1>3, <1>4

-----------------------------------------------------------------------------
(* Delete up to the recursion.                                             *)
LEMMA StartDeleteKeeps ==
  ASSUME NEW w, Describes(w), StartDelete
  PROVE  Described'
<1>1. pc = "start" /\ Head(todo).op = "delete"
  BY Zenon DEF StartDelete
<1>2. PICK p, n, k : p = base /\ n = LoadAsNode(pm, p) /\ k = Head(todo).key
  OBVIOUS
<1>3. PICK r : r = Repaired(pm, n, << >>, NoError)
  OBVIOUS
<1> DEFINE Onwards == pc' = "delete" /\ node' = n /\ key' = k /\ UNCHANGED <<stack, ret>> /\ Same
<1>4. Step(r, FALSE, Onwards)
  BY <1>2, <1>3, Zenon DEF StartDelete
<1>5. /\ Holds(pm, w) /\ Rooted(w, root) /\ todo \in Seq(Request) /\ todo # << >> /\ stack = << >>
      /\ p = 0 \/ Rooted(w, p)
      /\ Rooted(w, p) => p = 0 \/ Proper(w[p].pairs, todo)
  BY <1>1, <1>2, StartFacts
<1>6. Later(w, w) /\ r.pm = pm
  BY <1>3 DEF Later, Repaired
<1>7. Safe(r) => \E x : Later(w, x) /\ Holds(r.pm, x)
  BY <1>5, <1>6
<1>8. Described' \/ (Succeeds(r) /\ Onwards)
  BY <1>4, <1>5, <1>7, StepKeeps
<1>9. ASSUME Succeeds(r), Onwards
      PROVE  Described'
  <2>1. n.ok /\ pm' = pm /\ root' = root
    BY <1>3, <1>6, <1>9 DEF Succeeds, Safe, Repaired
  <2>2. /\ p # 0 /\ Rooted(w, p) /\ Fits(w, n, w[p].depth) /\ PairsOf(w, n, w[p].depth) = w[p].pairs
        /\ n.type = "internal" => n.kvs # << >>
    BY <1>2, <1>5, <2>1, RootLoads
  <2>3. PICK K, d : K = w[p].pairs /\ d = w[p].depth
    OBVIOUS
  <2>4. PICK gs : gs = [l \in {1} |-> Without(K, k)]
    OBVIOUS
  <2>5. gs[1] = Without(K, k) /\ Len(<< >>) + 1 = 1
    BY <2>4
  <2>6. Head(todo) = todo[1] /\ k = todo[1].key /\ k \in Key
    BY <1>2, <1>5, RequestServed
  <2>7. Proper(Without(K, k), Tail(todo))
    <3>1. \A u \in Without(K, k) : \/ u \in K /\ u[1] # todo[1].key
                                   \/ u[1] = todo[1].key /\ todo[1].op = "insert"
      BY <2>6, Zenon DEF Without
    <3>2. Proper(K, todo)
      BY <1>5, <2>2, <2>3
    <3>3. /\ \A u \in K : u[1] # todo[1].key => u \in Without(K, k)
          /\ todo[1].op = "insert" => \E u \in Without(K, k) : u[1] = todo[1].key
      BY <1>1, <2>6 DEF Without
    <3> QED
      BY <1>5, <3>1, <3>2, <3>3, ProperLater
  <2>8. d \in Nat
    BY <2>2, <2>3, Zenon DEF Fits
  <2>9. Waiting(w, << >>, Head(todo).op, gs, d)
    BY <2>8, NoneWaiting
  <2>10. Deleting(w, n, k, gs[1], d, TRUE)
    <3>1. KeyIsThere(K, k)
      BY <1>1, <1>5, <2>2, <2>3, <2>6, ProperFirstThere
    <3> QED
      BY <2>2, <2>3, <2>5, <2>6, <3>1, Zenon DEF Deleting
  <2>11. pc' = "delete" /\ node' = n /\ key' = k /\ stack' = << >> /\ todo' = todo /\ base' = base
    BY <1>5, <1>9 DEF Same
  <2>12. Descent(w, gs, d)'
    <3>1. Waiting(w, stack', Head(todo').op, gs, d) /\ Proper(gs[1], Tail(todo'))
      BY <2>5, <2>7, <2>9, <2>11
    <3>2. Head(todo').op = "delete" /\ Deleting(w, node', key', gs[Len(stack') + 1], d, stack' = << >>)
      BY <1>1, <2>5, <2>10, <2>11
    <3>3. pc' # "insert" /\ pc' # "return"
      BY <2>11
    <3>4. Aims(w, gs[1])'
      <4>1. base \in DOMAIN w
        BY <1>2, <2>2, Zenon DEF Rooted
      <4>2. gs[1] = Served(w[base].pairs, Head(todo))
        BY <1>1, <1>2, <2>3, <2>5 DEF Served
      <4>3. Aims(w, gs[1])
        BY <4>1, <4>2, Zenon DEF Aims
      <4> QED
        BY <1>6, <2>11, <4>3, AimsLater
    <3> QED
      BY <3>1, <3>2, <3>3, <3>4, Zenon DEF Descent
  <2>13. Describes(w)'
    BY <1>5, <2>1, <2>11, <2>12 DEF Describes
  <2> QED
    BY <2>13 DEF Described
<1> QED
  BY <1>8, <1>9

(* delete on a leaf.                                                       *)
LEMMA DeleteFromLeafKeeps ==
  ASSUME NEW w, Describes(w), DeleteFromLeaf
  PROVE  Described'
<1>1. pc = "delete" /\ node.type = "leaf"
  BY Zenon DEF DeleteFromLeaf
<1>2. PICK k, n, st : k = key /\ n = node /\ st = stack
  OBVIOUS
<1>3. PICK gs, d : Descent(w, gs, d)
  BY <1>1, DescentFacts
<1>4. PICK goal : goal = gs[Len(st) + 1]
  OBVIOUS
<1>5. /\ Waiting(w, st, Head(todo).op, gs, d) /\ Proper(gs[1], Tail(todo)) /\ Aims(w, gs[1])
      /\ Head(todo).op = "delete" /\ Deleting(w, n, k, goal, d, st = << >>)
  BY <1>1, <1>2, <1>3, <1>4, Zenon DEF Descent
<1>6. Fits(w, n, d) /\ k \in Key /\ goal = Without(PairsOf(w, n, d), k)
  BY <1>5, Zenon DEF Deleting
<1>7. d = 0 /\ n.kvs \in Seq(KVs) /\ InOrder(n.kvs)
  BY <1>1, <1>2, <1>6, LeafIsAtBottom
<1>8. ContainsKey(n, k) <=> HasKey(n.kvs, k)
  BY <1>6, <1>7, ContainsKeyIsMembership DEF HasKey
<1>9. CASE ContainsKey(n, k)
  <2>1. PICK v : v = DeleteKV(n, FindIndex(n, k))
    OBVIOUS
  <2>2. PICK r : r = Retiring(Persisted(v), << >>)
    OBVIOUS
  <2>3. Step(r, FALSE, Returned(r) /\ UNCHANGED stack)
    BY <1>2, <1>9, <2>1, <2>2, Zenon DEF DeleteFromLeaf
  <2>4. Step(r, FALSE, Returned(r) /\ stack' = st)
    BY <1>2, <2>3 DEF Step
  <2>5. LeafHas(w, v, goal) /\ Len(v.kvs) = Len(n.kvs) - 1
    BY <1>6, <1>7, <1>8, <1>9, <2>1, LeafDelete
  <2>6. Fits(w, v, d) /\ PairsOf(w, v, d) = goal
    BY <1>7, <2>5, Zenon DEF LeafHas
  <2>7. st # << >> \/ Head(todo).op = "insert" => v.kvs # << >>
    <3>1. ASSUME st # << >> PROVE v.kvs # << >>
      <4>1. n.kvs # << >> /\ (Len(n.kvs) >= 2 \/ Spare(w, n, k))
        BY <1>5, <3>1, Zenon DEF Deleting
      <4>2. ~Spare(w, n, k)
        BY <1>1, <1>2 DEF Spare
      <4>3. PICK N, M : N = Len(n.kvs) /\ M = Len(v.kvs)
        OBVIOUS
      <4>4. N \in Nat
        BY <1>7, <4>3
      <4>5. N >= 2 /\ M = N - 1
        BY <2>5, <4>1, <4>2, <4>3, Zenon
      <4>6. M # 0
        BY <4>4, <4>5
      <4> QED
        BY <4>3, <4>6
    <3> QED
      BY <1>5, <3>1
  <2> QED
    BY <1>1, <1>4, <1>5, <2>2, <2>4, <2>6, <2>7, PersistKeeps
<1>10. CASE ~ContainsKey(n, k)
  <2>1. PICK r : r = Retiring(Failed(pm, ErrKeyNotFound), << >>)
    OBVIOUS
  <2>2. Step(r, FALSE, Returned(r) /\ UNCHANGED stack)
    BY <1>2, <1>10, <2>1, Zenon DEF DeleteFromLeaf
  <2>3. r.pm = pm /\ r.err # NoError
    BY <2>1 DEF Retiring, Failed, ErrKeyNotFound, NoError
  <2>4. Later(w, w) /\ Holds(pm, w)
    BY <1>1, DescentFacts DEF Later
  <2>5. Safe(r) => \E x : Later(w, x) /\ Holds(r.pm, x)
    BY <2>3, <2>4
  <2>6. Described' \/ (Succeeds(r) /\ Returned(r) /\ UNCHANGED stack)
    BY <2>2, <2>5, StepKeeps
  <2> QED
    BY <2>3, <2>6 DEF Succeeds
<1> QED
  BY <1>9, <1>10

-----------------------------------------------------------------------------
(* An error put in place of the one a repair answers.                      *)
LEMMA FillChildAnswers ==
  ASSUME NEW m, NEW n, NEW k, NEW f, f = FillChild(m, n, k), NEW e
  PROVE  /\ [f EXCEPT !.err = e].err = e /\ [f EXCEPT !.err = e].pm = f.pm
         /\ [f EXCEPT !.err = e].retired = f.retired
<1>1. \A a, b, c, z : "err" \in DOMAIN Repaired(a, b, c, z)
  BY DEF Repaired
<1>2. \A a, b, c : "err" \in DOMAIN RotateRight(m, n, a, b, c)
  BY DEF RotateRight, Repaired
<1>3. \A a, b, c : "err" \in DOMAIN RotateLeft(m, n, a, b, c)
  BY DEF RotateLeft, Repaired
<1>4. \A z : "err" \in DOMAIN MergeChildren(m, n, z)
  BY DEF MergeChildren, Repaired
<1>5. "err" \in DOMAIN f
  BY <1>1, <1>2, <1>3, <1>4 DEF FillChild
<1>6. \A t : "err" \in DOMAIN t =>
        /\ [t EXCEPT !.err = e].err = e /\ [t EXCEPT !.err = e].pm = t.pm
        /\ [t EXCEPT !.err = e].retired = t.retired
  OBVIOUS
<1> QED
  BY <1>5, <1>6

(* A child with a pair to spare is left alone.                             *)
LEMMA SpareIsLeftAlone ==
  ASSUME NEW m, NEW w, Holds(m, w), NEW n, NEW d, Fits(w, n, d), NEW k \in Key, Spare(w, n, k),
         NEW s, s = FillChild(m, n, k), Safe(s)
  PROVE  s.pm = m /\ s.node = n /\ s.retired = << >>
<1> DEFINE i     == FindIndex(n, k)
           child == LoadAsNode(m, GetPtr(n, i))
           q     == n.ptr[i + 1]
<1>1. n.type = "internal" /\ ~HasKey(n.kvs, k) /\ Len(w[q].node.kvs) >= 2
  BY Zenon DEF Spare, GetPtr
<1>2. n.kvs \in Seq(KVs) /\ n.ptr \in Seq(Nat) /\ Len(n.ptr) = Len(n.kvs) + 1 /\ InOrder(n.kvs) /\ d # 0 /\ d \in Nat
  BY <1>1, Zenon DEF Fits, FitsBut
<1>3. i \in 0 .. Len(n.kvs)
  BY <1>1, <1>2, IndexBetween
<1>4. i + 1 \in 1 .. Len(n.ptr) /\ d > 0
  BY <1>2, <1>3
<1>5. q \in DOMAIN w
  BY <1>4, Zenon DEF Fits, FitsBut, ChildFits
<1>6. child.ok
  <2>1. CASE ~child.ok
    <3>1. s = Repaired(m, n, << >>, Panicked)
      BY <2>1, Zenon DEF FillChild
    <3> QED
      BY <3>1 DEF Safe, Repaired
  <2> QED
    BY <2>1
<1>7. child = w[q].node
  <2>1. GetPtr(n, i) = q
    BY Zenon DEF GetPtr
  <2> QED
    BY <1>5, <1>6, <2>1, LoadHeld
<1>8. ~Underflow(child)
  <2>1. PICK N : N = Len(child.kvs)
    OBVIOUS
  <2>2. N \in Nat
    <3>1. World(w)
      BY Zenon DEF Holds
    <3>2. child.kvs \in Seq(KVs)
      BY <1>5, <1>7, <3>1, Zenon DEF World, Fits, FitsBut
    <3> QED
      BY <2>1, <3>2
  <2>3. N >= 2
    BY <1>1, <1>7, <2>1, Zenon
  <2>4. ~(N <= 1)
    BY <2>2, <2>3
  <2> QED
    BY <2>1, <2>4, Zenon DEF Underflow, GetNKeys
<1>9. s = Repaired(m, n, << >>, NoError)
  BY <1>6, <1>8, Zenon DEF FillChild
<1> QED
  BY <1>9 DEF Repaired

(* A node on the way of a deletion, after its child has been filled.       *)
Prepared(s, w, x, n, k, d, atRoot) ==
  /\ Later(w, x) /\ Holds(s.pm, x)
  /\ s.err = NoError =>
       /\ Fits(x, s.node, d) /\ PairsOf(x, s.node, d) = PairsOf(w, n, d)
       /\ s.node.type = "internal" /\ Roomy(s, x, k)
       /\ ~atRoot => s.node.kvs # << >>

(* FillChild prepares the way down.                                        *)
LEMMA FillChildPrepares ==
  ASSUME NEW m, NEW w, Holds(m, w), NEW n, NEW k, NEW goal, NEW d, NEW atRoot,
         Deleting(w, n, k, goal, d, atRoot), n.type = "internal", ~HasKey(n.kvs, k),
         NEW s, s = FillChild(m, n, k), Safe(s)
  PROVE  \E x : Prepared(s, w, x, n, k, d, atRoot)
<1>1. /\ Fits(w, n, d) /\ (n.kvs # << >> \/ Spare(w, n, k)) /\ k \in Key
      /\ ~atRoot => n.kvs # << >> /\ (Len(n.kvs) >= 2 \/ Spare(w, n, k))
  BY Zenon DEF Deleting
<1>2. CASE Spare(w, n, k)
  <2>1. s.pm = m /\ s.node = n
    BY <1>1, <1>2, SpareIsLeftAlone
  <2>2. Roomy(s, w, k)
    BY <1>2, <2>1, Zenon DEF Spare, Roomy
  <2>3. Later(w, w)
    BY Zenon DEF Later
  <2>4. Prepared(s, w, w, n, k, d, atRoot)
    BY <1>1, <2>1, <2>2, <2>3, Zenon DEF Prepared
  <2> QED
    BY <2>4
<1>3. CASE ~Spare(w, n, k)
  <2>1. PICK x : KeepsPairs(s, w, x, n, d) /\ (s.err = NoError => Filled(s, x, n, k))
    BY <1>1, <1>3, FillChildKeepsPairs
  <2>2. /\ Later(w, x) /\ Holds(s.pm, x)
        /\ s.err = NoError => Fits(x, s.node, d) /\ PairsOf(x, s.node, d) = PairsOf(w, n, d)
    BY <2>1, Zenon DEF KeepsPairs
  <2>3. ASSUME s.err = NoError
        PROVE  s.node.type = "internal" /\ Roomy(s, x, k) /\ (~atRoot => s.node.kvs # << >>)
    <3>1. Roomy(s, x, k) /\ Len(s.node.kvs) >= Len(n.kvs) - 1
      BY <2>1, <2>3, Zenon DEF Filled
    <3>2. s.node.type = "internal"
      <4>1. d # 0
        BY <1>1, Zenon DEF Fits
      <4>2. s.node \in Nodes /\ (s.node.type = "leaf" <=> d = 0)
        BY <2>2, <2>3, Zenon DEF Fits
      <4>3. s.node.type \in {"leaf", "internal"}
        BY <4>2 DEF Nodes
      <4> QED
        BY <4>1, <4>2, <4>3, Zenon
    <3>3. ASSUME ~atRoot PROVE s.node.kvs # << >>
      <4>1. PICK N, M : N = Len(n.kvs) /\ M = Len(s.node.kvs)
        OBVIOUS
      <4>2. N \in Nat /\ M \in Nat
        <5>1. n.kvs \in Seq(KVs) /\ s.node.kvs \in Seq(KVs)
          BY <1>1, <2>2, <2>3, Zenon DEF Fits, FitsBut
        <5> QED
          BY <4>1, <5>1
      <4>3. N >= 2 /\ M >= N - 1
        BY <1>1, <1>3, <3>1, <3>3, <4>1, Zenon
      <4>4. M # 0
        BY <4>2, <4>3
      <4> QED
        BY <4>1, <4>4
    <3> QED
      BY <3>1, <3>2, <3>3
  <2>4. Prepared(s, w, x, n, k, d, atRoot)
    BY <2>2, <2>3, Zenon DEF Prepared
  <2> QED
    BY <2>4
<1> QED
  BY <1>2, <1>3

(* The child a deletion enters, and the level that waits for it.           *)
DeleteEnters(x, f, d, goal, c, k, h, atRoot) ==
  /\ f \in Frames /\ d # 0 /\ Frame(x, f, d, goal, h)
  /\ ~atRoot => f.node.kvs # << >>
  /\ Deleting(x, c, k, h, d - 1, FALSE)

(* One level down.                                                         *)
LEMMA DeleteGoesDown ==
  ASSUME NEW m, NEW w, Holds(m, w), NEW n, NEW k, NEW goal, NEW d, NEW atRoot,
         Deleting(w, n, k, goal, d, atRoot), n.type = "internal", ~HasKey(n.kvs, k),
         NEW s, s = FillChild(m, n, k), Safe(s),
         NEW i, i = FindIndex(s.node, k), NEW c, c = LoadAsNode(s.pm, GetPtr(s.node, i)),
         NEW f, f = [node |-> s.node, slot |-> i, retire |-> TRUE]
  PROVE  \E x : /\ Later(w, x) /\ Holds(s.pm, x)
                /\ s.err = NoError =>
                     /\ ~HasKey(s.node.kvs, k) /\ s.node.kvs \in Seq(KVs) /\ InOrder(s.node.kvs)
                     /\ c.ok => \E h : DeleteEnters(x, f, d, goal, c, k, h, atRoot)
<1>1. k \in Key /\ goal = Without(PairsOf(w, n, d), k) /\ KeyIsThere(PairsOf(w, n, d), k)
  BY Zenon DEF Deleting
<1>2. PICK x : Prepared(s, w, x, n, k, d, atRoot)
  BY FillChildPrepares
<1>3. Later(w, x) /\ Holds(s.pm, x)
  BY <1>2, Zenon DEF Prepared
<1>4. ASSUME s.err = NoError
      PROVE  /\ ~HasKey(s.node.kvs, k) /\ s.node.kvs \in Seq(KVs) /\ InOrder(s.node.kvs)
             /\ c.ok => \E h : DeleteEnters(x, f, d, goal, c, k, h, atRoot)
  <2> DEFINE v == s.node
             q == v.ptr[i + 1]
             h == Without(x[q].pairs, k)
  <2>1. /\ Fits(x, v, d) /\ PairsOf(x, v, d) = PairsOf(w, n, d)
        /\ v.type = "internal" /\ Roomy(s, x, k) /\ (~atRoot => v.kvs # << >>)
    BY <1>2, <1>4, Zenon DEF Prepared
  <2>2. /\ v \in Nodes /\ v.kvs \in Seq(KVs) /\ v.ptr \in Seq(Nat) /\ Len(v.ptr) = Len(v.kvs) + 1
        /\ InOrder(v.kvs) /\ d # 0
    BY <2>1, Zenon DEF Fits, FitsBut
  <2>3. ~HasKey(v.kvs, k) /\ Len(x[q].node.kvs) >= 2
    BY <2>1, Zenon DEF Roomy, GetPtr
  <2>4. i \in 0 .. Len(v.kvs) /\ Between(v.kvs, i + 1, k)
    BY <1>1, <2>2, <2>3, IndexBetween
  <2>5. f.node = v /\ f.slot = i
    OBVIOUS
  <2>6. f \in Frames
    <3>1. i \in Nat
      BY <2>2, <2>4
    <3> QED
      BY <2>2, <3>1 DEF Frames
  <2>7. World(x)
    BY <1>3, Zenon DEF Holds
  <2>8. /\ Below(x, q, v.kvs, i + 1, d) /\ Frame(x, f, d, Without(PairsOf(x, v, d), k), h)
        /\ KeyIsThere(x[q].pairs, k)
    BY <1>1, <2>1, <2>4, <2>5, <2>7, DescendsToDelete
  <2>9. q \in DOMAIN x /\ x[q].depth = d - 1 /\ x[q].node.kvs # << >>
    BY <2>8, Zenon DEF Below
  <2>10. ASSUME c.ok
         PROVE  DeleteEnters(x, f, d, goal, c, k, h, atRoot)
    <3>1. c = x[q].node
      <4>1. GetPtr(v, i) = q
        BY Zenon DEF GetPtr
      <4>2. LoadAsNode(s.pm, q).ok
        BY <2>10, <4>1
      <4> QED
        BY <1>3, <2>9, <4>1, <4>2, LoadHeld
    <3>2. Fits(x, c, d - 1) /\ x[q].pairs = PairsOf(x, c, d - 1)
      BY <2>7, <2>9, <3>1, Zenon DEF World
    <3>3. Deleting(x, c, k, h, d - 1, FALSE)
      BY <1>1, <2>3, <2>8, <2>9, <3>1, <3>2, Zenon DEF Deleting
    <3>4. Frame(x, f, d, goal, h)
      BY <1>1, <2>1, <2>8
    <3> QED
      BY <2>1, <2>2, <2>5, <2>6, <3>3, <3>4, Zenon DEF DeleteEnters
  <2> QED
    BY <2>2, <2>3, <2>10
<1> QED
  BY <1>3, <1>4

-----------------------------------------------------------------------------
(* A list that something was appended to.                                  *)
LEMMA NotEmptied ==
  ASSUME NEW S, NEW s \in Seq(S), NEW e \in S
  PROVE  Append(s, e) # << >>
<1>1. Len(Append(s, e)) = Len(s) + 1 /\ Len(s) \in Nat
  OBVIOUS
<1>2. Len(Append(s, e)) # 0 /\ Len(<< >>) = 0
  BY <1>1
<1> QED
  BY <1>2, Zenon

(* A deletion at its next level.                                           *)
LEMMA DeletionGoesDown ==
  ASSUME NEW w, Describes(w), pc = "delete", NEW gs, NEW d, Descent(w, gs, d),
         NEW x, Later(w, x), Holds(pm', x), root' = root, NEW f, NEW c, NEW k, NEW h,
         DeleteEnters(x, f, d, gs[Len(stack) + 1], c, k, h, stack = << >>),
         node' = c, stack' = Append(stack, f), pc' = "delete", key' = k, todo' = todo,
         base' = base
  PROVE  Described'
<1>1. PICK st, goal, atRoot : st = stack /\ goal = gs[Len(st) + 1] /\ atRoot = (st = << >>)
  OBVIOUS
<1>2. /\ f \in Frames /\ d # 0 /\ Frame(x, f, d, goal, h) /\ (~atRoot => f.node.kvs # << >>)
      /\ Deleting(x, c, k, h, d - 1, FALSE)
  <2>1. DeleteEnters(x, f, d, goal, c, k, h, atRoot)
    BY <1>1
  <2> QED
    BY <2>1, Zenon DEF DeleteEnters
<1>3. /\ Waiting(w, st, Head(todo).op, gs, d) /\ Proper(gs[1], Tail(todo))
      /\ Head(todo).op = "delete"
  BY <1>1, Zenon DEF Descent
<1>4. Waiting(x, st, Head(todo).op, gs, d)
  BY <1>3, WaitingLater
<1>5. st # << >> \/ Head(todo).op = "insert" => f.node.kvs # << >>
  BY <1>1, <1>2, <1>3
<1>6. PICK g : /\ Waiting(x, Append(st, f), Head(todo).op, g, d - 1)
               /\ g[1] = gs[1] /\ g[Len(Append(st, f)) + 1] = h
  <2>1. f \in Frames /\ d # 0 /\ Frame(x, f, d, gs[Len(st) + 1], h)
    BY <1>1, <1>2
  <2> QED
    BY <1>4, <1>5, <2>1, WaitingMore
<1>7. stack' = Append(st, f)
  BY <1>1
<1>8. stack' # << >>
  <2>1. st \in Seq(Frames)
    BY <1>4, Zenon DEF Waiting
  <2> QED
    BY <1>2, <1>7, <2>1, NotEmptied, Zenon
<1>9. Descent(x, g, d - 1)'
  <2>1. Waiting(x, stack', Head(todo').op, g, d - 1) /\ Proper(g[1], Tail(todo'))
    BY <1>3, <1>6, <1>7
  <2>2. (stack' = << >>) = FALSE
    BY <1>8
  <2>3. Head(todo').op = "delete" /\ Deleting(x, node', key', g[Len(stack') + 1], d - 1, stack' = << >>)
    BY <1>2, <1>3, <1>6, <1>7, <2>2
  <2>4. pc' # "insert" /\ pc' # "return"
    OBVIOUS
  <2>5. Aims(x, g[1])'
    <3>1. Aims(w, g[1])
      BY <1>6, Zenon DEF Descent
    <3> QED
      BY <3>1, AimsLater
  <2> QED
    BY <2>1, <2>3, <2>4, <2>5, Zenon DEF Descent
<1> QED
  BY <1>9, DescentNext

(* delete on an internal node without the key.                             *)
LEMMA DeleteFromInternalKeeps ==
  ASSUME NEW w, Describes(w), DeleteFromInternal
  PROVE  Described'
<1>1. pc = "delete" /\ node.type = "internal" /\ ~ContainsKey(node, key)
  BY Zenon DEF DeleteFromInternal
<1>2. PICK n, k, st : n = node /\ k = key /\ st = stack
  OBVIOUS
<1>3. PICK s : s = FillChild(pm, n, k)
  OBVIOUS
<1>4. PICK i, c : i = FindIndex(s.node, k) /\ c = LoadAsNode(s.pm, GetPtr(s.node, i))
  OBVIOUS
<1>5. PICK r : r = IF s.err # NoError \/ c.ok THEN s ELSE [s EXCEPT !.err = Panicked]
  OBVIOUS
<1>6. PICK f : f = [node |-> s.node, slot |-> i, retire |-> TRUE]
  OBVIOUS
<1> DEFINE Onwards == /\ node' = c
                      /\ stack' = Append(stack, f)
                      /\ UNCHANGED <<pc, key, ret>> /\ Same
<1>7. (s.err = NoError /\ ContainsKey(s.node, k)) \/ Step(r, FALSE, Onwards)
  BY <1>2, <1>3, <1>4, <1>5, <1>6, Zenon DEF DeleteFromInternal
<1>8. Holds(pm, w) /\ todo \in Seq(Request) /\ todo # << >>
  BY <1>1, DescentFacts
<1>9. PICK gs, d : Descent(w, gs, d)
  BY <1>1, DescentFacts
<1>10. PICK goal, atRoot : goal = gs[Len(st) + 1] /\ atRoot = (st = << >>)
  OBVIOUS
<1>11. /\ Waiting(w, st, Head(todo).op, gs, d) /\ Proper(gs[1], Tail(todo))
       /\ Head(todo).op = "delete" /\ Deleting(w, n, k, goal, d, atRoot)
  BY <1>1, <1>2, <1>9, <1>10, Zenon DEF Descent
<1>12. ~HasKey(n.kvs, k) /\ k \in Key
  <2>1. k \in Key /\ n.kvs \in Seq(KVs) /\ InOrder(n.kvs)
    BY <1>11, Zenon DEF Deleting, Fits, FitsBut
  <2>2. ContainsKey(n, k) <=> HasKey(n.kvs, k)
    BY <2>1, ContainsKeyIsMembership DEF HasKey
  <2> QED
    BY <1>1, <1>2, <2>1, <2>2
<1>13. ASSUME Safe(s)
       PROVE  \E x : /\ Later(w, x) /\ Holds(s.pm, x)
                     /\ s.err = NoError =>
                          /\ ~HasKey(s.node.kvs, k) /\ s.node.kvs \in Seq(KVs) /\ InOrder(s.node.kvs)
                          /\ c.ok => \E h : DeleteEnters(x, f, d, goal, c, k, h, atRoot)
  BY <1>1, <1>2, <1>3, <1>4, <1>6, <1>8, <1>11, <1>12, <1>13, DeleteGoesDown
<1>14. Step(r, FALSE, Onwards)
  <2>1. ASSUME s.err = NoError PROVE ~ContainsKey(s.node, k)
    <3>1. Safe(s)
      BY <2>1 DEF Safe, NoError, Panicked, Clobber
    <3>2. ~HasKey(s.node.kvs, k) /\ s.node.kvs \in Seq(KVs) /\ InOrder(s.node.kvs)
      BY <1>13, <2>1, <3>1
    <3> QED
      BY <1>12, <3>2, ContainsKeyIsMembership DEF HasKey
  <2> QED
    BY <1>7, <2>1
<1>15. (Safe(r) => Safe(s)) /\ r.pm = s.pm /\ (Safe(r) /\ r.err = NoError => s.err = NoError /\ c.ok)
  <2>1. CASE s.err # NoError \/ c.ok
    BY <1>5, <2>1
  <2>2. CASE ~(s.err # NoError \/ c.ok)
    <3>1. r = [s EXCEPT !.err = Panicked]
      BY <1>5, <2>2
    <3>2. r.err = Panicked /\ r.pm = s.pm
      BY <1>3, <3>1, FillChildAnswers
    <3> QED
      BY <3>2 DEF Safe
  <2> QED
    BY <2>1, <2>2
<1>16. Safe(r) => \E x : Later(w, x) /\ Holds(r.pm, x)
  BY <1>13, <1>15
<1>17. Described' \/ (Succeeds(r) /\ Onwards)
  BY <1>8, <1>14, <1>16, StepKeeps
<1>18. ASSUME Succeeds(r), Onwards
       PROVE  Described'
  <2>1. Safe(s) /\ s.err = NoError /\ c.ok /\ pm' = s.pm /\ root' = root
    BY <1>15, <1>18 DEF Succeeds
  <2>2. PICK x, h : Later(w, x) /\ Holds(s.pm, x) /\ DeleteEnters(x, f, d, goal, c, k, h, atRoot)
    BY <1>13, <2>1
  <2>3. /\ node' = c /\ stack' = Append(st, f) /\ pc' = "delete" /\ key' = k /\ todo' = todo
        /\ base' = base
    BY <1>1, <1>2, <1>18 DEF Same
  <2>4. DeleteEnters(x, f, d, gs[Len(stack) + 1], c, k, h, stack = << >>)
    BY <1>2, <1>10, <2>2
  <2> QED
    BY <1>1, <1>2, <1>9, <2>1, <2>2, <2>3, <2>4, DeletionGoesDown
<1> QED
  BY <1>17, <1>18

-----------------------------------------------------------------------------
(* A walk along one child of every node ends in one leaf.                  *)
LEMMA LeafFromSteps ==
  ASSUME NEW m, NEW to, NEW q \in PageNums
  PROVE  /\ m.page[q].type = "leaf" /\ to[q] = {} => LeafFrom(m, to, q) = m.page[q]
         /\ \A r \in PageNums : m.page[q].type # "leaf" /\ to[q] = {r} =>
              LeafFrom(m, to, q) = LeafFrom(m, to, r)
<1> DEFINE Leaves(s) == {c \in {m.page[p] : p \in Closure(to, s)} : c.type = "leaf"}
<1>1. \A s : LeafFrom(m, to, s) = CHOOSE c \in Leaves(s) : TRUE
  BY Zenon DEF LeafFrom
<1>2. ASSUME m.page[q].type = "leaf", to[q] = {}
      PROVE  LeafFrom(m, to, q) = m.page[q]
  <2>1. Closure(to, q) = {q}
    BY <1>2, ClosureFrom
  <2>2. Leaves(q) = {m.page[q]}
    BY <1>2, <2>1, Zenon
  <2> QED
    BY <1>1, <2>2, Zenon
<1>3. ASSUME NEW r \in PageNums, m.page[q].type # "leaf", to[q] = {r}
      PROVE  LeafFrom(m, to, q) = LeafFrom(m, to, r)
  <2>1. Closure(to, q) = {q} \cup Closure(to, r)
    BY <1>3, ClosureFrom
  <2>2. \A c : c \in Leaves(q) <=> c \in Leaves(r)
    BY <1>3, <2>1, Zenon
  <2>3. Leaves(q) = Leaves(r)
    BY <2>2, Zenon
  <2> QED
    BY <1>1, <2>3, Zenon
<1> QED
  BY <1>2, <1>3

(* The pair of K with the greatest key, and the one with the least.        *)
LastOf(kv, K)  == Small(kv) /\ kv \in K /\ \A u \in K : u = kv \/ u[1] < kv[1]
FirstOf(kv, K) == Small(kv) /\ kv \in K /\ \A u \in K : u = kv \/ kv[1] < u[1]

(* The ends of a list.                                                     *)
LEMMA ListEnds ==
  ASSUME NEW S, NEW s \in Seq(S), s # << >>
  PROVE  Last(s) = s[Len(s)] /\ Head(s) = s[1] /\ Len(s) \in 1 .. Len(s) /\ 1 \in 1 .. Len(s)
<1>1. Len(s) \in Nat /\ Len(s) >= 1 /\ Head(s) = s[1]
  OBVIOUS
<1> QED
  BY <1>1 DEF Last

(* A leaf has its first and last pair at its ends.                         *)
LEMMA EndsOfLeaf ==
  ASSUME NEW w, NEW n, Fits(w, n, 0), n.kvs # << >>
  PROVE  LastOf(Last(n.kvs), PairsOf(w, n, 0)) /\ FirstOf(Head(n.kvs), PairsOf(w, n, 0))
<1> DEFINE kvs == n.kvs
           N   == Len(kvs)
<1>1. /\ kvs \in Seq(KVs) /\ InOrder(kvs) /\ \A x \in 1 .. N : Small(kvs[x])
      /\ PairsOf(w, n, 0) = {kvs[x] : x \in 1 .. N}
  BY LeafMeans, LeafPairs
<1>2. N \in Nat
  BY <1>1
<1> HIDE DEF kvs
<1>3. Last(kvs) = kvs[N] /\ Head(kvs) = kvs[1] /\ N \in 1 .. N /\ 1 \in 1 .. N
  BY <1>1, ListEnds DEF kvs
<1>4. \A x \in 1 .. N : kvs[x] = kvs[N] \/ kvs[x][1] < kvs[N][1]
  <2>1. \A x \in 1 .. N : x = N \/ x < N
    BY <1>2
  <2> QED
    BY <1>1, <1>3, <2>1 DEF InOrder
<1>5. \A x \in 1 .. N : kvs[x] = kvs[1] \/ kvs[1][1] < kvs[x][1]
  <2>1. \A x \in 1 .. N : x = 1 \/ 1 < x
    BY <1>2
  <2> QED
    BY <1>1, <1>3, <2>1 DEF InOrder
<1> QED
  BY <1>1, <1>3, <1>4, <1>5, Zenon DEF LastOf, FirstOf, kvs

(* Page q holds a node with pairs, one level below depth d.                *)
LevelBelow(w, q, d) == q \in DOMAIN w /\ w[q].depth = d - 1 /\ w[q].node.kvs # << >>

(* An internal node has its first and last pair below its ends.            *)
LEMMA EndsOfInternal ==
  ASSUME NEW w, World(w), NEW n, NEW d, Fits(w, n, d), d # 0
  PROVE  /\ LevelBelow(w, Last(n.ptr), d) /\ LevelBelow(w, Head(n.ptr), d)
         /\ \A kv : LastOf(kv, w[Last(n.ptr)].pairs) => LastOf(kv, PairsOf(w, n, d))
         /\ \A kv : FirstOf(kv, w[Head(n.ptr)].pairs) => FirstOf(kv, PairsOf(w, n, d))
<1> DEFINE kvs == n.kvs
           ptr == n.ptr
           N   == Len(kvs)
<1>1. d \in Nat /\ FitsBut(w, kvs, ptr, {}, d)
  BY Zenon DEF Fits
<1>2. kvs \in Seq(KVs) /\ ptr \in Seq(Nat) /\ Len(ptr) = N + 1 /\ InOrder(kvs)
  BY <1>1, Zenon DEF FitsBut
<1>3. N \in Nat /\ d > 0
  BY <1>1, <1>2
<1>4. Last(ptr) = ptr[N + 1] /\ Head(ptr) = ptr[1] /\ N + 1 \in 1 .. N + 1 /\ 1 \in 1 .. N + 1
  <2>1. ptr # << >>
    BY <1>2, <1>3
  <2> QED
    BY <1>2, <2>1, ListEnds
<1>5. \A y \in 1 .. N + 1 : ChildFits(w, kvs, y, ptr[y], d)
  <2>1. (1 .. Len(ptr)) \ {} = 1 .. N + 1
    BY <1>2
  <2> QED
    BY <1>1, <1>3, <2>1, Zenon DEF FitsBut
<1>6. PairsOf(w, n, d) = {kvs[x] : x \in 1 .. N} \cup UNION {w[ptr[y]].pairs : y \in 1 .. N + 1}
  <2>1. (1 .. Len(ptr)) \ {} = 1 .. N + 1
    BY <1>2
  <2> QED
    BY <1>3, <2>1, Zenon DEF PairsOf, PairsBut
<1> HIDE DEF kvs, ptr, N
<1>7. \A y \in 1 .. N + 1 : LevelBelow(w, ptr[y], d)
  BY <1>5, Zenon DEF ChildFits, LevelBelow
<1>8. ASSUME NEW y \in 1 .. N + 1, NEW u \in w[ptr[y]].pairs
      PROVE  /\ u[1] \in Nat
             /\ \A x \in 1 .. N : x < y => kvs[x][1] < u[1]
             /\ \A x \in 1 .. N : x >= y => u[1] < kvs[x][1]
  <2>1. Between(kvs, y, u[1]) /\ ptr[y] \in DOMAIN w
    BY <1>5, Zenon DEF ChildFits
  <2>2. u \in KVs
    BY <2>1, Zenon DEF World
  <2>3. u[1] \in Key /\ u[1] \in Nat
    BY <2>2, NodeAssumption DEF KVs
  <2> QED
    BY <1>2, <2>1, <2>3, Placed DEF N
<1>9. \A x \in 1 .. N : kvs[x][1] \in Nat
  BY <1>2, KeysAreNumbers DEF N
<1>10. ASSUME NEW kv, LastOf(kv, w[ptr[N + 1]].pairs)
       PROVE  LastOf(kv, PairsOf(w, n, d))
  <2>1. /\ Small(kv) /\ kv \in w[ptr[N + 1]].pairs
        /\ \A u \in w[ptr[N + 1]].pairs : u = kv \/ u[1] < kv[1]
    BY <1>10, Zenon DEF LastOf
  <2>2. ASSUME NEW x \in 1 .. N PROVE kvs[x][1] < kv[1]
    <3>1. x < N + 1
      BY <1>3
    <3> QED
      BY <1>4, <1>8, <2>1, <3>1
  <2>3. ASSUME NEW y \in 1 .. N + 1, NEW u \in w[ptr[y]].pairs PROVE u = kv \/ u[1] < kv[1]
    <3>1. CASE y = N + 1
      BY <2>1, <3>1
    <3>2. CASE y # N + 1
      <4>1. y \in 1 .. N /\ y >= y
        BY <1>3, <3>2
      <4>2. u[1] < kvs[y][1] /\ u[1] \in Nat
        BY <1>8, <4>1
      <4>3. kvs[y][1] < kv[1] /\ kvs[y][1] \in Nat /\ kv[1] \in Nat
        BY <1>4, <1>8, <1>9, <2>1, <2>2, <4>1
      <4> QED
        BY <4>2, <4>3
    <3> QED
      BY <3>1, <3>2
  <2> QED
    BY <1>4, <1>6, <2>1, <2>2, <2>3, Zenon DEF LastOf
<1>11. ASSUME NEW kv, FirstOf(kv, w[ptr[1]].pairs)
       PROVE  FirstOf(kv, PairsOf(w, n, d))
  <2>1. /\ Small(kv) /\ kv \in w[ptr[1]].pairs
        /\ \A u \in w[ptr[1]].pairs : u = kv \/ kv[1] < u[1]
    BY <1>11, Zenon DEF FirstOf
  <2>2. ASSUME NEW x \in 1 .. N PROVE kv[1] < kvs[x][1]
    <3>1. x >= 1
      BY <1>3
    <3> QED
      BY <1>4, <1>8, <2>1, <3>1
  <2>3. ASSUME NEW y \in 1 .. N + 1, NEW u \in w[ptr[y]].pairs PROVE u = kv \/ kv[1] < u[1]
    <3>1. CASE y = 1
      BY <2>1, <3>1
    <3>2. CASE y # 1
      <4>1. y - 1 \in 1 .. N /\ y - 1 < y
        BY <1>3, <3>2
      <4>2. kvs[y - 1][1] < u[1] /\ u[1] \in Nat
        BY <1>8, <4>1
      <4>3. kv[1] < kvs[y - 1][1] /\ kvs[y - 1][1] \in Nat /\ kv[1] \in Nat
        BY <1>4, <1>8, <1>9, <2>1, <2>2, <4>1
      <4> QED
        BY <4>2, <4>3
    <3> QED
      BY <3>1, <3>2
  <2> QED
    BY <1>4, <1>6, <2>1, <2>2, <2>3, Zenon DEF FirstOf
<1> QED
  BY <1>4, <1>7, <1>10, <1>11, Zenon DEF ptr

(* The leaf at the end of a walk along last children has the greatest pair *)
(* at its end, and along first children the least at its beginning.        *)
Walked(m, w, q) ==
  /\ LastOf(Last(LeafFrom(m, LastChild(m), q).kvs), w[q].pairs)
  /\ FirstOf(Head(LeafFrom(m, FirstChild(m), q).kvs), w[q].pairs)

(* One level of such a walk.                                               *)
LEMMA WalkStep ==
  ASSUME NEW m, NEW w, Holds(m, w), NEW p, p \in DOMAIN w, w[p].node.kvs # << >>
  PROVE  \/ Walked(m, w, p)
         \/ \E q, r : /\ LevelBelow(w, q, w[p].depth) /\ LevelBelow(w, r, w[p].depth)
                      /\ Walked(m, w, q) /\ Walked(m, w, r) => Walked(m, w, p)
<1> DEFINE n == w[p].node
           d == w[p].depth
<1>1. p \in PageNums /\ m.page[p] = n /\ World(w)
  BY WorldOnPages
<1>2. Fits(w, n, d) /\ w[p].pairs = PairsOf(w, n, d) /\ (n.type = "leaf" <=> d = 0)
  BY <1>1, Zenon DEF World, Fits
<1> HIDE DEF n, d
<1>3. LastChild(m)[p] = IF n.type = "leaf" THEN {} ELSE {Last(n.ptr)}
  BY <1>1, Zenon DEF LastChild
<1>4. FirstChild(m)[p] = IF n.type = "leaf" THEN {} ELSE {Head(n.ptr)}
  BY <1>1, Zenon DEF FirstChild
<1>5. CASE d = 0
  <2>1. LeafFrom(m, LastChild(m), p) = n /\ LeafFrom(m, FirstChild(m), p) = n
    BY <1>1, <1>2, <1>3, <1>4, <1>5, LeafFromSteps
  <2>2. LastOf(Last(n.kvs), PairsOf(w, n, 0)) /\ FirstOf(Head(n.kvs), PairsOf(w, n, 0))
    BY <1>2, <1>5, EndsOfLeaf DEF n
  <2> QED
    BY <1>2, <1>5, <2>1, <2>2, Zenon DEF Walked
<1>6. CASE d # 0
  <2>1. /\ LevelBelow(w, Last(n.ptr), d) /\ LevelBelow(w, Head(n.ptr), d)
        /\ \A kv : LastOf(kv, w[Last(n.ptr)].pairs) => LastOf(kv, PairsOf(w, n, d))
        /\ \A kv : FirstOf(kv, w[Head(n.ptr)].pairs) => FirstOf(kv, PairsOf(w, n, d))
    BY <1>1, <1>2, <1>6, EndsOfInternal
  <2>2. Last(n.ptr) \in PageNums /\ Head(n.ptr) \in PageNums
    BY <2>1, WorldOnPages DEF LevelBelow
  <2>3. /\ LeafFrom(m, LastChild(m), p) = LeafFrom(m, LastChild(m), Last(n.ptr))
        /\ LeafFrom(m, FirstChild(m), p) = LeafFrom(m, FirstChild(m), Head(n.ptr))
    BY <1>1, <1>2, <1>3, <1>4, <1>6, <2>2, LeafFromSteps
  <2>4. Walked(m, w, Last(n.ptr)) /\ Walked(m, w, Head(n.ptr)) => Walked(m, w, p)
    BY <1>2, <2>1, <2>3, Zenon DEF Walked
  <2> QED
    BY <2>1, <2>4, Zenon DEF d
<1> QED
  BY <1>5, <1>6

(* Every walk from a page of the world ends there.                         *)
LEMMA WalkEnds ==
  ASSUME NEW m, NEW w, Holds(m, w), NEW r, r \in DOMAIN w, w[r].node.kvs # << >>
  PROVE  Walked(m, w, r)
<1> DEFINE Bad == {p \in DOMAIN w : w[p].node.kvs # << >> /\ ~Walked(m, w, p)}
           Z   == {w[p].depth : p \in Bad}
<1> SUFFICES ASSUME r \in Bad PROVE FALSE
  BY Zenon
<1>0. \A p \in DOMAIN w : w[p].depth \in Nat
  BY OneLevel, Zenon
<1>1. Z \subseteq Nat /\ Z # {}
  BY <1>0, Zenon
<1> HIDE DEF Z
<1>2. PICK i \in Z : \A j \in Z : i <= j
  BY <1>1, LeastIndex
<1>3. PICK p \in Bad : i = w[p].depth
  BY <1>2, Zenon DEF Z
<1>4. p \in DOMAIN w /\ w[p].node.kvs # << >> /\ ~Walked(m, w, p)
  BY <1>3, Zenon
<1>5. PICK q, s : /\ LevelBelow(w, q, w[p].depth) /\ LevelBelow(w, s, w[p].depth)
                  /\ Walked(m, w, q) /\ Walked(m, w, s) => Walked(m, w, p)
  BY <1>4, WalkStep
<1>6. q \in Bad \/ s \in Bad
  BY <1>4, <1>5, Zenon DEF LevelBelow
<1>7. PICK t \in Bad : t \in DOMAIN w /\ w[t].depth = w[p].depth - 1
  BY <1>5, <1>6, Zenon DEF LevelBelow
<1>8. w[p].depth <= w[t].depth
  BY <1>2, <1>3, <1>7, Zenon DEF Z
<1> QED
  BY <1>0, <1>4, <1>7, <1>8

(* InorderPredecessor is the greatest pair below a node with pairs, and    *)
(* InorderSuccessor the least.                                             *)
LEMMA NeighboursAreEnds ==
  ASSUME NEW m, NEW w, Holds(m, w), NEW n, NEW d, Fits(w, n, d), n.kvs # << >>
  PROVE  /\ LastOf(InorderPredecessor(m, n), PairsOf(w, n, d))
         /\ FirstOf(InorderSuccessor(m, n), PairsOf(w, n, d))
<1>1. World(w) /\ (n.type = "leaf" <=> d = 0)
  BY Zenon DEF Holds, Fits
<1>2. CASE d = 0
  <2>1. InorderPredecessor(m, n) = Last(n.kvs) /\ InorderSuccessor(m, n) = Head(n.kvs)
    BY <1>1, <1>2 DEF InorderPredecessor, InorderSuccessor
  <2>2. LastOf(Last(n.kvs), PairsOf(w, n, 0)) /\ FirstOf(Head(n.kvs), PairsOf(w, n, 0))
    BY <1>2, EndsOfLeaf
  <2> QED
    BY <1>2, <2>1, <2>2
<1>3. CASE d # 0
  <2>1. /\ LevelBelow(w, Last(n.ptr), d) /\ LevelBelow(w, Head(n.ptr), d)
        /\ \A kv : LastOf(kv, w[Last(n.ptr)].pairs) => LastOf(kv, PairsOf(w, n, d))
        /\ \A kv : FirstOf(kv, w[Head(n.ptr)].pairs) => FirstOf(kv, PairsOf(w, n, d))
    BY <1>1, <1>3, EndsOfInternal
  <2>2. Walked(m, w, Last(n.ptr)) /\ Walked(m, w, Head(n.ptr))
    BY <2>1, WalkEnds DEF LevelBelow
  <2>3. /\ InorderPredecessor(m, n) = Last(LeafFrom(m, LastChild(m), Last(n.ptr)).kvs)
        /\ InorderSuccessor(m, n) = Head(LeafFrom(m, FirstChild(m), Head(n.ptr)).kvs)
    BY <1>1, <1>3 DEF InorderPredecessor, InorderSuccessor
  <2> QED
    BY <2>1, <2>2, <2>3, Zenon DEF Walked
<1> QED
  BY <1>2, <1>3

-----------------------------------------------------------------------------
(* A list of pairs with one replaced by a pair that belongs beside it.     *)
LEMMA SeparatorPlaced ==
  ASSUME NEW kvs \in Seq(KVs), InOrder(kvs), NEW j \in 1 .. Len(kvs), NEW i \in {j, j + 1},
         NEW kv \in KVs, Between(kvs, i, kv[1])
  PROVE  /\ Put(kvs, j, kv) \in Seq(KVs) /\ Len(Put(kvs, j, kv)) = Len(kvs)
         /\ \A x \in 1 .. Len(kvs) : Put(kvs, j, kv)[x] = IF x = j THEN kv ELSE kvs[x]
         /\ InOrder(Put(kvs, j, kv)) /\ kv[1] # kvs[j][1]
         /\ \A y \in 1 .. Len(kvs) + 1 : \A k \in Key :
              /\ Between(kvs, y, k)
              /\ y = j => k < kv[1]
              /\ y = j + 1 => kv[1] < k
              => Between(Put(kvs, j, kv), y, k)
<1> DEFINE N    == Len(kvs)
           more == Put(kvs, j, kv)
<1>1. more \in Seq(KVs) /\ Len(more) = N /\ \A x \in 1 .. N : more[x] = IF x = j THEN kv ELSE kvs[x]
  BY DEF Put
<1>2. N \in Nat /\ i \in 1 .. N + 1 /\ kv[1] \in Key
  BY DEF KVs
<1>3. kv[1] \in Nat /\ \A x \in 1 .. N : kvs[x][1] \in Nat
  BY <1>2, KeysAreNumbers, NodeAssumption
<1>4. /\ \A x \in 1 .. N : x < i => kvs[x][1] < kv[1]
      /\ \A x \in 1 .. N : x >= i => kv[1] < kvs[x][1]
  BY <1>2, Placed
<1>5. /\ \A x \in 1 .. N : x < j => kvs[x][1] < kv[1]
      /\ \A x \in 1 .. N : x > j => kv[1] < kvs[x][1]
  <2>1. \A x \in 1 .. N : (x < j => x < i) /\ (x > j => x >= i)
    BY <1>2
  <2> QED
    BY <1>4, <2>1
<1>6. kv[1] # kvs[j][1]
  BY <1>3, <1>4
<1> HIDE DEF more, N
<1>7. InOrder(more)
  <2>1. \A x, y \in 1 .. N : x < y => kvs[x][1] < kvs[y][1]
    BY DEF InOrder, N
  <2>2. ASSUME NEW x \in 1 .. N, NEW y \in 1 .. N, x < y PROVE more[x][1] < more[y][1]
    <3>1. CASE x = j
      <4>1. y # j /\ y > j
        BY <1>2, <2>2, <3>1
      <4> QED
        BY <1>1, <1>5, <3>1, <4>1
    <3>2. CASE y = j
      <4>1. x # j /\ x < j
        BY <1>2, <2>2, <3>2
      <4> QED
        BY <1>1, <1>5, <3>2, <4>1
    <3>3. CASE x # j /\ y # j
      BY <1>1, <2>1, <2>2, <3>3
    <3> QED
      BY <3>1, <3>2, <3>3
  <2> QED
    BY <1>1, <2>2 DEF InOrder
<1>8. ASSUME NEW y \in 1 .. N + 1, NEW k \in Key, Between(kvs, y, k),
             y = j => k < kv[1], y = j + 1 => kv[1] < k
      PROVE  Between(more, y, k)
  <2>1. y > 1 => more[y - 1][1] < k
    <3> SUFFICES ASSUME y > 1 PROVE more[y - 1][1] < k
      OBVIOUS
    <3>1. y - 1 \in 1 .. N /\ (y - 1 = j <=> y = j + 1)
      BY <1>2
    <3>2. kvs[y - 1][1] < k
      BY <1>8 DEF Between
    <3> QED
      BY <1>1, <1>8, <3>1, <3>2
  <2>2. y <= N => k < more[y][1]
    <3> SUFFICES ASSUME y <= N PROVE k < more[y][1]
      OBVIOUS
    <3>1. y \in 1 .. N
      BY <1>2
    <3>2. k < kvs[y][1]
      BY <1>8 DEF Between, N
    <3> QED
      BY <1>1, <1>8, <3>1, <3>2
  <2> QED
    BY <1>1, <2>1, <2>2 DEF Between
<1> QED
  BY <1>1, <1>6, <1>7, <1>8 DEF more, N

(* Pair kv is the one of child i of a node that comes next to the j-th     *)
(* pair of that node.                                                      *)
NextTo(w, n, j, i, kv) ==
  \/ i = j /\ LastOf(kv, w[n.ptr[i]].pairs)
  \/ i = j + 1 /\ FirstOf(kv, w[n.ptr[i]].pairs)

(* Where the pairs below such a node are, from pair j.                     *)
LEMMA PairsAside ==
  ASSUME NEW w, World(w), NEW n, NEW d, Fits(w, n, d), n.type = "internal",
         NEW j \in 1 .. Len(n.kvs), NEW y \in 1 .. Len(n.kvs) + 1, NEW u \in w[n.ptr[y]].pairs
  PROVE  /\ u \in KVs /\ u[1] \in Key /\ u[1] \in Nat /\ n.kvs[j][1] \in Nat
         /\ Between(n.kvs, y, u[1]) /\ u[1] # n.kvs[j][1]
         /\ y = j => u[1] < n.kvs[j][1]
         /\ y = j + 1 => n.kvs[j][1] < u[1]
<1>1. Fitted(w, n, d, y, n.ptr[y], w[n.ptr[y]].node)
  BY ChildFitted
<1>2. u \in KVs /\ Between(n.kvs, y, u[1])
  BY <1>1, Zenon DEF Fitted
<1>3. u[1] \in Key /\ u[1] \in Nat
  BY <1>2, NodeAssumption DEF KVs
<1>4. n.kvs \in Seq(KVs) /\ InOrder(n.kvs)
  BY Zenon DEF Fits, FitsBut
<1>5. /\ j < y => n.kvs[j][1] < u[1]
      /\ j >= y => u[1] < n.kvs[j][1]
  BY <1>2, <1>3, <1>4, Placed
<1>6. n.kvs[j][1] \in Nat
  BY <1>4, KeysAreNumbers
<1>7. y \in Nat /\ j \in Nat
  BY <1>4
<1> QED
  BY <1>2, <1>3, <1>5, <1>6, <1>7

(* deleteKeyFromInternal, when it borrows: the pair of key k is replaced   *)
(* by its neighbour in the child at place i, and the node has its pairs    *)
(* without key k once the child has lost the neighbour.                    *)
LEMMA SeparatorReplaced ==
  ASSUME NEW w, World(w), NEW n, NEW d, Fits(w, n, d), n.type = "internal",
         NEW j \in 1 .. Len(n.kvs), NEW i, NEW kv, NextTo(w, n, j, i, kv),
         NEW full, SameBut(full, n.ptr, i),
         NEW f, f.node = With(n, Put(n.kvs, j, kv), full), f.slot = i - 1
  PROVE  Frame(w, f, d, Without(PairsOf(w, n, d), n.kvs[j][1]), Without(w[n.ptr[i]].pairs, kv[1]))
<1> DEFINE kvs  == n.kvs
           more == Put(kvs, j, kv)
           ptr  == n.ptr
           N    == Len(kvs)
           k    == kvs[j][1]
           h    == Without(w[ptr[i]].pairs, kv[1])
           Others == (1 .. N + 1) \ {i}
<1>1. n \in Nodes /\ n.ok /\ d \in Nat /\ d # 0 /\ FitsBut(w, kvs, ptr, {}, d)
  <2>1. n.type # "leaf"
    OBVIOUS
  <2> QED
    BY <2>1, Zenon DEF Fits
<1>2. kvs \in Seq(KVs) /\ ptr \in Seq(Nat) /\ Len(ptr) = N + 1 /\ InOrder(kvs) /\ \A x \in 1 .. N : Small(kvs[x])
  BY <1>1, Zenon DEF FitsBut
<1>3. N \in Nat /\ d > 0 /\ d \in Nat \ {0} /\ i \in {j, j + 1} /\ i \in 1 .. N + 1 /\ i - 1 \in 0 .. N
      /\ (i - 1) + 1 = i /\ j \in 1 .. N /\ j # j + 1
  <2>1. N \in Nat /\ d > 0 /\ d \in Nat \ {0} /\ j # j + 1
    BY <1>1, <1>2
  <2>2. i \in {j, j + 1}
    BY DEF NextTo
  <2> HIDE DEF N
  <2>3. i \in 1 .. N + 1 /\ i - 1 \in 0 .. N /\ (i - 1) + 1 = i
    BY <2>1, <2>2 DEF N
  <2> QED
    BY <2>1, <2>2, <2>3 DEF N
<1>4. /\ \A x \in 1 .. N : kvs[x][1] \in Nat
      /\ \A x \in 1 .. N : x # j => kvs[x][1] # k
  <2>1. \A x \in 1 .. N : kvs[x][1] \in Nat
    BY <1>2, KeysAreNumbers
  <2>2. ASSUME NEW x \in 1 .. N, x # j PROVE kvs[x][1] # kvs[j][1]
    <3>1. x < j \/ j < x
      BY <1>3, <2>2
    <3>2. kvs[x][1] < kvs[j][1] \/ kvs[j][1] < kvs[x][1]
      BY <1>2, <3>1 DEF InOrder
    <3> QED
      BY <2>1, <3>2
  <2> QED
    BY <2>1, <2>2
<1>5. ASSUME NEW y \in 1 .. N + 1, NEW u \in w[ptr[y]].pairs
      PROVE  /\ u \in KVs /\ u[1] \in Key /\ u[1] \in Nat /\ k \in Nat
             /\ Between(kvs, y, u[1]) /\ u[1] # k
             /\ y = j => u[1] < k
             /\ y = j + 1 => k < u[1]
  BY PairsAside
<1>6. /\ kv \in w[ptr[i]].pairs /\ Small(kv)
      /\ \A u \in h : (i = j => u[1] < kv[1]) /\ (i = j + 1 => kv[1] < u[1])
  <2>1. CASE i = j
    BY <1>3, <2>1, Zenon DEF NextTo, LastOf, Without
  <2>2. CASE i = j + 1
    BY <1>3, <2>2, Zenon DEF NextTo, FirstOf, Without
  <2> QED
    BY <1>3, <2>1, <2>2
<1>7. kv \in KVs /\ Between(kvs, i, kv[1]) /\ kv[1] \in Nat /\ kv[1] # k
  BY <1>3, <1>5, <1>6
<1>8. /\ more \in Seq(KVs) /\ Len(more) = N /\ InOrder(more)
      /\ \A x \in 1 .. N : more[x] = IF x = j THEN kv ELSE kvs[x]
      /\ \A y \in 1 .. N + 1 : \A u \in Key :
              /\ Between(kvs, y, u)
              /\ y = j => u < kv[1]
              /\ y = j + 1 => kv[1] < u
              => Between(more, y, u)
  BY <1>2, <1>3, <1>7, SeparatorPlaced
<1>9. /\ full \in Seq(Nat) /\ Len(full) = N + 1 /\ \A y \in Others : full[y] = ptr[y]
  BY <1>2, Zenon DEF SameBut
<1>10. ASSUME NEW y \in Others PROVE ChildFits(w, more, y, full[y], d)
  <2>1. y \in 1 .. N + 1 /\ y # i
    OBVIOUS
  <2>2. ChildFits(w, kvs, y, ptr[y], d)
    <3>1. (1 .. Len(ptr)) \ {} = 1 .. N + 1
      BY <1>2
    <3> QED
      BY <1>1, <1>3, <2>1, <3>1, Zenon DEF FitsBut
  <2>3. ASSUME NEW u \in w[ptr[y]].pairs PROVE Between(more, y, u[1])
    <3>1. /\ u[1] \in Key /\ Between(kvs, y, u[1]) /\ u[1] \in Nat /\ k \in Nat
          /\ y = j => u[1] < k
          /\ y = j + 1 => k < u[1]
      BY <1>5, <2>1
    <3>2. (i = j => kv[1] < k) /\ (i = j + 1 => k < kv[1])
      BY <1>3, <1>5, <1>6
    <3>3. (y = j => u[1] < kv[1]) /\ (y = j + 1 => kv[1] < u[1])
      <4>1. (y = j => i = j + 1) /\ (y = j + 1 => i = j)
        BY <1>3, <2>1
      <4> QED
        BY <1>7, <3>1, <3>2, <4>1
    <3> QED
      BY <1>8, <2>1, <3>1, <3>3
  <2> HIDE DEF more, Others
  <2> QED
    BY <1>9, <2>2, <2>3, Zenon DEF ChildFits
<1>11. ASSUME NEW u \in h PROVE Between(more, i, u[1])
  <2>1. u \in w[ptr[i]].pairs
    BY DEF Without
  <2>2. u[1] \in Key /\ Between(kvs, i, u[1])
    BY <1>3, <1>5, <2>1
  <2> QED
    BY <1>3, <1>6, <1>8, <2>2
<1>12. /\ PairsOf(w, n, d) = {kvs[x] : x \in 1 .. N} \cup UNION {w[ptr[y]].pairs : y \in 1 .. N + 1}
       /\ PairsBut(w, more, full, {i}, d)
            = {more[x] : x \in 1 .. N} \cup UNION {w[full[y]].pairs : y \in Others}
  <2>1. (1 .. Len(ptr)) \ {} = 1 .. N + 1 /\ (1 .. Len(full)) \ {i} = Others
    BY <1>2, <1>9
  <2> HIDE DEF more, Others
  <2> QED
    BY <1>3, <1>8, <2>1, Zenon DEF PairsOf, PairsBut
<1>13. \A u : u \in Without(PairsOf(w, n, d), k) <=> u \in PairsBut(w, more, full, {i}, d) \cup h
  <2>1. ASSUME NEW u \in PairsOf(w, n, d), u[1] # k
        PROVE  u \in PairsBut(w, more, full, {i}, d) \cup h
    <3>1. CASE \E x \in 1 .. N : u = kvs[x]
      <4>1. PICK x \in 1 .. N : u = kvs[x]
        BY <3>1
      <4>2. u = more[x]
        BY <1>8, <2>1, <4>1
      <4> HIDE DEF more
      <4> QED
        BY <1>12, <4>2, Zenon
    <3>2. CASE \E y \in 1 .. N + 1 : u \in w[ptr[y]].pairs
      <4>1. PICK y \in 1 .. N + 1 : u \in w[ptr[y]].pairs
        BY <3>2
      <4>2. CASE y # i
        <5>1. y \in Others /\ full[y] = ptr[y]
          BY <1>9, <4>2
        <5> HIDE DEF more, Others
        <5> QED
          BY <1>12, <4>1, <5>1, Zenon
      <4>3. CASE y = i
        <5>1. CASE u[1] = kv[1]
          <6>1. kv[1] \in Nat
            BY <1>7
          <6>2. u = kv
            <7>1. CASE i = j
              <8>1. u = kv \/ u[1] < kv[1]
                BY <1>3, <4>1, <4>3, <7>1, Zenon DEF NextTo, LastOf
              <8> QED
                BY <5>1, <6>1, <8>1
            <7>2. CASE i = j + 1
              <8>1. u = kv \/ kv[1] < u[1]
                BY <1>3, <4>1, <4>3, <7>2, Zenon DEF NextTo, FirstOf
              <8> QED
                BY <5>1, <6>1, <8>1
            <7> QED
              BY <1>3, <7>1, <7>2
          <6>3. more[j] = kv
            BY <1>3, <1>8
          <6> HIDE DEF more
          <6> QED
            BY <1>3, <1>12, <6>2, <6>3, Zenon
        <5>2. CASE u[1] # kv[1]
          BY <4>1, <4>3, <5>2 DEF Without
        <5> QED
          BY <5>1, <5>2
      <4> QED
        BY <4>2, <4>3
    <3> QED
      BY <1>12, <2>1, <3>1, <3>2
  <2>2. ASSUME NEW u \in PairsBut(w, more, full, {i}, d) \cup h
        PROVE  u \in PairsOf(w, n, d) /\ u[1] # k
    <3>1. CASE \E x \in 1 .. N : u = more[x]
      <4>1. PICK x \in 1 .. N : u = more[x]
        BY <3>1
      <4>2. CASE x = j
        <5>1. u = kv
          BY <1>8, <4>1, <4>2
        <5> QED
          BY <1>3, <1>6, <1>7, <1>12, <5>1, Zenon
      <4>3. CASE x # j
        <5>1. u = kvs[x]
          BY <1>8, <4>1, <4>3
        <5> QED
          BY <1>4, <1>12, <4>3, <5>1, Zenon
      <4> QED
        BY <4>2, <4>3
    <3>2. CASE \E y \in Others : u \in w[full[y]].pairs
      <4>1. PICK y \in Others : u \in w[full[y]].pairs
        BY <3>2
      <4>2. y \in 1 .. N + 1 /\ u \in w[ptr[y]].pairs
        BY <1>9, <4>1
      <4> QED
        BY <1>5, <1>12, <4>2, Zenon
    <3>3. CASE u \in h
      <4>1. u \in w[ptr[i]].pairs
        BY <3>3 DEF Without
      <4> QED
        BY <1>3, <1>5, <1>12, <4>1, Zenon
    <3> HIDE DEF more, Others, h
    <3> QED
      BY <1>12, <2>2, <3>1, <3>2, <3>3, Zenon
  <2> HIDE DEF h, more
  <2> QED
    BY <2>1, <2>2, Zenon DEF Without
<1>14. Without(PairsOf(w, n, d), k) = PairsBut(w, more, full, {i}, d) \cup h
  BY <1>13, Zenon
<1>15. FitsBut(w, more, full, {i}, d)
  <2>1. (1 .. Len(full)) \ {i} = Others
    BY <1>9
  <2>2. \A x \in 1 .. N : Small(more[x])
    BY <1>2, <1>6, <1>8
  <2> HIDE DEF more, Others
  <2> QED
    BY <1>8, <1>9, <1>10, <2>1, <2>2, Zenon DEF FitsBut
<1>16. /\ f.node \in Nodes /\ f.node.kvs = more /\ f.node.ptr = full
       /\ f.node.type = n.type /\ f.node.ok = n.ok
  <2>1. n \in Nodes /\ more \in Seq(KVs) /\ full \in Seq(Nat)
    BY <1>1, <1>8, <1>9, Zenon
  <2>2. f.node = With(n, more, full)
    OBVIOUS
  <2> HIDE DEF more
  <2> DEFINE z == With(n, more, full)
  <2>3. z \in Nodes /\ z.kvs = more /\ z.ptr = full /\ z.type = n.type /\ z.ok = n.ok
    BY <2>1, WithIsNode, Zenon
  <2> HIDE DEF z
  <2>4. f.node = z
    BY <2>2 DEF z
  <2> QED
    BY <2>3, <2>4
<1> HIDE DEF more, h, k, N, kvs
<1>17. Frame(w, f, d, Without(PairsOf(w, n, d), k), h)
  BY <1>1, <1>3, <1>8, <1>11, <1>14, <1>15, <1>16, Zenon DEF Frame
<1> QED
  BY <1>17 DEF h, k, kvs

(* A deletion enters the child that the neighbour is deleted from.         *)
LEMMA BorrowEnters ==
  ASSUME NEW w, World(w), NEW n, NEW k, NEW goal, NEW d, NEW atRoot,
         Deleting(w, n, k, goal, d, atRoot), n.type = "internal",
         NEW j \in 1 .. Len(n.kvs), n.kvs[j][1] = k, NEW i, NEW kv, NextTo(w, n, j, i, kv),
         NEW c, c = w[n.ptr[i]].node, ~Underflow(c), NEW full, SameBut(full, n.ptr, i),
         NEW u, u = With(n, Put(n.kvs, j, kv), full),
         NEW f, f = [node |-> u, slot |-> i - 1, retire |-> FALSE]
  PROVE  DeleteEnters(w, f, d, goal, c, kv[1], Without(w[n.ptr[i]].pairs, kv[1]), atRoot)
<1>1. Fits(w, n, d) /\ goal = Without(PairsOf(w, n, d), k)
  BY Zenon DEF Deleting
<1>2. n.kvs \in Seq(KVs)
  BY <1>1, Zenon DEF Fits, FitsBut
<1>3. i \in 1 .. Len(n.kvs) + 1 /\ i - 1 \in Nat /\ Len(n.kvs) # 0
  <2>1. i = j \/ i = j + 1
    BY DEF NextTo
  <2> QED
    BY <1>2, <2>1
<1>4. Fitted(w, n, d, i, n.ptr[i], c)
  BY <1>1, <1>3, ChildFitted
<1>5. f.node = u /\ f.slot = i - 1
  OBVIOUS
<1>6. Frame(w, f, d, goal, Without(w[n.ptr[i]].pairs, kv[1]))
  BY <1>1, <1>5, SeparatorReplaced
<1>7. f \in Frames /\ f.node.kvs # << >> /\ d # 0
  <2>1. u \in Nodes
    BY <1>5, <1>6, Zenon DEF Frame
  <2>2. u.kvs = Put(n.kvs, j, kv)
    BY <1>1 DEF Fits, Nodes, With
  <2>3. Put(n.kvs, j, kv) # << >>
    <3>1. Len(Put(n.kvs, j, kv)) = Len(n.kvs)
      BY <1>2 DEF Put
    <3>2. Len(<< >>) = 0
      OBVIOUS
    <3> QED
      BY <1>3, <3>1, <3>2, Zenon
  <2>4. d # 0
    BY <1>6 DEF Frame
  <2> QED
    BY <1>3, <1>5, <2>1, <2>2, <2>3, <2>4 DEF Frames
<1>8. kv \in w[n.ptr[i]].pairs
  BY Zenon DEF NextTo, LastOf, FirstOf
<1>9. kv[1] \in Key
  <2>1. kv \in KVs
    BY <1>4, <1>8, Zenon DEF Fitted
  <2> QED
    BY <2>1 DEF KVs
<1>10. Len(c.kvs) >= 2
  <2>1. c.kvs \in Seq(KVs)
    BY <1>4, Zenon DEF Fitted, Fits, FitsBut
  <2>2. PICK N : N = Len(c.kvs)
    OBVIOUS
  <2>3. N \in Nat
    <3>1. \A s \in Seq(KVs) : Len(s) \in Nat
      OBVIOUS
    <3> QED
      BY <2>1, <2>2, <3>1, Zenon
  <2>4. ~(N <= 1)
    BY <2>2, Zenon DEF Underflow, GetNKeys
  <2> QED
    BY <2>2, <2>3, <2>4
<1>11. Deleting(w, c, kv[1], Without(w[n.ptr[i]].pairs, kv[1]), d - 1, FALSE)
  <2>1. /\ Fits(w, c, d - 1) /\ c.kvs # << >> /\ w[n.ptr[i]].pairs = PairsOf(w, c, d - 1)
    BY <1>4, Zenon DEF Fitted
  <2>2. KeyIsThere(w[n.ptr[i]].pairs, kv[1])
    BY <1>8, Zenon DEF KeyIsThere
  <2> QED
    BY <1>9, <1>10, <2>1, <2>2, Zenon DEF Deleting
<1> QED
  BY <1>6, <1>7, <1>11, Zenon DEF DeleteEnters

(* The step that borrows.                                                  *)
LEMMA BorrowKeeps ==
  ASSUME NEW w, Describes(w), pc = "delete", NEW n, n = node, n.type = "internal",
         NEW gs, NEW d, Descent(w, gs, d),
         NEW j \in 1 .. Len(n.kvs), n.kvs[j][1] = key, NEW i, NEW kv, NextTo(w, n, j, i, kv),
         NEW c, c = w[n.ptr[i]].node, ~Underflow(c), NEW full, SameBut(full, n.ptr, i),
         NEW u, u.ok => u = With(n, Put(n.kvs, j, kv), full),
         NEW slot, slot = i - 1, Borrow(c, kv, u, slot)
  PROVE  Described'
<1>1. PICK k, st : k = key /\ st = stack
  OBVIOUS
<1>2. PICK f : f = [node |-> u, slot |-> slot, retire |-> FALSE]
  OBVIOUS
<1>3. PICK r : r = Repaired(pm, u, <<GetPtr(node, slot)>>, NoError)
  OBVIOUS
<1> DEFINE Onwards == /\ node' = c /\ key' = kv[1]
                      /\ stack' = Append(stack, f)
                      /\ UNCHANGED <<pc, ret>> /\ Same
<1>4. Step(r, FALSE, Onwards)
  BY <1>2, <1>3, Zenon DEF Borrow
<1>5. Holds(pm, w)
  BY DescentFacts
<1>6. Later(w, w) /\ World(w)
  <2>1. Later(w, w)
    BY Zenon DEF Later
  <2> QED
    BY <1>5, <2>1, Zenon DEF Holds
<1>7. r.pm = pm /\ (r.err = NoError => u.ok)
  BY <1>3 DEF Repaired, NoError, Panicked
<1>8. Described' \/ (Succeeds(r) /\ Onwards)
  BY <1>4, <1>5, <1>6, <1>7, StepKeeps
<1>9. ASSUME Succeeds(r), Onwards PROVE Described'
  <2>1. u.ok /\ pm' = pm /\ root' = root
    BY <1>7, <1>9 DEF Succeeds
  <2>2. PICK goal, atRoot : goal = gs[Len(stack) + 1] /\ atRoot = (stack = << >>)
    OBVIOUS
  <2>3. Deleting(w, n, k, goal, d, atRoot)
    BY <1>1, <2>2, Zenon DEF Descent
  <2>4. f = [node |-> u, slot |-> i - 1, retire |-> FALSE]
    BY <1>2
  <2>5. u = With(n, Put(n.kvs, j, kv), full)
    BY <2>1
  <2>6. n.kvs[j][1] = k
    BY <1>1
  <2>7. PICK h : DeleteEnters(w, f, d, goal, c, kv[1], h, atRoot)
    BY <1>6, <2>3, <2>4, <2>5, <2>6, BorrowEnters
  <2>8. /\ node' = c /\ stack' = Append(stack, f) /\ pc' = "delete" /\ key' = kv[1] /\ todo' = todo
        /\ base' = base
    BY <1>9 DEF Same
  <2>9. Holds(pm', w)
    BY <1>5, <2>1
  <2>10. DeleteEnters(w, f, d, gs[Len(stack) + 1], c, kv[1], h, stack = << >>)
    BY <2>2, <2>7
  <2> QED
    BY <1>6, <2>1, <2>8, <2>9, <2>10, DeletionGoesDown
<1> QED
  BY <1>8, <1>9

-----------------------------------------------------------------------------
(* A merge that does not panic has read both children.                     *)
LEMMA MergeReads ==
  ASSUME NEW m, NEW n, NEW i, NEW s, s = MergeChildren(m, n, i), Safe(s)
  PROVE  LoadAsNode(m, GetPtr(n, i + 1)).ok
<1> DEFINE right == LoadAsNode(m, GetPtr(n, i + 1))
<1>1. CASE ~right.ok
  <2>1. \A z, q, e : Repaired(z, q, e, Failed(m, Panicked).err).err = Panicked
    BY DEF Repaired, Failed, Panicked
  <2>2. s.err = Panicked
    BY <1>1, <2>1, Zenon DEF MergeChildren
  <2> QED
    BY <2>2 DEF Safe
<1> QED
  BY <1>1

(* Two children merged around the key of a deletion: the deletion goes on  *)
(* at the same node, and the key is below it now, in a child with pairs to *)
(* spare.                                                                  *)
LEMMA MergeGoesOn ==
  ASSUME NEW m, NEW w, Holds(m, w), NEW n, NEW k, NEW goal, NEW d, NEW atRoot,
         Deleting(w, n, k, goal, d, atRoot), n.type = "internal",
         NEW j \in 1 .. Len(n.kvs), n.kvs[j][1] = k,
         NEW i, i = j - 1, NEW s, s = MergeChildren(m, n, i), Safe(s)
  PROVE  \E x : /\ Later(w, x) /\ Holds(s.pm, x)
                /\ s.err = NoError => Deleting(x, s.node, k, goal, d, atRoot)
<1>1. /\ Fits(w, n, d) /\ k \in Key /\ goal = Without(PairsOf(w, n, d), k)
      /\ KeyIsThere(PairsOf(w, n, d), k)
      /\ ~atRoot => Len(n.kvs) >= 2 \/ Spare(w, n, k)
  BY Zenon DEF Deleting
<1>2. n.kvs \in Seq(KVs) /\ InOrder(n.kvs)
  BY <1>1, Zenon DEF Fits, FitsBut
<1>3. i \in 0 .. Len(n.kvs) - 1 /\ i + 1 = j /\ i \in 0 .. Len(n.kvs) /\ i + 1 \in 0 .. Len(n.kvs)
      /\ j \in 1 .. Len(n.kvs) + 1 /\ j + 1 \in 1 .. Len(n.kvs) + 1
  BY <1>2
<1>4. PICK l, r : l = w[n.ptr[i + 1]].node /\ r = w[n.ptr[(i + 1) + 1]].node
  OBVIOUS
<1>5. World(w)
  BY Zenon DEF Holds
<1>6. /\ l.ok /\ l.kvs \in Seq(KVs) /\ l.kvs # << >>
      /\ r.kvs \in Seq(KVs) /\ r.kvs # << >>
  <2>1. Fitted(w, n, d, j, n.ptr[j], l) /\ Fitted(w, n, d, j + 1, n.ptr[j + 1], r)
    BY <1>1, <1>3, <1>4, <1>5, ChildFitted
  <2> QED
    BY <2>1, Zenon DEF Fitted, Fits, FitsBut
<1>7. LoadAsNode(m, GetPtr(n, i)).ok
  <2>1. LoadAsNode(m, GetPtr(n, i + 1)).ok
    BY MergeReads
  <2>2. LoadAsNode(m, GetPtr(n, i)) = l
    BY <1>1, <1>3, <1>4, <2>1, ChildrenHeld
  <2> QED
    BY <1>6, <2>2
<1>8. PICK x : KeepsPairs(s, w, x, n, d) /\ (s.err = NoError => MergedTo(s, x, n, i + 1, l, r))
  BY <1>1, <1>3, <1>4, <1>7, MergeChildrenKeepsPairs
<1>9. Later(w, x) /\ Holds(s.pm, x)
  BY <1>8, Zenon DEF KeepsPairs
<1>10. ASSUME s.err = NoError PROVE Deleting(x, s.node, k, goal, d, atRoot)
  <2> DEFINE v == s.node
  <2>1. Fits(x, v, d) /\ PairsOf(x, v, d) = PairsOf(w, n, d)
    BY <1>8, <1>10, Zenon DEF KeepsPairs
  <2>2. v.kvs \in Seq(KVs) /\ InOrder(v.kvs) /\ v.type = "internal"
    <3>1. d # 0
      BY <1>1, Zenon DEF Fits
    <3>2. v \in Nodes /\ (v.type = "leaf" <=> d = 0) /\ v.kvs \in Seq(KVs) /\ InOrder(v.kvs)
      BY <2>1, Zenon DEF Fits, FitsBut
    <3>3. v.type \in {"leaf", "internal"}
      BY <3>2 DEF Nodes
    <3> QED
      BY <3>1, <3>2, <3>3, Zenon
  <2>3. /\ Len(v.kvs) = Len(n.kvs) - 1 /\ v.kvs = RemoveAt(n.kvs, j)
        /\ Len(x[v.ptr[j]].node.kvs) = Len(l.kvs) + Len(r.kvs) + 1
    BY <1>3, <1>8, <1>10, Zenon DEF MergedTo
  <2>4. FindIndex(v, k) = j - 1 /\ ~HasKey(v.kvs, k)
    <3>1. CutAt(n.kvs, v.kvs, j)
      BY <1>2, <2>3, KeysAreNumbers, CutByRemoving
    <3>2. Between(v.kvs, j, k)
      BY <1>1, <1>2, <3>1, BetweenBesidePair
    <3>3. j \in 1 .. Len(v.kvs) + 1
      BY <1>2, <2>3
    <3> QED
      BY <1>1, <2>2, <3>2, <3>3, BetweenIndex
  <2>5. Len(x[GetPtr(v, FindIndex(v, k))].node.kvs) >= 2
    <3>1. PICK L, R : L = Len(l.kvs) /\ R = Len(r.kvs)
      OBVIOUS
    <3>2. L \in Nat /\ R \in Nat /\ L # 0 /\ R # 0
      <4>1. \A t \in Seq(KVs) : t # << >> => Len(t) \in Nat /\ Len(t) # 0
        OBVIOUS
      <4> QED
        BY <1>6, <3>1, <4>1, Zenon
    <3>3. L + R + 1 >= 2
      BY <3>2
    <3>4. GetPtr(v, FindIndex(v, k)) = v.ptr[j]
      <4>1. (j - 1) + 1 = j
        BY <1>2
      <4> QED
        BY <2>4, <4>1, Zenon DEF GetPtr
    <3> QED
      BY <2>3, <3>1, <3>3, <3>4, Zenon
  <2>6. Spare(x, v, k)
    BY <2>2, <2>4, <2>5, Zenon DEF Spare
  <2>7. ~atRoot => v.kvs # << >>
    <3> SUFFICES ASSUME ~atRoot PROVE v.kvs # << >>
      OBVIOUS
    <3>1. HasKey(n.kvs, k)
      BY DEF HasKey
    <3>2. Len(n.kvs) >= 2
      BY <1>1, <3>1, Zenon DEF Spare
    <3>3. Len(v.kvs) # 0
      <4>1. PICK N : N = Len(n.kvs)
        OBVIOUS
      <4>2. N \in Nat
        BY <1>2, <4>1
      <4>3. N >= 2 /\ Len(v.kvs) = N - 1
        BY <2>3, <3>2, <4>1
      <4> QED
        BY <4>2, <4>3
    <3>4. Len(<< >>) = 0
      OBVIOUS
    <3> QED
      BY <3>3, <3>4, Zenon
  <2> QED
    BY <1>1, <2>1, <2>6, <2>7, Zenon DEF Deleting
<1> QED
  BY <1>9, <1>10

(* UpdateKV, with a pair that comes next to the one it replaces.           *)
LEMMA SeparatorUpdated ==
  ASSUME NEW w, World(w), NEW n, NEW d, Fits(w, n, d), n.type = "internal",
         NEW j \in 1 .. Len(n.kvs), NEW i, NEW kv, NextTo(w, n, j, i, kv), NEW h, h = j - 1
  PROVE  LET u == UpdateKV(n, h, kv)
         IN /\ u.ok => u = With(n, Put(n.kvs, j, kv), Put(n.ptr, j, 0))
            /\ SetPtr(u, h, GetPtr(n, h)).ok =>
                 SetPtr(u, h, GetPtr(n, h)) = With(n, Put(n.kvs, j, kv), Put(Put(n.ptr, j, 0), j, n.ptr[j]))
<1> DEFINE u == UpdateKV(n, h, kv)
<1>1. /\ n \in Nodes /\ n.kvs \in Seq(KVs) /\ n.ptr \in Seq(Nat) /\ Len(n.ptr) = Len(n.kvs) + 1
      /\ InOrder(n.kvs)
  BY Zenon DEF Fits, FitsBut
<1>2. IsNode(n)
  BY <1>1, Zenon DEF IsNode
<1>3. i \in 1 .. Len(n.kvs) + 1 /\ h \in 0 .. Len(n.kvs) - 1 /\ h + 1 = j /\ i \in {j, j + 1}
  <2>1. i = j \/ i = j + 1
    BY DEF NextTo
  <2> QED
    BY <1>1, <2>1
<1>4. kv \in w[n.ptr[i]].pairs
  BY Zenon DEF NextTo, LastOf, FirstOf
<1>5. kv \in KVs /\ kv[1] \in Key /\ Between(n.kvs, i, kv[1])
  BY <1>3, <1>4, PairsAside
<1>6. /\ \A x \in 1 .. Len(n.kvs) : x < i => n.kvs[x][1] < kv[1]
      /\ \A x \in 1 .. Len(n.kvs) : x >= i => kv[1] < n.kvs[x][1]
  BY <1>1, <1>3, <1>5, Placed
<1>7. \A x \in 1 .. h : n.kvs[x][1] < kv[1]
  <2>1. \A x \in 1 .. h : x \in 1 .. Len(n.kvs) /\ x < i
    BY <1>1, <1>3
  <2> QED
    BY <1>6, <2>1
<1>8. h + 1 < Len(n.kvs) => kv[1] <= n.kvs[h + 2][1]
  <2> SUFFICES ASSUME h + 1 < Len(n.kvs) PROVE kv[1] <= n.kvs[h + 2][1]
    OBVIOUS
  <2>1. h + 2 \in 1 .. Len(n.kvs) /\ h + 2 >= i
    BY <1>1, <1>3
  <2>2. n.kvs[h + 2][1] \in Nat /\ kv[1] \in Nat
    BY <1>1, <1>5, <2>1, KeysAreNumbers, NodeAssumption
  <2> QED
    BY <1>6, <2>1, <2>2
<1>9. u.ok => u = With(n, Put(n.kvs, j, kv), Put(n.ptr, j, 0))
  <2> SUFFICES ASSUME u.ok PROVE u = With(n, Put(n.kvs, j, kv), Put(n.ptr, j, 0))
    OBVIOUS
  <2>1. u = With(n, [n.kvs EXCEPT ![h + 1] = kv], [n.ptr EXCEPT ![h + 1] = 0])
    BY <1>2, <1>3, <1>5, <1>7, <1>8, UpdateKVAt
  <2> QED
    BY <1>3, <2>1, Zenon DEF Put
<1>10. SetPtr(u, h, GetPtr(n, h)).ok => u.ok
  <2>1. "ok" \in DOMAIN u
    BY <1>1 DEF UpdateKV, DeleteKV, InsertKV, Nodes
  <2> HIDE DEF u
  <2>2. SetPtr(u, h, GetPtr(n, h)).ok = u.ok
    BY <2>1 DEF SetPtr
  <2> QED
    BY <2>2
<1>11. ASSUME u.ok
       PROVE  SetPtr(u, h, GetPtr(n, h)) = With(n, Put(n.kvs, j, kv), Put(Put(n.ptr, j, 0), j, n.ptr[j]))
  <2>1. u = With(n, Put(n.kvs, j, kv), Put(n.ptr, j, 0))
    BY <1>9, <1>11
  <2> HIDE DEF u
  <2>2. SetPtr(With(n, Put(n.kvs, j, kv), Put(n.ptr, j, 0)), h, GetPtr(n, h))
          = With(n, Put(n.kvs, j, kv), [Put(n.ptr, j, 0) EXCEPT ![h + 1] = GetPtr(n, h)])
    BY <1>1, SetPtrWith
  <2> QED
    BY <1>3, <2>1, <2>2, Zenon DEF Put, GetPtr
<1> QED
  BY <1>9, <1>10, <1>11

(* The pointers of the node after it.                                      *)
LEMMA PointersUpdated ==
  ASSUME NEW s \in Seq(Nat), NEW j \in 1 .. Len(s) - 1
  PROVE  SameBut(Put(s, j, 0), s, j) /\ SameBut(Put(Put(s, j, 0), j, s[j]), s, j + 1)
<1>1. j \in 1 .. Len(s) /\ j + 1 \in 1 .. Len(s) /\ s[j] \in Nat
  OBVIOUS
<1>2. Put(s, j, 0) \in Seq(Nat) /\ Len(Put(s, j, 0)) = Len(s)
      /\ \A x \in 1 .. Len(s) : Put(s, j, 0)[x] = IF x = j THEN 0 ELSE s[x]
  BY <1>1 DEF Put
<1>3. \A t \in Seq(Nat) : Len(t) = Len(s) =>
        /\ Put(t, j, s[j]) \in Seq(Nat) /\ Len(Put(t, j, s[j])) = Len(s)
        /\ \A x \in 1 .. Len(s) : Put(t, j, s[j])[x] = IF x = j THEN s[j] ELSE t[x]
  BY <1>1 DEF Put
<1> QED
  BY <1>1, <1>2, <1>3 DEF SameBut

(* deleteKeyFromInternal.                                                  *)
LEMMA DeleteKeyFromInternalKeeps ==
  ASSUME NEW w, Describes(w), DeleteKeyFromInternal
  PROVE  Described'
<1>1. pc = "delete" /\ node.type = "internal" /\ ContainsKey(node, key)
  BY Zenon DEF DeleteKeyFromInternal
<1>2. PICK n, k, i : n = node /\ k = key /\ i = FindIndex(n, k)
  OBVIOUS
<1>3. PICK left, right : /\ left = LoadAsNode(pm, GetPtr(n, i))
                         /\ right = LoadAsNode(pm, GetPtr(n, i + 1))
  OBVIOUS
<1>4. PICK pred, succ, s : /\ pred = InorderPredecessor(pm, left)
                           /\ succ = InorderSuccessor(pm, right)
                           /\ s = MergeChildren(pm, n, i)
  OBVIOUS
<1> DEFINE Onwards == node' = s.node /\ UNCHANGED <<pc, key, stack, ret>> /\ Same
           Lends(c) == c.ok /\ ~Underflow(c)
<1>5. \/ Lends(left) /\ Borrow(left, pred, UpdateKV(n, i, pred), i)
      \/ Lends(right) /\ Borrow(right, succ, SetPtr(UpdateKV(n, i, succ), i, GetPtr(n, i)), i + 1)
      \/ Step(s, FALSE, Onwards)
  BY <1>2, <1>3, <1>4, Zenon DEF DeleteKeyFromInternal
<1>6. Holds(pm, w) /\ todo \in Seq(Request) /\ todo # << >>
  BY <1>1, DescentFacts
<1>7. PICK gs, d : Descent(w, gs, d)
  BY <1>1, DescentFacts
<1>8. PICK goal, atRoot : goal = gs[Len(stack) + 1] /\ atRoot = (stack = << >>)
  OBVIOUS
<1>9. /\ Waiting(w, stack, Head(todo).op, gs, d) /\ Proper(gs[1], Tail(todo))
      /\ Head(todo).op = "delete" /\ Deleting(w, n, k, goal, d, atRoot)
  BY <1>1, <1>2, <1>7, <1>8, Zenon DEF Descent
<1>10. /\ Fits(w, n, d) /\ n.type = "internal" /\ World(w)
  BY <1>1, <1>2, <1>6, <1>9, Zenon DEF Deleting, Holds
<1>11. n.kvs \in Seq(KVs) /\ n.ptr \in Seq(Nat) /\ Len(n.ptr) = Len(n.kvs) + 1
  BY <1>10, Zenon DEF Fits, FitsBut
<1>12. PICK j : j = i + 1
  OBVIOUS
<1>13. j \in 1 .. Len(n.kvs) /\ n.kvs[j][1] = k /\ i = j - 1 /\ i + 1 = (j + 1) - 1
       /\ j \in 1 .. Len(n.kvs) + 1 /\ j + 1 \in 1 .. Len(n.kvs) + 1 /\ j \in 1 .. Len(n.ptr) - 1
  <2>1. i \in 0 .. Len(n.kvs)
    BY <1>2, <1>11, FindIndexIsFirst DEF KVs
  <2>2. i < Len(n.kvs) /\ n.kvs[i + 1][1] = k
    BY <1>1, <1>2, Zenon DEF ContainsKey, GetNKeys, GetKV
  <2>3. PICK N \in Nat : N = Len(n.kvs) /\ Len(n.ptr) = N + 1
    BY <1>11
  <2>4. /\ j \in 1 .. N /\ i = j - 1 /\ i + 1 = (j + 1) - 1
        /\ j \in 1 .. N + 1 /\ j + 1 \in 1 .. N + 1 /\ j \in 1 .. (N + 1) - 1
    BY <1>12, <2>1, <2>2, <2>3
  <2>5. n.kvs[j][1] = k
    BY <1>12, <2>2, Zenon
  <2> QED
    BY <2>3, <2>4, <2>5, Zenon
<1>14. /\ Fitted(w, n, d, j, n.ptr[j], w[n.ptr[j]].node)
       /\ Fitted(w, n, d, j + 1, n.ptr[j + 1], w[n.ptr[j + 1]].node)
  BY <1>10, <1>13, ChildFitted
<1>15. GetPtr(n, i) = n.ptr[j] /\ GetPtr(n, i + 1) = n.ptr[j + 1]
  BY <1>12, Zenon DEF GetPtr
<1>16. SameBut(Put(n.ptr, j, 0), n.ptr, j) /\ SameBut(Put(Put(n.ptr, j, 0), j, n.ptr[j]), n.ptr, j + 1)
  BY <1>11, <1>13, PointersUpdated
<1>17. ASSUME Lends(left), Borrow(left, pred, UpdateKV(n, i, pred), i)
       PROVE  Described'
  <2>1. left = w[n.ptr[j]].node
    <3>1. n.ptr[j] \in DOMAIN w
      BY <1>14, Zenon DEF Fitted
    <3> QED
      BY <1>3, <1>6, <1>15, <1>17, <3>1, LoadHeld
  <2>2. Fits(w, left, d - 1) /\ left.kvs # << >> /\ PairsOf(w, left, d - 1) = w[n.ptr[j]].pairs
    BY <1>14, <2>1, Zenon DEF Fitted
  <2>3. LastOf(pred, PairsOf(w, left, d - 1))
    BY <1>4, <1>6, <2>2, NeighboursAreEnds
  <2>4. NextTo(w, n, j, j, pred)
    BY <2>2, <2>3 DEF NextTo
  <2>5. UpdateKV(n, i, pred).ok =>
          UpdateKV(n, i, pred) = With(n, Put(n.kvs, j, pred), Put(n.ptr, j, 0))
    BY <1>10, <1>13, <2>4, SeparatorUpdated
  <2>6. n.kvs[j][1] = key /\ ~Underflow(left)
    BY <1>2, <1>13, <1>17
  <2> QED
    BY <1>1, <1>2, <1>7, <1>10, <1>13, <1>16, <1>17, <2>1, <2>4, <2>5, <2>6, BorrowKeeps
<1>18. ASSUME Lends(right), Borrow(right, succ, SetPtr(UpdateKV(n, i, succ), i, GetPtr(n, i)), i + 1)
       PROVE  Described'
  <2>1. right = w[n.ptr[j + 1]].node
    <3>1. n.ptr[j + 1] \in DOMAIN w
      BY <1>14, Zenon DEF Fitted
    <3> QED
      BY <1>3, <1>6, <1>15, <1>18, <3>1, LoadHeld
  <2>2. Fits(w, right, d - 1) /\ right.kvs # << >> /\ PairsOf(w, right, d - 1) = w[n.ptr[j + 1]].pairs
    BY <1>14, <2>1, Zenon DEF Fitted
  <2>3. FirstOf(succ, PairsOf(w, right, d - 1))
    BY <1>4, <1>6, <2>2, NeighboursAreEnds
  <2>4. NextTo(w, n, j, j + 1, succ)
    BY <2>2, <2>3 DEF NextTo
  <2>5. PICK u : u = SetPtr(UpdateKV(n, i, succ), i, GetPtr(n, i))
    OBVIOUS
  <2>6. u.ok => u = With(n, Put(n.kvs, j, succ), Put(Put(n.ptr, j, 0), j, n.ptr[j]))
    BY <1>10, <1>13, <2>4, <2>5, SeparatorUpdated
  <2>7. n.kvs[j][1] = key /\ ~Underflow(right) /\ Borrow(right, succ, u, i + 1)
    BY <1>2, <1>13, <1>18, <2>5
  <2> QED
    BY <1>1, <1>2, <1>7, <1>10, <1>13, <1>16, <2>1, <2>4, <2>6, <2>7, BorrowKeeps
<1>19. ASSUME Step(s, FALSE, Onwards)
       PROVE  Described'
  <2>1. ASSUME Safe(s)
        PROVE  \E x : /\ Later(w, x) /\ Holds(s.pm, x)
                      /\ s.err = NoError => Deleting(x, s.node, k, goal, d, atRoot)
    BY <1>4, <1>6, <1>9, <1>10, <1>13, <2>1, MergeGoesOn
  <2>2. Described' \/ (Succeeds(s) /\ Onwards)
    BY <1>6, <1>19, <2>1, StepKeeps
  <2>3. ASSUME Succeeds(s), Onwards PROVE Described'
    <3>1. Safe(s) /\ s.err = NoError /\ pm' = s.pm /\ root' = root
      BY <2>3 DEF Succeeds
    <3>2. PICK x : /\ Later(w, x) /\ Holds(s.pm, x)
                   /\ Deleting(x, s.node, k, goal, d, atRoot)
      BY <2>1, <3>1
    <3>3. Waiting(x, stack, Head(todo).op, gs, d)
      BY <1>9, <3>2, WaitingLater
    <3>4. /\ node' = s.node /\ stack' = stack /\ pc' = "delete" /\ key' = k /\ todo' = todo
          /\ base' = base
      BY <1>1, <1>2, <2>3 DEF Same
    <3>5. Descent(x, gs, d)'
      <4>1. Waiting(x, stack', Head(todo').op, gs, d) /\ Proper(gs[1], Tail(todo'))
        BY <1>9, <3>3, <3>4
      <4>2. Head(todo').op = "delete" /\ Deleting(x, node', key', gs[Len(stack') + 1], d, stack' = << >>)
        BY <1>8, <1>9, <3>2, <3>4
      <4>3. pc' # "insert" /\ pc' # "return"
        BY <3>4
      <4>4. Aims(x, gs[1])'
        <5>1. Aims(w, gs[1])
          BY <1>7, Zenon DEF Descent
        <5> QED
          BY <3>2, <3>4, <5>1, AimsLater
      <4> QED
        BY <4>1, <4>2, <4>3, <4>4, Zenon DEF Descent
    <3> QED
      BY <1>1, <3>1, <3>2, <3>4, <3>5, DescentNext
  <2> QED
    BY <2>2, <2>3
<1> QED
  BY <1>5, <1>17, <1>18, <1>19

-----------------------------------------------------------------------------
(* The pages and the mapping of a new store.                               *)
LEMMA OpensEmpty ==
  ASSUME Init
  PROVE  pm.page = [p \in PageNums |-> NewNode] /\ Mapped(pm)
<1> DEFINE file == NewFile(NewNode)
           m == NewPageManager(file)
           a == Allocate(m)
           b == Allocate(a.pm)
<1>1. pm = LoadOrCreateRoot(m).pm /\ LoadOrCreateRoot(m).err = NoError
  BY DEF Init, InitWith
<1>2. /\ Shaped(m) /\ Plain(m) /\ m.cur = 0 /\ m.end = 0 /\ m.mapped = 0
      /\ m.page = [p \in PageNums |-> NewNode]
  <2>1. /\ file.cur = 0 /\ file.end = 0 /\ file.mapped = 0 /\ file.flen = 0
        /\ file.root = 0 /\ file.free = << >> /\ file.page = [p \in PageNums |-> NewNode]
        /\ Plain(file)
    BY DEF NewFile, Plain
  <2>2. m = [file EXCEPT !.cur = 0, !.end = 0, !.mapped = 0]
    BY DEF NewPageManager
  <2> HIDE DEF file, m
  <2>3. /\ m.cur = 0 /\ m.end = 0 /\ m.mapped = 0 /\ m.free = << >> /\ Plain(m)
        /\ m.page = [p \in PageNums |-> NewNode]
    BY <2>1, <2>2 DEF Plain
  <2>4. m.page = [p \in PageNums |-> m.page[p]] /\ IsList(m.free)
    BY <2>3, ShortLists
  <2> QED
    BY <2>3, <2>4, Zenon DEF Shaped, Plain
<1>3. LoadOrCreateRoot(m) = IF a.err = NoError THEN b ELSE a
  BY <1>2 DEF LoadOrCreateRoot, ReadsEOF
<1> HIDE DEF m
<1>4. Shaped(a.pm) /\ a.pm.page = m.page /\ Plain(a.pm) /\ Mapped(a.pm)
  <2>1. Mapped(m)
    BY <1>2 DEF Mapped
  <2> QED
    BY <1>2, <2>1, AllocateAllocates, AllocateMaps DEF Allocated
<1>5. b.pm.page = m.page /\ Mapped(b.pm)
  BY <1>4, AllocateAllocates, AllocateMaps DEF Allocated
<1> HIDE DEF a, b
<1> QED
  BY <1>1, <1>2, <1>3, <1>4, <1>5

(* What is known of an empty leaf.                                         *)
LEMMA EmptyLeafFits ==
  ASSUME NEW w
  PROVE  Fits(w, NewNode, 0) /\ PairsOf(w, NewNode, 0) = {}
<1>1. /\ NewNode.type = "leaf" /\ NewNode.kvs = << >> /\ NewNode.ptr = <<0>> /\ NewNode.ok = TRUE
      /\ NewNode.ok
  BY DEF NewNode
<1>2. /\ << >> \in Seq(KVs) /\ Len(<< >>) = 0 /\ <<0>> \in Seq(Nat) /\ Len(<<0>>) = 1
      /\ \A x \in 1 .. 1 : <<0>>[x] = 0
  OBVIOUS
<1>3. NewNode \in Nodes
  BY <1>2 DEF NewNode, Nodes, KVs
<1>4. Nils(<<0>>)
  BY <1>2 DEF Nils
<1>5. 0 \in Nat /\ ~(0 > 0) /\ 1 .. 0 = {} /\ 1 = 0 + 1
  OBVIOUS
<1>6. InOrder(<< >>)
  BY <1>2, <1>5 DEF InOrder
<1>7. FitsBut(w, << >>, <<0>>, {}, 0) /\ PairsBut(w, << >>, <<0>>, {}, 0) = {}
  BY <1>2, <1>5, <1>6, Zenon DEF FitsBut, PairsBut
<1> QED
  BY <1>1, <1>3, <1>4, <1>5, <1>7 DEF Fits, PairsOf

(* A new store is one empty leaf.                                          *)
LEMMA InitDescribed ==
  ASSUME Init, Cow!IInv
  PROVE  Described
<1>1. pm.page = [p \in PageNums |-> NewNode] /\ Mapped(pm)
  BY OpensEmpty
<1>2. Cow!WellFormed(pm) /\ PageOwned(pm, root)
  <2>1. /\ Cow!WellFormed(pm) /\ root \in Live
        /\ \A p \in Live : p \in 1 .. pm.cur - 1 /\ p \notin Range(pm.free)
    BY DEF Cow!IInv, Cow!LiveNotAllocatable, Cow!MasterNamesLiveRoot, Cow!Range, Range
  <2> QED
    BY <2>1, Zenon DEF PageOwned
<1>3. pm.page[root] = NewNode
  <2>1. root \in PageNums
    BY <1>2, WellFormedMeans, Zenon DEF PageOwned
  <2> QED
    BY <1>1, <2>1
<1> DEFINE w == [p \in {root} |-> [node |-> NewNode, pairs |-> {}, depth |-> 0]]
<1>4. /\ DOMAIN w = {root} /\ w[root].node = NewNode /\ w[root].pairs = {} /\ w[root].depth = 0
  OBVIOUS
<1> HIDE DEF w
<1>5. World(w)
  <2>1. Functional({}) /\ {} \subseteq KVs
    BY DEF Functional
  <2>2. Fits(w, NewNode, 0) /\ PairsOf(w, NewNode, 0) = {}
    BY EmptyLeafFits
  <2> QED
    BY <1>4, <2>1, <2>2 DEF World
<1>6. Holds(pm, w)
  BY <1>1, <1>2, <1>3, <1>4, <1>5 DEF Holds
<1>7. Rooted(w, root)
  BY <1>4 DEF Rooted, NewNode
<1>8. pc = "idle" /\ stack = << >>
  BY DEF Init
<1>9. Describes(w)
  BY <1>6, <1>7, <1>8 DEF Describes
<1> QED
  BY <1>9 DEF Described

-----------------------------------------------------------------------------
(* The requests that a call may make are proper.                           *)
LEMMA DisciplinedProper ==
  ASSUME InsertFresh, NEW K, NEW rs, Disciplined(KeysOf(K), rs)
  PROVE  Proper(K, rs)
  BY Zenon DEF Disciplined, Proper

(* A call, however the calls before it ended.                              *)
LEMMA InvokeKeeps ==
  ASSUME InsertFresh, made \in Nat, NEW w, Describes(w), Invoke
  PROVE  Described'
<1>1. PICK c \in Offered : call' = c.reqs /\ todo' = c.reqs /\ direct' = c.direct
  BY Zenon DEF Invoke
<1>2. /\ pc = "idle" /\ pc' = "start" /\ base' = root /\ pm' = pm /\ root' = root /\ stack' = stack
  BY DEF Invoke, tree, level
<1>3. made + 1 \in 1 .. Len(Workload) /\ c \in Workload[made + 1] /\ Disciplined(Present, c.reqs)
  <2>1. made < Len(Workload) /\ c \in Workload[made + 1] /\ Disciplined(Present, c.reqs)
    BY <1>1 DEF Offered
  <2>2. Len(Workload) \in Nat
    BY WorkloadAssumption
  <2> QED
    BY <2>1, <2>2
<1>4. c.reqs \in Seq(Request) /\ c.reqs # << >>
  <2>1. c \in [direct : BOOLEAN, reqs : Seq(Request) \ {<< >>}]
    BY <1>3, WorkloadAssumption
  <2> QED
    BY <2>1
<1>5. Holds(pm, w) /\ Rooted(w, root) /\ stack = << >>
  BY <1>2 DEF Describes
<1>6. Present = KeysOf(w[root].pairs)
  <2>1. Contents(pm, root) = MapOf(w[root].pairs) /\ w[root].pairs \subseteq KVs
        /\ Functional(w[root].pairs)
    BY <1>5, ContentsBelow DEF Rooted
  <2>2. \A k : k \in DOMAIN MapOf(w[root].pairs) <=> \E kv \in w[root].pairs : kv[1] = k
    BY <2>1, MapOfPairs
  <2>3. \A k : k \in Present <=> k \in KeysOf(w[root].pairs)
    BY <2>1, <2>2, Zenon DEF Present, KeysOf
  <2>4. Present = DOMAIN MapOf(w[root].pairs)
    BY <2>1, Zenon DEF Present
  <2>5. DOMAIN MapOf(w[root].pairs) = KeysOf(w[root].pairs)
    BY Zenon DEF MapOf, KeysOf
  <2> QED
    BY <2>4, <2>5
<1>7. Proper(w[root].pairs, c.reqs)
  BY <1>3, <1>6, DisciplinedProper
<1>8. GoesOn(w, root, c.reqs)
  BY <1>5, <1>7, Zenon DEF GoesOn
<1>9. Describes(w)'
  BY <1>1, <1>2, <1>4, <1>5, <1>8 DEF Describes
<1> QED
  BY <1>9 DEF Described

-----------------------------------------------------------------------------
(* Calls are only counted.                                                 *)
LEMMA CallsCounted ==
  ASSUME made \in Nat, [Next]_vars
  PROVE  made' \in Nat
<1>1. CASE UNCHANGED vars
  BY <1>1 DEF vars
<1>2. CASE Invoke
  BY <1>2 DEF Invoke
<1>3. ASSUME NEW r, NEW dropped, NEW ACTION then, Step(r, dropped, then)
      PROVE  made' = made
  BY <1>3, Zenon DEF Step, Break, Keep
<1>4. \A r : Keep(r) => made' = made
  BY Zenon DEF Keep
<1>5. CASE StartInsert
  BY <1>3, <1>4, <1>5, Zenon DEF StartInsert
<1>6. CASE InsertIntoInternal \/ InsertIntoLeaf
  BY <1>3, <1>6, Zenon DEF InsertIntoInternal, InsertIntoLeaf
<1>7. CASE StartDelete \/ DeleteFromLeaf
  BY <1>3, <1>7, Zenon DEF StartDelete, DeleteFromLeaf
<1>8. CASE DeleteFromInternal
  BY <1>3, <1>8, Zenon DEF DeleteFromInternal
<1>9. CASE DeleteKeyFromInternal
  BY <1>3, <1>9, Zenon DEF DeleteKeyFromInternal, Borrow
<1>10. CASE PropagateUp \/ Finish
  BY <1>3, <1>10, Zenon DEF PropagateUp, Finish
<1>11. CASE NextRequest \/ Fsync \/ Barrier2 \/ Stopped
  BY <1>11 DEF NextRequest, Fsync, Barrier2, Stopped, vars
<1>12. CASE Commit
  BY <1>12 DEF Commit, Break
<1> QED
  BY <1>1, <1>2, <1>5, <1>6, <1>7, <1>8, <1>9, <1>10, <1>11, <1>12, Zenon DEF Next, Serve

(* Every step keeps the description of the pages; a commit, if it commits  *)
(* nothing that is free.                                                   *)
LEMMA NextDescribed ==
  ASSUME InsertFresh, RoomForThree, made \in Nat, Described, [Next]_vars, Commit => Cow!IInv'
  PROVE  Described'
<1>1. PICK w : Describes(w)
  BY Zenon DEF Described
<1>2. CASE UNCHANGED vars
  <2>1. Describes(w)'
    BY <1>1, <1>2, DescribesStutter
  <2> QED
    BY <2>1 DEF Described
<1>3. CASE Invoke
  BY <1>1, <1>3, InvokeKeeps
<1>4. CASE StartInsert
  BY <1>1, <1>4, StartInsertKeeps
<1>5. CASE InsertIntoInternal
  BY <1>1, <1>5, InsertIntoInternalKeeps
<1>6. CASE InsertIntoLeaf
  BY <1>1, <1>6, InsertIntoLeafKeeps
<1>7. CASE StartDelete
  BY <1>1, <1>7, StartDeleteKeeps
<1>8. CASE DeleteFromInternal
  BY <1>1, <1>8, DeleteFromInternalKeeps
<1>9. CASE DeleteKeyFromInternal
  BY <1>1, <1>9, DeleteKeyFromInternalKeeps
<1>10. CASE DeleteFromLeaf
  BY <1>1, <1>10, DeleteFromLeafKeeps
<1>11. CASE PropagateUp
  BY <1>1, <1>11, PropagateUpKeeps
<1>12. CASE Finish
  BY <1>1, <1>12, FinishKeeps
<1>13. CASE NextRequest \/ Fsync \/ Barrier2 \/ Stopped
  BY <1>1, <1>13, IdleStepKeeps
<1>14. CASE Commit
  BY <1>1, <1>14, CommitDescribed
<1> QED
  BY <1>2, <1>3, <1>4, <1>5, <1>6, <1>7, <1>8, <1>9, <1>10, <1>11, <1>12, <1>13, <1>14, Zenon
     DEF Next, Serve

(* The callers insert only absent keys, and a page has room: with that,    *)
(* the inductive invariant.                                                *)
DInv == InsertFresh /\ RoomForThree /\ made \in Nat /\ Described

(* It is one, of every behaviour that keeps the copy-on-write discipline.  *)
LEMMA AlwaysDescribed ==
  InsertFresh /\ RoomForThree /\ Spec /\ CowImplemented => []DInv
<1>1. InsertFresh /\ RoomForThree /\ Init /\ Cow!IInv => DInv
  <2>1. Init => made \in Nat
    BY DEF Init
  <2> QED
    BY <2>1, InitDescribed DEF DInv
<1>2. DInv /\ [Next]_vars /\ Cow!IInv' => DInv'
  BY NextDescribed, CallsCounted DEF DInv
<1>3. CowImplemented => []Cow!IInv
  BY DisciplineKeepsInvariant
<1> QED
  BY <1>1, <1>2, <1>3, PTL DEF Spec

(* Search finds every pair of the committed tree and nothing else, after   *)
(* any calls, of any size, whatever fails, of callers that insert no key   *)
(* twice: splits, rotations and merges keep the separators between their   *)
(* subtrees (btree.go).                                                    *)
THEOREM SearchFindsTheMap ==
  InsertFresh /\ RoomForThree /\ Spec /\ CowImplemented => []SearchAgrees
<1>1. ASSUME Described PROVE SearchAgrees
  <2>1. PICK w : Describes(w)
    BY <1>1, Zenon DEF Described
  <2>2. Holds(pm, w) /\ root \in DOMAIN w
    BY <2>1, Zenon DEF Describes, Rooted
  <2>3. \A k \in Key : Search(pm, root, k) = IF k \in DOMAIN Contents(pm, root)
                          THEN <<k, Contents(pm, root)[k]>> ELSE NotFound
    BY <2>2, SearchIsLookup
  <2> QED
    BY <2>3, Zenon DEF SearchAgrees
<1>2. DInv => SearchAgrees
  BY <1>1 DEF DInv
<1> QED
  BY <1>2, AlwaysDescribed, PTL

-----------------------------------------------------------------------------
(* The values of the variables of a call and of its recursion.             *)
Working == {"start", "insert", "delete", "return", "next", "fsync", "commit", "commitUnsynced",
            "barrier", "barrierUnsynced"}

(* Where a level of the recursion goes on.                                 *)
Recursing == {"insert", "delete", "return", "next"}

(* Their types.                                                            *)
TInv ==
  /\ pc \in Working \cup {"idle", "broken"}
  /\ call \in Seq(Request) /\ todo \in Seq(Request) /\ direct \in BOOLEAN
  /\ base \in Nat /\ ret \in Nat
  /\ node.kvs \in Seq(KVs) /\ key \in Key \cup {0}

(* What every step does to them: the node in memory is dropped, unless the *)
(* step goes down a level, and a page number is returned or forgotten.     *)
Turns ==
  /\ pc' \in Working \cup {"idle", "broken"}
  /\ pc' \in {"insert", "delete"} \/ (node' \in {node, NewNode} /\ key' \in {key, 0})
  /\ pc' \in {"return", "next"} \/ ret' \in {ret, 0}
  /\ call' \in {call, << >>} /\ todo' \in {todo, << >>} /\ base' \in {base, 0}
  /\ direct' = direct

(* What a step of the recursion does: it goes on with the same request, or *)
(* answers with an error, or panics.                                       *)
Recurs ==
  /\ \/ pc' \in Recursing /\ UNCHANGED <<call, todo, base, outcome>>
     \/ pc' = "idle" /\ call' = << >> /\ outcome' # NoError
     \/ pc' = "broken" /\ UNCHANGED <<call, outcome>>

(* A part of an operation, given what follows when it succeeds.            *)
LEMMA StepTurns ==
  ASSUME NEW r, NEW dropped, NEW ACTION then, Step(r, dropped, then), TInv,
         then => pc' \in Recursing /\ Same
                 /\ (pc' \in {"insert", "delete"} \/ (node' \in {node, NewNode} /\ key' \in {key, 0}))
                 /\ (pc' \in {"return", "next"} \/ ret' \in {ret, 0})
  PROVE  Turns /\ Recurs
<1>1. CASE Break
  BY <1>1 DEF Break, Turns, Recurs, level
<1>2. CASE ~Break
  <2>1. direct' = direct /\ (then \/ (Fail(r.err, dropped) /\ r.err # NoError))
    BY <1>2 DEF Step, Keep
  <2>2. CASE then
    BY <2>1, <2>2 DEF Turns, Recurs, Recursing, Working, Same
  <2>3. CASE Fail(r.err, dropped) /\ r.err # NoError
    <3>1. node' = NewNode /\ key' = 0 /\ ret' = 0
          /\ \/ pc' = "next" /\ UNCHANGED <<call, todo, base, outcome>>
             \/ pc' = "idle" /\ call' = << >> /\ todo' = << >> /\ base' = 0
                /\ outcome' # NoError
      BY <2>3 DEF Fail, Unwind, Reply
    <3> QED
      BY <2>1, <3>1 DEF Turns, Recurs, Recursing, Working
  <2> QED
    BY <2>1, <2>2, <2>3
<1> QED
  BY <1>1, <1>2

(* The steps of one level of the recursion.                                *)
LEMMA DescentTurns ==
  ASSUME TInv,
         \/ StartInsert \/ StartDelete \/ InsertIntoInternal \/ InsertIntoLeaf
         \/ DeleteFromInternal \/ DeleteKeyFromInternal \/ DeleteFromLeaf \/ PropagateUp \/ Finish
  PROVE  Turns /\ Recurs
<1>1. CASE StartInsert
  <2> DEFINE r == SplitIfFull(LoadAsNode(pm, base))
             R == [r EXCEPT !.retired = IF direct \/ r.err # NoError THEN << >> ELSE <<base>>]
             Onwards == /\ pc' = "insert" /\ node' = r.node /\ key' = Head(todo).key
                        /\ UNCHANGED <<stack, ret>> /\ Same
  <2>1. IF Oversized(Pair)
        THEN Keep(Repaired(pm, NewNode, << >>, NoError)) /\ Fail(ErrOverflow, FALSE)
        ELSE Step(R, FALSE, Onwards)
    BY <1>1, Zenon DEF StartInsert
  <2>2. CASE Oversized(Pair)
    <3>1. direct' = direct /\ Fail(ErrOverflow, FALSE)
      BY <2>1, <2>2, Zenon DEF Keep
    <3> QED
      BY <3>1 DEF Fail, Unwind, Reply, Turns, Recurs, ErrOverflow, NoError
  <2>3. CASE ~Oversized(Pair)
    <3>1. Step(R, FALSE, Onwards)
      BY <2>1, <2>3
    <3> QED
      BY <3>1, StepTurns DEF Recursing
  <2> QED
    BY <2>2, <2>3
<1>2. CASE StartDelete
  <2> DEFINE n == LoadAsNode(pm, base)
             Onwards == /\ pc' = "delete" /\ node' = n /\ key' = Head(todo).key
                        /\ UNCHANGED <<stack, ret>> /\ Same
  <2>1. Step(Repaired(pm, n, << >>, NoError), FALSE, Onwards)
    BY <1>2, Zenon DEF StartDelete
  <2> QED
    BY <2>1, StepTurns DEF Recursing
<1>3. CASE InsertIntoInternal
  <2>1. PICK s : s = SplitChild(pm, node, key)
    OBVIOUS
  <2>2. PICK i, c : i = FindIndex(s.node, key) /\ c = LoadAsNode(s.pm, GetPtr(s.node, i))
    OBVIOUS
  <2>3. PICK r : r = IF s.err # NoError THEN s
                     ELSE Repaired(s.pm, c, Append(s.retired, GetPtr(s.node, i)), NoError)
    OBVIOUS
  <2> DEFINE Onwards == /\ node' = c
                        /\ stack' = Append(stack, [node |-> s.node, slot |-> i, retire |-> FALSE])
                        /\ UNCHANGED <<pc, key, ret>> /\ Same
  <2>4. Step(r, Swallowed, Onwards) /\ pc = "insert"
    BY <1>3, <2>1, <2>2, <2>3, Zenon DEF InsertIntoInternal
  <2> QED
    BY <2>4, StepTurns DEF Recursing
<1>4. CASE InsertIntoLeaf
  <2>1. PICK r : Step(r, Swallowed, Returned(r) /\ UNCHANGED stack)
    BY <1>4, Zenon DEF InsertIntoLeaf
  <2> QED
    BY <2>1, StepTurns DEF Recursing, Returned
<1>5. CASE DeleteFromInternal
  <2>1. PICK s : s = FillChild(pm, node, key)
    OBVIOUS
  <2>2. PICK i, c : i = FindIndex(s.node, key) /\ c = LoadAsNode(s.pm, GetPtr(s.node, i))
    OBVIOUS
  <2>3. PICK r : r = IF s.err # NoError \/ c.ok THEN s ELSE [s EXCEPT !.err = Panicked]
    OBVIOUS
  <2> DEFINE Onwards == /\ node' = c
                        /\ stack' = Append(stack, [node |-> s.node, slot |-> i, retire |-> TRUE])
                        /\ UNCHANGED <<pc, key, ret>> /\ Same
             Again == node' = s.node /\ UNCHANGED <<pc, key, stack, ret>> /\ Same
  <2>4. (Step(s, FALSE, Again) \/ Step(r, FALSE, Onwards)) /\ pc = "delete"
    BY <1>5, <2>1, <2>2, <2>3, Zenon DEF DeleteFromInternal
  <2>5. CASE Step(s, FALSE, Again)
    BY <2>4, <2>5, StepTurns DEF Recursing
  <2>6. CASE Step(r, FALSE, Onwards)
    BY <2>4, <2>6, StepTurns DEF Recursing
  <2> QED
    BY <2>4, <2>5, <2>6
<1>6. CASE DeleteKeyFromInternal
  <2>1. ASSUME NEW c, NEW kv, NEW u, NEW i, Borrow(c, kv, u, i), pc = "delete" PROVE Turns /\ Recurs
    <3> DEFINE Onwards == /\ node' = c /\ key' = kv[1]
                          /\ stack' = Append(stack, [node |-> u, slot |-> i, retire |-> FALSE])
                          /\ UNCHANGED <<pc, ret>> /\ Same
    <3>1. Step(Repaired(pm, u, <<GetPtr(node, i)>>, NoError), FALSE, Onwards)
      BY <2>1, Zenon DEF Borrow
    <3> QED
      BY <2>1, <3>1, StepTurns DEF Recursing
  <2>2. PICK s : s = MergeChildren(pm, node, FindIndex(node, key))
    OBVIOUS
  <2> DEFINE Onwards == node' = s.node /\ UNCHANGED <<pc, key, stack, ret>> /\ Same
  <2>3. /\ pc = "delete"
        /\ (\E c, kv, u, i : Borrow(c, kv, u, i)) \/ Step(s, FALSE, Onwards)
    BY <1>6, <2>2, Zenon DEF DeleteKeyFromInternal
  <2>4. CASE Step(s, FALSE, Onwards)
    BY <2>3, <2>4, StepTurns DEF Recursing
  <2> QED
    BY <2>1, <2>3, <2>4
<1>7. CASE DeleteFromLeaf
  <2>1. PICK r : Step(r, FALSE, Returned(r) /\ UNCHANGED stack)
    BY <1>7, Zenon DEF DeleteFromLeaf
  <2> QED
    BY <2>1, StepTurns DEF Recursing, Returned
<1>8. CASE PropagateUp
  <2>1. PICK f, old : f = Last(stack) /\ old = IF f.retire THEN <<GetPtr(f.node, f.slot)>> ELSE << >>
    OBVIOUS
  <2>2. PICK r : r = Retiring(Persisted(SetPtr(f.node, f.slot, ret)), old)
    OBVIOUS
  <2>3. Step(r, Swallowed, Returned(r) /\ stack' = Front(stack))
    BY <1>8, <2>1, <2>2, Zenon DEF PropagateUp
  <2> QED
    BY <2>3, StepTurns DEF Recursing, Returned
<1>9. CASE Finish
  <2>1. PICK r, p : Step(r, FALSE, /\ ret' = p /\ pc' = "next" /\ Unwind /\ Same)
    BY <1>9, Zenon DEF Finish
  <2> QED
    BY <2>1, StepTurns DEF Recursing, Unwind
<1> QED
  BY <1>1, <1>2, <1>3, <1>4, <1>5, <1>6, <1>7, <1>8, <1>9

(* What the description says of the node in memory and of the page number  *)
(* returned.                                                               *)
OfPages ==
  /\ root \in PageNums
  /\ pc \in {"insert", "delete"} => node.kvs \in Seq(KVs) /\ key \in Key
  /\ pc \in {"return", "next"} => ret \in Nat

(* The description of the pages gives them.                                *)
LEMMA DescribedTypes ==
  Described => OfPages
<1> SUFFICES ASSUME Described PROVE OfPages
  OBVIOUS
<1>1. PICK w : Describes(w)
  BY Zenon DEF Described
<1>2. DOMAIN w \subseteq PageNums /\ World(w) /\ root \in DOMAIN w
  BY <1>1, WorldOnPages DEF Describes, Rooted
<1>3. \A p \in PageNums : p \in Nat
  BY PageManagerAssumption DEF PageNums
<1>4. ASSUME pc \in {"insert", "delete"} PROVE node.kvs \in Seq(KVs) /\ key \in Key
  <2>1. PICK gs, d : Descent(w, gs, d)
    BY <1>1, <1>4 DEF Describes
  <2>2. CASE pc = "insert"
    <3>1. key = Pair[1] /\ Inserting(w, node, Pair, gs[Len(stack) + 1], d)
      BY <2>1, <2>2, Zenon DEF Descent
    <3>2. Fits(w, node, d) /\ Pair \in KVs
      BY <3>1, Zenon DEF Inserting
    <3>3. \A kv \in KVs : kv[1] \in Key
      BY DEF KVs
    <3> QED
      BY <3>1, <3>2, <3>3, Zenon DEF Fits, FitsBut
  <2>3. CASE pc = "delete"
    <3>1. Deleting(w, node, key, gs[Len(stack) + 1], d, stack = << >>)
      BY <2>1, <2>3, Zenon DEF Descent
    <3> QED
      BY <3>1, Zenon DEF Deleting, Fits, FitsBut
  <2> QED
    BY <1>4, <2>2, <2>3
<1>5. ASSUME pc = "return" PROVE ret \in Nat
  <2>1. PICK gs, d : Descent(w, gs, d)
    BY <1>1, <1>5 DEF Describes
  <2>2. ret \in DOMAIN w
    BY <1>5, <2>1, Zenon DEF Descent, Returning
  <2> QED
    BY <1>2, <1>3, <2>2
<1>6. ASSUME pc = "next" PROVE ret \in Nat
  <2>1. ret = 0 \/ ret \in DOMAIN w
    BY <1>1, <1>6 DEF Describes, GoesOn, Rooted
  <2> QED
    BY <1>2, <1>3, <2>1
<1> QED
  BY <1>2, <1>4, <1>5, <1>6 DEF OfPages

(* Every step keeps the types.                                             *)
LEMMA NextTyped ==
  ASSUME TInv, made \in Nat, Described, Described', [Next]_vars
  PROVE  TInv'
<1>1. /\ pc' \in {"insert", "delete"} => node'.kvs \in Seq(KVs) /\ key' \in Key
      /\ pc' \in {"return", "next"} => ret' \in Nat
  <2>1. Described' => OfPages'
    BY DescribedTypes, PTL
  <2> QED
    BY <2>1 DEF OfPages
<1>2. root \in Nat
  BY DescribedTypes, PageManagerAssumption DEF PageNums, OfPages
<1>3. NewNode.kvs \in Seq(KVs)
  BY DEF NewNode
<1>4. CASE Turns
  <2>1. pc' \notin {"insert", "delete"} => node' \in {node, NewNode} /\ key' \in {key, 0}
    BY <1>4 DEF Turns
  <2>2. node'.kvs \in Seq(KVs) /\ key' \in Key \cup {0}
    BY <1>1, <1>3, <2>1 DEF TInv
  <2>3. ret' \in Nat /\ base' \in Nat
    BY <1>1, <1>4 DEF Turns, TInv
  <2>4. call' \in Seq(Request) /\ todo' \in Seq(Request) /\ direct' \in BOOLEAN
    <3>1. << >> \in Seq(Request)
      OBVIOUS
    <3> QED
      BY <1>4, <3>1, Zenon DEF Turns, TInv
  <2>5. pc' \in Working \cup {"idle", "broken"}
    BY <1>4 DEF Turns
  <2> QED
    BY <2>2, <2>3, <2>4, <2>5 DEF TInv
<1>5. CASE UNCHANGED vars
  BY <1>5 DEF vars, tree, level, TInv
<1>6. CASE Invoke
  <2>1. PICK c \in Offered : call' = c.reqs /\ todo' = c.reqs /\ direct' = c.direct
    BY <1>6, Zenon DEF Invoke
  <2>2. made + 1 \in 1 .. Len(Workload) /\ c \in Workload[made + 1]
    <3>1. made < Len(Workload) /\ c \in Workload[made + 1] /\ Len(Workload) \in Nat
      BY <2>1, WorkloadAssumption DEF Offered
    <3> QED
      BY <3>1
  <2>3. c \in [direct : BOOLEAN, reqs : Seq(Request) \ {<< >>}]
    BY <2>2, WorkloadAssumption
  <2>4. pc' = "start" /\ base' = root /\ node' = node /\ key' = key /\ ret' = ret
    BY <1>6 DEF Invoke, level
  <2> QED
    BY <1>2, <2>1, <2>3, <2>4 DEF TInv, Working
<1>7. CASE NextRequest
  <2>1. pc = "next" /\ base' = ret /\ todo' = Tail(todo) /\ pc' \in Working
        /\ UNCHANGED <<call, direct, node, key, ret>>
    BY <1>7 DEF NextRequest, Working, level
  <2>2. todo # << >>
    <3>1. PICK w : Describes(w)
      BY Zenon DEF Described
    <3> QED
      BY <2>1, <3>1 DEF Describes
  <2>3. Tail(todo) \in Seq(Request)
    BY <2>2 DEF TInv
  <2> QED
    BY <2>1, <2>3 DEF TInv
<1>8. CASE Fsync \/ Barrier2
  <2>1. Turns
    BY <1>8 DEF Fsync, Barrier2, Reply, Same, Turns, Working
  <2> QED
    BY <1>4, <2>1
<1>9. CASE Commit
  <2>1. UNCHANGED <<call, todo, direct, base, node, key, ret>> /\ pc' \in Working \cup {"broken"}
    BY <1>9 DEF Commit, Break, level, Working
  <2> QED
    BY <2>1 DEF TInv
<1>10. CASE Stopped
  BY <1>5, <1>10 DEF Stopped
<1>11. \/ Turns \/ UNCHANGED vars \/ Invoke \/ NextRequest \/ Fsync \/ Barrier2 \/ Commit
       \/ Stopped
  <2>1. \/ UNCHANGED vars \/ Invoke \/ NextRequest \/ Fsync \/ Barrier2 \/ Commit \/ Stopped
        \/ StartInsert \/ StartDelete \/ InsertIntoInternal \/ InsertIntoLeaf
        \/ DeleteFromInternal \/ DeleteKeyFromInternal \/ DeleteFromLeaf \/ PropagateUp \/ Finish
    BY Zenon DEF Next, Serve
  <2> QED
    BY <2>1, DescentTurns
<1> QED
  BY <1>4, <1>5, <1>6, <1>7, <1>8, <1>9, <1>10, <1>11

(* The variables of the tree have the types the code gives them: every     *)
(* page number is one, and the node in memory is one, in every state of a  *)
(* call and after every failure.                                           *)
THEOREM TreeTypeCorrect ==
  InsertFresh /\ RoomForThree /\ Spec /\ CowImplemented => []TypeOK
<1>1. Init => TInv
  <2>1. << >> \in Seq(Request) /\ << >> \in Seq(KVs)
    OBVIOUS
  <2> QED
    BY <2>1 DEF Init, TInv, NewNode
<1>2. TInv /\ DInv /\ DInv' /\ [Next]_vars => TInv'
  BY NextTyped DEF DInv
<1>3. TInv /\ DInv /\ Cow!IInv => TypeOK
  <2> SUFFICES ASSUME TInv, DInv, Cow!IInv PROVE TypeOK
    OBVIOUS
  <2>1. freelist \in Seq(Nat) /\ pm.free \in Seq(Nat)
    BY DEF Cow!IInv, Cow!TypeOK, Cow!PageManagers
  <2>2. root \in PageNums /\ made \in Nat
    BY DescribedTypes DEF DInv, OfPages
  <2> QED
    BY <2>1, <2>2 DEF TInv, TypeOK, Working, KVs
<1> QED
  BY <1>1, <1>2, <1>3, AlwaysDescribed, DisciplineKeepsInvariant, PTL DEF Spec

-----------------------------------------------------------------------------
(* Who uses which page.  What is reached from a page of the world lies     *)
(* below it: its pairs are among those of the page, and but for the page   *)
(* itself it is nearer to the leaves and has pairs of its own.             *)
LEMMA ReachKnown ==
  ASSUME NEW m, NEW w, Holds(m, w), NEW r, r \in DOMAIN w
  PROVE  /\ r \in Reach(m, r) /\ r \in PageNums
         /\ \A q \in Reach(m, r) :
              /\ q \in DOMAIN w /\ w[q].pairs \subseteq w[r].pairs
              /\ q = r \/ (w[q].depth < w[r].depth /\ w[q].node.kvs # << >>)
<1> DEFINE T == {q \in DOMAIN w : /\ w[q].pairs \subseteq w[r].pairs
                                  /\ q = r \/ (w[q].depth < w[r].depth /\ w[q].node.kvs # << >>)}
<1>1. DOMAIN w \subseteq PageNums /\ World(w) /\ \A p \in DOMAIN w : m.page[p] = w[p].node
  BY WorldOnPages
<1>2. \A p \in DOMAIN w :
         /\ Children(m)[p] \subseteq DOMAIN w /\ w[p].depth \in Nat
         /\ \A q \in Children(m)[p] : w[q].pairs \subseteq w[p].pairs /\ w[q].depth < w[p].depth
  BY OneLevel
<1>3. ASSUME NEW p \in DOMAIN w, NEW q \in Children(m)[p] PROVE w[q].node.kvs # << >>
  <2> DEFINE n == w[p].node
             d == w[p].depth
  <2>1. /\ p \in PageNums /\ m.page[p] = n /\ n.type # "leaf" /\ q \in ToSet(n.ptr)
    <3>1. p \in PageNums /\ m.page[p] = n
      BY <1>1
    <3> QED
      BY <1>3, <3>1, Zenon DEF Children
  <2>2. d \in Nat /\ (n.type = "leaf" <=> d = 0) /\ FitsBut(w, n.kvs, n.ptr, {}, d)
    BY <1>1, Zenon DEF World, Fits
  <2> HIDE DEF n, d
  <2>3. d > 0 /\ n.ptr \in Seq(Nat)
    BY <2>1, <2>2 DEF FitsBut
  <2>4. \A i \in 1 .. Len(n.ptr) : w[n.ptr[i]].node.kvs # << >>
    <3>1. (1 .. Len(n.ptr)) \ {} = 1 .. Len(n.ptr)
      OBVIOUS
    <3> QED
      BY <2>2, <2>3, <3>1, Zenon DEF FitsBut, ChildFits
  <2>5. ToSet(n.ptr) = {n.ptr[i] : i \in 1 .. Len(n.ptr)}
    BY <2>3, SetOfList
  <2> QED
    BY <2>1, <2>4, <2>5, Zenon
<1>4. T \in SUBSET PageNums /\ r \in T /\ r \in PageNums
  BY <1>1
<1>5. ASSUME NEW p \in T, NEW q \in Children(m)[p] PROVE q \in T
  <2>1. p \in DOMAIN w /\ w[p].pairs \subseteq w[r].pairs /\ (p = r \/ w[p].depth < w[r].depth)
    BY Zenon
  <2>2. q \in DOMAIN w /\ w[q].pairs \subseteq w[p].pairs /\ w[q].depth < w[p].depth
    BY <1>2, <2>1, Zenon
  <2>3. w[q].node.kvs # << >>
    BY <1>3, <2>1
  <2>4. w[q].depth \in Nat /\ w[p].depth \in Nat /\ w[r].depth \in Nat
    BY <1>2, <2>1, <2>2, Zenon
  <2>5. w[q].depth < w[r].depth
    BY <2>1, <2>2, <2>4
  <2> QED
    BY <2>1, <2>2, <2>3, <2>5
<1> HIDE DEF T
<1>6. Closed(Children(m), T)
  BY <1>4, <1>5, ClosedMeans
<1>7. Reach(m, r) \subseteq T /\ r \in Reach(m, r)
  BY <1>4, <1>6, ClosureProperties DEF Reach
<1> QED
  BY <1>4, <1>7 DEF T

(* Following pointers from a page is going to one of its children, and     *)
(* following pointers from there.                                          *)
LEMMA ReachStep ==
  ASSUME NEW m, NEW w, Holds(m, w), NEW r, r \in DOMAIN w
  PROVE  /\ \A c \in Children(m)[r] : c \in DOMAIN w /\ Reach(m, c) \subseteq Reach(m, r)
         /\ \A q \in Reach(m, r) : q = r \/ \E c \in Children(m)[r] : q \in Reach(m, c)
<1> DEFINE T == {r} \cup UNION {Reach(m, c) : c \in Children(m)[r]}
<1>1. DOMAIN w \subseteq PageNums
  BY WorldOnPages
<1>2. Children(m)[r] \subseteq DOMAIN w
  BY OneLevel
<1>3. \A p \in PageNums : Reach(m, p) \subseteq PageNums /\ p \in Reach(m, p)
                          /\ Closed(Children(m), Reach(m, p))
  BY ClosureProperties DEF Reach
<1>4. \A p \in PageNums : \A q \in Reach(m, p) : Reach(m, q) \subseteq Reach(m, p)
  BY ClosureFrom DEF Reach
<1>5. \A p \in PageNums : \A a \in Reach(m, p) : \A q \in Children(m)[a] :
         q \in PageNums => q \in Reach(m, p)
  BY <1>3, ClosedMeans
<1>6. r \in PageNums /\ Children(m)[r] \subseteq PageNums
  BY <1>1, <1>2
<1>7. \A c \in Children(m)[r] : c \in Reach(m, r)
  BY <1>3, <1>5, <1>6, Zenon
<1>8. \A c \in Children(m)[r] : Reach(m, c) \subseteq Reach(m, r)
  BY <1>4, <1>6, <1>7, Zenon
<1>9. T \in SUBSET PageNums /\ r \in T
  BY <1>3, <1>6
<1>10. ASSUME NEW p \in T, NEW q \in Children(m)[p], q \in PageNums PROVE q \in T
  <2>1. CASE p = r
    <3>1. q \in Reach(m, q)
      BY <1>3, <1>10, Zenon
    <3> QED
      BY <1>10, <2>1, <3>1
  <2>2. CASE p # r
    <3>1. PICK c \in Children(m)[r] : p \in Reach(m, c)
      BY <2>2
    <3>2. q \in Reach(m, c)
      BY <1>5, <1>6, <1>10, <3>1, Zenon
    <3> QED
      BY <3>1, <3>2
  <2> QED
    BY <2>1, <2>2
<1>11. Closed(Children(m), T)
  <2> HIDE DEF T
  <2> QED
    BY <1>9, <1>10, ClosedMeans
<1>12. Reach(m, r) \subseteq T
  <2> HIDE DEF T
  <2> QED
    BY <1>6, <1>9, <1>11, ClosureProperties DEF Reach
<1> QED
  BY <1>2, <1>8, <1>12

(* The world grows: the same is reached from a page of it.                 *)
LEMMA ReachKept ==
  ASSUME NEW m, NEW w, Holds(m, w), NEW x, Later(w, x), NEW o, Holds(o, x), NEW r, r \in DOMAIN w
  PROVE  Reach(o, r) = Reach(m, r)
<1>1. r \in PageNums /\ \A q \in Reach(m, r) : q \in DOMAIN w
  BY ReachKnown
<1>2. /\ \A q \in DOMAIN w : m.page[q] = w[q].node
      /\ \A q \in DOMAIN x : o.page[q] = x[q].node
  BY WorldOnPages
<1>3. \A q \in Reach(m, r) : o.page[q] = m.page[q]
  BY <1>1, <1>2, Zenon DEF Later
<1> QED
  BY <1>1, <1>3, ReachSame

(* What is below two children of a node is apart: it would have a pair     *)
(* that belongs in two places.                                             *)
LEMMA ChildrenApart ==
  ASSUME NEW m, NEW w, Holds(m, w), NEW kvs, NEW ptr, NEW S, NEW d \in Nat \ {0},
         FitsBut(w, kvs, ptr, S, d),
         NEW i \in (1 .. Len(ptr)) \ S, NEW j \in (1 .. Len(ptr)) \ S, i < j
  PROVE  Reach(m, ptr[i]) \cap Reach(m, ptr[j]) = {}
<1> SUFFICES ASSUME NEW q, q \in Reach(m, ptr[i]), q \in Reach(m, ptr[j]) PROVE FALSE
  OBVIOUS
<1>1. d > 0 /\ kvs \in Seq(KVs) /\ InOrder(kvs) /\ Len(ptr) = Len(kvs) + 1
  BY DEF FitsBut
<1>2. ChildFits(w, kvs, i, ptr[i], d) /\ ChildFits(w, kvs, j, ptr[j], d)
  BY <1>1, Zenon DEF FitsBut
<1>3. q \in DOMAIN w /\ w[q].pairs \subseteq w[ptr[i]].pairs /\ w[q].pairs \subseteq w[ptr[j]].pairs
      /\ w[q].node.kvs # << >>
  <2>1. ptr[i] \in DOMAIN w /\ ptr[j] \in DOMAIN w /\ w[ptr[i]].node.kvs # << >>
    BY <1>2, Zenon DEF ChildFits
  <2>2. q \in DOMAIN w /\ w[q].pairs \subseteq w[ptr[i]].pairs
        /\ (q = ptr[i] \/ w[q].node.kvs # << >>)
    BY <2>1, ReachKnown
  <2>3. w[q].pairs \subseteq w[ptr[j]].pairs
    BY <2>1, ReachKnown
  <2> QED
    BY <2>1, <2>2, <2>3, Zenon
<1>4. PICK u : u \in w[q].pairs /\ u \in KVs
  <2>1. w[q].node.kvs \in Seq(KVs) /\ ToSet(w[q].node.kvs) \subseteq w[q].pairs
    <3>1. World(w) /\ m.page[q] = w[q].node
      BY <1>3, WorldOnPages
    <3>2. w[q].node.kvs \in Seq(KVs)
      BY <1>3, <3>1, Zenon DEF World, Fits, FitsBut
    <3>3. ToSet(m.page[q].kvs) \subseteq w[q].pairs
      BY <1>3, OneLevel
    <3> QED
      BY <3>1, <3>2, <3>3
  <2>2. w[q].node.kvs[1] \in ToSet(w[q].node.kvs) /\ w[q].node.kvs[1] \in KVs
    <3>1. 1 \in 1 .. Len(w[q].node.kvs)
      BY <1>3, <2>1
    <3>2. ToSet(w[q].node.kvs) = {w[q].node.kvs[x] : x \in 1 .. Len(w[q].node.kvs)}
      BY <2>1, SetOfList
    <3> QED
      BY <2>1, <3>1, <3>2
  <2> QED
    BY <2>1, <2>2
<1>5. Between(kvs, i, u[1]) /\ Between(kvs, j, u[1])
  BY <1>2, <1>3, <1>4, Zenon DEF ChildFits
<1>6. i \in 1 .. Len(kvs) /\ j - 1 \in 1 .. Len(kvs) /\ j > 1 /\ i <= Len(kvs)
      /\ (i = j - 1 \/ i < j - 1)
  BY <1>1
<1>7. u[1] < kvs[i][1] /\ kvs[j - 1][1] < u[1]
  BY <1>5, <1>6, Zenon DEF Between
<1>8. kvs[i][1] = kvs[j - 1][1] \/ kvs[i][1] < kvs[j - 1][1]
  BY <1>1, <1>6 DEF InOrder
<1>9. u[1] \in Nat /\ kvs[i][1] \in Nat /\ kvs[j - 1][1] \in Nat
  <2>1. kvs[i] \in KVs /\ kvs[j - 1] \in KVs
    BY <1>1, <1>6
  <2> QED
    BY <1>4, <2>1, NodeAssumption DEF KVs
<1> DEFINE a == kvs[i][1]
           b == kvs[j - 1][1]
           c == u[1]
<1>10. c < a /\ b < c /\ (a = b \/ a < b) /\ a \in Nat /\ b \in Nat /\ c \in Nat
  BY <1>7, <1>8, <1>9
<1> HIDE DEF a, b, c
<1> QED
  BY <1>10

-----------------------------------------------------------------------------
(* The pages reached from the pointers of a node, but for those in S.      *)
Hanging(m, ptr, S) == UNION {Reach(m, ptr[i]) : i \in (1 .. Len(ptr)) \ S}

(* Pages of an internal node that fits: each of its pointers leads to a    *)
(* page of the world, and no two to the same.                              *)
LEMMA PointersApart ==
  ASSUME NEW m, NEW w, Holds(m, w), NEW n, NEW d, Fits(w, n, d), n.type = "internal"
  PROVE  /\ d \in Nat \ {0} /\ n.ptr \in Seq(Nat) /\ Len(n.ptr) = Len(n.kvs) + 1 /\ Len(n.kvs) \in Nat
         /\ \A i \in 1 .. Len(n.ptr) : n.ptr[i] \in DOMAIN w /\ n.ptr[i] \in Reach(m, n.ptr[i])
         /\ \A i, j \in 1 .. Len(n.ptr) : i # j => Reach(m, n.ptr[i]) \cap Reach(m, n.ptr[j]) = {}
         /\ \A i, j \in 1 .. Len(n.ptr) : i # j => n.ptr[i] # n.ptr[j]
<1>1. d \in Nat \ {0} /\ FitsBut(w, n.kvs, n.ptr, {}, d)
  <2>1. d \in Nat /\ (n.type = "leaf" <=> d = 0) /\ FitsBut(w, n.kvs, n.ptr, {}, d)
    BY Zenon DEF Fits
  <2> QED
    BY <2>1
<1>2. d > 0 /\ n.ptr \in Seq(Nat) /\ Len(n.ptr) = Len(n.kvs) + 1 /\ n.kvs \in Seq(KVs)
  BY <1>1 DEF FitsBut
<1>3. Len(n.kvs) \in Nat /\ (1 .. Len(n.ptr)) \ {} = 1 .. Len(n.ptr)
  BY <1>2
<1>4. \A i \in 1 .. Len(n.ptr) : n.ptr[i] \in DOMAIN w
  BY <1>1, <1>2, <1>3, Zenon DEF FitsBut, ChildFits
<1>5. \A i \in 1 .. Len(n.ptr) : n.ptr[i] \in Reach(m, n.ptr[i])
  BY <1>4, ReachKnown
<1>6. \A i, j \in 1 .. Len(n.ptr) : i < j => Reach(m, n.ptr[i]) \cap Reach(m, n.ptr[j]) = {}
  BY <1>1, <1>3, ChildrenApart
<1>7. \A i, j \in 1 .. Len(n.ptr) : i # j => Reach(m, n.ptr[i]) \cap Reach(m, n.ptr[j]) = {}
  <2> SUFFICES ASSUME NEW i \in 1 .. Len(n.ptr), NEW j \in 1 .. Len(n.ptr), i # j
               PROVE  Reach(m, n.ptr[i]) \cap Reach(m, n.ptr[j]) = {}
    OBVIOUS
  <2>1. i < j \/ j < i
    BY <1>2, <1>3
  <2>2. Reach(m, n.ptr[j]) \cap Reach(m, n.ptr[i]) = Reach(m, n.ptr[i]) \cap Reach(m, n.ptr[j])
    OBVIOUS
  <2> QED
    BY <1>6, <2>1, <2>2, Zenon
<1>8. \A i, j \in 1 .. Len(n.ptr) : i # j => n.ptr[i] # n.ptr[j]
  BY <1>5, <1>7
<1> QED
  BY <1>1, <1>2, <1>3, <1>4, <1>5, <1>7, <1>8

(* So nothing that is given up is below the repaired node, and what is     *)
(* below it was below the node, or is new.                                 *)
Recycles(s, m, n) ==
  /\ s.retired \in Seq(Nat) /\ IsInjective(s.retired) /\ Len(s.retired) <= 2
  /\ \A r \in Range(s.retired) : PageOwned(m, r) /\ r \in Hanging(m, n.ptr, {})
  /\ s.err = NoError => \A q \in Hanging(s.pm, s.node.ptr, {}) :
       PageOwned(m, q) => q \in Hanging(m, n.ptr, {}) /\ q \notin Range(s.retired)

(* The pages given up are the children at the places given up, each once.  *)
GivesOnce(s, n, J) ==
  /\ s.retired \in Seq(Nat) /\ IsInjective(s.retired) /\ Len(s.retired) <= 2
  /\ \A r : r \in Range(s.retired) <=> \E j \in J : r = n.ptr[j]

(* No two pointers of a node lead to the same page.                        *)
LEMMA GivenUp ==
  ASSUME NEW m, NEW w, Holds(m, w), NEW n, NEW d, Fits(w, n, d), n.type = "internal",
         NEW s, NEW J \in SUBSET (1 .. Len(n.ptr)), GivesUp(s, n, J)
  PROVE  GivesOnce(s, n, J)
<1>1. /\ n.ptr \in Seq(Nat) /\ Len(n.ptr) \in Nat
      /\ \A i, j \in 1 .. Len(n.ptr) : i # j => n.ptr[i] # n.ptr[j]
  BY PointersApart
<1>2. CASE J = {} /\ s.retired = << >>
  BY <1>2, EmptyList DEF GivesOnce
<1>3. ASSUME NEW j \in 1 .. Len(n.ptr), J = {j}, s.retired = <<n.ptr[j]>>
      PROVE  GivesOnce(s, n, J)
  <2>1. PICK q \in Nat : q = n.ptr[j]
    BY <1>1
  <2>2. Range(<<q>>) = {q} /\ IsInjective(<<q>>) /\ <<q>> \in Seq(Nat) /\ Len(<<q>>) <= 2
    BY DEF Range, IsInjective
  <2> QED
    BY <1>3, <2>1, <2>2 DEF GivesOnce
<1>4. ASSUME NEW j \in 1 .. Len(n.ptr) - 1, J = {j, j + 1}, s.retired = <<n.ptr[j], n.ptr[j + 1]>>
      PROVE  GivesOnce(s, n, J)
  <2>1. PICK q \in Nat, u \in Nat : q = n.ptr[j] /\ u = n.ptr[j + 1] /\ q # u
    BY <1>1
  <2>2. Range(<<q, u>>) = {q, u} /\ IsInjective(<<q, u>>) /\ <<q, u>> \in Seq(Nat) /\ Len(<<q, u>>) <= 2
    BY <2>1 DEF Range, IsInjective
  <2> QED
    BY <1>4, <2>1, <2>2 DEF GivesOnce
<1> QED
  BY <1>2, <1>3, <1>4, Zenon DEF GivesUp

(* Every repair that reuses pages recycles.                                *)
LEMMA RepairRecycles ==
  ASSUME NEW m, NEW w, Holds(m, w), NEW n, NEW d, Fits(w, n, d), n.type = "internal",
         NEW s, NEW x, KeepsPairs(s, w, x, n, d), Reuses(s, m, n)
  PROVE  Recycles(s, m, n)
<1>1. /\ d # 0
      /\ \A i \in 1 .. Len(n.ptr) : n.ptr[i] \in DOMAIN w /\ n.ptr[i] \in Reach(m, n.ptr[i])
      /\ \A i, j \in 1 .. Len(n.ptr) : i # j => Reach(m, n.ptr[i]) \cap Reach(m, n.ptr[j]) = {}
  BY PointersApart
<1>2. \A q : q \in Hanging(m, n.ptr, {}) <=> \E i \in 1 .. Len(n.ptr) : q \in Reach(m, n.ptr[i])
  BY DEF Hanging
<1>3. PICK J \in SUBSET (1 .. Len(n.ptr)) :
        /\ GivesUp(s, n, J)
        /\ s.err = NoError => \A h \in 1 .. Len(s.node.ptr) : Reused(s.pm, m, n, J, s.node.ptr[h])
  BY Zenon DEF Reuses
<1>4. /\ s.retired \in Seq(Nat) /\ IsInjective(s.retired) /\ Len(s.retired) <= 2
      /\ \A r : r \in Range(s.retired) <=> \E j \in J : r = n.ptr[j]
  <2>1. GivesOnce(s, n, J)
    BY <1>3, GivenUp
  <2> QED
    BY <2>1, Zenon DEF GivesOnce
<1>5. \A r \in Range(s.retired) : PageOwned(m, r) /\ r \in Hanging(m, n.ptr, {})
  <2>1. \A p \in DOMAIN w : PageOwned(m, p)
    BY Zenon DEF Holds
  <2> SUFFICES ASSUME NEW r \in Range(s.retired)
               PROVE  PageOwned(m, r) /\ r \in Hanging(m, n.ptr, {})
    OBVIOUS
  <2>2. PICK j \in 1 .. Len(n.ptr) : r = n.ptr[j]
    BY <1>4
  <2> QED
    BY <1>1, <1>2, <2>1, <2>2
<1>6. ASSUME s.err = NoError, NEW q \in Hanging(s.pm, s.node.ptr, {}), PageOwned(m, q)
      PROVE  q \in Hanging(m, n.ptr, {}) /\ q \notin Range(s.retired)
  <2>1. Later(w, x) /\ Holds(s.pm, x) /\ Fits(x, s.node, d)
    BY <1>6, Zenon DEF KeepsPairs
  <2>2. s.node.type = "internal"
    <3>1. s.node \in Nodes /\ (s.node.type = "leaf" <=> d = 0)
      BY <2>1, Zenon DEF Fits
    <3> QED
      BY <1>1, <3>1 DEF Nodes
  <2>3. PICK h \in 1 .. Len(s.node.ptr) : q \in Reach(s.pm, s.node.ptr[h])
    BY <1>6 DEF Hanging
  <2>4. s.node.ptr[h] \in DOMAIN x
    BY <2>1, <2>2, PointersApart
  <2>5. \A p \in DOMAIN w : Reach(s.pm, p) = Reach(m, p)
    BY <2>1, ReachKept
  <2>6. Reused(s.pm, m, n, J, s.node.ptr[h])
    BY <1>3, <1>6
  <2>7. ASSUME NEW i \in (1 .. Len(n.ptr)) \ J, s.node.ptr[h] = n.ptr[i]
        PROVE  q \in Hanging(m, n.ptr, {}) /\ q \notin Range(s.retired)
    <3>1. q \in Reach(m, n.ptr[i])
      BY <1>1, <2>3, <2>5, <2>7, Zenon
    <3>2. ASSUME q \in Range(s.retired) PROVE FALSE
      <4>1. PICK j \in J : q = n.ptr[j]
        BY <1>4, <3>2
      <4>2. i # j /\ q \in Reach(m, n.ptr[j])
        BY <1>1, <4>1, Zenon
      <4> QED
        BY <1>1, <3>1, <4>2
    <3> QED
      BY <1>2, <3>1, <3>2, Zenon
  <2>8. ASSUME ~PageOwned(m, s.node.ptr[h]),
               \A c \in Children(s.pm)[s.node.ptr[h]] : \E j \in J : c \in Children(m)[n.ptr[j]]
        PROVE  q \in Hanging(m, n.ptr, {}) /\ q \notin Range(s.retired)
    <3>1. PICK c \in Children(s.pm)[s.node.ptr[h]] : q \in Reach(s.pm, c)
      <4>1. q # s.node.ptr[h]
        BY <1>6, <2>8
      <4>2. q = s.node.ptr[h] \/ \E c \in Children(s.pm)[s.node.ptr[h]] : q \in Reach(s.pm, c)
        BY <2>1, <2>3, <2>4, ReachStep
      <4> QED
        BY <4>1, <4>2
    <3>2. PICK i \in J : c \in Children(m)[n.ptr[i]]
      BY <2>8
    <3>3. n.ptr[i] \in DOMAIN w
      BY <1>1
    <3>4. c \in DOMAIN w /\ Reach(m, c) \subseteq Reach(m, n.ptr[i])
      BY <3>2, <3>3, ReachStep
    <3>5. q \in Reach(m, c) /\ q \in Reach(m, n.ptr[i])
      BY <2>5, <3>1, <3>4, Zenon
    <3>6. q # n.ptr[i]
      <4>1. w[c].depth < w[n.ptr[i]].depth /\ w[n.ptr[i]].depth \in Nat
        BY <3>2, <3>3, OneLevel
      <4>2. q \in DOMAIN w /\ (q = c \/ w[q].depth < w[c].depth)
        BY <3>4, <3>5, ReachKnown
      <4>3. w[c].depth \in Nat /\ w[q].depth \in Nat
        BY <3>4, <4>2, OneLevel
      <4>4. w[q].depth < w[n.ptr[i]].depth
        BY <4>1, <4>2, <4>3
      <4> QED
        BY <4>1, <4>3, <4>4
    <3>7. ASSUME q \in Range(s.retired) PROVE FALSE
      <4>1. PICK j \in J : q = n.ptr[j]
        BY <1>4, <3>7
      <4>2. i # j /\ q \in Reach(m, n.ptr[j])
        BY <1>1, <3>6, <4>1, Zenon
      <4> QED
        BY <1>1, <3>5, <4>2
    <3> QED
      BY <1>2, <3>5, <3>7, Zenon
  <2> QED
    BY <2>6, <2>7, <2>8, Zenon DEF Reused
<1> QED
  BY <1>4, <1>5, <1>6, Zenon DEF Recycles

-----------------------------------------------------------------------------
(* A page manager with other contents on its pages.                        *)
Repaged(m, g) == [m EXCEPT !.page = g]

(* Its other fields are the same.                                          *)
LEMMA RepagedFields ==
  ASSUME NEW m, Shaped(m), NEW g
  PROVE  \A n : n = Repaged(m, g) =>
           /\ n.cur = m.cur /\ n.end = m.end /\ n.mapped = m.mapped /\ n.flen = m.flen
           /\ n.root = m.root /\ n.free = m.free /\ n.page = g
           /\ \A e : n = Repaged(n, e) <=> g = e
  BY DEF Shaped, Repaged

(* What pages hold plays no part in the choice of a page, or of an error.  *)
AllocatesAlike(a, b, g) == b.pm = Repaged(a.pm, g) /\ b.page = a.page /\ b.err = a.err

(* Two page managers that differ in their pages allocate alike.            *)
LEMMA AllocateAlike ==
  ASSUME NEW m, Shaped(m), NEW g, NEW n, n = Repaged(m, g)
  PROVE  AllocatesAlike(Allocate(m), Allocate(n), g)
<1>1. /\ n.cur = m.cur /\ n.end = m.end /\ n.mapped = m.mapped /\ n.flen = m.flen
      /\ n.root = m.root /\ n.free = m.free /\ n.page = g
  BY RepagedFields
<1>2. InBounds(n, 0) = InBounds(m, 0) /\ ExtendedLength(n) = ExtendedLength(m)
  BY <1>1 DEF InBounds, ExtendedLength, Fallocated, Ftruncated
<1>3. AllocatesAlike(Failed(m, Panicked), Failed(n, Panicked), g)
      /\ AllocatesAlike(Failed(m, NoSpace), Failed(n, NoSpace), g)
  BY DEF AllocatesAlike, Failed
<1>4. AllocatesAlike(NextPage(m), NextPage(n), g)
  <2>1. [n EXCEPT !.cur = m.cur + 1] = Repaged([m EXCEPT !.cur = m.cur + 1], g)
    BY DEF Repaged, Shaped
  <2> QED
    BY <1>1, <2>1 DEF AllocatesAlike, NextPage
<1>5. AllocatesAlike(AllocateViaFreeList(m), AllocateViaFreeList(n), g)
  <2>1. [n EXCEPT !.free = Tail(m.free)] = Repaged([m EXCEPT !.free = Tail(m.free)], g)
    BY DEF Repaged, Shaped
  <2> QED
    BY <1>1, <2>1 DEF AllocatesAlike, AllocateViaFreeList
<1>6. AllocatesAlike(ExtendFile(m), ExtendFile(n), g)
  <2> DEFINE len == ExtendedLength(m)
             U(k) == [k EXCEPT !.flen = len, !.mapped = 0]
             G(k) == [k EXCEPT !.flen = len, !.mapped = len, !.end = m.end + PreAllocatePageNum]
  <2>1. AllocatesAlike(Failed(U(m), NoMap), Failed(U(n), NoMap), g)
    <3>1. U(n) = Repaged(U(m), g)
      BY DEF Repaged, Shaped
    <3> HIDE DEF U
    <3> QED
      BY <3>1 DEF AllocatesAlike, Failed
  <2>2. AllocatesAlike(NextPage(G(m)), NextPage(G(n)), g)
    <3>1. G(m).cur = m.cur /\ G(n).cur = m.cur
      BY <1>1 DEF Shaped
    <3>2. [G(n) EXCEPT !.cur = m.cur + 1] = Repaged([G(m) EXCEPT !.cur = m.cur + 1], g)
      BY DEF Repaged, Shaped
    <3> HIDE DEF G
    <3> QED
      BY <3>1, <3>2 DEF AllocatesAlike, NextPage
  <2>3. /\ ExtendFile(m) = CASE len > DiskPages -> Failed(m, NoSpace)
                               [] len <= DiskPages /\ len > MapPages -> Failed(U(m), NoMap)
                               [] OTHER -> NextPage(G(m))
        /\ ExtendFile(n) = CASE len > DiskPages -> Failed(n, NoSpace)
                               [] len <= DiskPages /\ len > MapPages -> Failed(U(n), NoMap)
                               [] OTHER -> NextPage(G(n))
    BY <1>1, <1>2 DEF ExtendFile
  <2> HIDE DEF len, U, G
  <2> QED
    BY <1>3, <2>1, <2>2, <2>3
<1>7. /\ Allocate(m) = CASE m.end # 0 /\ ~InBounds(m, 0) -> Failed(m, Panicked)
                           [] m.end # 0 /\ InBounds(m, 0) /\ m.free # << >> -> AllocateViaFreeList(m)
                           [] m.end # 0 /\ InBounds(m, 0) /\ m.free = << >> /\ m.cur < m.end -> NextPage(m)
                           [] OTHER -> ExtendFile(m)
      /\ Allocate(n) = CASE m.end # 0 /\ ~InBounds(m, 0) -> Failed(n, Panicked)
                           [] m.end # 0 /\ InBounds(m, 0) /\ m.free # << >> -> AllocateViaFreeList(n)
                           [] m.end # 0 /\ InBounds(m, 0) /\ m.free = << >> /\ m.cur < m.end -> NextPage(n)
                           [] OTHER -> ExtendFile(n)
  BY <1>1, <1>2 DEF Allocate
<1> QED
  BY <1>3, <1>4, <1>5, <1>6, <1>7

(* Nor does it for a node that is persisted.                               *)
CopiesAlike(a, b) ==
  /\ b.page = a.page /\ b.err = a.err /\ Shaped(a.pm)
  /\ \E g : b.pm = Repaged(a.pm, g)

(* ... nor of two nodes that are persisted.                                *)
LEMMA CopyAlike ==
  ASSUME NEW m, Shaped(m), NEW g, NEW n, n = Repaged(m, g), NEW v, NEW u
  PROVE  CopiesAlike(CopyToNewPage(m, v), CopyToNewPage(n, u))
<1> DEFINE a == Allocate(m)
           b == Allocate(n)
<1>1. b.pm = Repaged(a.pm, g) /\ b.page = a.page /\ b.err = a.err
  BY AllocateAlike DEF AllocatesAlike
<1>2. Shaped(a.pm)
  BY AllocateAllocates DEF Allocated
<1>3. CopyToNewPage(m, v) = Store(a, v) /\ CopyToNewPage(n, u) = Store(b, u)
  BY Zenon DEF CopyToNewPage
<1> HIDE DEF a, b
<1>4. CASE a.err # NoError
  <2>1. Store(a, v) = a /\ Store(b, u) = b
    BY <1>1, <1>4 DEF Store
  <2> QED
    BY <1>1, <1>2, <1>3, <2>1, Zenon DEF CopiesAlike
<1>5. CASE a.err = NoError
  <2> DEFINE q == a.page
  <2>1. Store(a, v) = Write(a.pm, q, v) /\ Store(b, u) = Write(b.pm, q, u)
    BY <1>1, <1>5 DEF Store
  <2>2. b.pm.mapped = a.pm.mapped
    BY <1>1, <1>2, RepagedFields
  <2>3. InBounds(b.pm, q) = InBounds(a.pm, q)
    BY <2>2 DEF InBounds
  <2> HIDE DEF q
  <2>4. ASSUME NEW e
        PROVE  CopiesAlike(Failed(a.pm, e), Failed(b.pm, e))
    BY <1>1, <1>2 DEF CopiesAlike, Failed
  <2>5. ASSUME InBounds(a.pm, q), Slot(q) # 0
        PROVE  CopiesAlike(Write(a.pm, q, v), Write(b.pm, q, u))
    <3>1. /\ Write(a.pm, q, v) = [pm |-> [a.pm EXCEPT !.page[Slot(q)] = v], page |-> q, err |-> NoError]
          /\ Write(b.pm, q, u) = [pm |-> [b.pm EXCEPT !.page[Slot(q)] = u], page |-> q, err |-> NoError]
      BY <2>3, <2>5 DEF Write
    <3>2. Shaped([a.pm EXCEPT !.page[Slot(q)] = v])
      BY <1>2, PageOf
    <3>3. [b.pm EXCEPT !.page[Slot(q)] = u]
            = Repaged([a.pm EXCEPT !.page[Slot(q)] = v], [g EXCEPT ![Slot(q)] = u])
      BY <1>1, <1>2 DEF Repaged, Shaped
    <3> QED
      BY <3>1, <3>2, <3>3 DEF CopiesAlike
  <2>6. CASE InBounds(a.pm, q) /\ Slot(q) # 0
    BY <1>3, <2>1, <2>5, <2>6
  <2>7. CASE ~(InBounds(a.pm, q) /\ Slot(q) # 0)
    <3>1. \E e : Write(a.pm, q, v) = Failed(a.pm, e) /\ Write(b.pm, q, u) = Failed(b.pm, e)
      BY <2>3, <2>7 DEF Write
    <3> QED
      BY <1>3, <2>1, <2>4, <3>1
  <2> QED
    BY <2>6, <2>7
<1> QED
  BY <1>4, <1>5

(* In particular for two nodes on the same page.                           *)
LEMMA CopyEither ==
  ASSUME NEW m, Shaped(m), NEW v, NEW u
  PROVE  CopiesAlike(CopyToNewPage(m, v), CopyToNewPage(m, u))
<1>1. m = Repaged(m, m.page)
  BY DEF Repaged, Shaped
<1> QED
  BY <1>1, CopyAlike

(* What is left of a page manager that has persisted a node.               *)
CopyLeaves(m, v, c) ==
  LET a == Allocate(m)
  IN /\ Shaped(a.pm) /\ a.pm.page = m.page
     /\ c.err # NoError => a.err # NoError /\ c = a
     /\ c.err = NoError => a.err = NoError /\ c.page = a.page /\ c.pm = [a.pm EXCEPT !.page[Slot(a.page)] = v]

(* That is what persisting a node leaves.                                  *)
LEMMA CopyLeft ==
  ASSUME NEW m, Shaped(m), NEW v, Safe(CopyToNewPage(m, v))
  PROVE  CopyLeaves(m, v, CopyToNewPage(m, v))
<1> DEFINE a == Allocate(m)
           c == CopyToNewPage(m, v)
<1>1. Shaped(a.pm) /\ a.pm.page = m.page
  BY AllocateAllocates DEF Allocated
<1>2. c = Store(a, v)
  BY Zenon DEF CopyToNewPage
<1> HIDE DEF a, c
<1>3. CASE a.err # NoError
  <2>1. c = a
    BY <1>2, <1>3 DEF Store
  <2> QED
    BY <1>1, <1>3, <2>1 DEF CopyLeaves, a, c
<1>4. CASE a.err = NoError
  <2>1. c = Write(a.pm, a.page, v) /\ Safe(c)
    BY <1>2, <1>4 DEF Store, c
  <2>2. c = [pm |-> [a.pm EXCEPT !.page[Slot(a.page)] = v], page |-> a.page, err |-> NoError]
    BY <2>1 DEF Write, Failed, Safe
  <2> QED
    BY <1>1, <1>4, <2>2 DEF CopyLeaves, a, c
<1> QED
  BY <1>3, <1>4 DEF c

(* A page manager that is well formed has the shape of one.                *)
LEMMA WellShaped ==
  ASSUME NEW m, Cow!WellFormed(m)
  PROVE  Shaped(m) /\ Addressed(m) /\ m.page \in [PageNums -> Nodes]
<1>1. m \in Cow!PageManagers
  BY Zenon DEF Cow!WellFormed
<1>2. /\ m = [cur |-> m.cur, end |-> m.end, mapped |-> m.mapped, flen |-> m.flen,
              root |-> m.root, free |-> m.free, page |-> m.page]
      /\ m.page \in [PageNums -> Nodes] /\ m.free \in Seq(Nat)
  BY <1>1 DEF Cow!PageManagers, Cow!PageNums, PageNums
<1>3. m.cur \in Nat /\ m.cur < AddrPages
  BY WellFormedMeans
<1>4. m.page = [p \in PageNums |-> m.page[p]]
  BY <1>2
<1>5. Shaped(m)
  BY <1>2, <1>4, Zenon DEF Shaped, IsList
<1> QED
  BY <1>2, <1>3, <1>5 DEF Addressed

(* A page of zeros is a node.                                              *)
LEMMA NewNodeIsNode ==
  NewNode \in Nodes
<1>1. << >> \in Seq(Key \X Val) /\ <<0>> \in Seq(Nat)
  OBVIOUS
<1> QED
  BY <1>1 DEF NewNode, Nodes

(* Where a node goes, and where any other node would have gone.            *)
CopiedTo(m, v, c) ==
  LET z == CopyToNewPage(m, NewNode)
  IN /\ c.page \in PageNums /\ Shaped(c.pm) /\ c.pm.page = [m.page EXCEPT ![c.page] = v]
     /\ z.err = NoError /\ z.page = c.page /\ Cow!WellFormed(z.pm) /\ PageOwned(z.pm, z.page)
     /\ \E g : c.pm = Repaged(z.pm, g)

(* So goes every node that is persisted.                                   *)
LEMMA CopyGoesTo ==
  ASSUME NEW m, Cow!WellFormed(m), NEW v, CopyToNewPage(m, v).err = NoError
  PROVE  CopiedTo(m, v, CopyToNewPage(m, v))
<1> DEFINE a == Allocate(m)
           c == CopyToNewPage(m, v)
           z == CopyToNewPage(m, NewNode)
<1>1. Shaped(m) /\ m.page \in [PageNums -> Nodes]
  BY WellShaped
<1>2. Safe(c)
  BY DEF Safe, NoError, Panicked, Clobber
<1>3. CopyLeaves(m, v, c)
  BY <1>1, <1>2, CopyLeft
<1>4. CopiesAlike(z, c)
  BY <1>1, CopyEither
<1> HIDE DEF a, c, z
<1>5. c.err = NoError
  BY DEF c
<1>6. /\ Shaped(a.pm) /\ a.pm.page = m.page
      /\ c.page = a.page /\ c.pm = [a.pm EXCEPT !.page[Slot(a.page)] = v]
  BY <1>3, <1>5, Zenon DEF CopyLeaves, a
<1>7. z.err = NoError /\ z.page = c.page /\ \E g : c.pm = Repaged(z.pm, g)
  BY <1>4, <1>5, Zenon DEF CopiesAlike
<1>8. Cow!WellFormed(z.pm) /\ PageOwned(z.pm, z.page)
  <2>1. Safe(z)
    BY <1>7 DEF Safe, NoError, Panicked, Clobber
  <2>2. CopyResult(m, NewNode, z)
    BY <2>1, NewNodeIsNode, CopyResults DEF z
  <2> QED
    BY <1>7, <2>2, Zenon DEF CopyResult
<1>9. c.page \in PageNums /\ Slot(c.page) = c.page
  <2>1. \A p \in 1 .. z.pm.cur - 1 : p \in PageNums /\ Slot(p) = p
    BY <1>8, WellFormedMeans
  <2> QED
    BY <1>7, <1>8, <2>1, Zenon DEF PageOwned
<1>10. c.pm.page = [m.page EXCEPT ![c.page] = v]
  BY <1>6, <1>9 DEF Shaped
<1>11. Shaped(c.pm)
  BY <1>6, PageOf
<1> QED
  BY <1>7, <1>8, <1>9, <1>10, <1>11, Zenon DEF CopiedTo, c, z

(* What is on page p, if there is one.                                     *)
OnPage(n, p) == IF p \in PageNums THEN n.page[p] ELSE NewNode

(* The node that has been persisted is read off the page it went to.       *)
LEMMA CopyRead ==
  ASSUME NEW m, Cow!WellFormed(m), NEW v, Safe(CopyToNewPage(m, v)),
         NEW n, n = CopyToNewPage(m, v).pm, Cow!WellFormed(n),
         NEW u, u = OnPage(n, CopyToNewPage(m, NewNode).page)
  PROVE  u \in Nodes /\ Safe(CopyToNewPage(m, u)) /\ n = CopyToNewPage(m, u).pm
<1> DEFINE c == CopyToNewPage(m, v)
           z == CopyToNewPage(m, NewNode)
           b == CopyToNewPage(m, u)
<1>1. Shaped(m) /\ m.page \in [PageNums -> Nodes] /\ n.page \in [PageNums -> Nodes]
  BY WellShaped
<1>2. u \in Nodes
  BY <1>1, NewNodeIsNode DEF OnPage
<1>3. CASE c.err = NoError
  <2>1. CopiedTo(m, v, c)
    BY <1>3, CopyGoesTo
  <2>2. c.page \in PageNums /\ n.page = [m.page EXCEPT ![c.page] = v] /\ z.page = c.page
    BY <2>1, Zenon DEF CopiedTo
  <2>3. u = v
    BY <1>1, <2>2 DEF OnPage
  <2> QED
    BY <1>2, <2>3
<1>4. CASE c.err # NoError
  <2>1. CopiesAlike(c, b)
    BY <1>1, CopyEither
  <2>2. b.err = c.err /\ Safe(b)
    BY <2>1, Zenon DEF CopiesAlike, Safe
  <2>3. CopyLeaves(m, v, c) /\ CopyLeaves(m, u, b)
    BY <1>1, <2>2, CopyLeft
  <2>4. b = c
    BY <1>4, <2>2, <2>3, Zenon DEF CopyLeaves
  <2> QED
    BY <1>2, <2>2, <2>4
<1> QED
  BY <1>3, <1>4

(* A pair is persisted one node after the other.                           *)
PairOf(m, v, w, c) ==
  LET a == CopyToNewPage(m, v)
      b == CopyToNewPage(a.pm, w)
  IN /\ a.err = NoError => c.pm = b.pm /\ c.first = a.page /\ c.second = b.page /\ c.err = b.err
     /\ a.err # NoError => c.pm = a.pm /\ c.first = a.page /\ c.second = a.page /\ c.err = a.err

(* Two nodes are persisted one after the other.                            *)
LEMMA PairIsTwo ==
  ASSUME NEW m, NEW v, NEW w
  PROVE  PairOf(m, v, w, CopyPair(m, v, w))
<1> DEFINE a == CopyToNewPage(m, v)
           b == CopyToNewPage(a.pm, w)
           c == CopyPair(m, v, w)
<1>1. c = IF a.err = NoError THEN Paired(a, b) ELSE Paired(a, a)
  BY Zenon DEF CopyPair, Second
<1> HIDE DEF a, b, c
<1>2. /\ a.err = NoError => c.pm = b.pm /\ c.first = a.page /\ c.second = b.page /\ c.err = b.err
      /\ a.err # NoError => c.pm = a.pm /\ c.first = a.page /\ c.second = a.page /\ c.err = a.err
  BY <1>1 DEF Paired
<1> QED
  BY <1>2, Zenon DEF PairOf, a, b, c

(* So are two nodes.                                                       *)
LEMMA PairRead ==
  ASSUME NEW m, Cow!WellFormed(m), NEW v, NEW w, Safe(CopyPair(m, v, w)),
         NEW n, n = CopyPair(m, v, w).pm, Cow!WellFormed(n),
         NEW t, t = OnPage(n, CopyPair(m, NewNode, NewNode).first),
         NEW u, u = OnPage(n, CopyPair(m, NewNode, NewNode).second)
  PROVE  t \in Nodes /\ u \in Nodes /\ Safe(CopyPair(m, t, u)) /\ n = CopyPair(m, t, u).pm
<1> DEFINE c  == CopyPair(m, v, w)
           z  == CopyPair(m, NewNode, NewNode)
           o  == CopyPair(m, t, u)
           a  == CopyToNewPage(m, v)
           az == CopyToNewPage(m, NewNode)
           b  == CopyToNewPage(a.pm, w)
           bz == CopyToNewPage(az.pm, NewNode)
<1>1. Shaped(m) /\ m.page \in [PageNums -> Nodes] /\ n.page \in [PageNums -> Nodes]
  BY WellShaped
<1>2. t \in Nodes /\ u \in Nodes
  BY <1>1, NewNodeIsNode DEF OnPage
<1>3. /\ a.err = NoError => c.pm = b.pm /\ c.first = a.page /\ c.second = b.page /\ c.err = b.err
      /\ a.err # NoError => c.pm = a.pm /\ c.first = a.page /\ c.second = a.page /\ c.err = a.err
  <2>1. PairOf(m, v, w, c)
    BY PairIsTwo
  <2> QED
    BY <2>1, Zenon DEF PairOf
<1>4. /\ az.err = NoError => z.pm = bz.pm /\ z.first = az.page /\ z.second = bz.page /\ z.err = bz.err
      /\ az.err # NoError => z.pm = az.pm /\ z.first = az.page /\ z.second = az.page /\ z.err = az.err
  <2>1. PairOf(m, NewNode, NewNode, z)
    BY PairIsTwo
  <2> QED
    BY <2>1, Zenon DEF PairOf
<1>5. CASE a.err # NoError
  <2> DEFINE e == CopyToNewPage(m, t)
  <2>1. Safe(a)
    BY <1>3, <1>5 DEF Safe
  <2>2. CopiesAlike(a, e)
    BY <1>1, CopyEither
  <2>3. e.err = a.err /\ Safe(e)
    BY <2>1, <2>2, Zenon DEF CopiesAlike, Safe
  <2>4. CopyLeaves(m, v, a) /\ CopyLeaves(m, t, e)
    BY <1>1, <2>1, <2>3, CopyLeft
  <2>5. e = a
    BY <1>5, <2>3, <2>4, Zenon DEF CopyLeaves
  <2>6. o.pm = e.pm /\ o.err = e.err
    <3>1. PairOf(m, t, u, o)
      BY PairIsTwo
    <3> QED
      BY <1>5, <2>3, <3>1, Zenon DEF PairOf
  <2> QED
    BY <1>2, <1>3, <1>5, <2>1, <2>5, <2>6, Zenon DEF Safe
<1>6. CASE a.err = NoError
  <2>1. CopiedTo(m, v, a)
    BY <1>6, CopyGoesTo
  <2>2. /\ a.page \in PageNums /\ Shaped(a.pm) /\ a.pm.page = [m.page EXCEPT ![a.page] = v]
        /\ az.err = NoError /\ az.page = a.page /\ Cow!WellFormed(az.pm) /\ PageOwned(az.pm, az.page)
    BY <2>1, Zenon DEF CopiedTo
  <2>3. PICK g : a.pm = Repaged(az.pm, g)
    BY <2>1, Zenon DEF CopiedTo
  <2>4. Safe(b) /\ n = b.pm /\ z.first = a.page /\ z.second = bz.page
    BY <1>3, <1>4, <1>6, <2>2, Zenon DEF Safe
  <2>5. Shaped(az.pm)
    BY <2>2, WellShaped
  <2>6. CopiesAlike(bz, b)
    BY <2>3, <2>5, CopyAlike
  <2>7. bz.page = b.page /\ bz.err = b.err /\ Safe(bz)
    BY <2>4, <2>6, Zenon DEF CopiesAlike, Safe
  <2>8. CopyLeaves(a.pm, w, b)
    BY <2>2, <2>4, CopyLeft
  <2>9. a.pm.page[a.page] = v
    BY <1>1, <2>2
  <2>10. CASE b.err = NoError
    <3>1. CopyResult(az.pm, NewNode, bz)
      BY <2>2, <2>7, NewNodeIsNode, CopyResults
    <3>2. Cow!WellFormed(bz.pm) /\ PageOwned(bz.pm, bz.page) /\ ~PageOwned(az.pm, bz.page)
      BY <2>7, <2>10, <3>1, Zenon DEF CopyResult
    <3>3. b.page \in PageNums /\ Slot(b.page) = b.page /\ b.page # a.page
      <4>1. \A p \in 1 .. bz.pm.cur - 1 : p \in PageNums /\ Slot(p) = p
        BY <3>2, WellFormedMeans
      <4> QED
        BY <2>2, <2>7, <3>2, <4>1, Zenon DEF PageOwned
    <3>4. \E k : Shaped(k) /\ k.page = a.pm.page /\ n = [k EXCEPT !.page[b.page] = w]
      BY <2>4, <2>8, <2>10, <3>3, ZenonT(60) DEF CopyLeaves
    <3>5. n.page[b.page] = w /\ n.page[a.page] = v
      BY <2>2, <2>9, <3>3, <3>4 DEF Shaped
    <3>6. t = v /\ u = w
      BY <2>2, <2>4, <2>7, <3>3, <3>5 DEF OnPage
    <3> QED
      BY <1>2, <3>6
  <2>11. CASE b.err # NoError
    <3>1. n.page = a.pm.page
      BY <2>4, <2>8, <2>11, Zenon DEF CopyLeaves
    <3>2. t = v
      BY <2>2, <2>4, <2>9, <3>1 DEF OnPage
    <3> DEFINE e == CopyToNewPage(a.pm, u)
    <3>3. CopiesAlike(b, e)
      BY <2>2, CopyEither
    <3>4. e.err = b.err /\ Safe(e)
      BY <2>4, <3>3, Zenon DEF CopiesAlike, Safe
    <3>5. CopyLeaves(a.pm, u, e)
      BY <2>2, <3>4, CopyLeft
    <3>6. e = b
      BY <2>8, <2>11, <3>4, <3>5, Zenon DEF CopyLeaves
    <3>7. o.pm = e.pm /\ o.err = e.err
      <4>1. PairOf(m, v, u, o)
        BY <3>2, PairIsTwo
      <4> QED
        BY <1>6, <4>1, Zenon DEF PairOf
    <3> QED
      BY <1>2, <2>4, <3>4, <3>6, <3>7, Zenon DEF Safe
  <2> QED
    BY <2>10, <2>11
<1> QED
  BY <1>5, <1>6

-----------------------------------------------------------------------------
(* Pages that are owned stay owned, and are not written.                   *)
Keeps(m, o) == \A p : PageOwned(m, p) => PageOwned(o, p) /\ o.page[p] = m.page[p]

(* So it is when only fresh pages are written.                             *)
LEMMA FreshKeeps ==
  ASSUME NEW m, Cow!WellFormed(m), NEW n, Fresh(m, n)
  PROVE  Keeps(m, n)
<1>1. /\ m.cur \in Nat /\ Range(m.free) \subseteq 1 .. m.cur - 1
      /\ \A p \in 1 .. m.cur - 1 : p \in PageNums /\ Slot(p) = p /\ p \in Nat
  BY WellFormedMeans
<1>2. n.cur \in Nat /\ n.cur >= m.cur /\ Range(n.free) \subseteq Range(m.free)
  BY DEF Fresh, Addressed
<1>3. ASSUME NEW p, PageOwned(m, p)
      PROVE  PageOwned(n, p) /\ n.page[p] = m.page[p]
  <2>1. p \in 1 .. m.cur - 1 /\ p \notin Range(m.free)
    BY <1>3 DEF PageOwned
  <2>2. p \in 1 .. n.cur - 1 /\ ~(p >= m.cur)
    BY <1>1, <1>2, <2>1
  <2>3. PageOwned(n, p)
    BY <1>2, <2>1, <2>2 DEF PageOwned
  <2>4. \A f \in Range(m.free) : p # Slot(f)
    BY <1>1, <2>1
  <2> QED
    BY <1>1, <2>1, <2>2, <2>3, <2>4, Zenon DEF Fresh
<1> QED
  BY <1>3, Zenon DEF Keeps

(* Pages that are given up, each once and by their owner.                  *)
Discards(o, fl, ps) ==
  /\ ps \in Seq(Nat) /\ IsInjective(ps) /\ Len(ps) <= 2
  /\ \A p \in Range(ps) : PageOwned(o, p) /\ p \notin Range(fl)

(* They are the ones the in-memory free list has grown by.                 *)
LEMMA ListGrownBy ==
  ASSUME NEW s \in Seq(Nat), NEW t \in Seq(Nat)
  PROVE  SubSeq(s \o t, Len(s) + 1, Len(s \o t)) = t
<1> DEFINE a == Len(s)
           b == Len(t)
           u == SubSeq(s \o t, a + 1, a + b)
<1>1. a \in Nat /\ b \in Nat /\ Len(s \o t) = a + b /\ s \o t \in Seq(Nat)
      /\ \A i \in 1 .. b : (s \o t)[a + i] = t[i]
  OBVIOUS
<1>2. DOMAIN t = 1 .. b /\ t = [i \in 1 .. b |-> t[i]]
  OBVIOUS
<1> HIDE DEF a, b
<1>3. u = [i \in 1 .. (a + b) - (a + 1) + 1 |-> (s \o t)[(a + 1) + i - 1]]
  <2>1. a + 1 \in Nat /\ a + b \in Nat
    BY <1>1
  <2> QED
    BY <1>1, <2>1
<1>4. (a + b) - (a + 1) + 1 = b /\ \A i \in 1 .. b : (a + 1) + i - 1 = a + i
  BY <1>1
<1>5. u = [i \in 1 .. b |-> (s \o t)[a + i]]
  BY <1>3, <1>4
<1>6. u = [i \in 1 .. b |-> t[i]]
  BY <1>1, <1>5
<1> QED
  BY <1>1, <1>2, <1>6 DEF a

(* Two nodes are persisted by the page manager of CowStore as they are     *)
(* here.                                                                   *)
LEMMA SamePair ==
  ASSUME NEW m, NEW v, NEW w
  PROVE  Cow!CopyPair(m, v, w) = CopyPair(m, v, w)
<1>1. \A k, u : Cow!CopyToNewPage(k, u) = CopyToNewPage(k, u)
  BY SameManager, Zenon
<1>2. Cow!NoError = NoError
  BY DEF Cow!NoError, NoError
<1>3. \A a, b : Cow!Paired(a, b) = Paired(a, b)
  BY Zenon DEF Cow!Paired, Paired
<1> QED
  BY <1>1, <1>2, <1>3, Zenon DEF Cow!CopyPair, CopyPair, Cow!Second, Second

(* The tree that has been committed is the same as long as its pages are   *)
(* owned.                                                                  *)
LEMMA LiveSame ==
  ASSUME Cow!IInv, NEW o, Keeps(pm, o)
  PROVE  Reach(o, root) = Reach(pm, root)
<1>1. \A p \in Live : p \in 1 .. pm.cur - 1 /\ p \notin Cow!Range(pm.free)
  BY Zenon DEF Cow!IInv, Cow!LiveNotAllocatable
<1>2. \A p \in Live : PageOwned(pm, p)
  BY <1>1, Zenon DEF PageOwned, Cow!Range, Range
<1>3. Cow!WellFormed(pm) /\ root \in Live
  BY Zenon DEF Cow!IInv, Cow!MasterNamesLiveRoot
<1>4. root \in PageNums
  <2>1. \A p \in 1 .. pm.cur - 1 : p \in PageNums
    BY <1>3, WellFormedMeans
  <2> QED
    BY <1>2, <1>3, <2>1, Zenon DEF PageOwned
<1>5. \A p \in Reach(pm, root) : o.page[p] = pm.page[p]
  BY <1>2, Zenon DEF Keeps, Live
<1> QED
  BY <1>4, <1>5, ReachSame

(* What a step does to the tree, if it does not commit.                    *)
Moves ==
  \/ UNCHANGED <<pm, root, freelist>>
  \/ root' = root /\ \E ps : Discards(pm', freelist, ps) /\ freelist' = freelist \o ps

(* A page manager with which a step of CowStore leaves off.                *)
Leaves(r, ps) ==
  /\ r.err \notin {Panicked, Clobber} /\ pm' = r.pm
  /\ Discards(pm', freelist, ps) /\ freelist' = freelist \o ps /\ root' = root /\ Live' = Live

(* Such a step is one of CowStore.                                         *)
LEMMA LeavesPersists ==
  ASSUME NEW r, NEW ps, Leaves(r, ps)
  PROVE  Cow!Persist(r, ps)
<1>1. IsInjective(ps) /\ \A p \in Range(ps) : PageOwned(r.pm, p) /\ p \notin Range(freelist)
  BY Zenon DEF Leaves, Discards
<1>2. \A s : Cow!Range(s) = Range(s)
  BY Zenon DEF Cow!Range, Range
<1>3. Cow!IsInjective(ps)
  BY <1>1, Zenon DEF Cow!IsInjective, IsInjective
<1>4. Range(ps) \subseteq (1 .. r.pm.cur - 1) \ (Range(r.pm.free) \cup Range(freelist))
  BY <1>1 DEF PageOwned
<1>5. Cow!Retirable(r.pm, ps)
  BY <1>2, <1>3, <1>4, Zenon DEF Cow!Retirable, Cow!Owned
<1>6. Cow!Panicked = Panicked /\ Cow!Clobber = Clobber
  BY DEF Cow!Panicked, Panicked, Cow!Clobber, Clobber
<1> QED
  BY <1>5, <1>6 DEF Cow!Persist, Leaves

(* It is a step of CowStore that persists the nodes read off the pages     *)
(* they went to.                                                           *)
LEMMA MovesIsWork ==
  ASSUME Cow!IInv, Advances(pm, pm'), Cow!WellFormed(pm'), Moves
  PROVE  (\E vs \in NodesWritten : CowWork(vs)) \/ UNCHANGED <<pm, root, freelist>>
<1> SUFFICES ASSUME NEW ps, Discards(pm', freelist, ps), freelist' = freelist \o ps, root' = root
             PROVE  \E vs \in NodesWritten : CowWork(vs)
  BY DEF Moves
<1>1. Cow!WellFormed(pm) /\ freelist \in Seq(Nat)
  BY Zenon DEF Cow!IInv, Cow!TypeOK
<1>2. ps \in Seq(Nat) /\ Len(ps) <= 2
  BY DEF Discards
<1>3. Retired = ps
  BY <1>1, <1>2, ListGrownBy DEF Retired
<1>4. Live' = Live
  <2>1. Keeps(pm, pm')
    BY <1>1, FreshKeeps DEF Advances
  <2>2. \A o : Keeps(pm, o) => Reach(o, root) = Reach(pm, root)
    BY LiveSame
  <2>3. Live' = Reach(pm', root')
    BY DEF Live
  <2> QED
    BY <2>1, <2>2, <2>3 DEF Live
<1> DEFINE one  == CopyToNewPage(pm, NewNode)
           both == CopyPair(pm, NewNode, NewNode)
           W1   == <<OnPage(pm', one.page)>>
           W2   == <<OnPage(pm', both.first), OnPage(pm', both.second)>>
<1>5. NodesWritten = {<< >>, W1, W2}
  BY Zenon DEF NodesWritten, OnPage
<1>6. ASSUME NEW vs \in {<< >>, W1, W2}, vs \in Seq(Nodes), Cow!Work(vs, ps)
      PROVE  \E us \in NodesWritten : CowWork(us)
  BY <1>2, <1>3, <1>5, <1>6, Zenon DEF CowWork
<1>7. CASE pm' = pm
  <2> DEFINE r == [pm |-> pm, err |-> Cow!NoError]
  <2>1. r.err \notin {Panicked, Clobber} /\ r.pm = pm
    BY DEF Cow!NoError, Panicked, Clobber
  <2>2. Leaves(r, ps)
    BY <1>4, <1>7, <2>1 DEF Leaves
  <2>3. Cow!Persist(r, ps)
    BY <2>2, LeavesPersists
  <2>4. << >> \in Seq(Nodes) /\ Len(<< >>) = 0
    OBVIOUS
  <2>5. Cow!Work(<< >>, ps)
    BY <2>3, <2>4 DEF Cow!Work
  <2> QED
    BY <1>6, <2>4, <2>5
<1>8. CASE \E v : Safe(CopyToNewPage(pm, v)) /\ pm' = CopyToNewPage(pm, v).pm
  <2>1. PICK v : Safe(CopyToNewPage(pm, v)) /\ pm' = CopyToNewPage(pm, v).pm
    BY <1>8
  <2>2. PICK u : u = OnPage(pm', one.page)
    OBVIOUS
  <2>3. u \in Nodes /\ Safe(CopyToNewPage(pm, u)) /\ pm' = CopyToNewPage(pm, u).pm
    BY <1>1, <2>1, <2>2, CopyRead
  <2>4. Leaves(CopyToNewPage(pm, u), ps)
    BY <1>4, <2>3 DEF Leaves, Safe
  <2>5. Cow!Persist(Cow!CopyToNewPage(pm, u), ps)
    <3>1. Cow!CopyToNewPage(pm, u) = CopyToNewPage(pm, u)
      BY SameManager, Zenon
    <3> QED
      BY <2>4, <3>1, LeavesPersists
  <2>6. W1 \in Seq(Nodes) /\ Len(W1) = 1 /\ W1[1] = u
    BY <2>2, <2>3
  <2>7. Cow!Work(W1, ps)
    BY <2>5, <2>6 DEF Cow!Work
  <2> QED
    BY <1>6, <2>6, <2>7
<1>9. CASE \E v, w : Safe(CopyPair(pm, v, w)) /\ pm' = CopyPair(pm, v, w).pm
  <2>1. PICK v, w : Safe(CopyPair(pm, v, w)) /\ pm' = CopyPair(pm, v, w).pm
    BY <1>9
  <2>2. PICK t, u : t = OnPage(pm', both.first) /\ u = OnPage(pm', both.second)
    OBVIOUS
  <2>3. t \in Nodes /\ u \in Nodes /\ Safe(CopyPair(pm, t, u)) /\ pm' = CopyPair(pm, t, u).pm
    BY <1>1, <2>1, <2>2, PairRead
  <2>4. Leaves(CopyPair(pm, t, u), ps)
    BY <1>4, <2>3 DEF Leaves, Safe
  <2>5. Cow!Persist(Cow!CopyPair(pm, t, u), ps)
    BY <2>4, SamePair, LeavesPersists
  <2>6. W2 \in Seq(Nodes) /\ Len(W2) = 2 /\ W2[1] = t /\ W2[2] = u
    BY <2>2, <2>3
  <2>7. Cow!Work(W2, ps)
    BY <2>5, <2>6 DEF Cow!Work
  <2> QED
    BY <1>6, <2>6, <2>7
<1> QED
  BY <1>7, <1>8, <1>9 DEF Advances, Copies

-----------------------------------------------------------------------------
(* What can go wrong with a page: the file system fails, or the process    *)
(* panics.                                                                 *)
Environ(e) == e \in {NoError, NoSpace, NoMap, Panicked, Clobber}

(* Allocate, and what is persisted after it, answer nothing else.          *)
LEMMA CopyEnviron ==
  ASSUME NEW m, NEW v
  PROVE  Environ(CopyToNewPage(m, v).err)
<1> DEFINE a == Allocate(m)
<1>1. \A n, e : Failed(n, e).err = e
  BY DEF Failed
<1>2. \A n : NextPage(n).err = NoError /\ AllocateViaFreeList(n).err = NoError
  BY DEF NextPage, AllocateViaFreeList
<1>3. ExtendFile(m).err \in {NoSpace, NoMap, NoError}
  <2>1. \/ \E n : ExtendFile(m) = Failed(n, NoSpace) \/ ExtendFile(m) = Failed(n, NoMap)
        \/ \E n : ExtendFile(m) = NextPage(n)
    BY DEF ExtendFile
  <2> QED
    BY <1>1, <1>2, <2>1
<1>4. a = Failed(m, Panicked) \/ a = AllocateViaFreeList(m) \/ a = NextPage(m) \/ a = ExtendFile(m)
  BY DEF Allocate
<1>5. Environ(a.err)
  BY <1>1, <1>2, <1>3, <1>4 DEF Environ
<1> HIDE DEF a
<1>6. \A p : Environ(Write(a.pm, p, v).err)
  BY <1>1 DEF Write, Environ
<1>7. CopyToNewPage(m, v) = IF a.err = NoError THEN Write(a.pm, a.page, v) ELSE a
  BY DEF CopyToNewPage, Store, a
<1> QED
  BY <1>5, <1>6, <1>7

(* So do two nodes persisted.                                              *)
LEMMA PairEnviron ==
  ASSUME NEW m, NEW v, NEW w
  PROVE  Environ(PersistPair(m, v, w).err)
<1>1. Environ(CopyPair(m, v, w).err)
  <2> DEFINE a == CopyToNewPage(m, v)
             b == CopyToNewPage(a.pm, w)
  <2>1. PairOf(m, v, w, CopyPair(m, v, w))
    BY PairIsTwo
  <2>2. Environ(a.err) /\ Environ(b.err)
    BY CopyEnviron
  <2> QED
    BY <2>1, <2>2, Zenon DEF PairOf
<1> QED
  BY <1>1 DEF PersistPair, Environ

(* And the repairs.                                                        *)
LEMMA RepairEnviron ==
  ASSUME NEW m, NEW n, NEW ps, NEW e, Environ(e)
  PROVE  Environ(Repaired(m, n, ps, e).err)
  BY DEF Repaired, Environ

(* A split of the root answers no other error...                           *)
LEMMA SplitRootEnviron ==
  ASSUME NEW m, NEW n
  PROVE  Environ(SplitRoot(m, n).err)
<1> DEFINE c(v, w) == PersistPair(m, v, w)
<1>1. \E v, w, up : SplitRoot(m, n) = Repaired(c(v, w).pm, up, << >>, c(v, w).err)
  BY Zenon DEF SplitRoot
<1> QED
  BY <1>1, PairEnviron, RepairEnviron

(* ... nor does a split of a child...                                      *)
LEMMA SplitChildEnviron ==
  ASSUME NEW m, NEW n, NEW k
  PROVE  Environ(SplitChild(m, n, k).err)
<1> DEFINE c(v, w) == PersistPair(m, v, w)
<1>1. \/ SplitChild(m, n, k) = Repaired(m, n, << >>, Panicked)
      \/ SplitChild(m, n, k) = Repaired(m, n, << >>, NoError)
      \/ \E v, w, up, p : SplitChild(m, n, k) = Repaired(c(v, w).pm, up, <<p>>, c(v, w).err)
  BY Zenon DEF SplitChild
<1>2. Environ(Panicked) /\ Environ(NoError)
  BY DEF Environ
<1> QED
  BY <1>1, <1>2, PairEnviron, RepairEnviron

(* ... nor a merge...                                                      *)
LEMMA MergeEnviron ==
  ASSUME NEW m, NEW parent, NEW i
  PROVE  Environ(MergeChildren(m, parent, i).err)
<1>1. \E c, up, p, q : /\ MergeChildren(m, parent, i) = Repaired(c.pm, up, <<p, q>>, c.err)
                       /\ c = Failed(m, Panicked) \/ \E v : c = CopyToNewPage(m, v)
  BY Zenon DEF MergeChildren, Siblings
<1>2. Environ(Failed(m, Panicked).err)
  BY DEF Environ, Failed
<1> QED
  BY <1>1, <1>2, CopyEnviron, RepairEnviron

(* ... nor the filling of a child.                                         *)
LEMMA FillChildEnviron ==
  ASSUME NEW m, NEW n, NEW k
  PROVE  Environ(FillChild(m, n, k).err)
<1> DEFINE c(v, w) == PersistPair(m, v, w)
<1>1. \/ FillChild(m, n, k) = Repaired(m, n, << >>, Panicked)
      \/ FillChild(m, n, k) = Repaired(m, n, << >>, NoError)
      \/ \E left, child, i : FillChild(m, n, k) = RotateRight(m, n, left, child, i)
      \/ \E child, right, i : FillChild(m, n, k) = RotateLeft(m, n, child, right, i)
      \/ \E i : FillChild(m, n, k) = MergeChildren(m, n, i)
  BY Zenon DEF FillChild
<1>2. Environ(Panicked) /\ Environ(NoError)
  BY DEF Environ
<1>3. ASSUME NEW left, NEW child, NEW i
      PROVE  Environ(RotateRight(m, n, left, child, i).err)
  <2>1. \E v, w, up, p, q : RotateRight(m, n, left, child, i) =
                              Repaired(c(v, w).pm, up, <<p, q>>, c(v, w).err)
    BY Zenon DEF RotateRight
  <2> QED
    BY <2>1, PairEnviron, RepairEnviron
<1>4. ASSUME NEW child, NEW right, NEW i
      PROVE  Environ(RotateLeft(m, n, child, right, i).err)
  <2>1. \E v, w, up, p, q : RotateLeft(m, n, child, right, i) =
                              Repaired(c(v, w).pm, up, <<p, q>>, c(v, w).err)
    BY Zenon DEF RotateLeft
  <2> QED
    BY <2>1, PairEnviron, RepairEnviron
<1> QED
  BY <1>1, <1>2, <1>3, <1>4, MergeEnviron, RepairEnviron

-----------------------------------------------------------------------------
(* The pages that a level which waits still leads to: those below its      *)
(* pointers, but for the one that its child will replace, and the page of  *)
(* that child if it has yet to be given up.                                *)
Claim(m, f) ==
  Hanging(m, f.node.ptr, {f.slot + 1}) \cup
  (IF f.retire THEN {GetPtr(f.node, f.slot)} ELSE {})

(* And the pages below a node in memory.                                   *)
Tops(m, n) == IF n.type = "internal" THEN Hanging(m, n.ptr, {}) ELSE {}

(* A page in use: it is owned, nobody has given it up, and it is not the   *)
(* root of the committed tree, which is given up at the commit.            *)
InUse(m, fl, rt, p) == PageOwned(m, p) /\ p \notin Range(fl) /\ p # rt

(* What level f leads to is in use, and not part of T.                     *)
Claims(m, fl, rt, f, T) ==
  /\ \A p \in Claim(m, f) : InUse(m, fl, rt, p) /\ p \notin T
  /\ f.retire => GetPtr(f.node, f.slot) \notin Hanging(m, f.node.ptr, {f.slot + 1})

(* Nothing that the operation will still use has been given up, and no two *)
(* levels of the recursion, nor a level and the tree T it has in hand,     *)
(* lead to the same page.                                                  *)
Apart(m, fl, rt, st, T) ==
  /\ fl \in Seq(Nat) /\ PageOwned(m, rt) /\ rt \notin Range(fl)
  /\ \A p \in Range(fl) : PageOwned(m, p)
  /\ \A p \in T : InUse(m, fl, rt, p)
  /\ \A l \in 1 .. Len(st) : Claims(m, fl, rt, st[l], T)
  /\ \A l, k \in 1 .. Len(st) : l # k => Claim(m, st[l]) \cap Claim(m, st[k]) = {}

(* What a step makes of tree T: it gives up pages ps and has X in hand,    *)
(* pages of T or new ones.                                                 *)
Draws(m, o, T, ps, X) ==
  /\ ps \in Seq(Nat) /\ IsInjective(ps) /\ Len(ps) <= 2
  /\ \A p \in X : PageOwned(o, p) /\ (PageOwned(m, p) => p \in T) /\ p \notin Range(ps)
  /\ \A p \in Range(ps) : PageOwned(o, p) /\ (PageOwned(m, p) => p \in T)

(* Levels that wait below the same pages as before.                        *)
SameFrames(m, o, st) ==
  \A l \in 1 .. Len(st) : Hanging(o, st[l].node.ptr, {st[l].slot + 1}) =
                          Hanging(m, st[l].node.ptr, {st[l].slot + 1})

(* The pages given up are in use until then.                               *)
LEMMA DrawsDiscards ==
  ASSUME NEW m, NEW fl, NEW rt, NEW st, NEW T, Apart(m, fl, rt, st, T),
         NEW o, NEW ps, NEW X, Draws(m, o, T, ps, X)
  PROVE  Discards(o, fl, ps)
<1>1. ASSUME NEW p \in Range(ps) PROVE PageOwned(o, p) /\ p \notin Range(fl)
  <2>1. PageOwned(o, p) /\ (PageOwned(m, p) => p \in T)
    BY Zenon DEF Draws
  <2>2. \A q \in Range(fl) : PageOwned(m, q)
    BY Zenon DEF Apart
  <2>3. p \in T => p \notin Range(fl)
    BY Zenon DEF Apart, InUse
  <2> QED
    BY <2>1, <2>2, <2>3
<1> QED
  BY <1>1, Zenon DEF Discards, Draws

(* A step keeps the claims apart.                                          *)
LEMMA ApartKept ==
  ASSUME NEW m, NEW fl, NEW rt, NEW st, NEW T, Apart(m, fl, rt, st, T),
         NEW o, Keeps(m, o), SameFrames(m, o, st), NEW ps, NEW X, Draws(m, o, T, ps, X)
  PROVE  Apart(o, fl \o ps, rt, st, X)
<1>1. fl \in Seq(Nat) /\ ps \in Seq(Nat)
  BY Zenon DEF Apart, Draws
<1>2. Range(fl \o ps) = Range(fl) \cup Range(ps) /\ fl \o ps \in Seq(Nat)
  <2>1. Range(fl \o ps) = Range(fl) \cup Range(ps)
    BY <1>1, RangeConcatenation
  <2> QED
    BY <1>1, <2>1
<1>3. \A p : PageOwned(m, p) => PageOwned(o, p)
  BY Zenon DEF Keeps
<1>4. \A p \in Range(ps) : PageOwned(o, p) /\ (PageOwned(m, p) => p \in T)
  BY Zenon DEF Draws
<1>5. \A p \in T : InUse(m, fl, rt, p)
  BY Zenon DEF Apart
<1>6. PageOwned(m, rt) /\ rt \notin Range(fl) /\ \A p \in Range(fl) : PageOwned(m, p)
  BY Zenon DEF Apart
<1>7. PageOwned(o, rt) /\ rt \notin Range(fl \o ps)
  BY <1>2, <1>3, <1>4, <1>5, <1>6, Zenon DEF InUse
<1>8. \A p \in Range(fl \o ps) : PageOwned(o, p)
  BY <1>2, <1>3, <1>4, <1>6, Zenon
<1>9. \A p : InUse(m, fl, rt, p) /\ p \notin T => InUse(o, fl \o ps, rt, p) /\ p \notin X
  <2> SUFFICES ASSUME NEW p, InUse(m, fl, rt, p), p \notin T
               PROVE  InUse(o, fl \o ps, rt, p) /\ p \notin X
    OBVIOUS
  <2>1. PageOwned(m, p) /\ p \notin Range(fl) /\ p # rt
    BY Zenon DEF InUse
  <2>2. p \notin X
    BY <2>1, Zenon DEF Draws
  <2>3. p \notin Range(fl \o ps)
    BY <1>2, <1>4, <2>1, Zenon
  <2> QED
    BY <1>3, <2>1, <2>2, <2>3, Zenon DEF InUse
<1>10. \A p \in X : InUse(o, fl \o ps, rt, p)
  <2> SUFFICES ASSUME NEW p \in X PROVE InUse(o, fl \o ps, rt, p)
    OBVIOUS
  <2>1. PageOwned(o, p) /\ (PageOwned(m, p) => p \in T) /\ p \notin Range(ps)
    BY Zenon DEF Draws
  <2>2. p \notin Range(fl) /\ p # rt
    BY <1>5, <1>6, <2>1, Zenon DEF InUse
  <2> QED
    BY <1>2, <2>1, <2>2, Zenon DEF InUse
<1>11. ASSUME NEW l \in 1 .. Len(st)
       PROVE  Claims(o, fl \o ps, rt, st[l], X) /\ Claim(o, st[l]) = Claim(m, st[l])
  <2>1. Hanging(o, st[l].node.ptr, {st[l].slot + 1}) = Hanging(m, st[l].node.ptr, {st[l].slot + 1})
    BY Zenon DEF SameFrames
  <2>2. Claim(o, st[l]) = Claim(m, st[l])
    BY <2>1, Zenon DEF Claim
  <2>3. Claims(m, fl, rt, st[l], T)
    BY Zenon DEF Apart
  <2> QED
    BY <1>9, <2>1, <2>2, <2>3, Zenon DEF Claims
<1>12. \A l, k \in 1 .. Len(st) : l # k => Claim(o, st[l]) \cap Claim(o, st[k]) = {}
  <2>1. \A l, k \in 1 .. Len(st) : l # k => Claim(m, st[l]) \cap Claim(m, st[k]) = {}
    BY Zenon DEF Apart
  <2> QED
    BY <1>11, <2>1, Zenon
<1> QED
  BY <1>2, <1>7, <1>8, <1>10, <1>11, <1>12, Zenon DEF Apart

(* One more level waits: it takes what it leads to over from the tree in   *)
(* hand.                                                                   *)
LEMMA ApartPushed ==
  ASSUME NEW m, NEW fl, NEW rt, NEW st \in Seq(Frames), NEW T, Apart(m, fl, rt, st, T),
         NEW f, f \in Frames, NEW X, Claim(m, f) \cup X \subseteq T, Claim(m, f) \cap X = {},
         f.retire => GetPtr(f.node, f.slot) \notin Hanging(m, f.node.ptr, {f.slot + 1})
  PROVE  Apart(m, fl, rt, Append(st, f), X)
<1> DEFINE L == Len(st)
           t == Append(st, f)
<1>1. /\ L \in Nat /\ Len(t) = L + 1 /\ t[L + 1] = f
      /\ \A l \in 1 .. L : t[l] = st[l]
  OBVIOUS
<1>2. \A l \in 1 .. L : Claims(m, fl, rt, st[l], T)
  BY Zenon DEF Apart
<1>3. \A l, k \in 1 .. L : l # k => Claim(m, st[l]) \cap Claim(m, st[k]) = {}
  BY Zenon DEF Apart
<1> HIDE DEF L, t
<1>4. \A l \in 1 .. L + 1 : l \in 1 .. L \/ l = L + 1
  BY <1>1
<1>5. \A p \in T : InUse(m, fl, rt, p)
  BY Zenon DEF Apart
<1>6. \A l \in 1 .. L : Claims(m, fl, rt, st[l], X) /\ Claim(m, st[l]) \cap Claim(m, f) = {}
  <2> SUFFICES ASSUME NEW l \in 1 .. L
               PROVE  Claims(m, fl, rt, st[l], X) /\ Claim(m, st[l]) \cap Claim(m, f) = {}
    OBVIOUS
  <2>1. Claims(m, fl, rt, st[l], T)
    BY <1>2
  <2>2. \A p \in Claim(m, st[l]) : InUse(m, fl, rt, p) /\ p \notin T
    BY <2>1, Zenon DEF Claims
  <2>3. \A p \in Claim(m, st[l]) : InUse(m, fl, rt, p) /\ p \notin X
    BY <2>2
  <2> QED
    BY <2>1, <2>2, <2>3, Zenon DEF Claims
<1>7. Claims(m, fl, rt, f, X)
  <2>1. \A p \in Claim(m, f) : InUse(m, fl, rt, p) /\ p \notin X
    BY <1>5
  <2> QED
    BY <2>1, Zenon DEF Claims
<1>8. \A l \in 1 .. L + 1 : Claims(m, fl, rt, t[l], X)
  BY <1>1, <1>4, <1>6, <1>7, Zenon
<1>9. \A l, k \in 1 .. L + 1 : l # k => Claim(m, t[l]) \cap Claim(m, t[k]) = {}
  <2> SUFFICES ASSUME NEW l \in 1 .. L + 1, NEW k \in 1 .. L + 1, l # k
               PROVE  Claim(m, t[l]) \cap Claim(m, t[k]) = {}
    OBVIOUS
  <2>1. CASE l \in 1 .. L /\ k \in 1 .. L
    BY <1>1, <1>3, <2>1, Zenon
  <2>2. CASE l \in 1 .. L /\ k = L + 1
    BY <1>1, <1>6, <2>2, Zenon
  <2>3. CASE k \in 1 .. L /\ l = L + 1
    <3>1. Claim(m, st[k]) \cap Claim(m, f) = {} /\ t[k] = st[k] /\ t[l] = f
      BY <1>1, <1>6, <2>3, Zenon
    <3>2. Claim(m, f) \cap Claim(m, st[k]) = Claim(m, st[k]) \cap Claim(m, f)
      OBVIOUS
    <3> QED
      BY <3>1, <3>2, Zenon
  <2> QED
    BY <1>4, <2>1, <2>2, <2>3
<1>10. \A p \in X : InUse(m, fl, rt, p)
  BY <1>5
<1>11. /\ fl \in Seq(Nat) /\ PageOwned(m, rt) /\ rt \notin Range(fl)
       /\ \A p \in Range(fl) : PageOwned(m, p)
  BY Zenon DEF Apart
<1> QED
  BY <1>1, <1>8, <1>9, <1>10, <1>11, Zenon DEF Apart, t

(* One less: what it leads to is in hand again.                            *)
LEMMA ApartPopped ==
  ASSUME NEW m, NEW fl, NEW rt, NEW st \in Seq(Frames), st # << >>, NEW T, Apart(m, fl, rt, st, T)
  PROVE  /\ Apart(m, fl, rt, Front(st), T \cup Claim(m, Last(st)))
         /\ Claims(m, fl, rt, Last(st), T)
<1> DEFINE L == Len(st)
           t == Front(st)
           f == Last(st)
<1>1. /\ L \in Nat /\ L >= 1 /\ Len(t) = L - 1 /\ f = st[L] /\ \A l \in 1 .. L - 1 : t[l] = st[l]
  BY FrontOfList
<1>2. \A l \in 1 .. L : Claims(m, fl, rt, st[l], T)
  BY Zenon DEF Apart
<1>3. \A l, k \in 1 .. L : l # k => Claim(m, st[l]) \cap Claim(m, st[k]) = {}
  BY Zenon DEF Apart
<1> HIDE DEF L, t, f
<1>4. L \in 1 .. L /\ \A l \in 1 .. L - 1 : l \in 1 .. L /\ l # L
  BY <1>1
<1>5. Claims(m, fl, rt, f, T)
  BY <1>1, <1>2, <1>4, Zenon
<1>6. \A p \in T \cup Claim(m, f) : InUse(m, fl, rt, p)
  <2>1. \A p \in T : InUse(m, fl, rt, p)
    BY Zenon DEF Apart
  <2>2. \A p \in Claim(m, f) : InUse(m, fl, rt, p)
    BY <1>5, Zenon DEF Claims
  <2> QED
    BY <2>1, <2>2
<1>7. ASSUME NEW l \in 1 .. L - 1 PROVE Claims(m, fl, rt, t[l], T \cup Claim(m, f))
  <2>1. Claims(m, fl, rt, st[l], T) /\ t[l] = st[l]
    BY <1>1, <1>2, <1>4, Zenon
  <2>2. Claim(m, st[l]) \cap Claim(m, f) = {}
    BY <1>1, <1>3, <1>4, Zenon
  <2>3. \A p \in Claim(m, st[l]) : InUse(m, fl, rt, p) /\ p \notin T
    BY <2>1, Zenon DEF Claims
  <2>4. \A p \in Claim(m, st[l]) : InUse(m, fl, rt, p) /\ p \notin T \cup Claim(m, f)
    BY <2>2, <2>3
  <2> QED
    BY <2>1, <2>4, Zenon DEF Claims
<1>8. \A l, k \in 1 .. L - 1 : l # k => Claim(m, t[l]) \cap Claim(m, t[k]) = {}
  BY <1>1, <1>3, <1>4, Zenon
<1>9. /\ fl \in Seq(Nat) /\ PageOwned(m, rt) /\ rt \notin Range(fl)
      /\ \A p \in Range(fl) : PageOwned(m, p)
  BY Zenon DEF Apart
<1>10. Apart(m, fl, rt, t, T \cup Claim(m, f))
  BY <1>1, <1>6, <1>7, <1>8, <1>9, Zenon DEF Apart
<1> QED
  BY <1>5, <1>10 DEF t, f

(* Less can be in hand.                                                    *)
LEMMA ApartLess ==
  ASSUME NEW m, NEW fl, NEW rt, NEW st, NEW T, Apart(m, fl, rt, st, T), NEW X, X \subseteq T
  PROVE  Apart(m, fl, rt, st, X)
<1>1. \A p \in X : InUse(m, fl, rt, p)
  BY Zenon DEF Apart
<1>2. \A l \in 1 .. Len(st) : Claims(m, fl, rt, st[l], X)
  <2> SUFFICES ASSUME NEW l \in 1 .. Len(st) PROVE Claims(m, fl, rt, st[l], X)
    OBVIOUS
  <2>1. Claims(m, fl, rt, st[l], T)
    BY Zenon DEF Apart
  <2> QED
    BY <2>1, Zenon DEF Claims
<1> QED
  BY <1>1, <1>2, Zenon DEF Apart

-----------------------------------------------------------------------------
(* The pages below a level that waits are pages of the world: they lead    *)
(* where they did.                                                         *)
LEMMA FramesStand ==
  ASSUME NEW m, NEW w, Holds(m, w), NEW x, Later(w, x), NEW o, Holds(o, x),
         NEW st, NEW op, NEW gs, NEW d, Waiting(w, st, op, gs, d)
  PROVE  SameFrames(m, o, st)
<1> SUFFICES ASSUME NEW l \in 1 .. Len(st)
             PROVE  Hanging(o, st[l].node.ptr, {st[l].slot + 1}) =
                    Hanging(m, st[l].node.ptr, {st[l].slot + 1})
  BY Zenon DEF SameFrames
<1> DEFINE ptr == st[l].node.ptr
           S   == {st[l].slot + 1}
<1>1. PICK e : Frame(w, st[l], e, gs[l], gs[l + 1])
  BY Zenon DEF Waiting
<1>2. e \in Nat \ {0} /\ FitsBut(w, st[l].node.kvs, ptr, S, e)
  BY <1>1, Zenon DEF Frame
<1> HIDE DEF ptr, S
<1>3. e > 0
  BY <1>2
<1>4. \A i \in (1 .. Len(ptr)) \ S : ptr[i] \in DOMAIN w
  BY <1>2, <1>3, Zenon DEF FitsBut, ChildFits
<1>5. \A i \in (1 .. Len(ptr)) \ S : Reach(o, ptr[i]) = Reach(m, ptr[i])
  BY <1>4, ReachKept
<1>6. Hanging(o, ptr, S) = Hanging(m, ptr, S)
  BY <1>5 DEF Hanging
<1> QED
  BY <1>6 DEF ptr, S

(* A repair draws on what is below the node it repairs.                    *)
LEMMA RepairDraws ==
  ASSUME NEW m, NEW n, NEW s, Recycles(s, m, n), Keeps(m, s.pm), NEW x, NEW d,
         s.err = NoError => Holds(s.pm, x) /\ Fits(x, s.node, d) /\ s.node.type = "internal",
         NEW X, X \subseteq IF s.err = NoError THEN Hanging(s.pm, s.node.ptr, {}) ELSE {}
  PROVE  Draws(m, s.pm, Hanging(m, n.ptr, {}), s.retired, X)
<1>1. /\ s.retired \in Seq(Nat) /\ IsInjective(s.retired) /\ Len(s.retired) <= 2
      /\ \A r \in Range(s.retired) : PageOwned(m, r) /\ r \in Hanging(m, n.ptr, {})
  BY Zenon DEF Recycles
<1>2. \A r \in Range(s.retired) : PageOwned(s.pm, r)
  BY <1>1, Zenon DEF Keeps
<1>3. ASSUME NEW q \in X
      PROVE  /\ PageOwned(s.pm, q) /\ q \notin Range(s.retired)
             /\ PageOwned(m, q) => q \in Hanging(m, n.ptr, {})
  <2>1. s.err = NoError /\ q \in Hanging(s.pm, s.node.ptr, {})
    BY <1>3
  <2>2. PageOwned(m, q) => q \in Hanging(m, n.ptr, {}) /\ q \notin Range(s.retired)
    BY <2>1, Zenon DEF Recycles
  <2>3. PICK i \in 1 .. Len(s.node.ptr) : q \in Reach(s.pm, s.node.ptr[i])
    BY <2>1 DEF Hanging
  <2>4. s.node.ptr[i] \in DOMAIN x
    BY <2>1, PointersApart
  <2>5. q \in DOMAIN x
    BY <2>1, <2>3, <2>4, ReachKnown
  <2>6. PageOwned(s.pm, q)
    BY <2>1, <2>5, Zenon DEF Holds
  <2> QED
    BY <1>1, <2>2, <2>6
<1> QED
  BY <1>1, <1>2, <1>3, Zenon DEF Draws

(* The page of child i of a node in memory, the pages below that child,    *)
(* and those below the other children, part what is below the node.        *)
Splits(m, v, i, q, n) ==
  /\ q = v.ptr[i + 1] /\ q \in Hanging(m, v.ptr, {}) /\ q \notin Tops(m, n)
  /\ q \notin Hanging(m, v.ptr, {i + 1})
  /\ Hanging(m, v.ptr, {i + 1}) \cup Tops(m, n) \subseteq Hanging(m, v.ptr, {})
  /\ Hanging(m, v.ptr, {i + 1}) \cap Tops(m, n) = {}

(* So it is wherever the recursion goes down.                              *)
LEMMA DescentSplits ==
  ASSUME NEW m, NEW x, Holds(m, x), NEW v, NEW d, Fits(x, v, d), v.type = "internal",
         NEW i \in 0 .. Len(v.kvs), NEW n, n = x[v.ptr[i + 1]].node
  PROVE  Splits(m, v, i, v.ptr[i + 1], n) /\ v.ptr[i + 1] \in DOMAIN x
<1> DEFINE q == v.ptr[i + 1]
           e == i + 1
<1>1. /\ Len(v.ptr) = Len(v.kvs) + 1 /\ Len(v.kvs) \in Nat
      /\ \A j \in 1 .. Len(v.ptr) : v.ptr[j] \in DOMAIN x /\ v.ptr[j] \in Reach(m, v.ptr[j])
      /\ \A j, h \in 1 .. Len(v.ptr) : j # h => Reach(m, v.ptr[j]) \cap Reach(m, v.ptr[h]) = {}
  BY PointersApart
<1>2. e \in 1 .. Len(v.ptr)
  BY <1>1
<1>3. q \in DOMAIN x /\ q \in Reach(m, q) /\ q \in Nat
  <2>1. q \in DOMAIN x /\ q \in Reach(m, q)
    BY <1>1, <1>2
  <2> QED
    BY <2>1, PagesAreNumbers
<1>4. DOMAIN x \subseteq PageNums /\ World(x) /\ \A p \in DOMAIN x : m.page[p] = x[p].node
  BY WorldOnPages
<1>5. q \in PageNums /\ m.page[q] = n
  BY <1>3, <1>4
<1>6. Tops(m, n) \subseteq Reach(m, q) /\ q \notin Tops(m, n)
  <2>1. CASE n.type = "internal"
    <3>1. n.type # "leaf" /\ n.ptr \in Seq(Nat)
      BY <1>3, <1>4, <2>1, Zenon DEF World, Fits, FitsBut
    <3>2. Children(m)[q] = {n.ptr[j] : j \in 1 .. Len(n.ptr)}
      <4>1. Children(m)[q] = ToSet(n.ptr)
        BY <1>5, <3>1, Zenon DEF Children
      <4> QED
        BY <3>1, <4>1, SetOfList
    <3>3. \A c \in Children(m)[q] : c \in DOMAIN x /\ Reach(m, c) \subseteq Reach(m, q)
      BY <1>3, ReachStep
    <3>4. \A c \in Children(m)[q] : x[c].depth < x[q].depth /\ x[q].depth \in Nat /\ x[c].depth \in Nat
      <4>1. \A p \in DOMAIN x : x[p].depth \in Nat /\ \A c \in Children(m)[p] : x[c].depth < x[p].depth
        BY OneLevel
      <4> QED
        BY <1>3, <3>3, <4>1, Zenon
    <3>5. \A p : p \in Tops(m, n) <=> \E c \in Children(m)[q] : p \in Reach(m, c)
      BY <2>1, <3>2 DEF Tops, Hanging
    <3>6. ASSUME NEW c \in Children(m)[q], q \in Reach(m, c) PROVE FALSE
      <4>1. q = c \/ x[q].depth < x[c].depth
        BY <3>3, <3>6, ReachKnown
      <4>2. x[c].depth < x[q].depth /\ x[q].depth \in Nat /\ x[c].depth \in Nat
        BY <3>4
      <4>3. q = c => x[q].depth = x[c].depth
        OBVIOUS
      <4>4. ~(x[q].depth < x[c].depth) /\ x[q].depth # x[c].depth
        BY <4>2
      <4> QED
        BY <4>1, <4>3, <4>4, Zenon
    <3> QED
      BY <3>3, <3>5, <3>6, Zenon
  <2>2. CASE n.type # "internal"
    BY <2>2 DEF Tops
  <2> QED
    BY <2>1, <2>2
<1> HIDE DEF q
<1>7. \A p : p \in Hanging(m, v.ptr, {}) <=> \E j \in 1 .. Len(v.ptr) : p \in Reach(m, v.ptr[j])
  BY DEF Hanging
<1>8. \A p : p \in Hanging(m, v.ptr, {e}) <=> \E j \in 1 .. Len(v.ptr) : j # e /\ p \in Reach(m, v.ptr[j])
  BY DEF Hanging
<1> HIDE DEF e
<1>9. Reach(m, q) \subseteq Hanging(m, v.ptr, {})
  <2>1. q = v.ptr[e]
    BY DEF e, q
  <2> QED
    BY <1>2, <1>7, <2>1
<1>10. \A p \in Hanging(m, v.ptr, {e}) : p \notin Reach(m, q) /\ p \in Hanging(m, v.ptr, {})
  <2> SUFFICES ASSUME NEW p \in Hanging(m, v.ptr, {e})
               PROVE  p \notin Reach(m, q) /\ p \in Hanging(m, v.ptr, {})
    OBVIOUS
  <2>1. PICK j \in 1 .. Len(v.ptr) : j # e /\ p \in Reach(m, v.ptr[j])
    BY <1>8
  <2>2. Reach(m, v.ptr[j]) \cap Reach(m, v.ptr[e]) = {} /\ q = v.ptr[e]
    BY <1>1, <1>2, <2>1 DEF e, q
  <2> QED
    BY <1>7, <2>1, <2>2
<1>11. /\ q \in Hanging(m, v.ptr, {}) /\ q \notin Hanging(m, v.ptr, {e})
       /\ Hanging(m, v.ptr, {e}) \cup Tops(m, n) \subseteq Hanging(m, v.ptr, {})
       /\ Hanging(m, v.ptr, {e}) \cap Tops(m, n) = {}
  BY <1>3, <1>6, <1>9, <1>10
<1>12. Splits(m, v, i, q, n)
  BY <1>6, <1>11, Zenon DEF Splits, e, q
<1> QED
  BY <1>3, <1>12 DEF q

(* A root is not below the node that was read from it, or that it was      *)
(* split into: the first pair of that node is below none of its pointers.  *)
LEMMA RootNotBelow ==
  ASSUME NEW m, NEW x, Holds(m, x), NEW r, r \in DOMAIN x, NEW v, NEW d, Fits(x, v, d),
         x[r].pairs = PairsOf(x, v, d), v.type = "internal" => v.kvs # << >>
  PROVE  r \notin Tops(m, v) /\ \A p \in Tops(m, v) : PageOwned(m, p)
<1> SUFFICES ASSUME v.type = "internal"
             PROVE  r \notin Hanging(m, v.ptr, {}) /\ \A p \in Hanging(m, v.ptr, {}) : PageOwned(m, p)
  BY Zenon DEF Tops
<1>1. /\ d \in Nat \ {0} /\ Len(v.ptr) = Len(v.kvs) + 1 /\ Len(v.kvs) \in Nat
      /\ \A i \in 1 .. Len(v.ptr) : v.ptr[i] \in DOMAIN x
  BY PointersApart
<1>2. World(x) /\ v.kvs \in Seq(KVs)
  BY Zenon DEF Holds, Fits, FitsBut
<1>3. 1 \in 1 .. Len(v.kvs)
  BY <1>1, <1>2
<1>4. v.kvs[1] \in x[r].pairs
  BY <1>3, Zenon DEF PairsOf, PairsBut
<1>5. \A p : p \in Hanging(m, v.ptr, {}) <=> \E j \in 1 .. Len(v.ptr) : p \in Reach(m, v.ptr[j])
  BY DEF Hanging
<1>6. ASSUME NEW j \in 1 .. Len(v.ptr), NEW p, p \in Reach(m, v.ptr[j]) PROVE PageOwned(m, p) /\ p # r
  <2>1. v.ptr[j] \in DOMAIN x
    BY <1>1
  <2>2. p \in DOMAIN x /\ x[p].pairs \subseteq x[v.ptr[j]].pairs
    BY <1>6, <2>1, ReachKnown
  <2>3. PageOwned(m, p)
    BY <2>2, Zenon DEF Holds
  <2>4. ASSUME p = r PROVE FALSE
    <3>1. PICK u : u = v.kvs[1]
      OBVIOUS
    <3>2. u \in x[v.ptr[j]].pairs /\ j \in 1 .. Len(v.kvs) + 1
      BY <1>1, <1>4, <2>2, <2>4, <3>1
    <3>3. u[1] # v.kvs[1][1]
      BY <1>2, <1>3, <3>2, PairsAside
    <3> QED
      BY <3>1, <3>3
  <2> QED
    BY <2>3, <2>4
<1> QED
  BY <1>5, <1>6, Zenon

-----------------------------------------------------------------------------
(* What the operation in progress has in hand, in a call of Insert or      *)
(* Delete that serves one request: the committed tree is untouched by what *)
(* has been given up, and nothing that is in use has been.                 *)
Tidy ==
  /\ direct = TRUE /\ pc \notin {"commitUnsynced", "barrierUnsynced"}
  /\ pc \in {"start", "insert", "delete", "return", "next"} => Tail(todo) = << >>
  /\ pc = "start" => base = root
  /\ pc \in {"start", "barrier"} \/ (pc = "idle" /\ outcome \notin EnvFailures) => freelist = << >>
  /\ pc = "next" => ret # 0
  /\ pc \in {"fsync", "commit"} => base # 0
  /\ pc \in {"insert", "delete"} => Apart(pm, freelist, root, stack, Tops(pm, node))
  /\ pc \in {"return", "next"} => Apart(pm, freelist, root, stack, Reach(pm, ret))
  /\ pc \in {"fsync", "commit"} => Apart(pm, freelist, root, stack, Reach(pm, base))

(* A part of an operation that succeeds has its pages given up.            *)
GaveUp(r) == Succeeds(r) /\ freelist' = freelist \o r.retired

(* A request that is refused, or an error of the file system.              *)
Refuses ==
  pc = "start" /\ Head(todo).op = "insert" /\ Oversized(Pair) /\ outcome' = ErrOverflow

(* Order is kept, and an error is one that may be answered.                *)
Orderly == Tidy' /\ (pc' = "idle" => outcome' \in EnvFailures \/ Refuses)

(* The frame of a step, once it is known what the part gives up.           *)
LEMMA StepTidy ==
  ASSUME direct = TRUE, NEW r, NEW ACTION then, Step(r, FALSE, then), Environ(r.err),
         Safe(r) => Discards(r.pm, freelist, r.retired)
  PROVE  Moves /\ direct' = TRUE /\ (Orderly \/ (GaveUp(r) /\ then))
<1>1. CASE ~Safe(r)
  <2>1. Break
    BY <1>1 DEF Step, Safe
  <2>2. pc' = "broken" /\ direct' = direct /\ UNCHANGED <<pm, root, freelist>>
    BY <2>1 DEF Break, tree
  <2> QED
    BY <2>2 DEF Moves, Tidy, Orderly
<1>2. CASE Safe(r)
  <2>1. /\ Keep(r)
        /\ IF r.err = NoError THEN then ELSE Fail(r.err, FALSE)
    BY <1>2 DEF Step, Safe
  <2>2. pm' = r.pm /\ root' = root /\ freelist' = freelist \o r.retired /\ direct' = TRUE
    BY <2>1 DEF Keep
  <2>3. Moves
    <3>1. Discards(pm', freelist, r.retired)
      BY <1>2, <2>2
    <3> QED
      BY <2>2, <3>1, Zenon DEF Moves
  <2>4. CASE r.err = NoError
    BY <1>2, <2>1, <2>2, <2>3, <2>4 DEF Succeeds, GaveUp
  <2>5. CASE r.err # NoError
    <3>1. pc' = "idle" /\ outcome' = r.err
      BY <2>1, <2>5 DEF Fail, Reply
    <3>2. outcome' \in EnvFailures
      BY <1>2, <2>5, <3>1 DEF Safe, Environ, EnvFailures
    <3> QED
      BY <2>2, <2>3, <3>1, <3>2 DEF Tidy, Orderly
  <2> QED
    BY <2>4, <2>5
<1> QED
  BY <1>1, <1>2

(* Nothing is given up.                                                    *)
LEMMA NothingGivenUp ==
  ASSUME NEW m, NEW fl \in Seq(Nat)
  PROVE  Discards(m, fl, << >>) /\ fl \o << >> = fl
<1>1. << >> \in Seq(Nat) /\ Len(<< >>) <= 2 /\ Range(<< >>) = {} /\ IsInjective(<< >>)
  BY EmptyList
<1>2. fl \o << >> = fl
  OBVIOUS
<1> QED
  BY <1>1, <1>2, Zenon DEF Discards

(* A step of the recursion that leaves things apart.                       *)
LEMMA TidyOn ==
  ASSUME Tidy, pc \in {"start", "insert", "delete", "return"}, direct' = TRUE, todo' = todo,
         \/ pc' \in {"insert", "delete"} /\ Apart(pm', freelist', root', stack', Tops(pm', node'))
         \/ pc' = "return" /\ Apart(pm', freelist', root', stack', Reach(pm', ret'))
         \/ pc' = "next" /\ ret' # 0 /\ Apart(pm', freelist', root', stack', Reach(pm', ret'))
  PROVE  Orderly
<1>1. Tail(todo') = << >>
  BY DEF Tidy
<1>2. /\ pc' \notin {"commitUnsynced", "barrierUnsynced", "start", "barrier", "idle", "fsync", "commit"}
      /\ pc' = "next" => ret' # 0
      /\ pc' \in {"insert", "delete"} => Apart(pm', freelist', root', stack', Tops(pm', node'))
      /\ pc' \in {"return", "next"} => Apart(pm', freelist', root', stack', Reach(pm', ret'))
  <2>1. CASE pc' \in {"insert", "delete"} /\ Apart(pm', freelist', root', stack', Tops(pm', node'))
    <3>1. pc' \notin {"commitUnsynced", "barrierUnsynced", "start", "barrier", "idle", "fsync",
                      "commit", "return", "next"}
      BY <2>1
    <3> QED
      BY <2>1, <3>1
  <2>2. CASE pc' = "return" /\ Apart(pm', freelist', root', stack', Reach(pm', ret'))
    BY <2>2
  <2>3. CASE pc' = "next" /\ ret' # 0 /\ Apart(pm', freelist', root', stack', Reach(pm', ret'))
    BY <2>3
  <2> QED
    BY <2>1, <2>2, <2>3
<1> QED
  BY <1>1, <1>2 DEF Tidy, Orderly

(* An operation starts with nothing given up.                              *)
LEMMA StartApart ==
  ASSUME NEW o, NEW x, Holds(o, x), NEW rt, rt \in DOMAIN x, NEW v, NEW d, Fits(x, v, d),
         x[rt].pairs = PairsOf(x, v, d), v.type = "internal" => v.kvs # << >>
  PROVE  Apart(o, << >>, rt, << >>, Tops(o, v))
<1>1. rt \notin Tops(o, v) /\ \A p \in Tops(o, v) : PageOwned(o, p)
  BY RootNotBelow
<1>2. PageOwned(o, rt)
  BY Zenon DEF Holds
<1>3. << >> \in Seq(Nat) /\ Range(<< >>) = {} /\ 1 .. Len(<< >>) = {}
  BY EmptyList
<1>4. \A p \in Tops(o, v) : InUse(o, << >>, rt, p)
  BY <1>1, <1>3, Zenon DEF InUse
<1> QED
  BY <1>2, <1>3, <1>4, Zenon DEF Apart

(* Insert up to the recursion.                                             *)
LEMMA StartInsertTidy ==
  ASSUME RoomForThree, NEW w, Describes(w), Tidy, StartInsert
  PROVE  Orderly /\ Moves
<1> DEFINE r   == SplitIfFull(LoadAsNode(pm, base))
           old == IF direct \/ r.err # NoError THEN << >> ELSE <<base>>
           R   == [r EXCEPT !.retired = old]
           Onwards == /\ pc' = "insert" /\ node' = r.node /\ key' = Head(todo).key
                    /\ UNCHANGED <<stack, ret>> /\ Same
<1>1. /\ pc = "start" /\ Head(todo).op = "insert"
      /\ IF Oversized(Pair)
         THEN Keep(Repaired(pm, NewNode, << >>, NoError)) /\ Fail(ErrOverflow, FALSE)
         ELSE Step(R, FALSE, Onwards)
  BY Zenon DEF StartInsert
<1>2. Holds(pm, w) /\ Rooted(w, root) /\ stack = << >> /\ (base = 0 \/ Rooted(w, base))
  BY <1>1, StartFacts
<1>3. base = root /\ direct = TRUE /\ freelist = << >> /\ freelist \in Seq(Nat)
  BY <1>1 DEF Tidy
<1>4. CASE Oversized(Pair)
  <2>1. pm' = pm /\ root' = root /\ freelist' = freelist \o << >> /\ direct' = direct
        /\ Fail(ErrOverflow, FALSE)
    BY <1>1, <1>4 DEF Keep, Repaired
  <2>2. freelist' = freelist
    BY <1>3, <2>1
  <2>3. pc' = "idle" /\ outcome' = ErrOverflow
    BY <2>1 DEF Fail, Reply
  <2>4. Refuses
    BY <1>1, <1>4, <2>3, Zenon DEF Refuses
  <2> QED
    BY <1>3, <2>1, <2>2, <2>3, <2>4 DEF Moves, Tidy, Orderly
<1>5. CASE ~Oversized(Pair)
  <2>1. Step(R, FALSE, Onwards)
    BY <1>1, <1>5
  <2>2. R.pm = r.pm /\ R.err = r.err /\ Environ(r.err) /\ R.retired = << >>
    <3>1. \A t : "retired" \in DOMAIN t =>
            [t EXCEPT !.retired = old].pm = t.pm /\ [t EXCEPT !.retired = old].err = t.err
            /\ [t EXCEPT !.retired = old].retired = old
      OBVIOUS
    <3>2. \A m, n, ps, e : "retired" \in DOMAIN Repaired(m, n, ps, e)
      BY DEF Repaired
    <3>3. \A n : "retired" \in DOMAIN SplitRoot(pm, n)
      BY <3>2 DEF SplitRoot
    <3>4. Environ(NoError)
      BY DEF Environ
    <3>5. \A n : "retired" \in DOMAIN SplitIfFull(n) /\ Environ(SplitIfFull(n).err)
      BY <3>2, <3>3, <3>4, SplitRootEnviron, RepairEnviron DEF SplitIfFull
    <3>6. old = << >>
      BY <1>3
    <3> QED
      BY <3>1, <3>5, <3>6
  <2> HIDE DEF R
  <2>3. ASSUME Safe(r)
        PROVE  \E x, d : Entered(w, x, r, base, d)
    BY <1>2, <2>3, SplitIfFullEnters
  <2> HIDE DEF r
  <2>4. Discards(R.pm, freelist, R.retired) /\ freelist \o R.retired = << >>
    BY <1>3, <2>2, NothingGivenUp
  <2>5. Moves /\ direct' = TRUE /\ (Orderly \/ (GaveUp(R) /\ Onwards))
    BY <1>3, <2>1, <2>2, <2>4, StepTidy
  <2>6. ASSUME GaveUp(R), Onwards
        PROVE  Orderly
    <3>1. Safe(r) /\ r.err = NoError /\ pm' = r.pm /\ root' = root /\ freelist' = << >>
      BY <2>2, <2>4, <2>6 DEF GaveUp, Succeeds, Safe
    <3>2. PICK x, d : Entered(w, x, r, base, d)
      BY <2>3, <3>1
    <3>3. /\ Later(w, x) /\ Holds(r.pm, x) /\ Fits(x, r.node, d) /\ PairsOf(x, r.node, d) = w[root].pairs
          /\ r.node.type = "internal" => r.node.kvs # << >>
      BY <1>3, <3>1, <3>2 DEF Entered
    <3>4. root \in DOMAIN x /\ x[root].pairs = w[root].pairs
      <4>1. Rooted(x, root) /\ x[root] = w[root]
        BY <1>2, <3>3, RootedLater
      <4> QED
        BY <4>1, Zenon DEF Rooted
    <3>5. Apart(r.pm, << >>, root, << >>, Tops(r.pm, r.node))
      BY <3>3, <3>4, StartApart
    <3>6. pc' = "insert" /\ node' = r.node /\ stack' = << >> /\ todo' = todo
      BY <1>2, <2>6 DEF Same
    <3>7. Apart(pm', freelist', root', stack', Tops(pm', node'))
      BY <3>1, <3>5, <3>6
    <3> QED
      BY <1>1, <2>5, <3>6, <3>7, TidyOn
  <2> QED
    BY <2>5, <2>6
<1> QED
  BY <1>4, <1>5

(* Delete up to the recursion.                                             *)
LEMMA StartDeleteTidy ==
  ASSUME NEW w, Describes(w), Tidy, StartDelete
  PROVE  Orderly /\ Moves
<1>1. pc = "start"
  BY Zenon DEF StartDelete
<1>2. PICK n : n = LoadAsNode(pm, base)
  OBVIOUS
<1>3. PICK r : r = Repaired(pm, n, << >>, NoError)
  OBVIOUS
<1> DEFINE Onwards == /\ pc' = "delete" /\ node' = n /\ key' = Head(todo).key
                      /\ UNCHANGED <<stack, ret>> /\ Same
<1>4. Step(r, FALSE, Onwards)
  BY <1>2, <1>3, Zenon DEF StartDelete
<1>5. Holds(pm, w) /\ Rooted(w, root) /\ stack = << >> /\ (base = 0 \/ Rooted(w, base))
  BY <1>1, StartFacts
<1>6. base = root /\ direct = TRUE /\ freelist = << >> /\ freelist \in Seq(Nat)
  BY <1>1 DEF Tidy
<1>7. /\ r.pm = pm /\ r.retired = << >> /\ Environ(r.err)
      /\ r.err = NoError => n.ok
  <2>1. Environ(NoError)
    BY DEF Environ
  <2>2. NoError # Panicked
    BY DEF NoError, Panicked
  <2> QED
    BY <1>3, <2>1, <2>2, RepairEnviron DEF Repaired
<1>8. Discards(r.pm, freelist, r.retired) /\ freelist \o r.retired = << >>
  BY <1>6, <1>7, NothingGivenUp
<1>9. Moves /\ direct' = TRUE /\ (Orderly \/ (GaveUp(r) /\ Onwards))
  BY <1>4, <1>6, <1>7, <1>8, StepTidy
<1>10. ASSUME GaveUp(r), Onwards
       PROVE  Orderly
  <2>1. n.ok /\ pm' = pm /\ root' = root /\ freelist' = << >>
    BY <1>7, <1>8, <1>10 DEF GaveUp, Succeeds
  <2>2. /\ Fits(w, n, w[root].depth) /\ PairsOf(w, n, w[root].depth) = w[root].pairs
        /\ n.type = "internal" => n.kvs # << >>
    BY <1>2, <1>5, <1>6, <2>1, RootLoads
  <2>3. Apart(pm, << >>, root, << >>, Tops(pm, n))
    BY <1>5, <2>2, StartApart DEF Rooted
  <2>4. pc' = "delete" /\ node' = n /\ stack' = << >> /\ todo' = todo
    BY <1>5, <1>10 DEF Same
  <2>5. Apart(pm', freelist', root', stack', Tops(pm', node'))
    BY <2>1, <2>3, <2>4
  <2> QED
    BY <1>1, <1>9, <2>4, <2>5, TidyOn
<1> QED
  BY <1>9, <1>10

-----------------------------------------------------------------------------
(* Less can be taken in hand.                                              *)
LEMMA DrawsLess ==
  ASSUME NEW m, NEW o, NEW T, NEW ps, NEW X, Draws(m, o, T, ps, X), NEW Y, Y \subseteq X
  PROVE  Draws(m, o, T, ps, Y)
  BY Zenon DEF Draws

(* The page of the child that is entered can be given up at once, ...      *)
LEMMA ChildGivenUp ==
  ASSUME NEW m, NEW o, NEW T, NEW ps, NEW v, Draws(m, o, T, ps, Hanging(o, v.ptr, {})), Len(ps) <= 1,
         NEW i, NEW q \in Nat, NEW c, Splits(o, v, i, q, c),
         NEW f, f = [node |-> v, slot |-> i, retire |-> FALSE]
  PROVE  Draws(m, o, T, Append(ps, q), Claim(o, f) \cup Tops(o, c))
<1>1. Claim(o, f) = Hanging(o, v.ptr, {i + 1})
  BY DEF Claim
<1>2. ps \in Seq(Nat) /\ IsInjective(ps)
  BY Zenon DEF Draws
<1>3. q \in Hanging(o, v.ptr, {})
  BY Zenon DEF Splits
<1>4. PageOwned(o, q) /\ (PageOwned(m, q) => q \in T) /\ q \notin Range(ps)
  BY <1>3, Zenon DEF Draws
<1>5. /\ Append(ps, q) \in Seq(Nat) /\ IsInjective(Append(ps, q))
      /\ Range(Append(ps, q)) = Range(ps) \cup {q}
  BY <1>2, <1>4, AppendToInjective
<1>6. Len(Append(ps, q)) <= 2
  BY <1>2
<1>7. ASSUME NEW p \in Claim(o, f) \cup Tops(o, c)
      PROVE  PageOwned(o, p) /\ (PageOwned(m, p) => p \in T) /\ p \notin Range(Append(ps, q))
  <2>1. p \in Hanging(o, v.ptr, {}) /\ p # q
    BY <1>1, Zenon DEF Splits
  <2>2. PageOwned(o, p) /\ (PageOwned(m, p) => p \in T) /\ p \notin Range(ps)
    BY <2>1, Zenon DEF Draws
  <2> QED
    BY <1>5, <2>1, <2>2
<1>8. \A p \in Range(Append(ps, q)) : PageOwned(o, p) /\ (PageOwned(m, p) => p \in T)
  BY <1>4, <1>5, Zenon DEF Draws
<1> QED
  BY <1>5, <1>6, <1>7, <1>8, Zenon DEF Draws

(* ... or be left to the level that waits.                                 *)
LEMMA ChildLeft ==
  ASSUME NEW m, NEW o, NEW T, NEW ps, NEW v, Draws(m, o, T, ps, Hanging(o, v.ptr, {})),
         NEW i, NEW q, NEW c, Splits(o, v, i, q, c), q = GetPtr(v, i),
         NEW f, f = [node |-> v, slot |-> i, retire |-> TRUE]
  PROVE  Draws(m, o, T, ps, Claim(o, f) \cup Tops(o, c))
<1>1. Claim(o, f) = Hanging(o, v.ptr, {i + 1}) \cup {q}
  BY DEF Claim
<1>2. Claim(o, f) \cup Tops(o, c) \subseteq Hanging(o, v.ptr, {})
  BY <1>1, Zenon DEF Splits
<1> QED
  BY <1>2, DrawsLess

(* One level down.                                                         *)
LEMMA ApartBelow ==
  ASSUME NEW m, NEW fl, NEW rt, NEW st \in Seq(Frames), NEW T, Apart(m, fl, rt, st, T),
         NEW o, Keeps(m, o), SameFrames(m, o, st), NEW f, f \in Frames, NEW c,
         Splits(o, f.node, f.slot, GetPtr(f.node, f.slot), c),
         NEW ps, Draws(m, o, T, ps, Claim(o, f) \cup Tops(o, c))
  PROVE  Apart(o, fl \o ps, rt, Append(st, f), Tops(o, c))
<1> DEFINE X == Claim(o, f) \cup Tops(o, c)
           q == GetPtr(f.node, f.slot)
<1>1. Apart(o, fl \o ps, rt, st, X)
  BY ApartKept
<1>2. /\ q \notin Hanging(o, f.node.ptr, {f.slot + 1}) /\ q \notin Tops(o, c)
      /\ Hanging(o, f.node.ptr, {f.slot + 1}) \cap Tops(o, c) = {}
  BY Zenon DEF Splits
<1>3. Claim(o, f) \cap Tops(o, c) = {}
  <2>1. Claim(o, f) \subseteq Hanging(o, f.node.ptr, {f.slot + 1}) \cup {q}
    BY DEF Claim
  <2> QED
    BY <1>2, <2>1
<1>4. Claim(o, f) \cup Tops(o, c) \subseteq X
  OBVIOUS
<1> HIDE DEF X
<1> QED
  BY <1>1, <1>2, <1>3, <1>4, ApartPushed

(* insert on an internal node.                                             *)
LEMMA InsertIntoInternalTidy ==
  ASSUME RoomForThree, NEW w, Describes(w), Tidy, InsertIntoInternal, Keeps(pm, pm')
  PROVE  Orderly /\ Moves
<1>1. pc = "insert" /\ node.type = "internal"
  BY Zenon DEF InsertIntoInternal
<1>2. PICK m, n, s, st, fl : m = pm /\ n = node /\ s = SplitChild(m, n, key) /\ st = stack /\ fl = freelist
  OBVIOUS
<1>3. PICK i, q, c : i = FindIndex(s.node, key) /\ q = GetPtr(s.node, i) /\ c = LoadAsNode(s.pm, q)
  OBVIOUS
<1>4. PICK r : r = IF s.err # NoError THEN s
                   ELSE Repaired(s.pm, c, Append(s.retired, q), NoError)
  OBVIOUS
<1>5. PICK f : f = [node |-> s.node, slot |-> i, retire |-> FALSE]
  OBVIOUS
<1> DEFINE Onwards == /\ node' = c
                    /\ stack' = Append(stack, f)
                    /\ UNCHANGED <<pc, key, ret>> /\ Same
<1>6. direct = TRUE /\ Apart(m, fl, root, st, Tops(m, n)) /\ Tops(m, n) = Hanging(m, n.ptr, {})
  BY <1>1, <1>2 DEF Tidy, Tops
<1>7. Step(r, FALSE, Onwards)
  <2>1. Step(r, Swallowed, Onwards)
    BY <1>2, <1>3, <1>4, <1>5, Zenon DEF InsertIntoInternal
  <2>2. Swallowed = FALSE
    BY <1>6 DEF Swallowed
  <2> QED
    BY <2>1, <2>2
<1>8. Holds(m, w) /\ todo \in Seq(Request) /\ todo # << >>
  BY <1>1, <1>2, DescentFacts
<1>9. PICK gs, d : Descent(w, gs, d)
  BY <1>1, DescentFacts
<1>10. PICK kv, goal : kv = Pair /\ goal = gs[Len(stack) + 1]
  OBVIOUS
<1>11. /\ Waiting(w, st, Head(todo).op, gs, d) /\ key = kv[1] /\ Inserting(w, n, kv, goal, d)
  BY <1>1, <1>2, <1>9, <1>10, Zenon DEF Descent
<1>12. /\ Fits(w, n, d) /\ n.kvs # << >> /\ kv \in KVs /\ d # 0 /\ kv[1] \in Key
  <2>1. Fits(w, n, d) /\ (n.type = "internal" => n.kvs # << >>) /\ kv \in KVs
    BY <1>11, Zenon DEF Inserting
  <2>2. d # 0
    BY <1>1, <1>2, <2>1, Zenon DEF Fits
  <2> QED
    BY <1>1, <1>2, <2>1, <2>2 DEF KVs
<1>13. Environ(r.err) /\ (Safe(r) => Safe(s)) /\ r.pm = s.pm
       /\ (Safe(r) /\ r.err = NoError => s.err = NoError /\ c.ok)
       /\ r.retired = IF s.err # NoError THEN s.retired ELSE Append(s.retired, q)
  <2>1. CASE s.err # NoError
    BY <1>2, <1>4, <2>1, SplitChildEnviron
  <2>2. CASE s.err = NoError
    <3>1. r.pm = s.pm /\ r.err = (IF c.ok THEN NoError ELSE Panicked) /\ r.retired = Append(s.retired, q)
      BY <1>4, <2>2 DEF Repaired
    <3>2. Safe(s) /\ Environ(NoError) /\ Environ(Panicked)
      BY <2>2 DEF Safe, NoError, Panicked, Clobber, Environ
    <3>3. Panicked # NoError
      BY DEF NoError, Panicked
    <3> QED
      BY <2>2, <3>1, <3>2, <3>3
  <2> QED
    BY <2>1, <2>2
<1>14. ASSUME Safe(s), s.err = NoError => c.ok, pm' = s.pm
       PROVE  \E x : /\ Later(w, x) /\ Holds(s.pm, x) /\ (s.err = NoError => f \in Frames)
                     /\ s.err = NoError => Splits(s.pm, s.node, i, q, c)
                     /\ Draws(m, s.pm, Tops(m, n), r.retired,
                              IF s.err = NoError THEN Claim(s.pm, f) \cup Tops(s.pm, c) ELSE {})
  <2>1. Reuses(s, m, n) /\ Len(s.retired) <= 1 /\ \E x : KeepsPairs(s, w, x, n, d)
    BY <1>1, <1>2, <1>8, <1>11, <1>12, <1>14, SplitChildKeepsPairs
  <2>2. PICK x : KeepsPairs(s, w, x, n, d)
    BY <2>1
  <2>3. Recycles(s, m, n)
    BY <1>1, <1>2, <1>8, <1>12, <2>1, <2>2, RepairRecycles
  <2>4. /\ Later(w, x) /\ Holds(s.pm, x)
        /\ s.err = NoError => Fits(x, s.node, d) /\ PairsOf(x, s.node, d) = PairsOf(w, n, d)
    BY <2>2, Zenon DEF KeepsPairs
  <2>5. s.err = NoError => s.node.type = "internal"
    <3> SUFFICES ASSUME s.err = NoError PROVE s.node.type = "internal"
      OBVIOUS
    <3>1. s.node \in Nodes /\ (s.node.type = "leaf" <=> d = 0)
      BY <2>4, Zenon DEF Fits
    <3> QED
      BY <1>12, <3>1 DEF Nodes
  <2>6. Keeps(m, s.pm)
    BY <1>2, <1>14
  <2>7. Draws(m, s.pm, Hanging(m, n.ptr, {}), s.retired,
              IF s.err = NoError THEN Hanging(s.pm, s.node.ptr, {}) ELSE {})
    BY <2>3, <2>4, <2>5, <2>6, RepairDraws
  <2>8. CASE s.err # NoError
    BY <1>6, <1>13, <2>4, <2>7, <2>8
  <2>9. CASE s.err = NoError
    <3> DEFINE v == s.node
    <3>1. Fits(x, v, d) /\ v.type = "internal" /\ PairsOf(x, v, d) = PairsOf(w, n, d)
      BY <2>4, <2>5, <2>9
    <3>2. v \in Nodes /\ v.kvs \in Seq(KVs) /\ InOrder(v.kvs)
      BY <3>1, Zenon DEF Fits, FitsBut
    <3>3. ~HasKey(v.kvs, kv[1])
      <4>1. ASSUME NEW z \in 1 .. Len(v.kvs) PROVE v.kvs[z][1] # kv[1]
        <5>1. v.kvs[z] \in PairsOf(x, v, d)
          BY Zenon DEF PairsOf, PairsBut
        <5>2. \A u \in PairsOf(w, n, d) : u[1] # kv[1]
          BY <1>11, Zenon DEF Inserting
        <5> QED
          BY <3>1, <5>1, <5>2
      <4> QED
        BY <4>1, Zenon DEF HasKey
    <3>4. i \in 0 .. Len(v.kvs)
      BY <1>3, <1>11, <1>12, <3>2, <3>3, IndexBetween
    <3>5. q = v.ptr[i + 1]
      BY <1>3, Zenon DEF GetPtr
    <3>6. Splits(s.pm, v, i, q, x[q].node) /\ q \in DOMAIN x
      BY <2>4, <3>1, <3>4, <3>5, DescentSplits
    <3>7. c = x[q].node
      BY <1>3, <1>14, <2>4, <2>9, <3>6, LoadHeld
    <3>8. q \in Nat
      BY <2>4, <3>6, PagesAreNumbers
    <3>9. Splits(s.pm, v, i, q, c)
      BY <3>6, <3>7
    <3>10. Draws(m, s.pm, Hanging(m, n.ptr, {}), s.retired, Hanging(s.pm, v.ptr, {}))
      BY <2>7, <2>9
    <3> HIDE DEF v
    <3>11. f = [node |-> v, slot |-> i, retire |-> FALSE]
      BY <1>5 DEF v
    <3>12. Draws(m, s.pm, Hanging(m, n.ptr, {}), Append(s.retired, q), Claim(s.pm, f) \cup Tops(s.pm, c))
      BY <2>1, <3>8, <3>9, <3>10, <3>11, ChildGivenUp
    <3>13. f \in Frames
      BY <3>2, <3>4, <3>11 DEF Frames
    <3> QED
      BY <1>6, <1>13, <2>4, <2>9, <3>9, <3>12, <3>13 DEF v
  <2> QED
    BY <2>8, <2>9
<1>15. Step(r, FALSE, Onwards) /\ Safe(r) => pm' = r.pm
  BY Zenon DEF Step, Safe, Keep
<1>16. Safe(r) => Discards(r.pm, freelist, r.retired)
  <2> SUFFICES ASSUME Safe(r) PROVE Discards(r.pm, freelist, r.retired)
    OBVIOUS
  <2>1. Safe(s) /\ pm' = s.pm
    BY <1>7, <1>13, <1>15
  <2>2. CASE s.err = NoError => c.ok
    <3>1. \E X : Draws(m, s.pm, Tops(m, n), r.retired, X)
      BY <1>14, <2>1, <2>2
    <3> QED
      BY <1>2, <1>6, <1>13, <3>1, DrawsDiscards
  <2>3. CASE ~(s.err = NoError => c.ok)
    <3>1. r.err = Panicked
      BY <1>4, <2>3 DEF Repaired
    <3> QED
      BY <3>1 DEF Safe
  <2> QED
    BY <2>2, <2>3
<1>17. Moves /\ direct' = TRUE /\ (Orderly \/ (GaveUp(r) /\ Onwards))
  BY <1>6, <1>7, <1>13, <1>16, StepTidy
<1>18. ASSUME GaveUp(r), Onwards
       PROVE  Orderly
  <2>1. /\ Safe(s) /\ s.err = NoError /\ c.ok /\ pm' = s.pm /\ root' = root
        /\ freelist' = fl \o r.retired
    BY <1>2, <1>13, <1>18 DEF GaveUp, Succeeds
  <2>2. PICK x : /\ Later(w, x) /\ Holds(s.pm, x) /\ f \in Frames /\ Splits(s.pm, s.node, i, q, c)
                 /\ Draws(m, s.pm, Tops(m, n), r.retired, Claim(s.pm, f) \cup Tops(s.pm, c))
    BY <1>14, <2>1
  <2>3. SameFrames(m, s.pm, st)
    BY <1>8, <1>11, <2>2, FramesStand
  <2>4. st \in Seq(Frames)
    BY <1>11, Zenon DEF Waiting
  <2>5. Keeps(m, s.pm)
    BY <1>2, <2>1
  <2>6. Splits(s.pm, f.node, f.slot, GetPtr(f.node, f.slot), c)
    BY <1>3, <1>5, <2>2
  <2>7. Apart(s.pm, fl \o r.retired, root, Append(st, f), Tops(s.pm, c))
    BY <1>6, <2>2, <2>3, <2>4, <2>5, <2>6, ApartBelow
  <2>8. pc' = "insert" /\ todo' = todo /\ node' = c /\ stack' = Append(st, f)
    BY <1>1, <1>2, <1>18 DEF Same
  <2>9. Apart(pm', freelist', root', stack', Tops(pm', node'))
    BY <2>1, <2>7, <2>8
  <2> QED
    BY <1>1, <1>17, <2>8, <2>9, TidyOn
<1> QED
  BY <1>17, <1>18

-----------------------------------------------------------------------------
(* Pages that are in use can be given up, or go on being used.             *)
LEMMA PersistDraws ==
  ASSUME NEW m, NEW w, Holds(m, w), NEW v, NEW d, Fits(w, v, d),
         NEW T, NEW ps, Draws(m, m, T, ps, Tops(m, v)), \A p \in T : PageOwned(m, p),
         NEW c, c = CopyToNewPage(m, v), Safe(c), Keeps(m, c.pm)
  PROVE  \E x : /\ Later(w, x) /\ Holds(c.pm, x)
                /\ Draws(m, c.pm, T, ps, IF c.err = NoError THEN Reach(c.pm, c.page) ELSE {})
<1>1. PICK x : Later(w, x) /\ Holds(c.pm, x) /\ (c.err = NoError => On(x, c.page, w, v, d))
  <2>1. \E x : /\ Later(w, x) /\ Holds(CopyToNewPage(m, v).pm, x)
               /\ CopyToNewPage(m, v).err = NoError => On(x, CopyToNewPage(m, v).page, w, v, d)
    BY PersistNode
  <2> QED
    BY <2>1, Zenon
<1>2. /\ ps \in Seq(Nat) /\ IsInjective(ps) /\ Len(ps) <= 2
      /\ \A p \in Range(ps) : PageOwned(m, p) /\ p \in T
      /\ \A p \in Tops(m, v) : PageOwned(m, p) /\ p \in T /\ p \notin Range(ps)
  BY Zenon DEF Draws
<1>3. \A p \in Range(ps) : PageOwned(c.pm, p)
  BY <1>2, Zenon DEF Keeps
<1>4. ASSUME c.err = NoError
      PROVE  \A q \in Reach(c.pm, c.page) : q = c.page \/ q \in Tops(m, v)
  <2>1. c.page \in DOMAIN x /\ x[c.page] = Entry(w, v, d)
    BY <1>1, <1>4, Zenon DEF On
  <2>2. x[c.page].node = v
    BY <2>1 DEF Entry
  <2>3. c.page \in PageNums /\ c.pm.page[c.page] = v
    BY <1>1, <2>1, <2>2, WorldOnPages
  <2>4. \A q \in Reach(c.pm, c.page) :
          q = c.page \/ \E a \in Children(c.pm)[c.page] : q \in Reach(c.pm, a)
    BY <1>1, <2>1, ReachStep
  <2>5. CASE v.type # "internal"
    <3>1. v.type = "leaf"
      BY <2>5 DEF Fits, Nodes
    <3>2. Children(c.pm)[c.page] = {}
      BY <2>3, <3>1, Zenon DEF Children
    <3> QED
      BY <2>4, <3>2
  <2>6. CASE v.type = "internal"
    <3>1. v.type # "leaf" /\ v.ptr \in Seq(Nat)
      BY <2>6, Zenon DEF Fits, FitsBut
    <3>2. Children(c.pm)[c.page] = {v.ptr[i] : i \in 1 .. Len(v.ptr)}
      <4>1. Children(c.pm)[c.page] = ToSet(v.ptr)
        BY <2>3, <3>1, Zenon DEF Children
      <4> QED
        BY <3>1, <4>1, SetOfList
    <3>3. \A i \in 1 .. Len(v.ptr) : v.ptr[i] \in DOMAIN w
      BY <2>6, PointersApart
    <3>4. \A i \in 1 .. Len(v.ptr) : Reach(c.pm, v.ptr[i]) = Reach(m, v.ptr[i])
      BY <1>1, <3>3, ReachKept
    <3>5. \A q : (\E a \in Children(c.pm)[c.page] : q \in Reach(c.pm, a)) => q \in Tops(m, v)
      BY <2>6, <3>2, <3>4 DEF Tops, Hanging
    <3> QED
      BY <2>4, <3>5, Zenon
  <2> QED
    BY <2>5, <2>6
<1>5. ASSUME c.err = NoError
      PROVE  ~PageOwned(m, c.page) /\ PageOwned(c.pm, c.page)
  <2>1. Cow!WellFormed(m) /\ v \in Nodes
    BY Zenon DEF Holds, Fits
  <2>2. CopyResult(m, v, c)
    BY <2>1, CopyResults
  <2> QED
    BY <1>5, <2>2, Zenon DEF CopyResult
<1>6. ASSUME c.err = NoError, NEW q \in Reach(c.pm, c.page)
      PROVE  PageOwned(c.pm, q) /\ (PageOwned(m, q) => q \in T) /\ q \notin Range(ps)
  <2>1. CASE q = c.page
    BY <1>2, <1>5, <1>6, <2>1
  <2>2. CASE q \in Tops(m, v)
    <3>1. PageOwned(m, q) /\ q \in T /\ q \notin Range(ps)
      BY <1>2, <2>2
    <3> QED
      BY <3>1, Zenon DEF Keeps
  <2> QED
    BY <1>4, <1>6, <2>1, <2>2
<1>7. Draws(m, c.pm, T, ps, IF c.err = NoError THEN Reach(c.pm, c.page) ELSE {})
  <2>1. CASE c.err = NoError
    <3>1. Draws(m, c.pm, T, ps, Reach(c.pm, c.page))
      BY <1>2, <1>3, <1>6, <2>1, Zenon DEF Draws
    <3> QED
      BY <2>1, <3>1
  <2>2. CASE c.err # NoError
    <3>1. Draws(m, c.pm, T, ps, {})
      BY <1>2, <1>3 DEF Draws
    <3> QED
      BY <2>2, <3>1
  <2> QED
    BY <2>1, <2>2
<1> QED
  BY <1>1, <1>7

(* A step that persists a node.                                            *)
LEMMA PersistTidy ==
  ASSUME NEW w, Describes(w), Tidy, pc \in {"insert", "delete", "return"}, Keeps(pm, pm'),
         NEW st, NEW T, Apart(pm, freelist, root, st, T), NEW gs, NEW op, NEW e, Waiting(w, st, op, gs, e),
         NEW v, NEW d, v.ok => Fits(w, v, d), NEW ps, v.ok => Draws(pm, pm, T, ps, Tops(pm, v)),
         NEW r, r = Retiring(Persisted(v), ps), Step(r, FALSE, Returned(r) /\ stack' = st)
  PROVE  Orderly /\ Moves
<1>1. Holds(pm, w) /\ direct = TRUE
  BY DescentFacts DEF Tidy
<1>2. PICK m, c : m = pm /\ c = CopyToNewPage(m, v)
  OBVIOUS
<1>3. /\ r.retired = ps /\ Environ(r.err) /\ (Safe(r) => v.ok)
      /\ v.ok => r.pm = c.pm /\ r.err = c.err /\ r.page = c.page
  <2>1. CASE v.ok
    <3>1. Persisted(v) = c
      BY <1>2, <2>1 DEF Persisted
    <3> QED
      BY <1>2, <2>1, <3>1, CopyEnviron DEF Retiring
  <2>2. CASE ~v.ok
    BY <2>2 DEF Persisted, Failed, Retiring, Environ, Safe
  <2> QED
    BY <2>1, <2>2
<1>4. ASSUME Safe(r)
      PROVE  \E x : /\ Later(w, x) /\ Holds(c.pm, x)
                    /\ Draws(m, c.pm, T, ps, IF c.err = NoError THEN Reach(c.pm, c.page) ELSE {})
  <2>1. v.ok /\ Safe(c)
    BY <1>3, <1>4 DEF Safe
  <2>2. pm' = r.pm
    BY <1>4 DEF Step, Safe, Keep
  <2>3. Keeps(m, c.pm)
    BY <1>2, <1>3, <2>1, <2>2
  <2>4. \A p \in T : PageOwned(m, p)
    BY <1>2, Zenon DEF Apart, InUse
  <2> QED
    BY <1>1, <1>2, <2>1, <2>3, <2>4, PersistDraws
<1>5. ASSUME Safe(r)
      PROVE  Discards(r.pm, freelist, r.retired)
  <2>1. \E X : Draws(m, c.pm, T, ps, X)
    BY <1>4, <1>5
  <2>2. r.pm = c.pm
    BY <1>3, <1>5
  <2> QED
    BY <1>2, <1>3, <2>1, <2>2, DrawsDiscards
<1>6. Moves /\ direct' = TRUE /\ (Orderly \/ (GaveUp(r) /\ Returned(r) /\ stack' = st))
  BY <1>1, <1>3, <1>5, StepTidy
<1>7. ASSUME GaveUp(r), Returned(r), stack' = st
      PROVE  Orderly
  <2>1. Safe(r) /\ r.err = NoError /\ pm' = r.pm /\ root' = root /\ freelist' = freelist \o ps
    BY <1>3, <1>7 DEF GaveUp, Succeeds
  <2>2. pm' = c.pm /\ r.page = c.page /\ c.err = NoError
    BY <1>3, <2>1
  <2>3. PICK x : Later(w, x) /\ Holds(c.pm, x) /\ Draws(m, c.pm, T, ps, Reach(c.pm, c.page))
    BY <1>4, <2>1, <2>2
  <2>4. SameFrames(m, c.pm, st)
    BY <1>1, <1>2, <2>3, FramesStand
  <2>5. Keeps(m, c.pm)
    BY <1>2, <2>2
  <2>6. PICK fl : fl = freelist
    OBVIOUS
  <2>7. Apart(c.pm, fl \o ps, root, st, Reach(c.pm, c.page))
    BY <1>2, <2>3, <2>4, <2>5, <2>6, ApartKept
  <2>8. pc' = "return" /\ ret' = c.page /\ todo' = todo
    BY <1>7, <2>2 DEF Returned, Same
  <2>9. Apart(pm', freelist', root', stack', Reach(pm', ret'))
    BY <1>7, <2>1, <2>2, <2>6, <2>7, <2>8
  <2> QED
    BY <1>6, <2>8, <2>9, TidyOn
<1> QED
  BY <1>6, <1>7

(* A leaf leads nowhere.                                                   *)
LEMMA LeafDraws ==
  ASSUME NEW m, NEW w, NEW v, Fits(w, v, 0), NEW T
  PROVE  Draws(m, m, T, << >>, Tops(m, v))
<1>1. v.type # "internal"
  <2>1. v.type = "leaf"
    BY Zenon DEF Fits
  <2> QED
    BY <2>1
<1>2. Tops(m, v) = {}
  BY <1>1 DEF Tops
<1>3. << >> \in Seq(Nat) /\ IsInjective(<< >>) /\ Len(<< >>) <= 2 /\ Range(<< >>) = {}
  BY EmptyList
<1> QED
  BY <1>2, <1>3 DEF Draws

(* insert on a leaf.                                                       *)
LEMMA InsertIntoLeafTidy ==
  ASSUME NEW w, Describes(w), Tidy, InsertIntoLeaf, Keeps(pm, pm')
  PROVE  Orderly /\ Moves
<1>1. pc = "insert" /\ node.type = "leaf"
  BY Zenon DEF InsertIntoLeaf
<1>2. PICK kv, n, st : kv = Pair /\ n = node /\ st = stack
  OBVIOUS
<1>3. PICK v : v = InsertKV(n, kv)
  OBVIOUS
<1>4. PICK r : r = Retiring(Persisted(v), << >>)
  OBVIOUS
<1>5. Step(r, FALSE, Returned(r) /\ stack' = st)
  <2>1. Step(r, Swallowed, Returned(r) /\ UNCHANGED stack)
    BY <1>2, <1>3, <1>4, Zenon DEF InsertIntoLeaf
  <2>2. Swallowed = FALSE
    BY DEF Swallowed, Tidy
  <2>3. Step(r, FALSE, Returned(r) /\ UNCHANGED stack)
    BY <2>1, <2>2
  <2> QED
    BY <1>2, <2>3 DEF Step
<1>6. PICK gs, d : Descent(w, gs, d)
  BY <1>1, DescentFacts
<1>7. PICK goal, op : goal = gs[Len(st) + 1] /\ op = Head(todo).op
  OBVIOUS
<1>8. Waiting(w, st, op, gs, d) /\ Inserting(w, n, kv, goal, d)
  BY <1>1, <1>2, <1>6, <1>7, Zenon DEF Descent
<1>9. /\ Fits(w, n, d) /\ kv \in KVs /\ Small(kv) /\ goal = PairsOf(w, n, d) \cup {kv}
      /\ \A u \in PairsOf(w, n, d) : u[1] # kv[1]
  BY <1>8, Zenon DEF Inserting
<1>10. d = 0 /\ n.kvs \in Seq(KVs)
  BY <1>1, <1>2, <1>9, LeafIsAtBottom
<1>11. ~HasKey(n.kvs, kv[1])
  <2>1. ASSUME NEW z \in 1 .. Len(n.kvs) PROVE n.kvs[z][1] # kv[1]
    <3>1. n.kvs[z] \in PairsOf(w, n, d)
      BY Zenon DEF PairsOf, PairsBut
    <3> QED
      BY <1>9, <3>1
  <2> QED
    BY <2>1, Zenon DEF HasKey
<1>12. PICK T : T = Tops(pm, n)
  OBVIOUS
<1>13. v.ok => Fits(w, v, 0) /\ Draws(pm, pm, T, << >>, Tops(pm, v))
  <2> SUFFICES ASSUME v.ok PROVE Fits(w, v, 0) /\ Draws(pm, pm, T, << >>, Tops(pm, v))
    OBVIOUS
  <2>1. LeafHas(w, v, goal)
    BY <1>3, <1>9, <1>10, <1>11, LeafInsert
  <2>2. Fits(w, v, 0)
    BY <2>1, Zenon DEF LeafHas
  <2> QED
    BY <2>2, LeafDraws
<1>14. Apart(pm, freelist, root, st, T)
  BY <1>1, <1>2, <1>12 DEF Tidy
<1> QED
  BY <1>1, <1>4, <1>5, <1>8, <1>13, <1>14, PersistTidy

(* delete on a leaf: the callers delete only keys that are there.          *)
LEMMA DeleteFromLeafTidy ==
  ASSUME DeletePresent, NEW w, Describes(w), Tidy, DeleteFromLeaf, Keeps(pm, pm')
  PROVE  Orderly /\ Moves
<1>1. pc = "delete" /\ node.type = "leaf"
  BY Zenon DEF DeleteFromLeaf
<1>2. PICK k, n, st : k = key /\ n = node /\ st = stack
  OBVIOUS
<1>3. PICK gs, d : Descent(w, gs, d)
  BY <1>1, DescentFacts
<1>4. PICK goal, op : goal = gs[Len(st) + 1] /\ op = Head(todo).op
  OBVIOUS
<1>5. Waiting(w, st, op, gs, d) /\ Deleting(w, n, k, goal, d, st = << >>)
  BY <1>1, <1>2, <1>3, <1>4, Zenon DEF Descent
<1>6. /\ Fits(w, n, d) /\ k \in Key /\ goal = Without(PairsOf(w, n, d), k)
      /\ KeyIsThere(PairsOf(w, n, d), k)
  BY <1>5, Zenon DEF Deleting
<1>7. d = 0 /\ n.kvs \in Seq(KVs) /\ InOrder(n.kvs)
  BY <1>1, <1>2, <1>6, LeafIsAtBottom
<1>8. HasKey(n.kvs, k)
  <2>1. PICK u \in PairsOf(w, n, d) : u[1] = k
    BY <1>6, Zenon DEF KeyIsThere
  <2>2. PairsOf(w, n, d) = {n.kvs[z] : z \in 1 .. Len(n.kvs)}
    BY <1>7 DEF PairsOf, PairsBut
  <2>3. PICK z \in 1 .. Len(n.kvs) : u = n.kvs[z]
    BY <2>1, <2>2
  <2> QED
    BY <2>1, <2>3, Zenon DEF HasKey
<1>9. ContainsKey(n, k)
  BY <1>6, <1>7, <1>8, ContainsKeyIsMembership DEF HasKey
<1>10. PICK v : v = DeleteKV(n, FindIndex(n, k))
  OBVIOUS
<1>11. PICK r : r = Retiring(Persisted(v), << >>)
  OBVIOUS
<1>12. Step(r, FALSE, Returned(r) /\ stack' = st)
  <2>1. Step(r, FALSE, Returned(r) /\ UNCHANGED stack)
    BY <1>2, <1>9, <1>10, <1>11, Zenon DEF DeleteFromLeaf
  <2> QED
    BY <1>2, <2>1 DEF Step
<1>13. Fits(w, v, 0)
  <2>1. LeafHas(w, v, goal)
    BY <1>6, <1>7, <1>8, <1>10, LeafDelete
  <2> QED
    BY <2>1, Zenon DEF LeafHas
<1>14. PICK T : T = Tops(pm, n)
  OBVIOUS
<1>15. Draws(pm, pm, T, << >>, Tops(pm, v))
  BY <1>13, LeafDraws
<1>16. Apart(pm, freelist, root, st, T)
  BY <1>1, <1>2, <1>14 DEF Tidy
<1> QED
  BY <1>1, <1>5, <1>11, <1>12, <1>13, <1>15, <1>16, PersistTidy

-----------------------------------------------------------------------------
(* A level filled in again leads to what it claimed and to the page that   *)
(* came back; the old page of the child is not among them.                 *)
LEMMA FilledDraws ==
  ASSUME NEW m, NEW fl, NEW rt, NEW q \in Nat, NEW f \in Frames,
         Claims(m, fl, rt, f, Reach(m, q)), \A p \in Reach(m, q) \cup Claim(m, f) : PageOwned(m, p),
         f.node.ptr \in Seq(Nat), f.slot + 1 \in 1 .. Len(f.node.ptr),
         NEW v, v = SetPtr(f.node, f.slot, q),
         NEW ps, ps = IF f.retire THEN <<GetPtr(f.node, f.slot)>> ELSE << >>
  PROVE  Draws(m, m, Reach(m, q) \cup Claim(m, f), ps, Tops(m, v))
<1> DEFINE j   == f.slot + 1
           ptr == f.node.ptr
           T   == Reach(m, q) \cup Claim(m, f)
           g   == GetPtr(f.node, f.slot)
<1>1. /\ v.ptr = [ptr EXCEPT ![j] = q] /\ j \in 1 .. Len(ptr) /\ g = ptr[j]
      /\ \A i \in 1 .. Len(ptr) : ptr[i] \in Nat
  <2>1. f.node \in Nodes
    BY DEF Frames
  <2>2. v.ptr = [ptr EXCEPT ![j] = q]
    BY <2>1 DEF SetPtr, Nodes
  <2> QED
    BY <2>2 DEF GetPtr
<1>2. g \in Nat
  BY <1>1
<1> HIDE DEF j
<1>3. /\ Len(v.ptr) = Len(ptr)
      /\ \A i \in 1 .. Len(ptr) : v.ptr[i] = IF i = j THEN q ELSE ptr[i]
  BY <1>1
<1>4. Tops(m, v) \subseteq Hanging(m, ptr, {j}) \cup Reach(m, q)
  <2> SUFFICES ASSUME NEW p \in Tops(m, v), p \notin Reach(m, q)
               PROVE  p \in Hanging(m, ptr, {j})
    OBVIOUS
  <2>1. PICK i \in 1 .. Len(v.ptr) : p \in Reach(m, v.ptr[i])
    BY DEF Tops, Hanging
  <2>2. i # j /\ i \in (1 .. Len(ptr)) \ {j} /\ p \in Reach(m, ptr[i])
    BY <1>3, <2>1
  <2> QED
    BY <2>2 DEF Hanging
<1>5. /\ Hanging(m, ptr, {j}) \subseteq Claim(m, f) /\ (f.retire => g \in Claim(m, f))
  BY DEF Claim, j
<1>6. f.retire => g \notin Reach(m, q) /\ g \notin Hanging(m, ptr, {j})
  BY <1>5, Zenon DEF Claims, j
<1>7. /\ ps \in Seq(Nat) /\ IsInjective(ps) /\ Len(ps) <= 2
      /\ Range(ps) = IF f.retire THEN {g} ELSE {}
  <2>1. CASE f.retire
    <3>1. ps = <<g>>
      BY <2>1
    <3>2. Range(<<g>>) = {g} /\ IsInjective(<<g>>) /\ <<g>> \in Seq(Nat) /\ Len(<<g>>) <= 2
      BY <1>2 DEF Range, IsInjective
    <3> QED
      BY <2>1, <3>1, <3>2
  <2>2. CASE ~f.retire
    <3>1. ps = << >>
      BY <2>2
    <3> QED
      BY <2>2, <3>1, EmptyList
  <2> QED
    BY <2>1, <2>2
<1> HIDE DEF T, g, ptr
<1>8. \A p \in Range(ps) : p = g /\ f.retire
  BY <1>7
<1>9. \A p \in Range(ps) : PageOwned(m, p) /\ p \in T
  BY <1>5, <1>8 DEF T
<1>10. ASSUME NEW p \in Tops(m, v)
       PROVE  PageOwned(m, p) /\ p \in T /\ p \notin Range(ps)
  <2>1. p \in Hanging(m, ptr, {j}) \/ p \in Reach(m, q)
    BY <1>4
  <2>2. p \notin Range(ps)
    BY <1>6, <1>8, <2>1
  <2>3. p \in T
    BY <1>5, <2>1 DEF T
  <2> QED
    BY <2>2, <2>3 DEF T
<1>11. Draws(m, m, T, ps, Tops(m, v))
  BY <1>7, <1>9, <1>10, Zenon DEF Draws
<1> QED
  BY <1>11 DEF T

(* A level that gets the page of its child back.                           *)
LEMMA PropagateUpTidy ==
  ASSUME NEW w, Describes(w), Tidy, PropagateUp, Keeps(pm, pm')
  PROVE  Orderly /\ Moves
<1>1. pc = "return" /\ stack # << >>
  BY Zenon DEF PropagateUp
<1>2. PICK f, q, st : f = Last(stack) /\ q = ret /\ st = Front(stack)
  OBVIOUS
<1>3. PICK v : v = SetPtr(f.node, f.slot, q)
  OBVIOUS
<1>4. PICK ps : ps = IF f.retire THEN <<GetPtr(f.node, f.slot)>> ELSE << >>
  OBVIOUS
<1>5. PICK r : r = Retiring(Persisted(v), ps)
  OBVIOUS
<1>6. Step(r, FALSE, Returned(r) /\ stack' = st)
  <2>1. Step(r, Swallowed, Returned(r) /\ stack' = Front(stack))
    BY <1>2, <1>3, <1>4, <1>5, Zenon DEF PropagateUp
  <2>2. Swallowed = FALSE
    BY DEF Swallowed, Tidy
  <2>3. Step(r, FALSE, Returned(r) /\ stack' = Front(stack))
    BY <2>1, <2>2
  <2> QED
    BY <1>2, <2>3 DEF Step
<1>7. PICK gs, d : Descent(w, gs, d)
  BY <1>1, DescentFacts
<1>8. PICK h, op : h = gs[Len(stack) + 1] /\ op = Head(todo).op
  OBVIOUS
<1>9. /\ Waiting(w, stack, op, gs, d) /\ Returning(w, q, op, h, d, stack = << >>)
  BY <1>1, <1>2, <1>7, <1>8, Zenon DEF Descent
<1>10. /\ Waiting(w, st, op, gs, d + 1) /\ f \in Frames /\ Frame(w, f, d + 1, gs[Len(stack)], h)
  BY <1>1, <1>2, <1>8, <1>9, WaitingLess
<1>11. q \in DOMAIN w /\ w[q].depth = d /\ w[q].pairs = h /\ w[q].node.kvs # << >>
  BY <1>1, <1>9, Zenon DEF Returning
<1>12. q \in Nat
  <2>1. Holds(pm, w)
    BY <1>1, DescentFacts
  <2> QED
    BY <1>11, <2>1, PagesAreNumbers
<1>13. d \in Nat
  BY <1>9, Zenon DEF Waiting
<1>14. Fits(w, v, d + 1)
  <2>1. (d + 1) - 1 = d
    BY <1>13
  <2>2. w[q].depth = (d + 1) - 1
    BY <1>11, <2>1
  <2> QED
    BY <1>3, <1>10, <1>11, <1>12, <2>2, FrameFilled
<1>15. f.node.ptr \in Seq(Nat) /\ f.slot + 1 \in 1 .. Len(f.node.ptr)
  <2>1. f.slot \in 0 .. Len(f.node.kvs) /\ FitsBut(w, f.node.kvs, f.node.ptr, {f.slot + 1}, d + 1)
    BY <1>10, Zenon DEF Frame
  <2>2. f.node.ptr \in Seq(Nat) /\ Len(f.node.ptr) = Len(f.node.kvs) + 1 /\ f.node.kvs \in Seq(KVs)
    BY <2>1, Zenon DEF FitsBut
  <2> QED
    BY <2>1, <2>2
<1>16. PICK T : T = Reach(pm, q) \cup Claim(pm, f)
  OBVIOUS
<1>17. Apart(pm, freelist, root, st, T) /\ Claims(pm, freelist, root, f, Reach(pm, q))
  <2>1. stack \in Seq(Frames)
    BY <1>9, Zenon DEF Waiting
  <2>2. Apart(pm, freelist, root, stack, Reach(pm, q))
    BY <1>1, <1>2 DEF Tidy
  <2> QED
    BY <1>1, <1>2, <1>16, <2>1, <2>2, ApartPopped
<1>18. \A p \in T : PageOwned(pm, p)
  BY <1>17, Zenon DEF Apart, InUse
<1>19. Draws(pm, pm, T, ps, Tops(pm, v))
  BY <1>3, <1>4, <1>10, <1>12, <1>15, <1>16, <1>17, <1>18, FilledDraws
<1> QED
  BY <1>1, <1>5, <1>6, <1>10, <1>14, <1>17, <1>19, PersistTidy

-----------------------------------------------------------------------------
(* Whoever gives way to its only child leads to that child.                *)
LEMMA OnlyChildReached ==
  ASSUME NEW m, NEW w, Holds(m, w), NEW p \in DOMAIN w, NEW n, n = w[p].node,
         n.type = "internal", n.kvs = << >>
  PROVE  n.ptr[1] \in DOMAIN w /\ Reach(m, n.ptr[1]) \subseteq Reach(m, p)
<1>1. /\ p \in PageNums /\ m.page[p] = n /\ Fits(w, n, w[p].depth)
  <2>1. DOMAIN w \subseteq PageNums /\ World(w) /\ \A u \in DOMAIN w : m.page[u] = w[u].node
    BY WorldOnPages
  <2>2. Fits(w, n, w[p].depth)
    BY <2>1, Zenon DEF World
  <2> QED
    BY <2>1, <2>2
<1>2. n.ptr \in Seq(Nat) /\ Len(n.ptr) = Len(n.kvs) + 1 /\ n.type # "leaf"
  BY <1>1, PointersApart
<1>3. 1 \in 1 .. Len(n.ptr)
  BY <1>2
<1>4. n.ptr[1] \in Children(m)[p]
  <2>1. Children(m)[p] = ToSet(n.ptr)
    BY <1>1, <1>2, Zenon DEF Children
  <2>2. ToSet(n.ptr) = {n.ptr[j] : j \in 1 .. Len(n.ptr)}
    BY <1>2, SetOfList
  <2> QED
    BY <1>3, <2>1, <2>2
<1> QED
  BY <1>4, ReachStep

(* The recursion has returned a new root.                                  *)
LEMMA FinishTidy ==
  ASSUME NEW w, Describes(w), Tidy, Finish
  PROVE  Orderly /\ Moves
<1>1. pc = "return" /\ stack = << >>
  BY Zenon DEF Finish
<1>2. PICK p, n, del, m, fl : p = ret /\ n = LoadAsNode(pm, p) /\ del = (Head(todo).op = "delete") /\ m = pm /\ fl = freelist
  OBVIOUS
<1>3. PICK r : r = Repaired(pm, IF del THEN n ELSE NewNode, << >>, NoError)
  OBVIOUS
<1> DEFINE Onwards == /\ ret' = IF del /\ Collapses(n) THEN GetPtr(n, 0) ELSE p
                    /\ pc' = "next"
                    /\ Unwind /\ Same
<1>4. direct = TRUE /\ Apart(m, fl, root, << >>, Reach(m, p)) /\ fl \in Seq(Nat)
  <2>1. direct = TRUE /\ Apart(m, fl, root, << >>, Reach(m, p))
    BY <1>1, <1>2 DEF Tidy
  <2> QED
    BY <2>1, Zenon DEF Apart
<1>5. Step(r, FALSE, Onwards)
  <2>1. PICK old : old = IF del /\ ~direct THEN <<root>> ELSE << >>
    OBVIOUS
  <2>2. old = << >>
    BY <1>4, <2>1
  <2>3. r = Repaired(pm, IF del THEN n ELSE NewNode, old, NoError)
    BY <1>3, <2>2
  <2> QED
    BY <1>2, <2>1, <2>3, Zenon DEF Finish
<1>6. Holds(m, w)
  BY <1>1, <1>2, DescentFacts
<1>7. PICK gs, d : Descent(w, gs, d)
  BY <1>1, DescentFacts
<1>8. p \in DOMAIN w
  BY <1>1, <1>2, <1>7, Zenon DEF Descent, Returning
<1>9. /\ r.pm = m /\ r.retired = << >> /\ Environ(r.err)
      /\ r.err = NoError => (del => n.ok)
  <2>1. Environ(NoError) /\ NoError # Panicked
    BY DEF Environ, NoError, Panicked
  <2> QED
    BY <1>2, <1>3, <2>1, RepairEnviron DEF Repaired
<1>10. Discards(m, fl, << >>) /\ fl \o << >> = fl
  BY <1>4, NothingGivenUp
<1>11. Moves /\ direct' = TRUE /\ (Orderly \/ (GaveUp(r) /\ Onwards))
  BY <1>2, <1>4, <1>5, <1>9, <1>10, StepTidy
<1>12. ASSUME GaveUp(r), Onwards
       PROVE  Orderly
  <2>1. pm' = m /\ root' = root /\ freelist' = fl /\ r.err = NoError
    BY <1>2, <1>9, <1>10, <1>12 DEF GaveUp, Succeeds
  <2>2. pc' = "next" /\ stack' = << >> /\ todo' = todo
    BY <1>12 DEF Unwind, Same
  <2>3. ret' \in DOMAIN w /\ Reach(m, ret') \subseteq Reach(m, p)
    <3>1. CASE del /\ Collapses(n)
      <4>1. n = w[p].node
        BY <1>2, <1>6, <1>8, <1>9, <2>1, <3>1, LoadHeld
      <4>2. n.kvs \in Seq(KVs)
        BY <1>6, <1>8, <4>1, Zenon DEF Holds, World, Fits, FitsBut
      <4>3. n.type = "internal" /\ n.kvs = << >>
        BY <3>1, <4>2 DEF Collapses, GetNKeys
      <4>4. ret' = n.ptr[1]
        <5>1. ret' = GetPtr(n, 0) /\ 0 + 1 = 1
          BY <1>12, <3>1
        <5> QED
          BY <5>1 DEF GetPtr
      <4> QED
        BY <1>6, <1>8, <4>1, <4>3, <4>4, OnlyChildReached
    <3>2. CASE ~(del /\ Collapses(n))
      BY <1>8, <1>12, <3>2
    <3> QED
      BY <3>1, <3>2
  <2>4. ret' # 0
    <3>1. PageOwned(m, ret')
      BY <1>6, <2>3, Zenon DEF Holds
    <3> QED
      BY <3>1 DEF PageOwned
  <2>5. Apart(m, fl, root, << >>, Reach(m, ret'))
    BY <1>4, <2>3, ApartLess
  <2>6. Apart(pm', freelist', root', stack', Reach(pm', ret'))
    BY <2>1, <2>2, <2>5
  <2> QED
    BY <1>1, <1>11, <2>2, <2>4, <2>6, TidyOn
<1> QED
  BY <1>11, <1>12

-----------------------------------------------------------------------------
(* What FillChild gives up was below the node, and is not below it any     *)
(* more.                                                                   *)
LEMMA FillChildRecycles ==
  ASSUME NEW m, NEW w, Holds(m, w), NEW n, NEW k, NEW goal, NEW d, NEW atRoot,
         Deleting(w, n, k, goal, d, atRoot), n.type = "internal",
         NEW s, s = FillChild(m, n, k), Safe(s)
  PROVE  Recycles(s, m, n)
<1>1. Fits(w, n, d) /\ (n.kvs # << >> \/ Spare(w, n, k)) /\ k \in Key
  BY Zenon DEF Deleting
<1>2. CASE Spare(w, n, k)
  <2>1. s.pm = m /\ s.node = n /\ s.retired = << >>
    BY <1>1, <1>2, SpareIsLeftAlone
  <2>2. << >> \in Seq(Nat) /\ Len(<< >>) <= 2 /\ Range(<< >>) = {} /\ IsInjective(<< >>)
    BY EmptyList
  <2> QED
    BY <2>1, <2>2, Zenon DEF Recycles
<1>3. CASE ~Spare(w, n, k)
  <2>1. Reuses(s, m, n) /\ \E x : KeepsPairs(s, w, x, n, d) /\ (s.err = NoError => Filled(s, x, n, k))
    BY <1>1, <1>3, FillChildKeepsPairs
  <2>2. PICK x : KeepsPairs(s, w, x, n, d)
    BY <2>1
  <2> QED
    BY <1>1, <2>1, <2>2, RepairRecycles
<1> QED
  BY <1>2, <1>3

(* The level that a deletion leaves, and the child that it enters.         *)
LeadsDown(w, x, m, n, k, s, i, q, c, f) ==
  /\ Later(w, x) /\ Holds(s.pm, x)
  /\ s.err = NoError => ~ContainsKey(s.node, k)
  /\ s.err = NoError /\ c.ok => f \in Frames /\ Splits(s.pm, s.node, i, q, c)
  /\ Draws(m, s.pm, Hanging(m, n.ptr, {}), s.retired,
           IF s.err = NoError /\ c.ok THEN Claim(s.pm, f) \cup Tops(s.pm, c) ELSE {})

(* FillChild makes way for a deletion that goes down.                      *)
LEMMA FillChildDescends ==
  ASSUME NEW m, NEW w, Holds(m, w), NEW n, NEW k, NEW goal, NEW d, NEW atRoot,
         Deleting(w, n, k, goal, d, atRoot), n.type = "internal", ~HasKey(n.kvs, k),
         NEW s, s = FillChild(m, n, k), Safe(s), Keeps(m, s.pm),
         NEW i, i = FindIndex(s.node, k), NEW q, q = GetPtr(s.node, i),
         NEW c, c = LoadAsNode(s.pm, q), NEW f, f = [node |-> s.node, slot |-> i, retire |-> TRUE]
  PROVE  \E x : LeadsDown(w, x, m, n, k, s, i, q, c, f)
<1>1. PICK x : Prepared(s, w, x, n, k, d, atRoot)
  BY FillChildPrepares
<1>2. /\ Later(w, x) /\ Holds(s.pm, x)
      /\ s.err = NoError => Fits(x, s.node, d) /\ s.node.type = "internal" /\ Roomy(s, x, k)
  BY <1>1, Zenon DEF Prepared
<1>3. k \in Key
  BY Zenon DEF Deleting
<1>4. Recycles(s, m, n)
  BY FillChildRecycles
<1>5. Draws(m, s.pm, Hanging(m, n.ptr, {}), s.retired,
            IF s.err = NoError THEN Hanging(s.pm, s.node.ptr, {}) ELSE {})
  BY <1>2, <1>4, RepairDraws
<1>6. ASSUME s.err = NoError PROVE ~ContainsKey(s.node, k)
  <2>1. s.node.kvs \in Seq(KVs) /\ InOrder(s.node.kvs)
    BY <1>2, <1>6, Zenon DEF Fits, FitsBut
  <2>2. ~HasKey(s.node.kvs, k)
    BY <1>2, <1>6, Zenon DEF Roomy
  <2> QED
    BY <1>3, <2>1, <2>2, ContainsKeyIsMembership DEF HasKey
<1>7. ASSUME s.err = NoError, c.ok
      PROVE  f \in Frames /\ Splits(s.pm, s.node, i, q, c)
  <2> DEFINE v == s.node
  <2>1. Fits(x, v, d) /\ v.type = "internal" /\ ~HasKey(v.kvs, k)
    BY <1>2, <1>7, Zenon DEF Roomy
  <2>2. v \in Nodes /\ v.kvs \in Seq(KVs) /\ InOrder(v.kvs)
    BY <2>1, Zenon DEF Fits, FitsBut
  <2>3. i \in 0 .. Len(v.kvs)
    BY <1>3, <2>1, <2>2, IndexBetween
  <2>4. q = v.ptr[i + 1]
    BY Zenon DEF GetPtr
  <2>5. Splits(s.pm, v, i, q, x[q].node) /\ q \in DOMAIN x
    BY <1>2, <2>1, <2>3, <2>4, DescentSplits
  <2>6. c = x[q].node
    BY <1>2, <1>7, <2>5, LoadHeld
  <2>7. i \in Nat
    BY <2>2, <2>3
  <2>8. f \in Frames
    BY <2>2, <2>7 DEF Frames
  <2> QED
    BY <2>5, <2>6, <2>8
<1>8. Draws(m, s.pm, Hanging(m, n.ptr, {}), s.retired,
            IF s.err = NoError /\ c.ok THEN Claim(s.pm, f) \cup Tops(s.pm, c) ELSE {})
  <2>1. CASE s.err = NoError /\ c.ok
    <3>1. PICK v : v = s.node
      OBVIOUS
    <3>2. Draws(m, s.pm, Hanging(m, n.ptr, {}), s.retired, Hanging(s.pm, v.ptr, {}))
      BY <1>5, <2>1, <3>1
    <3>3. Splits(s.pm, v, i, q, c) /\ q = GetPtr(v, i) /\ f = [node |-> v, slot |-> i, retire |-> TRUE]
      BY <1>7, <2>1, <3>1
    <3>4. Draws(m, s.pm, Hanging(m, n.ptr, {}), s.retired, Claim(s.pm, f) \cup Tops(s.pm, c))
      BY <3>2, <3>3, ChildLeft
    <3> QED
      BY <2>1, <3>4
  <2>2. CASE ~(s.err = NoError /\ c.ok)
    <3>1. Draws(m, s.pm, Hanging(m, n.ptr, {}), s.retired, {})
      BY <1>5, DrawsLess
    <3> QED
      BY <2>2, <3>1
  <2> QED
    BY <2>1, <2>2
<1>9. LeadsDown(w, x, m, n, k, s, i, q, c, f)
  BY <1>2, <1>6, <1>7, <1>8, Zenon DEF LeadsDown
<1> QED
  BY <1>9

(* delete on an internal node without the key.                             *)
LEMMA DeleteFromInternalTidy ==
  ASSUME NEW w, Describes(w), Tidy, DeleteFromInternal, Keeps(pm, pm')
  PROVE  Orderly /\ Moves
<1>1. pc = "delete" /\ node.type = "internal" /\ ~ContainsKey(node, key)
  BY Zenon DEF DeleteFromInternal
<1>2. PICK m, n, k, st, fl : m = pm /\ n = node /\ k = key /\ st = stack /\ fl = freelist
  OBVIOUS
<1>3. PICK s : s = FillChild(m, n, k)
  OBVIOUS
<1>4. PICK i, q, c : i = FindIndex(s.node, k) /\ q = GetPtr(s.node, i) /\ c = LoadAsNode(s.pm, q)
  OBVIOUS
<1>5. PICK r : r = IF s.err # NoError \/ c.ok THEN s ELSE [s EXCEPT !.err = Panicked]
  OBVIOUS
<1>6. PICK f : f = [node |-> s.node, slot |-> i, retire |-> TRUE]
  OBVIOUS
<1> DEFINE Onwards == /\ node' = c
                      /\ stack' = Append(stack, f)
                      /\ UNCHANGED <<pc, key, ret>> /\ Same
           Again   == node' = s.node /\ UNCHANGED <<pc, key, stack, ret>> /\ Same
<1>7. IF s.err = NoError /\ ContainsKey(s.node, k) THEN Step(s, FALSE, Again) ELSE Step(r, FALSE, Onwards)
  BY <1>2, <1>3, <1>4, <1>5, <1>6, Zenon DEF DeleteFromInternal
<1>8. direct = TRUE /\ Apart(m, fl, root, st, Tops(m, n)) /\ Tops(m, n) = Hanging(m, n.ptr, {})
  BY <1>1, <1>2 DEF Tidy, Tops
<1>9. Holds(m, w)
  BY <1>1, <1>2, DescentFacts
<1>10. PICK gs, d : Descent(w, gs, d)
  BY <1>1, DescentFacts
<1>11. PICK goal, atRoot : goal = gs[Len(st) + 1] /\ atRoot = (st = << >>)
  OBVIOUS
<1>12. Waiting(w, st, Head(todo).op, gs, d) /\ Deleting(w, n, k, goal, d, atRoot)
  BY <1>1, <1>2, <1>10, <1>11, Zenon DEF Descent
<1>13. ~HasKey(n.kvs, k)
  <2>1. k \in Key /\ n.kvs \in Seq(KVs) /\ InOrder(n.kvs)
    BY <1>12, Zenon DEF Deleting, Fits, FitsBut
  <2> QED
    BY <1>1, <1>2, <2>1, ContainsKeyIsMembership DEF HasKey
<1>14. /\ Environ(r.err) /\ (Safe(r) => Safe(s)) /\ r.pm = s.pm /\ r.retired = s.retired
       /\ (Safe(r) => (s.err = NoError => c.ok)) /\ (r.err = NoError => s.err = NoError)
  <2>1. CASE s.err # NoError \/ c.ok
    BY <1>3, <1>5, <2>1, FillChildEnviron
  <2>2. CASE ~(s.err # NoError \/ c.ok)
    <3>1. r = [s EXCEPT !.err = Panicked]
      BY <1>5, <2>2
    <3>2. r.err = Panicked /\ r.pm = s.pm /\ r.retired = s.retired
      BY <1>3, <3>1, FillChildAnswers
    <3>3. Environ(Panicked) /\ Panicked # NoError
      BY DEF Environ, NoError, Panicked
    <3> QED
      BY <3>2, <3>3 DEF Safe
  <2> QED
    BY <2>1, <2>2
<1>15. ASSUME Safe(s), pm' = s.pm
       PROVE  \E x : /\ Later(w, x) /\ Holds(s.pm, x)
                     /\ s.err = NoError => ~ContainsKey(s.node, k)
                     /\ s.err = NoError /\ c.ok => f \in Frames /\ Splits(s.pm, s.node, i, q, c)
                     /\ Draws(m, s.pm, Hanging(m, n.ptr, {}), s.retired,
                              IF s.err = NoError /\ c.ok THEN Claim(s.pm, f) \cup Tops(s.pm, c) ELSE {})
  <2>1. Keeps(m, s.pm)
    BY <1>2, <1>15
  <2>2. n.type = "internal"
    BY <1>1, <1>2
  <2>3. PICK x : LeadsDown(w, x, m, n, k, s, i, q, c, f)
    BY <1>3, <1>4, <1>6, <1>9, <1>12, <1>13, <1>15, <2>1, <2>2, FillChildDescends
  <2> QED
    BY <2>3, Zenon DEF LeadsDown
<1>16. Step(r, FALSE, Onwards)
  <2>1. ASSUME s.err = NoError, ContainsKey(s.node, k) PROVE FALSE
    <3>1. Safe(s)
      BY <2>1 DEF Safe, NoError, Panicked, Clobber
    <3>2. Step(s, FALSE, Again)
      BY <1>7, <2>1
    <3>3. pm' = s.pm
      BY <3>1, <3>2, Zenon DEF Step, Safe, Keep
    <3> QED
      BY <1>15, <2>1, <3>1, <3>3
  <2> QED
    BY <1>7, <2>1
<1>17. Safe(r) => pm' = s.pm
  <2>1. Step(r, FALSE, Onwards) /\ Safe(r) => pm' = r.pm
    BY Zenon DEF Step, Safe, Keep
  <2> QED
    BY <1>14, <1>16, <2>1
<1>18. Safe(r) => Discards(r.pm, freelist, r.retired)
  <2> SUFFICES ASSUME Safe(r) PROVE Discards(r.pm, freelist, r.retired)
    OBVIOUS
  <2>1. \E X : Draws(m, s.pm, Tops(m, n), s.retired, X)
    BY <1>8, <1>14, <1>15, <1>17
  <2> QED
    BY <1>2, <1>8, <1>14, <2>1, DrawsDiscards
<1>19. Moves /\ direct' = TRUE /\ (Orderly \/ (GaveUp(r) /\ Onwards))
  BY <1>8, <1>14, <1>16, <1>18, StepTidy
<1>20. ASSUME GaveUp(r), Onwards
       PROVE  Orderly
  <2>1. /\ Safe(s) /\ s.err = NoError /\ c.ok /\ pm' = s.pm /\ root' = root
        /\ freelist' = fl \o s.retired
    BY <1>2, <1>14, <1>20 DEF GaveUp, Succeeds
  <2>2. PICK x : /\ Later(w, x) /\ Holds(s.pm, x) /\ f \in Frames /\ Splits(s.pm, s.node, i, q, c)
                 /\ Draws(m, s.pm, Tops(m, n), s.retired, Claim(s.pm, f) \cup Tops(s.pm, c))
    BY <1>8, <1>15, <2>1
  <2>3. SameFrames(m, s.pm, st)
    BY <1>9, <1>12, <2>2, FramesStand
  <2>4. st \in Seq(Frames)
    BY <1>12, Zenon DEF Waiting
  <2>5. Keeps(m, s.pm)
    BY <1>2, <2>1
  <2>6. Splits(s.pm, f.node, f.slot, GetPtr(f.node, f.slot), c)
    BY <1>4, <1>6, <2>2
  <2>7. Apart(s.pm, fl \o s.retired, root, Append(st, f), Tops(s.pm, c))
    BY <1>8, <2>2, <2>3, <2>4, <2>5, <2>6, ApartBelow
  <2>8. pc' = "delete" /\ todo' = todo /\ node' = c /\ stack' = Append(st, f)
    BY <1>1, <1>2, <1>20 DEF Same
  <2>9. Apart(pm', freelist', root', stack', Tops(pm', node'))
    BY <2>1, <2>7, <2>8
  <2> QED
    BY <1>1, <1>19, <2>8, <2>9, TidyOn
<1> QED
  BY <1>19, <1>20

-----------------------------------------------------------------------------
(* A deletion that goes on below one child of n: the page of that child is *)
(* given up at once, and the level that waits claims the other children.   *)
LEMMA BorrowDraws ==
  ASSUME NEW m, NEW w, Holds(m, w), NEW n, NEW d, Fits(w, n, d), n.type = "internal",
         NEW i \in 1 .. Len(n.ptr), NEW q, q = n.ptr[i], NEW c, c = w[q].node,
         NEW full, SameBut(full, n.ptr, i),
         NEW f, f.node.ptr = full, f.slot = i - 1, f.retire = FALSE
  PROVE  /\ Draws(m, m, Hanging(m, n.ptr, {}), <<q>>, Claim(m, f) \cup Tops(m, c))
         /\ Claim(m, f) \cap Tops(m, c) = {}
<1> DEFINE h == i - 1
<1>1. /\ n.ptr \in Seq(Nat) /\ Len(n.ptr) = Len(n.kvs) + 1 /\ Len(n.kvs) \in Nat
      /\ \A z \in 1 .. Len(n.ptr) : n.ptr[z] \in DOMAIN w
  BY PointersApart
<1>2. h \in 0 .. Len(n.kvs) /\ h + 1 = i
  BY <1>1
<1> HIDE DEF h
<1>3. Splits(m, n, h, q, c)
  <2>1. q = n.ptr[h + 1]
    BY <1>2
  <2>2. Splits(m, n, h, n.ptr[h + 1], c)
    BY <1>2, <2>1, DescentSplits
  <2> QED
    BY <2>1, <2>2
<1>4. q \in DOMAIN w /\ q \in Nat
  BY <1>1, PagesAreNumbers
<1>5. PICK g : g = [node |-> n, slot |-> h, retire |-> FALSE]
  OBVIOUS
<1>6. Draws(m, m, Hanging(m, n.ptr, {}), << >>, Hanging(m, n.ptr, {}))
  <2>1. ASSUME NEW p \in Hanging(m, n.ptr, {}) PROVE PageOwned(m, p)
    <3>1. PICK z \in 1 .. Len(n.ptr) : p \in Reach(m, n.ptr[z])
      BY DEF Hanging
    <3>2. p \in DOMAIN w
      BY <1>1, <3>1, ReachKnown
    <3> QED
      BY <3>2, Zenon DEF Holds
  <2>2. << >> \in Seq(Nat) /\ Len(<< >>) <= 2 /\ Range(<< >>) = {} /\ IsInjective(<< >>)
    BY EmptyList
  <2> QED
    BY <2>1, <2>2, Zenon DEF Draws
<1>7. Draws(m, m, Hanging(m, n.ptr, {}), Append(<< >>, q), Claim(m, g) \cup Tops(m, c))
  <2>1. Len(<< >>) <= 1
    OBVIOUS
  <2> QED
    BY <1>3, <1>4, <1>5, <1>6, <2>1, ChildGivenUp
<1>8. Claim(m, f) = Hanging(m, full, {i})
  <2>1. f.slot + 1 = i
    BY <1>1
  <2> QED
    BY <2>1 DEF Claim
<1>9. Claim(m, g) = Hanging(m, n.ptr, {i})
  BY <1>2, <1>5 DEF Claim
<1>10. Hanging(m, full, {i}) = Hanging(m, n.ptr, {i})
  <2>1. Len(full) = Len(n.ptr) /\ \A z \in 1 .. Len(n.ptr) : z # i => full[z] = n.ptr[z]
    BY Zenon DEF SameBut
  <2> QED
    BY <2>1 DEF Hanging
<1>11. Append(<< >>, q) = <<q>>
  BY <1>4
<1>12. Hanging(m, n.ptr, {i}) \cap Tops(m, c) = {}
  <2>1. Hanging(m, n.ptr, {h + 1}) \cap Tops(m, c) = {}
    BY <1>3, Zenon DEF Splits
  <2> QED
    BY <1>2, <2>1
<1> QED
  BY <1>7, <1>8, <1>9, <1>10, <1>11, <1>12

(* The step that borrows.                                                  *)
LEMMA BorrowTidy ==
  ASSUME NEW w, Describes(w), Tidy, pc = "delete", NEW n, n = node, n.type = "internal",
         NEW gs, NEW d, Descent(w, gs, d),
         NEW j \in 1 .. Len(n.kvs), n.kvs[j][1] = key, NEW i, NEW kv, NextTo(w, n, j, i, kv),
         NEW c, c = w[n.ptr[i]].node, ~Underflow(c), NEW full, SameBut(full, n.ptr, i),
         NEW u, u.ok => u = With(n, Put(n.kvs, j, kv), full),
         NEW slot, slot = i - 1, Borrow(c, kv, u, slot)
  PROVE  Orderly /\ Moves
<1>1. PICK k, st, m, fl : k = key /\ st = stack /\ m = pm /\ fl = freelist
  OBVIOUS
<1>2. PICK f : f = [node |-> u, slot |-> slot, retire |-> FALSE]
  OBVIOUS
<1>3. PICK q : q = n.ptr[i]
  OBVIOUS
<1>4. Fits(w, n, d) /\ Holds(m, w) /\ World(w) /\ Waiting(w, st, Head(todo).op, gs, d)
  <2>1. Holds(m, w)
    BY <1>1, DescentFacts
  <2>2. Fits(w, n, d)
    BY Zenon DEF Descent, Deleting
  <2>3. Waiting(w, st, Head(todo).op, gs, d)
    BY <1>1, Zenon DEF Descent
  <2> QED
    BY <2>1, <2>2, <2>3, Zenon DEF Holds
<1>5. i \in 1 .. Len(n.ptr) /\ GetPtr(n, slot) = q /\ n.ptr[i] \in DOMAIN w
  <2>1. /\ n.ptr \in Seq(Nat) /\ Len(n.ptr) = Len(n.kvs) + 1 /\ Len(n.kvs) \in Nat
        /\ \A z \in 1 .. Len(n.ptr) : n.ptr[z] \in DOMAIN w
    BY <1>4, PointersApart
  <2>2. i = j \/ i = j + 1
    BY Zenon DEF NextTo
  <2>3. i \in 1 .. Len(n.ptr) /\ slot + 1 = i
    BY <2>1, <2>2
  <2> QED
    BY <1>3, <2>1, <2>3 DEF GetPtr
<1>6. PICK r : r = Repaired(m, u, <<q>>, NoError)
  OBVIOUS
<1> DEFINE Onwards == /\ node' = c /\ key' = kv[1]
                      /\ stack' = Append(stack, f)
                      /\ UNCHANGED <<pc, ret>> /\ Same
<1>7. Step(r, FALSE, Onwards)
  <2>1. r = Repaired(pm, u, <<GetPtr(node, slot)>>, NoError)
    BY <1>1, <1>5, <1>6
  <2> QED
    BY <1>2, <2>1, Zenon DEF Borrow
<1>8. direct = TRUE /\ Apart(m, fl, root, st, Tops(m, n)) /\ Tops(m, n) = Hanging(m, n.ptr, {})
  BY <1>1 DEF Tidy, Tops
<1>9. r.pm = m /\ r.retired = <<q>> /\ Environ(r.err) /\ (Safe(r) => u.ok)
  <2>1. Environ(NoError) /\ NoError # Panicked
    BY DEF Environ, NoError, Panicked
  <2>2. r.err = IF u.ok THEN NoError ELSE Panicked
    BY <1>6 DEF Repaired
  <2> QED
    BY <1>6, <2>1, <2>2, RepairEnviron DEF Repaired, Safe
<1>10. ASSUME u.ok
       PROVE  /\ Draws(m, m, Tops(m, n), <<q>>, Claim(m, f) \cup Tops(m, c))
              /\ Claim(m, f) \cap Tops(m, c) = {} /\ f \in Frames
  <2>1. f = [node |-> u, slot |-> i - 1, retire |-> FALSE]
    BY <1>2
  <2>2. u = With(n, Put(n.kvs, j, kv), full) /\ n.kvs[j][1] = k
    BY <1>1, <1>10
  <2>3. PICK goal, atRoot : goal = gs[Len(st) + 1] /\ atRoot = (st = << >>)
    OBVIOUS
  <2>4. Deleting(w, n, k, goal, d, atRoot)
    BY <1>1, <2>3, Zenon DEF Descent
  <2>5. \E h : DeleteEnters(w, f, d, goal, c, kv[1], h, atRoot)
    BY <1>4, <2>1, <2>2, <2>4, BorrowEnters
  <2>6. f \in Frames
    BY <2>5, Zenon DEF DeleteEnters
  <2>7. f.node.ptr = full /\ f.slot = i - 1 /\ f.retire = FALSE
    <3>1. u.ptr = full
      <4>1. n \in Nodes /\ full \in Seq(Nat) /\ Put(n.kvs, j, kv) \in Seq(KVs)
        <5>1. n.kvs \in Seq(KVs) /\ n \in Nodes
          BY <1>4, Zenon DEF Fits, FitsBut
        <5>2. kv \in KVs
          <6>1. kv \in w[n.ptr[i]].pairs
            BY Zenon DEF NextTo, LastOf, FirstOf
          <6>2. i \in 1 .. Len(n.kvs) + 1
            BY <1>4, <1>5, PointersApart
          <6> QED
            BY <1>4, <6>1, <6>2, PairsAside
        <5>3. Put(n.kvs, j, kv) \in Seq(KVs)
          BY <5>1, <5>2 DEF Put
        <5> QED
          BY <5>1, <5>3, Zenon DEF SameBut
      <4> QED
        BY <2>2, <4>1, WithIsNode
    <3> QED
      BY <2>1, <3>1
  <2>8. /\ Draws(m, m, Hanging(m, n.ptr, {}), <<q>>, Claim(m, f) \cup Tops(m, c))
        /\ Claim(m, f) \cap Tops(m, c) = {}
    BY <1>3, <1>4, <1>5, <2>7, BorrowDraws, ZenonT(60)
  <2> QED
    BY <1>8, <2>6, <2>8
<1>11. Safe(r) => Discards(r.pm, freelist, r.retired)
  <2> SUFFICES ASSUME Safe(r) PROVE Discards(r.pm, freelist, r.retired)
    OBVIOUS
  <2>1. \E X : Draws(m, m, Tops(m, n), <<q>>, X)
    BY <1>9, <1>10
  <2> QED
    BY <1>1, <1>8, <1>9, <2>1, DrawsDiscards
<1>12. Moves /\ direct' = TRUE /\ (Orderly \/ (GaveUp(r) /\ Onwards))
  BY <1>7, <1>8, <1>9, <1>11, StepTidy
<1>13. ASSUME GaveUp(r), Onwards
       PROVE  Orderly
  <2>1. u.ok /\ pm' = m /\ root' = root /\ freelist' = fl \o <<q>>
    BY <1>1, <1>9, <1>13 DEF GaveUp, Succeeds, Safe, NoError, Panicked, Clobber
  <2>2. /\ Draws(m, m, Tops(m, n), <<q>>, Claim(m, f) \cup Tops(m, c))
        /\ Claim(m, f) \cap Tops(m, c) = {} /\ f \in Frames /\ f.retire = FALSE
    BY <1>2, <1>10, <2>1
  <2>3. Keeps(m, m) /\ SameFrames(m, m, st)
    BY DEF Keeps, SameFrames
  <2>4. st \in Seq(Frames)
    BY <1>4, Zenon DEF Waiting
  <2>5. PICK X : X = Claim(m, f) \cup Tops(m, c)
    OBVIOUS
  <2>6. Apart(m, fl \o <<q>>, root, st, X)
    BY <1>8, <2>2, <2>3, <2>5, ApartKept
  <2>7. PICK gl : gl = fl \o <<q>>
    OBVIOUS
  <2>8. Apart(m, gl, root, Append(st, f), Tops(m, c))
    BY <2>2, <2>4, <2>5, <2>6, <2>7, ApartPushed
  <2>9. pc' = "delete" /\ todo' = todo /\ node' = c /\ stack' = Append(st, f)
    BY <1>1, <1>13 DEF Same
  <2>10. Apart(pm', freelist', root', stack', Tops(pm', node'))
    BY <2>1, <2>7, <2>8, <2>9
  <2> QED
    BY <1>12, <2>9, <2>10, TidyOn
<1> QED
  BY <1>12, <1>13

-----------------------------------------------------------------------------
(* A merge gives up the two children, and has what was below them.         *)
LEMMA MergeRecycles ==
  ASSUME NEW m, NEW w, Holds(m, w), NEW n, NEW d, Fits(w, n, d), n.type = "internal",
         NEW j \in 1 .. Len(n.kvs), NEW i, i = j - 1, NEW s, s = MergeChildren(m, n, i), Safe(s)
  PROVE  /\ Recycles(s, m, n)
         /\ \E x : KeepsPairs(s, w, x, n, d)
<1>1. n.kvs \in Seq(KVs)
  BY Zenon DEF Fits, FitsBut
<1>2. i \in 0 .. Len(n.kvs) - 1 /\ i + 1 = j /\ i \in 0 .. Len(n.kvs) /\ i + 1 \in 0 .. Len(n.kvs)
      /\ j \in 1 .. Len(n.kvs) + 1
  BY <1>1
<1>3. PICK l, r : l = w[n.ptr[i + 1]].node /\ r = w[n.ptr[(i + 1) + 1]].node
  OBVIOUS
<1>4. World(w)
  BY Zenon DEF Holds
<1>5. LoadAsNode(m, GetPtr(n, i)).ok
  <2>1. l.ok
    <3>1. Fitted(w, n, d, j, n.ptr[j], l)
      BY <1>2, <1>3, <1>4, ChildFitted
    <3> QED
      BY <3>1, Zenon DEF Fitted, Fits
  <2>2. LoadAsNode(m, GetPtr(n, i + 1)).ok
    BY MergeReads
  <2>3. LoadAsNode(m, GetPtr(n, i)) = l
    BY <1>2, <1>3, <2>2, ChildrenHeld
  <2> QED
    BY <2>1, <2>3
<1>6. Reuses(s, m, n) /\ \E x : KeepsPairs(s, w, x, n, d) /\ (s.err = NoError => MergedTo(s, x, n, i + 1, l, r))
  BY <1>2, <1>3, <1>5, MergeChildrenKeepsPairs
<1>7. PICK x : KeepsPairs(s, w, x, n, d)
  BY <1>6
<1>8. Recycles(s, m, n)
  BY <1>6, <1>7, RepairRecycles
<1> QED
  BY <1>7, <1>8

(* The step that merges the children beside the key.                       *)
LEMMA MergeTidy ==
  ASSUME NEW w, Describes(w), Tidy, pc = "delete", NEW n, n = node, n.type = "internal", Keeps(pm, pm'),
         NEW gs, NEW d, Descent(w, gs, d), NEW j \in 1 .. Len(n.kvs), NEW i, i = j - 1,
         NEW s, s = MergeChildren(pm, n, i),
         Step(s, FALSE, node' = s.node /\ UNCHANGED <<pc, key, stack, ret>> /\ Same)
  PROVE  Orderly /\ Moves
<1> DEFINE Onwards == node' = s.node /\ UNCHANGED <<pc, key, stack, ret>> /\ Same
<1>1. PICK m, fl, st : m = pm /\ fl = freelist /\ st = stack
  OBVIOUS
<1>2. Fits(w, n, d) /\ Holds(m, w) /\ Waiting(w, st, Head(todo).op, gs, d)
  <2>1. Holds(m, w)
    BY <1>1, DescentFacts
  <2>2. Fits(w, n, d)
    BY Zenon DEF Descent, Deleting
  <2>3. Waiting(w, st, Head(todo).op, gs, d)
    BY <1>1, Zenon DEF Descent
  <2> QED
    BY <2>1, <2>2, <2>3
<1>3. direct = TRUE /\ Apart(m, fl, root, st, Tops(m, n)) /\ Tops(m, n) = Hanging(m, n.ptr, {})
  BY <1>1 DEF Tidy, Tops
<1>4. Environ(s.err)
  BY MergeEnviron
<1>5. Safe(s) => pm' = s.pm
  BY Zenon DEF Step, Safe, Keep
<1>6. ASSUME Safe(s)
      PROVE  \E x : /\ Later(w, x) /\ Holds(s.pm, x)
                    /\ Draws(m, s.pm, Tops(m, n), s.retired, IF s.err = NoError THEN Tops(s.pm, s.node) ELSE {})
  <2>1. Recycles(s, m, n) /\ \E x : KeepsPairs(s, w, x, n, d)
    BY <1>1, <1>2, <1>6, MergeRecycles
  <2>2. PICK x : KeepsPairs(s, w, x, n, d)
    BY <2>1
  <2>3. /\ Later(w, x) /\ Holds(s.pm, x)
        /\ s.err = NoError => Fits(x, s.node, d)
    BY <2>2, Zenon DEF KeepsPairs
  <2>4. s.err = NoError => s.node.type = "internal"
    <3> SUFFICES ASSUME s.err = NoError PROVE s.node.type = "internal"
      OBVIOUS
    <3>1. d # 0
      BY <1>2, Zenon DEF Fits
    <3>2. s.node \in Nodes /\ (s.node.type = "leaf" <=> d = 0)
      BY <2>3, Zenon DEF Fits
    <3> QED
      BY <3>1, <3>2 DEF Nodes
  <2>5. Keeps(m, s.pm)
    BY <1>1, <1>5, <1>6
  <2>6. Draws(m, s.pm, Hanging(m, n.ptr, {}), s.retired,
              IF s.err = NoError THEN Hanging(s.pm, s.node.ptr, {}) ELSE {})
    BY <2>1, <2>3, <2>4, <2>5, RepairDraws
  <2>7. s.err = NoError => Tops(s.pm, s.node) = Hanging(s.pm, s.node.ptr, {})
    BY <2>4 DEF Tops
  <2> QED
    BY <1>3, <2>3, <2>6, <2>7
<1>7. Safe(s) => Discards(s.pm, freelist, s.retired)
  <2> SUFFICES ASSUME Safe(s) PROVE Discards(s.pm, freelist, s.retired)
    OBVIOUS
  <2>1. \E X : Draws(m, s.pm, Tops(m, n), s.retired, X)
    BY <1>6
  <2> QED
    BY <1>1, <1>3, <2>1, DrawsDiscards
<1>8. Moves /\ direct' = TRUE /\ (Orderly \/ (GaveUp(s) /\ Onwards))
  BY <1>3, <1>4, <1>7, StepTidy
<1>9. ASSUME GaveUp(s), Onwards
      PROVE  Orderly
  <2>1. Safe(s) /\ s.err = NoError /\ pm' = s.pm /\ root' = root /\ freelist' = fl \o s.retired
    BY <1>1, <1>9 DEF GaveUp, Succeeds
  <2>2. PICK x : /\ Later(w, x) /\ Holds(s.pm, x)
                 /\ Draws(m, s.pm, Tops(m, n), s.retired, Tops(s.pm, s.node))
    BY <1>6, <2>1
  <2>3. SameFrames(m, s.pm, st)
    BY <1>2, <2>2, FramesStand
  <2>4. Keeps(m, s.pm)
    BY <1>1, <2>1
  <2>5. Apart(s.pm, fl \o s.retired, root, st, Tops(s.pm, s.node))
    BY <1>3, <2>2, <2>3, <2>4, ApartKept
  <2>6. pc' = "delete" /\ todo' = todo /\ node' = s.node /\ stack' = st
    BY <1>1, <1>9 DEF Same
  <2>7. Apart(pm', freelist', root', stack', Tops(pm', node'))
    BY <2>1, <2>5, <2>6
  <2> QED
    BY <1>8, <2>6, <2>7, TidyOn
<1> QED
  BY <1>8, <1>9

(* deleteKeyFromInternal.                                                  *)
LEMMA DeleteKeyFromInternalTidy ==
  ASSUME NEW w, Describes(w), Tidy, DeleteKeyFromInternal, Keeps(pm, pm')
  PROVE  Orderly /\ Moves
<1>1. pc = "delete" /\ node.type = "internal" /\ ContainsKey(node, key)
  BY Zenon DEF DeleteKeyFromInternal
<1>2. PICK n, k, i : n = node /\ k = key /\ i = FindIndex(n, k)
  OBVIOUS
<1>3. PICK left, right : /\ left = LoadAsNode(pm, GetPtr(n, i))
                         /\ right = LoadAsNode(pm, GetPtr(n, i + 1))
  OBVIOUS
<1>4. PICK pred, succ, s : /\ pred = InorderPredecessor(pm, left)
                           /\ succ = InorderSuccessor(pm, right)
                           /\ s = MergeChildren(pm, n, i)
  OBVIOUS
<1> DEFINE Onwards == node' = s.node /\ UNCHANGED <<pc, key, stack, ret>> /\ Same
           Lends(c) == c.ok /\ ~Underflow(c)
<1>5. \/ Lends(left) /\ Borrow(left, pred, UpdateKV(n, i, pred), i)
      \/ Lends(right) /\ Borrow(right, succ, SetPtr(UpdateKV(n, i, succ), i, GetPtr(n, i)), i + 1)
      \/ Step(s, FALSE, Onwards)
  BY <1>2, <1>3, <1>4, Zenon DEF DeleteKeyFromInternal
<1>6. Holds(pm, w)
  BY <1>1, DescentFacts
<1>7. PICK gs, d : Descent(w, gs, d)
  BY <1>1, DescentFacts
<1>8. /\ Fits(w, n, d) /\ n.type = "internal" /\ World(w)
  BY <1>1, <1>2, <1>6, <1>7, Zenon DEF Descent, Deleting, Holds
<1>9. n.kvs \in Seq(KVs) /\ n.ptr \in Seq(Nat) /\ Len(n.ptr) = Len(n.kvs) + 1
  BY <1>8, Zenon DEF Fits, FitsBut
<1>10. PICK j : j = i + 1
  OBVIOUS
<1>11. j \in 1 .. Len(n.kvs) /\ n.kvs[j][1] = k /\ i = j - 1 /\ i + 1 = (j + 1) - 1
       /\ j \in 1 .. Len(n.kvs) + 1 /\ j + 1 \in 1 .. Len(n.kvs) + 1 /\ j \in 1 .. Len(n.ptr) - 1
  <2>1. i \in 0 .. Len(n.kvs)
    BY <1>2, <1>9, FindIndexIsFirst DEF KVs
  <2>2. i < Len(n.kvs) /\ n.kvs[i + 1][1] = k
    BY <1>1, <1>2, Zenon DEF ContainsKey, GetNKeys, GetKV
  <2>3. PICK N \in Nat : N = Len(n.kvs) /\ Len(n.ptr) = N + 1
    BY <1>9
  <2>4. /\ j \in 1 .. N /\ i = j - 1 /\ i + 1 = (j + 1) - 1
        /\ j \in 1 .. N + 1 /\ j + 1 \in 1 .. N + 1 /\ j \in 1 .. (N + 1) - 1
    BY <1>10, <2>1, <2>2, <2>3
  <2>5. n.kvs[j][1] = k
    BY <1>10, <2>2, Zenon
  <2> QED
    BY <2>3, <2>4, <2>5, Zenon
<1>12. /\ Fitted(w, n, d, j, n.ptr[j], w[n.ptr[j]].node)
       /\ Fitted(w, n, d, j + 1, n.ptr[j + 1], w[n.ptr[j + 1]].node)
  BY <1>8, <1>11, ChildFitted
<1>13. GetPtr(n, i) = n.ptr[j] /\ GetPtr(n, i + 1) = n.ptr[j + 1]
  BY <1>10, Zenon DEF GetPtr
<1>14. SameBut(Put(n.ptr, j, 0), n.ptr, j) /\ SameBut(Put(Put(n.ptr, j, 0), j, n.ptr[j]), n.ptr, j + 1)
  BY <1>9, <1>11, PointersUpdated
<1>15. ASSUME Lends(left), Borrow(left, pred, UpdateKV(n, i, pred), i)
       PROVE  Orderly /\ Moves
  <2>1. left = w[n.ptr[j]].node
    <3>1. n.ptr[j] \in DOMAIN w
      BY <1>12, Zenon DEF Fitted
    <3> QED
      BY <1>3, <1>6, <1>13, <1>15, <3>1, LoadHeld
  <2>2. Fits(w, left, d - 1) /\ left.kvs # << >> /\ PairsOf(w, left, d - 1) = w[n.ptr[j]].pairs
    BY <1>12, <2>1, Zenon DEF Fitted
  <2>3. LastOf(pred, PairsOf(w, left, d - 1))
    BY <1>4, <1>6, <2>2, NeighboursAreEnds
  <2>4. NextTo(w, n, j, j, pred)
    BY <2>2, <2>3 DEF NextTo
  <2>5. UpdateKV(n, i, pred).ok =>
          UpdateKV(n, i, pred) = With(n, Put(n.kvs, j, pred), Put(n.ptr, j, 0))
    BY <1>8, <1>11, <2>4, SeparatorUpdated
  <2>6. n.kvs[j][1] = key /\ ~Underflow(left)
    BY <1>2, <1>11, <1>15
  <2> QED
    BY <1>1, <1>2, <1>7, <1>8, <1>11, <1>14, <1>15, <2>1, <2>4, <2>5, <2>6, BorrowTidy
<1>16. ASSUME Lends(right), Borrow(right, succ, SetPtr(UpdateKV(n, i, succ), i, GetPtr(n, i)), i + 1)
       PROVE  Orderly /\ Moves
  <2>1. right = w[n.ptr[j + 1]].node
    <3>1. n.ptr[j + 1] \in DOMAIN w
      BY <1>12, Zenon DEF Fitted
    <3> QED
      BY <1>3, <1>6, <1>13, <1>16, <3>1, LoadHeld
  <2>2. Fits(w, right, d - 1) /\ right.kvs # << >> /\ PairsOf(w, right, d - 1) = w[n.ptr[j + 1]].pairs
    BY <1>12, <2>1, Zenon DEF Fitted
  <2>3. FirstOf(succ, PairsOf(w, right, d - 1))
    BY <1>4, <1>6, <2>2, NeighboursAreEnds
  <2>4. NextTo(w, n, j, j + 1, succ)
    BY <2>2, <2>3 DEF NextTo
  <2>5. PICK u : u = SetPtr(UpdateKV(n, i, succ), i, GetPtr(n, i))
    OBVIOUS
  <2>6. u.ok => u = With(n, Put(n.kvs, j, succ), Put(Put(n.ptr, j, 0), j, n.ptr[j]))
    BY <1>8, <1>11, <2>4, <2>5, SeparatorUpdated
  <2>7. n.kvs[j][1] = key /\ ~Underflow(right) /\ Borrow(right, succ, u, i + 1)
    BY <1>2, <1>11, <1>16, <2>5
  <2> QED
    BY <1>1, <1>2, <1>7, <1>8, <1>11, <1>14, <2>1, <2>4, <2>6, <2>7, BorrowTidy
<1>17. ASSUME Step(s, FALSE, Onwards)
       PROVE  Orderly /\ Moves
  BY <1>1, <1>2, <1>4, <1>7, <1>8, <1>11, <1>17, MergeTidy
<1> QED
  BY <1>5, <1>15, <1>16, <1>17

-----------------------------------------------------------------------------
(* Every call is a call of Insert or Delete, with its one request.         *)
DirectOnly == \A i \in DOMAIN Workload : \A c \in Workload[i] : c.direct = TRUE /\ Len(c.reqs) = 1

(* A list of one has nothing after its head.                               *)
LEMMA NothingAfterOne ==
  ASSUME NEW S, NEW s \in Seq(S), Len(s) = 1
  PROVE  Tail(s) = << >>
<1>1. Tail(s) \in Seq(S) /\ Len(Tail(s)) = 0
  OBVIOUS
<1> QED
  BY <1>1, EmptySeq

(* A call starts on a tree from which nothing has been given up: those     *)
(* before it have committed, and the callers stop once one has failed.     *)
LEMMA InvokeTidy ==
  ASSUME DirectOnly, GiveUp, made \in Nat, Tidy, Invoke
  PROVE  Tidy' /\ Moves
<1>1. PICK c \in Offered : call' = c.reqs /\ todo' = c.reqs /\ direct' = c.direct
  BY Zenon DEF Invoke
<1>2. pc = "idle" /\ pc' = "start" /\ base' = root /\ UNCHANGED <<pm, root, freelist>>
  BY DEF Invoke, tree
<1>3. /\ made + 1 \in 1 .. Len(Workload) /\ c \in Workload[made + 1]
      /\ outcome \notin EnvFailures
  <2>1. made < Len(Workload) /\ c \in Workload[made + 1] /\ outcome \notin EnvFailures
    BY <1>1 DEF Offered
  <2>2. Len(Workload) \in Nat
    BY WorkloadAssumption
  <2> QED
    BY <2>1, <2>2
<1>4. c.reqs \in Seq(Request) /\ c.direct = TRUE /\ Len(c.reqs) = 1
  <2>1. c \in [direct : BOOLEAN, reqs : Seq(Request) \ {<< >>}]
    BY <1>3, WorkloadAssumption
  <2>2. made + 1 \in DOMAIN Workload
    BY <1>3, WorkloadAssumption
  <2>3. c.direct = TRUE /\ Len(c.reqs) = 1
    BY <1>3, <2>2, Zenon DEF DirectOnly
  <2> QED
    BY <2>1, <2>3
<1>5. Tail(todo') = << >>
  BY <1>1, <1>4, NothingAfterOne
<1>6. freelist' = << >>
  BY <1>2, <1>3 DEF Tidy
<1>7. direct' = TRUE
  BY <1>1, <1>4
<1> QED
  BY <1>2, <1>5, <1>6, <1>7 DEF Tidy, Moves

(* The steps that leave the tree as it is.                                 *)
LEMMA IdleTidy ==
  ASSUME Tidy, NextRequest \/ Fsync \/ Barrier2 \/ Stopped \/ UNCHANGED vars
  PROVE  Tidy' /\ Moves
<1>1. CASE NextRequest
  <2>1. /\ pc = "next" /\ base' = ret /\ todo' = Tail(todo)
        /\ pc' = IF Tail(todo) = << >> THEN "fsync" ELSE "start"
        /\ pm' = pm /\ root' = root /\ freelist' = freelist /\ stack' = stack /\ direct' = direct
    BY <1>1 DEF NextRequest, tree, level
  <2>2. Tail(todo) = << >> /\ ret # 0 /\ Apart(pm, freelist, root, stack, Reach(pm, ret)) /\ direct = TRUE
    BY <2>1 DEF Tidy
  <2>3. pc' = "fsync"
    BY <2>1, <2>2
  <2>4. Apart(pm', freelist', root', stack', Reach(pm', base')) /\ base' # 0 /\ direct' = TRUE
    BY <2>1, <2>2
  <2> QED
    BY <2>1, <2>3, <2>4 DEF Tidy, Moves
<1>2. CASE Fsync
  <2>1. /\ pc = "fsync" /\ UNCHANGED <<pm, root, freelist>> /\ stack' = stack /\ direct' = direct
    BY <1>2 DEF Fsync, tree
  <2>2. base # 0 /\ Apart(pm, freelist, root, stack, Reach(pm, base)) /\ direct = TRUE
    BY <2>1 DEF Tidy
  <2>3. \/ pc' = "commit" /\ base' = base
        \/ pc' = "idle" /\ outcome' = SyncError
    BY <1>2, <2>2 DEF Fsync, Same, Reply
  <2>4. CASE pc' = "commit" /\ base' = base
    <3>1. Apart(pm', freelist', root', stack', Reach(pm', base')) /\ base' # 0 /\ direct' = TRUE
      BY <2>1, <2>2, <2>4
    <3> QED
      BY <2>1, <2>4, <3>1 DEF Tidy, Moves
  <2>5. CASE pc' = "idle" /\ outcome' = SyncError
    <3>1. outcome' \in EnvFailures
      BY <2>5 DEF EnvFailures
    <3> QED
      BY <2>1, <2>2, <2>5, <3>1 DEF Tidy, Moves
  <2> QED
    BY <2>3, <2>4, <2>5
<1>3. CASE Barrier2
  <2>1. /\ pc \in {"barrier", "barrierUnsynced"} /\ UNCHANGED <<pm, root, freelist>>
        /\ direct' = direct /\ pc' = "idle"
    BY <1>3 DEF Barrier2, tree, Reply
  <2>2. freelist = << >> /\ direct = TRUE
    BY <2>1 DEF Tidy
  <2> QED
    BY <2>1, <2>2 DEF Tidy, Moves
<1>4. CASE Stopped \/ UNCHANGED vars
  <2>1. UNCHANGED vars
    BY <1>4 DEF Stopped
  <2>2. /\ pm' = pm /\ root' = root /\ freelist' = freelist /\ pc' = pc /\ todo' = todo
        /\ direct' = direct /\ base' = base /\ node' = node /\ stack' = stack /\ ret' = ret
        /\ outcome' = outcome
    BY <2>1 DEF vars, tree, level
  <2> QED
    BY <2>2 DEF Tidy, Moves
<1> QED
  BY <1>1, <1>2, <1>3, <1>4

(* What a commit makes of it.                                              *)
LEMMA CommitTidy ==
  ASSUME Tidy, Commit
  PROVE  Tidy' /\ (UNCHANGED <<pm, root, freelist>>
                   \/ (/\ pm' = HandleMasterPage(pm, Append(freelist, root), base)
                       /\ root' = base /\ freelist' = << >>))
<1>1. pc = "commit" /\ direct = TRUE
  BY DEF Commit, Tidy
<1>2. CASE Break
  BY <1>1, <1>2 DEF Break, tree, Tidy
<1>3. CASE ~Break
  <2>1. /\ pm' = HandleMasterPage(pm, RetiredAtCommit, base)
        /\ root' = base /\ freelist' = << >> /\ direct' = direct /\ pc' = "barrier"
    BY <1>1, <1>3 DEF Commit
  <2>2. RetiredAtCommit = Append(freelist, root)
    BY <1>1 DEF RetiredAtCommit
  <2> QED
    BY <1>1, <2>1, <2>2 DEF Tidy
<1> QED
  BY <1>2, <1>3

(* A commit is one of CowStore: nothing the new tree leads to has been     *)
(* given up, nor is it the root that the call gives up now.                *)
LEMMA CommitIsCommit ==
  ASSUME NEW w, Describes(w), Tidy, Commit
  PROVE  CowCommit \/ UNCHANGED <<pm, root, freelist>>
<1> SUFFICES ASSUME pm' = HandleMasterPage(pm, Append(freelist, root), base),
                    root' = base, freelist' = << >>
             PROVE  CowCommit
  BY CommitTidy
<1>1. PICK fl, b, n : fl = Append(freelist, root) /\ b = base /\ n = HandleMasterPage(pm, fl, b)
  OBVIOUS
<1>2. pc = "commit" /\ b # 0 /\ Apart(pm, freelist, root, stack, Reach(pm, b))
  BY <1>1 DEF Commit, Tidy
<1>3. Holds(pm, w) /\ b \in DOMAIN w
  <2>1. Holds(pm, w) /\ (base = 0 \/ Rooted(w, base))
    BY <1>2 DEF Describes
  <2> QED
    BY <1>1, <1>2, <2>1 DEF Rooted
<1>4. b \in Reach(pm, b)
  BY <1>3, ReachKnown
<1>5. Reach(n, b) = Reach(pm, b)
  <2>1. Cow!WellFormed(pm)
    BY <1>3, Zenon DEF Holds
  <2>2. n.page = pm.page
    BY <1>1, <2>1, MasterPageOnly
  <2>3. Children(n) = Children(pm)
    BY <2>2, Zenon DEF Children
  <2> QED
    BY <2>3, Zenon DEF Reach
<1>6. Live' = Reach(pm, b)
  <2>1. Live' = Reach(n, b)
    BY <1>1 DEF Live
  <2> QED
    BY <1>5, <2>1
<1>7. \A s : Cow!Range(s) = Range(s)
  BY Zenon DEF Cow!Range, Range
<1>8. freelist \in Seq(Nat) /\ PageOwned(pm, root) /\ root \notin Range(freelist)
      /\ \A p \in Reach(pm, b) : PageOwned(pm, p) /\ p \notin Range(freelist) /\ p # root
  BY <1>2, Zenon DEF Apart, InUse
<1>9. root \in Cow!Owned(pm, freelist)
  BY <1>7, <1>8 DEF Cow!Owned, PageOwned
<1>10. root \in Nat /\ Range(fl) = Range(freelist) \cup {root}
  <2>1. root \in Nat
    BY <1>8 DEF PageOwned
  <2> QED
    BY <1>1, <1>8, <2>1, RangeOfAppend
<1>11. Reach(pm, b) \subseteq Cow!Owned(pm, fl)
  BY <1>7, <1>8, <1>10 DEF Cow!Owned, PageOwned
<1>12. n = Cow!HandleMasterPage(pm, fl, b)
  <2>1. Cow!FreeSlots = FreeSlots
    BY DEF Cow!FreeSlots, FreeSlots, Cow!MasterHeaderSize, Cow!PointerSize, MasterHeaderSize, PointerSize
  <2>2. \A m, f, r : Cow!HandleMasterPage(m, f, r) = HandleMasterPage(m, f, r)
    BY <2>1, Zenon DEF Cow!HandleMasterPage, HandleMasterPage
  <2> QED
    BY <1>1, <2>2
<1>13. Cow!Commit(fl, root', Live')
  BY <1>1, <1>4, <1>6, <1>9, <1>11, <1>12 DEF Cow!Commit
<1> QED
  BY <1>1, <1>13 DEF CowCommit

-----------------------------------------------------------------------------
(* A new store is a new store of CowStore: its root, the second page that  *)
(* is allocated, leads nowhere.                                            *)
LEMMA OpensAt ==
  ASSUME Init
  PROVE  root = 1 /\ root \in PageNums /\ Live = {root} /\ Cow!InitWith(NewNode)
<1> DEFINE file == NewFile(NewNode)
           m == NewPageManager(file)
           a == Allocate(m)
           b == Allocate(a.pm)
<1>1. /\ pm = LoadOrCreateRoot(m).pm /\ LoadOrCreateRoot(m).err = NoError
      /\ root = LoadOrCreateRoot(m).page /\ freelist = << >>
  BY DEF Init, InitWith
<1>2. Shaped(m) /\ m.cur = 0 /\ m.end = 0 /\ Range(m.free) = {}
  <2>1. /\ file.cur = 0 /\ file.end = 0 /\ file.mapped = 0 /\ file.flen = 0
        /\ file.root = 0 /\ file.free = << >> /\ file.page = [p \in PageNums |-> NewNode]
        /\ Plain(file)
    BY DEF NewFile, Plain
  <2>2. m = [file EXCEPT !.cur = 0, !.end = 0, !.mapped = 0]
    BY DEF NewPageManager
  <2> HIDE DEF file, m
  <2>3. /\ m.cur = 0 /\ m.end = 0 /\ m.mapped = 0 /\ m.free = << >> /\ Plain(m)
        /\ m.page = [p \in PageNums |-> NewNode]
    BY <2>1, <2>2 DEF Plain
  <2>4. m.page = [p \in PageNums |-> m.page[p]] /\ IsList(m.free)
    BY <2>3, ShortLists
  <2>5. Shaped(m)
    BY <2>3, <2>4, Zenon DEF Shaped, Plain
  <2> QED
    BY <2>3, <2>5, EmptyList
<1>3. LoadOrCreateRoot(m) = IF a.err = NoError THEN b ELSE a
  BY <1>2 DEF LoadOrCreateRoot, ReadsEOF
<1>4. Cow!LoadOrCreateRoot(m) = LoadOrCreateRoot(m)
  <2> HIDE DEF m
  <2>1. Cow!NoError = NoError
    BY DEF Cow!NoError, NoError
  <2>2. \A k : Cow!Allocate(k) = Allocate(k)
    BY SameManager, Zenon
  <2> QED
    BY <2>1, <2>2, Zenon DEF Cow!LoadOrCreateRoot, LoadOrCreateRoot, Cow!ReadsEOF, ReadsEOF
<1>5. m = Cow!NewPageManager(Cow!NewFile(NewNode))
  BY Zenon DEF NewPageManager, NewFile, Cow!NewPageManager, Cow!NewFile, PageNums, Cow!PageNums
<1> HIDE DEF m
<1>6. a.err = NoError /\ b.err = NoError /\ root = b.page
  BY <1>1, <1>3
<1>7. Allocated(m, a.pm, a.page, a.err)
  BY <1>2, AllocateAllocates
<1>8. Shaped(a.pm) /\ a.pm.cur = 1 /\ Range(a.pm.free) = {}
  BY <1>2, <1>6, <1>7 DEF Allocated
<1>9. Allocated(a.pm, b.pm, b.page, b.err)
  BY <1>8, AllocateAllocates
<1>10. root = 1
  BY <1>6, <1>8, <1>9 DEF Allocated
<1>11. root \in PageNums
  <2> DEFINE P == PreAllocatePageNum
  <2>1. P \in Nat /\ P >= 2 /\ DiskPages \in Nat /\ AddrPages \in Nat /\ AddrPages > 2
    BY PageManagerAssumption
  <2>2. m.flen = 0
    BY DEF m, NewPageManager, NewFile
  <2>3. ExtendedLength(m) = P
    <3>1. 0 % AddrPages = 0
      BY <2>1
    <3> QED
      BY <1>2, <2>1, <2>2, <3>1 DEF ExtendedLength, Fallocated, Ftruncated, Slot, Larger
  <2>4. a = ExtendFile(m)
    BY <1>2 DEF Allocate
  <2>5. P > DiskPages => a = Failed(m, NoSpace)
    BY <2>1, <2>3, <2>4 DEF ExtendFile
  <2>6. Failed(m, NoSpace).err # NoError
    BY DEF Failed, NoSpace, NoError
  <2>7. P <= DiskPages
    BY <1>6, <2>1, <2>5, <2>6
  <2> QED
    BY <1>10, <2>1, <2>7 DEF PageNums
<1>12. Live = {root}
  <2>1. pm.page[root] = NewNode
    BY <1>11, OpensEmpty
  <2>2. Children(pm)[root] = {}
    BY <1>11, <2>1 DEF Children, NewNode
  <2>3. Closed(Children(pm), {root}) /\ {root} \in SUBSET PageNums
    BY <1>11, <2>2, ClosedMeans
  <2> QED
    BY <1>11, <2>3, ClosureProperties DEF Live, Reach
<1>13. Cow!InitWith(NewNode)
  <2>1. Cow!NoError = NoError
    BY DEF Cow!NoError, NoError
  <2> QED
    BY <1>1, <1>4, <1>5, <1>12, <2>1 DEF Cow!InitWith
<1> QED
  BY <1>10, <1>11, <1>12, <1>13

(* Every step but the commit moves the tree as the discipline allows.      *)
LEMMA NextTidy ==
  ASSUME DirectOnly, DeletePresent, GiveUp, RoomForThree, made \in Nat, Described, Tidy,
         [Next]_vars, ~Commit, Keeps(pm, pm')
  PROVE  Tidy' /\ Moves
<1>1. PICK w : Describes(w)
  BY Zenon DEF Described
<1>2. CASE Invoke
  BY <1>2, InvokeTidy
<1>3. CASE StartInsert
  BY <1>1, <1>3, StartInsertTidy DEF Orderly
<1>4. CASE InsertIntoInternal
  BY <1>1, <1>4, InsertIntoInternalTidy DEF Orderly
<1>5. CASE InsertIntoLeaf
  BY <1>1, <1>5, InsertIntoLeafTidy DEF Orderly
<1>6. CASE StartDelete
  BY <1>1, <1>6, StartDeleteTidy DEF Orderly
<1>7. CASE DeleteFromInternal
  BY <1>1, <1>7, DeleteFromInternalTidy DEF Orderly
<1>8. CASE DeleteKeyFromInternal
  BY <1>1, <1>8, DeleteKeyFromInternalTidy DEF Orderly
<1>9. CASE DeleteFromLeaf
  BY <1>1, <1>9, DeleteFromLeafTidy DEF Orderly
<1>10. CASE PropagateUp
  BY <1>1, <1>10, PropagateUpTidy DEF Orderly
<1>11. CASE Finish
  BY <1>1, <1>11, FinishTidy DEF Orderly
<1>12. CASE NextRequest \/ Fsync \/ Barrier2 \/ Stopped \/ UNCHANGED vars
  BY <1>12, IdleTidy
<1> QED
  BY <1>2, <1>3, <1>4, <1>5, <1>6, <1>7, <1>8, <1>9, <1>10, <1>11, <1>12, Zenon DEF Next, Serve

(* What the callers of Insert and Delete keep to: one request a call, no   *)
(* key inserted twice, none deleted that is not there, no call after the   *)
(* file system has failed one.                                             *)
Careful == DirectOnly /\ InsertFresh /\ DeletePresent /\ GiveUp

(* The inductive invariant of the discipline: the pages are described, the *)
(* page manager is that of CowStore, and the operation has kept order.     *)
OrderInv == Careful /\ DInv /\ Cow!IInv /\ WInv /\ Tidy

(* A step that persists nodes and gives pages up, or commits.              *)
CowStep == (\E vs \in NodesWritten : CowWork(vs)) \/ CowCommit

(* CowStore keeps its own invariant.                                       *)
LEMMA CowStepKeeps ==
  ASSUME Cow!IInv, CowStep \/ UNCHANGED <<pm, root, freelist>>
  PROVE  Cow!IInv'
<1>1. [Cow!Next]_(Cow!vars)
  BY DisciplinedStepIsNext DEF CowStep
<1> QED
  BY <1>1, Cow!NextKeeps, PageLayoutAssumption, PageManagerAssumption
     DEF Cow!MasterHeaderSize, Cow!PointerSize, MasterHeaderSize, PointerSize

(* Every step keeps the invariant, and the discipline.                     *)
LEMMA OrderKept ==
  ASSUME OrderInv, [Next]_vars
  PROVE  OrderInv' /\ (CowStep \/ UNCHANGED <<pm, root, freelist>>)
<1>1. /\ Careful /\ InsertFresh /\ RoomForThree /\ made \in Nat /\ Described
      /\ Cow!IInv /\ WInv /\ Tidy
  BY DEF OrderInv, DInv, Careful
<1>2. WInv' /\ (Commit \/ Advances(pm, pm'))
  BY <1>1, NextGrows
<1>3. Careful' /\ InsertFresh' /\ RoomForThree' /\ made' \in Nat
  BY <1>1, CallsCounted DEF Careful, DirectOnly, RoomForThree
<1>4. CASE Commit
  <2>1. PICK w : Describes(w)
    BY <1>1, Zenon DEF Described
  <2>2. CowCommit \/ UNCHANGED <<pm, root, freelist>>
    BY <1>1, <1>4, <2>1, CommitIsCommit
  <2>3. Tidy'
    BY <1>1, <1>4, CommitTidy
  <2>4. CowStep \/ UNCHANGED <<pm, root, freelist>>
    BY <2>2, Zenon DEF CowStep
  <2>5. Cow!IInv'
    BY <1>1, <2>4, CowStepKeeps
  <2>6. Described'
    BY <1>1, <2>5, NextDescribed
  <2> QED
    BY <1>2, <1>3, <2>3, <2>4, <2>5, <2>6 DEF OrderInv, DInv
<1>5. CASE ~Commit
  <2>1. Advances(pm, pm')
    BY <1>2, <1>5
  <2>2. Described'
    BY <1>1, <1>5, NextDescribed
  <2>3. Cow!WellFormed(pm')
    <3>1. PICK w : Describes(w)'
      BY <2>2, Zenon DEF Described
    <3> QED
      BY <3>1, Zenon DEF Describes, Holds
  <2>4. Cow!WellFormed(pm)
    BY <1>1, Zenon DEF Cow!IInv
  <2>5. Keeps(pm, pm')
    BY <2>1, <2>4, FreshKeeps DEF Advances
  <2>6. Tidy' /\ Moves
    BY <1>1, <1>5, <2>5, NextTidy DEF Careful
  <2>7. CowStep \/ UNCHANGED <<pm, root, freelist>>
    <3>1. (\E vs \in NodesWritten : CowWork(vs)) \/ UNCHANGED <<pm, root, freelist>>
      BY <1>1, <2>1, <2>3, <2>6, MovesIsWork
    <3> QED
      BY <3>1, Zenon DEF CowStep
  <2>8. Cow!IInv'
    BY <1>1, <2>7, CowStepKeeps
  <2> QED
    BY <1>2, <1>3, <2>2, <2>6, <2>7, <2>8 DEF OrderInv, DInv
<1> QED
  BY <1>4, <1>5

(* It holds of a new store.                                                *)
LEMMA OrderInit ==
  ASSUME Careful, RoomForThree, Init
  PROVE  OrderInv /\ Cow!InitWith(NewNode)
<1>1. Cow!InitWith(NewNode)
  BY OpensAt
<1>2. Cow!IInv
  BY <1>1, StartsAsCowStore, Cow!InitIInv, PageLayoutAssumption, PageManagerAssumption
     DEF Cow!MasterHeaderSize, Cow!PointerSize, MasterHeaderSize, PointerSize
<1>3. Described
  BY <1>2, InitDescribed
<1>4. WInv
  BY InitWInv
<1>5. Tidy /\ made \in Nat
  BY DEF Init, Tidy
<1> QED
  BY <1>1, <1>2, <1>3, <1>4, <1>5 DEF OrderInv, DInv, Careful

-----------------------------------------------------------------------------
(* So it is in every state.                                                *)
LEMMA AlwaysOrdered ==
  Careful /\ RoomForThree /\ Spec => []OrderInv
<1>1. Careful /\ RoomForThree /\ Init => OrderInv
  BY OrderInit
<1>2. OrderInv /\ [Next]_vars => OrderInv'
  BY OrderKept
<1> QED
  BY <1>1, <1>2, PTL DEF Spec

(* Insert and Delete keep the copy-on-write discipline, with a tree of any *)
(* height and through splits, rotations, merges and borrowed neighbours,   *)
(* wherever the file system fails: each step persists at most two nodes on *)
(* fresh pages and gives up at most two pages, each one owned, given up    *)
(* once, and not to be used again by the operation (btree.go); and nothing *)
(* that is committed has been given up.                                    *)
THEOREM TreeKeepsDiscipline ==
  Careful /\ RoomForThree /\ Spec => CowImplemented
<1>1. Careful /\ RoomForThree /\ Init => Cow!InitWith(NewNode)
  BY OrderInit
<1>2. OrderInv /\ [Next]_vars => CowStep \/ UNCHANGED <<pm, root, freelist>>
  BY OrderKept
<1>3. OrderInv /\ [Next]_vars
        => [(\E vs \in NodesWritten : CowWork(vs)) \/ CowCommit]_<<pm, root, freelist>>
  BY <1>2, Zenon DEF CowStep
<1> QED
  BY <1>1, <1>3, AlwaysOrdered, PTL DEF Spec, CowImplemented

(* So no page of the committed tree can be given away...                   *)
THEOREM LivePagesKept ==
  Careful /\ RoomForThree /\ Spec => []LiveKept
  BY TreeKeepsDiscipline, DisciplineKeepsLivePages, PTL

(* ... none is ever written...                                             *)
THEOREM TreePagesNeverWritten ==
  Careful /\ RoomForThree /\ Spec => CopyOnWrite
  BY TreeKeepsDiscipline, DisciplineCopiesOnWrite, PTL

(* ... Search finds exactly the pairs of the committed tree...             *)
THEOREM SearchAlwaysAgrees ==
  Careful /\ RoomForThree /\ Spec => []SearchAgrees
<1>1. Careful => InsertFresh
  BY DEF Careful
<1> QED
  BY <1>1, TreeKeepsDiscipline, SearchFindsTheMap, PTL

(* ... and the variables keep their types.                                 *)
THEOREM TreeAlwaysTyped ==
  Careful /\ RoomForThree /\ Spec => []TypeOK
<1>1. Careful => InsertFresh
  BY DEF Careful
<1> QED
  BY <1>1, TreeKeepsDiscipline, TreeTypeCorrect, PTL

-----------------------------------------------------------------------------
(* The fold of PerformAll over the first k requests.                       *)
PerformFolded(s, rs, k, g) ==
  g = [t \in SUBSET (1 .. k) |->
         IF t = {} THEN s ELSE KV!Perform(g[t \ {Max(t)}], rs[Max(t)])]

(* A function on the subsets of a set of one.                              *)
LEMMA OneFolds ==
  ASSUME NEW s, NEW rs
  PROVE  \E g : PerformFolded(s, rs, 1, g)
<1> DEFINE g == [t \in SUBSET (1 .. 1) |-> IF t = {} THEN s ELSE KV!Perform(s, rs[1])]
           u == [t \in SUBSET (1 .. 1) |->
                   IF t = {} THEN s ELSE KV!Perform(g[t \ {Max(t)}], rs[Max(t)])]
<1>1. ASSUME NEW t \in SUBSET (1 .. 1) PROVE g[t] = u[t]
  <2>1. CASE t = {}
    BY <2>1
  <2>2. CASE t # {}
    <3>0. \A y \in t : y = 1
      OBVIOUS
    <3>1. t \subseteq 1 .. 1 /\ 1 \in t /\ t \ {1} = {} /\ {} \in SUBSET (1 .. 1)
      BY <2>2, <3>0
    <3>2. Max(t) = 1
      BY <3>1, MaxOfSmall
    <3>3. g[t] = KV!Perform(s, rs[1]) /\ g[{}] = s
      BY <2>2
    <3> HIDE DEF g
    <3>4. u[t] = KV!Perform(g[t \ {1}], rs[1])
      BY <2>2, <3>2
    <3> QED
      BY <3>1, <3>3, <3>4
  <2> QED
    BY <2>1, <2>2
<1>2. g = [t \in SUBSET (1 .. 1) |-> g[t]] /\ u = [t \in SUBSET (1 .. 1) |-> u[t]]
  OBVIOUS
<1>3. g = u
  <2> HIDE DEF g, u
  <2> QED
    BY <1>1, <1>2
<1>4. PerformFolded(s, rs, 1, g)
  <2> HIDE DEF g
  <2> QED
    BY <1>3, Zenon DEF PerformFolded
<1> HIDE DEF g
<1> QED
  BY <1>4

(* One request makes of a map what it makes of it.                         *)
LEMMA OnePerformed ==
  ASSUME NEW s, NEW S, NEW rs \in Seq(S), Len(rs) = 1
  PROVE  KV!PerformAll(s, rs) = KV!Perform(s, rs[1])
<1> DEFINE g == CHOOSE h : PerformFolded(s, rs, 1, h)
<1>1. DOMAIN rs = 1 .. 1
  OBVIOUS
<1>2. PerformFolded(s, rs, 1, g)
  BY OneFolds
<1>3. KV!PerformAll(s, rs) = g[1 .. 1]
  <2>1. KV!PerformAll(s, rs) = (CHOOSE h : PerformFolded(s, rs, 1, h))[1 .. 1]
    BY <1>1, Zenon DEF KV!PerformAll, KV!FoldLeft, KV!MapThenFoldSet, PerformFolded, KV!Max, Max
  <2> QED
    BY <2>1
<1> HIDE DEF g
<1>4. ASSUME NEW t \in SUBSET (1 .. 1)
      PROVE  g[t] = IF t = {} THEN s ELSE KV!Perform(g[t \ {Max(t)}], rs[Max(t)])
  BY <1>2, Zenon DEF PerformFolded
<1>5. g[{}] = s
  BY <1>4
<1>6. 1 .. 1 \in SUBSET (1 .. 1) /\ 1 .. 1 # {} /\ 1 .. 1 \subseteq 1 .. 1 /\ 1 \in 1 .. 1
      /\ (1 .. 1) \ {1} = {}
  OBVIOUS
<1>7. Max(1 .. 1) = 1
  BY <1>6, MaxOfSmall
<1>8. g[1 .. 1] = KV!Perform(g[(1 .. 1) \ {1}], rs[1])
  BY <1>4, <1>6, <1>7
<1> QED
  BY <1>3, <1>5, <1>6, <1>8

(* None makes nothing of it.                                               *)
LEMMA NonePerformed ==
  ASSUME NEW s, NEW S, NEW rs \in Seq(S), Len(rs) = 0
  PROVE  KV!PerformAll(s, rs) = s
<1> DEFINE g == CHOOSE h : PerformFolded(s, rs, 0, h)
           f == [t \in SUBSET (1 .. 0) |-> s]
           u == [t \in SUBSET (1 .. 0) |->
                   IF t = {} THEN s ELSE KV!Perform(f[t \ {Max(t)}], rs[Max(t)])]
<1>1. DOMAIN rs = 1 .. 0
  OBVIOUS
<1>2. \A t \in SUBSET (1 .. 0) : t = {}
  OBVIOUS
<1>3. f = u
  BY <1>2
<1>4. PerformFolded(s, rs, 0, f)
  <2> HIDE DEF f
  <2> QED
    BY <1>3, Zenon DEF PerformFolded
<1>5. PerformFolded(s, rs, 0, g)
  <2> HIDE DEF f
  <2> QED
    BY <1>4
<1>6. KV!PerformAll(s, rs) = g[1 .. 0]
  <2>1. KV!PerformAll(s, rs) = (CHOOSE h : PerformFolded(s, rs, 0, h))[1 .. 0]
    BY <1>1, Zenon DEF KV!PerformAll, KV!FoldLeft, KV!MapThenFoldSet, PerformFolded, KV!Max, Max
  <2> QED
    BY <2>1
<1> HIDE DEF g
<1>7. ASSUME NEW t \in SUBSET (1 .. 0)
      PROVE  g[t] = IF t = {} THEN s ELSE KV!Perform(g[t \ {Max(t)}], rs[Max(t)])
  BY <1>5, Zenon DEF PerformFolded
<1>8. g[1 .. 0] = s
  <2>1. 1 .. 0 \in SUBSET (1 .. 0) /\ 1 .. 0 = {}
    OBVIOUS
  <2> QED
    BY <1>7, <2>1
<1> QED
  BY <1>6, <1>8

(* A call of one request is refused for what that request is refused for.  *)
LEMMA OneRefused ==
  ASSUME NEW S, NEW rs \in Seq(S), Len(rs) = 1
  PROVE  KV!RefusalsOf(rs) = KV!Refusals(Contents(pm, root), rs[1])
<1> DEFINE s == Contents(pm, root)
<1>1. DOMAIN rs = {1} /\ 1 .. 1 - 1 = {}
  OBVIOUS
<1>2. KV!RefusedAt(rs, 1) = KV!Refusals(s, rs[1])
  <2>1. SubSeq(rs, 1, 1 - 1) \in Seq(S) /\ Len(SubSeq(rs, 1, 1 - 1)) = 0
    OBVIOUS
  <2>2. KV!PerformAll(s, SubSeq(rs, 1, 1 - 1)) = s
    BY <2>1, NonePerformed
  <2> QED
    BY <2>2, Zenon DEF KV!RefusedAt
<1>3. {j \in DOMAIN rs : \A h \in 1 .. j - 1 : KV!RefusedAt(rs, h) = {}} = {1}
  BY <1>1
<1>4. KV!RefusalsOf(rs) = UNION {KV!RefusedAt(rs, i) : i \in {1}}
  BY <1>3, Zenon DEF KV!RefusalsOf
<1> QED
  BY <1>2, <1>4

(* What a request makes of the pairs is what it makes of their map.        *)
LEMMA ServedMap ==
  ASSUME NEW K, K \subseteq KVs, Functional(K), NEW r \in Request,
         Served(K, r) \subseteq KVs, Functional(Served(K, r))
  PROVE  MapOf(Served(K, r)) = KV!Perform(MapOf(K), r)
<1> DEFINE f == MapOf(K)
           J == Served(K, r)
           g == MapOf(J)
           h == KV!Perform(f, r)
<1>1. /\ \A k : k \in DOMAIN f <=> \E kv \in K : kv[1] = k
      /\ \A kv \in K : f[kv[1]] = kv[2] /\ kv = <<kv[1], f[kv[1]]>>
  BY MapOfPairs
<1>2. /\ \A k : k \in DOMAIN g <=> \E kv \in J : kv[1] = k
      /\ \A kv \in J : g[kv[1]] = kv[2] /\ kv = <<kv[1], g[kv[1]]>>
  BY MapOfPairs
<1>3. g = [k \in DOMAIN g |-> g[k]]
  BY DEF MapOf
<1>4. CASE r.op = "insert"
  <2>1. /\ h = [j \in DOMAIN f \cup {r.key} |-> IF j = r.key THEN r.val ELSE f[j]]
        /\ J = K \cup {<<r.key, r.val>>}
    BY <1>4 DEF KV!Perform, KV!With, Served
  <2> HIDE DEF f, g, h, J
  <2>3. /\ DOMAIN h = {r.key} \cup DOMAIN f /\ h = [k \in DOMAIN h |-> h[k]]
        /\ h[r.key] = r.val /\ \A k \in DOMAIN f : k # r.key => h[k] = f[k]
    BY <2>1
  <2>4. DOMAIN g = DOMAIN h
    <3>1. <<r.key, r.val>> \in J /\ <<r.key, r.val>>[1] = r.key
      BY <2>1
    <3>2. \A kv : kv \in J <=> kv \in K \/ kv = <<r.key, r.val>>
      BY <2>1
    <3>3. \A k : (\E kv \in J : kv[1] = k) <=> (\E kv \in K : kv[1] = k) \/ k = r.key
      BY <3>1, <3>2, Zenon
    <3>4. \A k : k \in DOMAIN g <=> k \in DOMAIN f \/ k = r.key
      BY <1>1, <1>2, <3>3, Zenon
    <3> QED
      BY <2>3, <3>4
  <2>5. ASSUME NEW k \in DOMAIN g PROVE g[k] = h[k]
    <3>1. PICK kv \in J : kv[1] = k
      BY <1>2
    <3>2. g[k] = kv[2]
      BY <1>2, <3>1
    <3>3. <<r.key, r.val>> \in J /\ <<r.key, r.val>>[1] = r.key /\ <<r.key, r.val>>[2] = r.val
      BY <2>1
    <3>4. CASE k = r.key
      BY <1>2, <2>3, <3>3, <3>4
    <3>5. CASE k # r.key
      <4>1. kv \in K
        BY <2>1, <3>1, <3>5
      <4> QED
        BY <1>1, <2>3, <3>1, <3>2, <3>5, <4>1
    <3> QED
      BY <3>4, <3>5
  <2> QED
    BY <1>3, <2>3, <2>4, <2>5 DEF f, g, h, J
<1>5. CASE r.op # "insert"
  <2>1. h = [j \in DOMAIN f \ {r.key} |-> f[j]] /\ J = {kv \in K : kv[1] # r.key}
    BY <1>5 DEF KV!Perform, KV!Without, Served, Without
  <2> HIDE DEF h, g, f, J
  <2>2. DOMAIN g = DOMAIN h
    BY <1>1, <1>2, <2>1
  <2>3. ASSUME NEW k \in DOMAIN g PROVE g[k] = h[k]
    BY <1>1, <1>2, <2>1, <2>2
  <2> QED
    BY <1>3, <2>1, <2>2, <2>3 DEF f, g, h, J
<1> QED
  BY <1>4, <1>5

-----------------------------------------------------------------------------
(* What is known of the call while it is served: it has changed nothing    *)
(* yet, until it is applied nothing is refused, and the root to commit     *)
(* holds what the call makes of the map.                                   *)
Answering ==
  /\ pc \in {"start"} \cup Recursing =>
       base = root /\ todo = call /\ outcome = "pending" /\ Len(call) = 1
  /\ pc = "start" /\ call[1].op = "delete" => call[1].key \in DOMAIN Contents(pm, root)
  /\ pc \in Recursing \cup {"fsync", "commit"} =>
       KV!Refusals(Contents(pm, root), call[1]) = {}
  /\ pc \in {"fsync", "commit"} =>
       /\ outcome = "pending" /\ Len(call) = 1
       /\ Contents(pm, base) = KV!Perform(Contents(pm, root), call[1])
  /\ pc = "barrier" => outcome = "applied"
  /\ pc = "idle" => outcome \notin {"pending", "applied"}

(* With it, what every step of the tree keeps.                             *)
MapInv == OrderInv /\ TInv /\ Answering

(* The map, the call and its outcome stay.                                 *)
KVStays == UNCHANGED <<Contents(pm, root), call, outcome>>

(* The map as an abstract store moves on.                                  *)
KVStep == KV!Next \/ KVStays

(* No committed page is free.                                              *)
LEMMA OrderKeepsLive ==
  OrderInv => LiveKept
<1>1. Cow!IInv => LiveKept
  BY NoLivePageFree
<1> QED
  BY <1>1 DEF OrderInv

(* A recursion step does not change the map.                               *)
LEMMA RootStaysMap ==
  ASSUME OrderInv, [Next]_vars, root' = root
  PROVE  Contents(pm', root') = Contents(pm, root)
<1>1. WInv /\ LiveKept
  BY OrderKeepsLive DEF OrderInv
<1> QED
  BY <1>1, MapStays

(* The recursion answers with an error only if the file system failed, or  *)
(* the pair is too large, and leaves the root as it is.                    *)
LEMMA RecursionOrderly ==
  ASSUME OrderInv,
         \/ StartInsert \/ StartDelete \/ InsertIntoInternal \/ InsertIntoLeaf
         \/ DeleteFromInternal \/ DeleteKeyFromInternal \/ DeleteFromLeaf \/ PropagateUp \/ Finish
  PROVE  root' = root /\ (pc' = "idle" => outcome' \in EnvFailures \/ Refuses)
<1>1. PICK w : Describes(w)
  BY Zenon DEF OrderInv, DInv, Described
<1>2. /\ DirectOnly /\ DeletePresent /\ GiveUp /\ RoomForThree /\ made \in Nat /\ Tidy
      /\ Cow!IInv /\ WInv
  BY DEF OrderInv, DInv, Careful
<1>3. [Next]_vars /\ ~Commit
  <2>1. [Next]_vars
    BY Zenon DEF Next, Serve
  <2>2. ~Commit
    BY DEF Commit, StartInsert, StartDelete, InsertIntoInternal, InsertIntoLeaf, DeleteFromInternal,
           DeleteKeyFromInternal, DeleteFromLeaf, PropagateUp, Finish
  <2> QED
    BY <2>1, <2>2
<1>4. Keeps(pm, pm')
  <2>1. Advances(pm, pm')
    BY <1>2, <1>3, NextGrows
  <2>2. Cow!WellFormed(pm)
    BY <1>2, Zenon DEF Cow!IInv
  <2> QED
    BY <2>1, <2>2, FreshKeeps DEF Advances
<1>5. Orderly
  <2>1. CASE StartInsert
    BY <1>1, <1>2, <1>4, <2>1, StartInsertTidy
  <2>2. CASE InsertIntoInternal
    BY <1>1, <1>2, <1>4, <2>2, InsertIntoInternalTidy
  <2>3. CASE InsertIntoLeaf
    BY <1>1, <1>2, <1>4, <2>3, InsertIntoLeafTidy
  <2>4. CASE StartDelete
    BY <1>1, <1>2, <1>4, <2>4, StartDeleteTidy
  <2>5. CASE DeleteFromInternal
    BY <1>1, <1>2, <1>4, <2>5, DeleteFromInternalTidy
  <2>6. CASE DeleteKeyFromInternal
    BY <1>1, <1>2, <1>4, <2>6, DeleteKeyFromInternalTidy
  <2>7. CASE DeleteFromLeaf
    BY <1>1, <1>2, <1>4, <2>7, DeleteFromLeafTidy
  <2>8. CASE PropagateUp
    BY <1>1, <1>2, <1>4, <2>8, PropagateUpTidy
  <2>9. CASE Finish
    BY <1>1, <1>2, <1>4, <2>9, FinishTidy
  <2> QED
    BY <2>1, <2>2, <2>3, <2>4, <2>5, <2>6, <2>7, <2>8, <2>9
<1>6. Moves
  BY <1>1, <1>2, <1>3, <1>4, NextTidy DEF OrderInv, DInv
<1>7. root' = root
  BY <1>6 DEF Moves
<1> QED
  BY <1>5, <1>7 DEF Orderly

(* A key to be deleted is there, and a pair to be inserted is not too      *)
(* large: nothing is refused.                                              *)
LEMMA NotRefused ==
  ASSUME NEW s, NEW r \in Request, r.op = "insert" => ~Oversized(<<r.key, r.val>>),
         r.op = "delete" => r.key \in DOMAIN s
  PROVE  KV!Refusals(s, r) = {}
  BY DEF KV!Refusals, Oversized

(* A step of the recursion.                                                *)
LEMMA RecursionAnswers ==
  ASSUME MapInv,
         \/ StartInsert \/ StartDelete \/ InsertIntoInternal \/ InsertIntoLeaf
         \/ DeleteFromInternal \/ DeleteKeyFromInternal \/ DeleteFromLeaf \/ PropagateUp \/ Finish
  PROVE  Answering' /\ KVStep
<1>1. OrderInv /\ TInv /\ Answering
  BY DEF MapInv
<1>2. root' = root /\ (pc' = "idle" => outcome' \in EnvFailures \/ Refuses)
  BY <1>1, RecursionOrderly
<1>3. Contents(pm', root') = Contents(pm, root)
  <2>1. [Next]_vars
    BY Zenon DEF Next, Serve
  <2> QED
    BY <1>1, <1>2, <2>1, RootStaysMap
<1>4. Recurs
  BY <1>1, DescentTurns
<1>5. pc \in {"start", "insert", "delete", "return"}
  BY DEF StartInsert, StartDelete, InsertIntoInternal, InsertIntoLeaf, DeleteFromInternal,
         DeleteKeyFromInternal, DeleteFromLeaf, PropagateUp, Finish
<1>6. base = root /\ todo = call /\ outcome = "pending" /\ Len(call) = 1 /\ call \in Seq(Request)
  BY <1>1, <1>5 DEF Answering, Recursing, TInv
<1>7. call[1] \in Request /\ Head(todo) = call[1]
  BY <1>6
<1>8. CASE pc' \in Recursing /\ UNCHANGED <<call, todo, base, outcome>>
  <2>1. KV!Refusals(Contents(pm, root), call[1]) = {}
    <3>1. CASE pc # "start"
      BY <1>1, <1>5, <3>1 DEF Answering, Recursing
    <3>2. CASE pc = "start"
      <4>1. StartInsert \/ StartDelete
        BY <3>2 DEF InsertIntoInternal, InsertIntoLeaf, DeleteFromInternal,
                    DeleteKeyFromInternal, DeleteFromLeaf, PropagateUp, Finish
      <4>2. call[1].op = "delete" => call[1].key \in DOMAIN Contents(pm, root)
        BY <1>1, <3>2 DEF Answering
      <4>3. call[1].op = "insert" => ~Oversized(<<call[1].key, call[1].val>>)
        <5> SUFFICES ASSUME call[1].op = "insert", Oversized(Pair) PROVE FALSE
          BY <1>7 DEF Pair
        <5>1. StartInsert
          BY <1>7, <4>1 DEF StartDelete
        <5>2. Fail(ErrOverflow, FALSE)
          BY <5>1 DEF StartInsert
        <5>3. pc' = "idle"
          BY <5>2 DEF Fail, Reply
        <5> QED
          BY <1>8, <5>3 DEF Recursing
      <4> QED
        BY <1>7, <4>2, <4>3, NotRefused
    <3> QED
      BY <3>1, <3>2
  <2>2. call' = call /\ todo' = todo /\ base' = base /\ outcome' = outcome
    BY <1>8
  <2>3. Answering'
    BY <1>2, <1>3, <1>6, <1>8, <2>1, <2>2 DEF Answering, Recursing
  <2> QED
    BY <1>3, <2>2, <2>3 DEF KVStep, KVStays
<1>9. CASE pc' = "idle" /\ call' = << >>
  <2>1. outcome' \in EnvFailures \/ Refuses
    BY <1>2, <1>9
  <2>2. outcome' \in EnvFailures \cup KV!RefusalsOf(call)
    <3>1. CASE Refuses
      <4>1. call[1].op = "insert" /\ Oversized(<<call[1].key, call[1].val>>) /\ outcome' = ErrOverflow
        BY <1>7, <3>1 DEF Refuses, Pair
      <4>2. <<call[1].key, call[1].val>> \in Key \X Val
        BY <1>7 DEF Request
      <4>3. outcome' \in KV!Refusals(Contents(pm, root), call[1])
        BY <4>1, <4>2 DEF KV!Refusals, Oversized, KV!ErrOverflow, ErrOverflow
      <4> QED
        BY <1>6, <4>3, OneRefused
    <3> QED
      BY <2>1, <3>1
  <2>3. outcome' \notin {"pending", "applied"}
    <3>1. outcome' \in EnvFailures \cup {ErrOverflow}
      BY <2>1 DEF Refuses
    <3> QED
      BY <3>1 DEF EnvFailures, ErrOverflow, NoSpace, NoMap, SyncError
  <2>4. KV!Reject
    BY <1>3, <1>6, <1>9, <2>2 DEF KV!Reject
  <2> QED
    BY <1>9, <2>3, <2>4 DEF Answering, KVStep, KV!Next, Recursing
<1>10. CASE pc' = "broken" /\ UNCHANGED <<call, outcome>>
  BY <1>3, <1>10 DEF Answering, KVStep, KVStays, Recursing
<1> QED
  BY <1>4, <1>8, <1>9, <1>10 DEF Recurs

-----------------------------------------------------------------------------
(* A call.                                                                 *)
LEMMA InvokeAnswers ==
  ASSUME MapInv, Invoke
  PROVE  Answering' /\ KVStep
<1>1. PICK c \in Offered : call' = c.reqs /\ todo' = c.reqs /\ direct' = c.direct
  BY Zenon DEF Invoke
<1>2. /\ pc = "idle" /\ pc' = "start" /\ base' = root /\ outcome' = "pending"
      /\ UNCHANGED <<pm, root>>
  BY DEF Invoke, tree
<1>3. /\ made + 1 \in DOMAIN Workload /\ c \in Workload[made + 1]
      /\ Disciplined(Present, c.reqs)
  <2>1. made < Len(Workload) /\ c \in Workload[made + 1] /\ Disciplined(Present, c.reqs)
    BY <1>1 DEF Offered
  <2>2. made \in Nat /\ Len(Workload) \in Nat /\ DOMAIN Workload = 1 .. Len(Workload)
    BY WorkloadAssumption DEF MapInv, OrderInv, DInv
  <2> QED
    BY <2>1, <2>2
<1>4. c.reqs \in Seq(Request) /\ Len(c.reqs) = 1
  <2>1. c \in [direct : BOOLEAN, reqs : Seq(Request) \ {<< >>}]
    BY <1>3, WorkloadAssumption
  <2>2. DirectOnly
    BY DEF MapInv, OrderInv, Careful
  <2> QED
    BY <1>3, <2>1, <2>2 DEF DirectOnly
<1>5. c.reqs[1].op = "delete" => c.reqs[1].key \in Present
  <2> SUFFICES ASSUME c.reqs[1].op = "delete" PROVE c.reqs[1].key \in Present
    OBVIOUS
  <2>1. DeletePresent /\ 1 \in DOMAIN c.reqs /\ 1 .. 1 - 1 = {}
    BY <1>4 DEF MapInv, OrderInv, Careful
  <2>2. c.reqs[1].key \in Before(Present, c.reqs, 1)
    BY <1>3, <2>1, Zenon DEF Disciplined
  <2>3. Before(Present, c.reqs, 1) \subseteq Present
    BY <2>1 DEF Before
  <2> QED
    BY <2>2, <2>3
<1>6. Answering'
  BY <1>1, <1>2, <1>4, <1>5 DEF Answering, Recursing, Present
<1>7. KV!Invoke
  <2>1. call' \in UNION {{d.reqs : d \in Workload[i]} : i \in DOMAIN Workload}
    BY <1>1, <1>3
  <2>2. outcome \notin {"pending", "applied"}
    BY <1>2 DEF MapInv, Answering
  <2>3. Contents(pm', root') = Contents(pm, root)
    BY <1>2
  <2> QED
    BY <1>2, <2>1, <2>2, <2>3 DEF KV!Invoke
<1> QED
  BY <1>6, <1>7 DEF KVStep, KV!Next

(* The recursion has returned: the new root holds what the request makes   *)
(* of the map.                                                             *)
LEMMA NextRequestAnswers ==
  ASSUME MapInv, NextRequest
  PROVE  Answering' /\ KVStep
<1>1. /\ pc = "next" /\ base' = ret /\ UNCHANGED <<pm, root, call, outcome>>
      /\ pc' = IF Tail(todo) = << >> THEN "fsync" ELSE "start"
  BY DEF NextRequest, tree
<1>2. Tail(todo) = << >> /\ ret # 0 /\ Described /\ TInv /\ Answering
  BY <1>1 DEF MapInv, OrderInv, DInv, Tidy
<1>3. /\ base = root /\ todo = call /\ outcome = "pending" /\ Len(call) = 1
      /\ call \in Seq(Request) /\ KV!Refusals(Contents(pm, root), call[1]) = {}
  BY <1>1, <1>2 DEF Answering, Recursing, TInv
<1>4. call[1] \in Request /\ Head(todo) = call[1]
  BY <1>3
<1>5. PICK w : Describes(w)
  BY <1>2, Zenon DEF Described
<1>6. /\ Holds(pm, w) /\ ret \in DOMAIN w /\ root \in DOMAIN w
      /\ w[ret].pairs = Served(w[root].pairs, call[1])
  <2>1. Holds(pm, w) /\ Rooted(w, root) /\ GoesOn(w, ret, Tail(todo)) /\ Aims(w, w[ret].pairs)
    BY <1>1, <1>2, <1>5 DEF Describes
  <2>2. ret \in DOMAIN w /\ root \in DOMAIN w
    BY <1>2, <2>1 DEF GoesOn, Rooted
  <2>3. w[ret].pairs = Served(w[base].pairs, Head(todo))
    BY <2>1, Zenon DEF Aims
  <2> QED
    BY <1>3, <1>4, <2>1, <2>2, <2>3
<1>7. /\ Contents(pm, root) = MapOf(w[root].pairs)
      /\ w[root].pairs \subseteq KVs /\ Functional(w[root].pairs)
  BY <1>6, ContentsBelow
<1>8. /\ Contents(pm, ret) = MapOf(w[ret].pairs)
      /\ w[ret].pairs \subseteq KVs /\ Functional(w[ret].pairs)
  BY <1>6, ContentsBelow
<1>9. Contents(pm, ret) = KV!Perform(Contents(pm, root), call[1])
  BY <1>4, <1>6, <1>7, <1>8, ServedMap
<1>10. Answering'
  BY <1>1, <1>2, <1>3, <1>9 DEF Answering, Recursing
<1> QED
  BY <1>1, <1>10 DEF KVStep, KVStays

(* The first barrier.                                                      *)
LEMMA FsyncAnswers ==
  ASSUME MapInv, Fsync
  PROVE  Answering' /\ KVStep
<1>1. pc = "fsync" /\ UNCHANGED <<pm, root>>
  BY DEF Fsync, tree
<1>2. direct = TRUE /\ Answering
  BY DEF MapInv, OrderInv, Tidy
<1>3. CASE pc' = "commit" /\ Same
  BY <1>1, <1>2, <1>3 DEF Answering, Recursing, KVStep, KVStays, Same
<1>4. CASE Reply(SyncError)
  <2>1. pc' = "idle" /\ outcome' = SyncError /\ call' = << >>
    BY <1>4 DEF Reply
  <2>2. SyncError \in EnvFailures /\ SyncError \notin {"pending", "applied"}
    BY DEF EnvFailures, SyncError
  <2>3. Contents(pm', root') = Contents(pm, root)
    BY <1>1
  <2>4. KV!Reject
    BY <1>1, <1>2, <2>1, <2>2, <2>3 DEF KV!Reject, Answering
  <2> QED
    BY <2>1, <2>2, <2>4 DEF Answering, Recursing, KVStep, KV!Next
<1> QED
  BY <1>2, <1>3, <1>4 DEF Fsync

(* The commit applies the call.                                            *)
LEMMA CommitAnswers ==
  ASSUME MapInv, Commit
  PROVE  Answering' /\ KVStep
<1>1. pc = "commit" /\ Answering /\ TInv /\ Cow!WellFormed(pm)
  BY DEF MapInv, OrderInv, Tidy, Commit, Cow!IInv
<1>2. CASE Break
  BY <1>2 DEF Break, tree, Answering, Recursing, KVStep, KVStays
<1>3. CASE ~Break
  <2>1. /\ pm' = HandleMasterPage(pm, RetiredAtCommit, base) /\ root' = base
        /\ outcome' = "applied" /\ pc' = "barrier" /\ call' = call
    BY <1>1, <1>3 DEF Commit
  <2>2. pm'.page = pm.page
    BY <1>1, <2>1, MasterPageOnly
  <2>3. Contents(pm', base) = Contents(pm, base)
    <3>1. Children(pm') = Children(pm)
      BY <2>2, Zenon DEF Children
    <3>2. Reach(pm', base) = Reach(pm, base)
      BY <3>1, Zenon DEF Reach
    <3>3. Stored(pm', base) = Stored(pm, base)
      BY <2>2, <3>2, Zenon DEF Stored
    <3>4. \A m : Contents(m, base) = MapOf(Stored(m, base))
      BY Zenon DEF Contents, MapOf, Stored
    <3> QED
      BY <3>3, <3>4, Zenon
  <2>4. /\ outcome = "pending" /\ Len(call) = 1 /\ call \in Seq(Request)
        /\ KV!Refusals(Contents(pm, root), call[1]) = {}
        /\ Contents(pm, base) = KV!Perform(Contents(pm, root), call[1])
    BY <1>1 DEF Answering, TInv
  <2>5. /\ KV!RefusalsOf(call) = {}
        /\ KV!PerformAll(Contents(pm, root), call) = KV!Perform(Contents(pm, root), call[1])
    BY <2>4, OneRefused, OnePerformed
  <2>6. Contents(pm', root') = KV!PerformAll(Contents(pm, root), call)
    BY <2>1, <2>3, <2>4, <2>5
  <2>7. KV!Apply
    BY <2>1, <2>4, <2>5, <2>6 DEF KV!Apply
  <2> QED
    BY <2>1, <2>7 DEF Answering, Recursing, KVStep, KV!Next
<1> QED
  BY <1>2, <1>3

(* The second barrier.                                                     *)
LEMMA BarrierAnswers ==
  ASSUME MapInv, Barrier2
  PROVE  Answering' /\ KVStep
<1>1. /\ pc = "barrier" /\ UNCHANGED <<pm, root>> /\ Answering
      /\ Reply(NoError) \/ Reply(SyncError)
  BY DEF MapInv, OrderInv, Tidy, Barrier2, tree
<1>2. pc' = "idle" /\ call' = << >> /\ outcome' \in {NoError, SyncError} /\ outcome = "applied"
  BY <1>1 DEF Reply, Answering
<1>3. /\ outcome' \in {"nil"} \cup EnvFailures /\ outcome' \notin {"pending", "applied"}
  BY <1>2 DEF EnvFailures, NoError, SyncError
<1>4. Contents(pm', root') = Contents(pm, root)
  BY <1>1
<1>5. KV!Return
  BY <1>2, <1>3, <1>4 DEF KV!Return
<1> QED
  BY <1>2, <1>3, <1>5 DEF Answering, Recursing, KVStep, KV!Next

(* Every step.                                                             *)
LEMMA NextAnswers ==
  ASSUME MapInv, [Next]_vars
  PROVE  Answering' /\ KVStep
<1>1. CASE UNCHANGED vars
  <2>1. UNCHANGED <<pm, root, pc, call, todo, base, outcome>> /\ Answering
    BY <1>1 DEF vars, tree, MapInv
  <2> QED
    BY <2>1 DEF Answering, KVStep, KVStays
<1>2. CASE \/ StartInsert \/ StartDelete \/ InsertIntoInternal \/ InsertIntoLeaf
           \/ DeleteFromInternal \/ DeleteKeyFromInternal \/ DeleteFromLeaf \/ PropagateUp \/ Finish
  BY <1>2, RecursionAnswers
<1>3. CASE Stopped
  BY <1>1, <1>3 DEF Stopped
<1> QED
  BY <1>1, <1>2, <1>3, InvokeAnswers, NextRequestAnswers, FsyncAnswers, CommitAnswers,
     BarrierAnswers, Zenon DEF Next, Serve

(* A new store holds the empty map.                                        *)
LEMMA OpensWithNothing ==
  ASSUME Init
  PROVE  KV!Init
<1>1. root \in PageNums /\ Live = {root} /\ pm.page[root] = NewNode
  BY OpensAt, OpensEmpty
<1>2. UNION {ToSet(pm.page[p].kvs) : p \in Reach(pm, root)} = {}
  <2>1. ToSet(NewNode.kvs) = {}
    BY DEF NewNode, ToSet
  <2> QED
    BY <1>1, <2>1 DEF Live
<1>3. Contents(pm, root) = MapOf({})
  BY <1>2, Zenon DEF Contents, MapOf
<1>4. MapOf({}) = << >>
  BY DEF MapOf
<1>5. call = << >> /\ outcome = "nil"
  BY DEF Init, NoError
<1> QED
  BY <1>3, <1>4, <1>5 DEF KV!Init

-----------------------------------------------------------------------------
(* What every step keeps holds in every state.                             *)
LEMMA AlwaysAnswering ==
  Careful /\ RoomForThree /\ Spec => []MapInv
<1>1. Careful /\ RoomForThree /\ Init => MapInv
  <2>1. Careful /\ RoomForThree /\ Init => OrderInv
    BY OrderInit
  <2>2. Init => TInv /\ Answering
    <3>1. << >> \in Seq(Request) /\ << >> \in Seq(KVs)
      OBVIOUS
    <3> QED
      BY <3>1 DEF Init, TInv, NewNode, Answering, Recursing, NoError
  <2> QED
    BY <2>1, <2>2 DEF MapInv
<1>2. MapInv /\ [Next]_vars => MapInv'
  <2> SUFFICES ASSUME MapInv, [Next]_vars PROVE MapInv'
    OBVIOUS
  <2>1. OrderInv'
    BY OrderKept DEF MapInv
  <2>2. TInv'
    BY <2>1, NextTyped DEF MapInv, OrderInv, DInv
  <2>3. Answering'
    BY NextAnswers
  <2> QED
    BY <2>1, <2>2, <2>3 DEF MapInv
<1> QED
  BY <1>1, <1>2, PTL DEF Spec

(* The tree is the map it promises to be.  Insert and Delete change the    *)
(* map of the committed tree once per call, at HandleMasterPage, and by    *)
(* what was asked for; a reader of the committed tree sees nothing of the  *)
(* splits, rotations and merges before; and a call is answered with an     *)
(* error only if the pair is too large or the file system failed           *)
(* (btree.go).                                                             *)
THEOREM TreeImplementsMap ==
  Careful /\ RoomForThree /\ Spec => MapImplemented
<1>1. Careful /\ RoomForThree /\ Init => KV!Init
  BY OpensWithNothing
<1>2. MapInv /\ [Next]_vars => [KV!Next]_(KV!vars)
  BY NextAnswers DEF KVStep, KVStays, KV!vars
<1> QED
  BY <1>1, <1>2, AlwaysAnswering, PTL DEF Spec, MapImplemented, KV!Spec

=============================================================================

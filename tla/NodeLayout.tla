----------------------------- MODULE NodeLayout -----------------------------
(***************************************************************************)
(* Package nodemanager with the bytes: one page as the methods of Node     *)
(* read, shift and clear it.  The record that module Node works on is what *)
(* the getters make of the bytes (Decoded), and every operation on the     *)
(* bytes is compared with the one on records.                              *)
(*                                                                         *)
(* Bytes are numbered from 0, and sizes and positions are uint16.          *)
(***************************************************************************)
EXTENDS PageLayout, SequencesExt, FiniteSetsExt

CONSTANTS
  Key, Val,
  KeyBytes,  \* KeyBytes[k], ValBytes[v]: what is stored of them
  ValBytes,
  Ptr        \* page numbers

(* bytes.Compare(a, b) is -1 or 0.                                         *)
AtMost(a, b) ==
  \/ IsPrefix(a, b)
  \/ \E i \in DOMAIN a \cap DOMAIN b : SubSeq(a, 1, i - 1) = SubSeq(b, 1, i - 1) /\ a[i] < b[i]

ASSUME LayoutAssumption ==
  \A j, k \in Key : j <= k <=> AtMost(KeyBytes[j], KeyBytes[k])

VARIABLES data

Record == INSTANCE Node WITH
  KVLen <- [kv \in Key \X Val |-> Len(KeyBytes[kv[1]]) + Len(ValBytes[kv[2]])]

U16(x) == x % 65536

Uint16(d, pos) == d[pos] * 256 + d[pos + 1]
Uint32(d, pos) == Uint16(d, pos) * 65536 + Uint16(d, pos + 2)

PutBytes(d, pos, bs) ==
  [x \in DOMAIN d |-> IF x \in pos .. pos + Len(bs) - 1 THEN bs[x - pos + 1] ELSE d[x]]
PutUint16(d, pos, v) == PutBytes(d, pos, <<v \div 256, v % 256>>)
PutUint32(d, pos, v) == PutUint16(PutUint16(d, pos, v \div 65536), pos + 2, U16(v))

(* copy(d[to:], d[from:]) and clear(d[first:last]).                        *)
Copy(d, to, from) ==
  [x \in DOMAIN d |-> IF x >= to /\ x - to + from \in DOMAIN d THEN d[x - to + from] ELSE d[x]]
Clear(d, first, last) == [x \in DOMAIN d |-> IF x \in first .. last - 1 THEN 0 ELSE d[x]]

Zeros == [x \in 0 .. PageSize - 1 |-> 0]

(* InsertKV has panicked. *)
Panic == << >>

-----------------------------------------------------------------------------
GetType(d)    == Uint16(d, 0)
SetType(d, t) == PutUint16(d, 0, t)
GetNKeys(d)   == Uint16(d, 2)
SetNKeys(d, n) == PutUint16(d, 2, n)

GetHeaderAndMetadataLen(d) ==
  HeaderSize + PointerSize * (GetNKeys(d) + 1) + OffsetSize * GetNKeys(d)

OffsetPos(d, i) == U16(HeaderSize + PointerSize * (GetNKeys(d) + 1) + OffsetSize * i)
GetOffset(d, i) == Uint16(d, OffsetPos(d, i))
SetOffset(d, i, offset) == PutUint16(d, OffsetPos(d, i), offset)

(* A node without pairs has one position, whatever the index.              *)
Start(d, i) ==
  U16(GetHeaderAndMetadataLen(d) + GetOffset(d, IF GetNKeys(d) = 0 THEN 0 ELSE i))

LenFrom(d, pos, klen) == klen + Uint16(d, pos + KeyLenSize + klen) + KeyLenSize + ValLenSize
LenAt(d, pos)  == LenFrom(d, pos, Uint16(d, pos))
GetKVLen(d, i) == LenAt(d, Start(d, i))

KvPos(d, i) ==
  IF GetNKeys(d) # 0 /\ i = GetNKeys(d) THEN Start(d, i - 1) + GetKVLen(d, i - 1) ELSE Start(d, i)

(* A string is stored after its length.                                    *)
Bytes(d, pos)      == [i \in 1 .. Uint16(d, pos) |-> d[pos + 1 + i]]
KVFrom(d, pos)     == <<Bytes(d, pos), Bytes(d, pos + KeyLenSize + Uint16(d, pos))>>
GetKV(d, i)        == KVFrom(d, KvPos(d, i))
Stored(bs)         == <<Len(bs) \div 256, Len(bs) % 256>> \o bs
SetKV(d, kv, pos)  == PutBytes(d, pos, Stored(kv[1]) \o Stored(kv[2]))

PtrPos(i)       == HeaderSize + PointerSize * i
GetPtr(d, i)    == Uint32(d, PtrPos(i))
SetPtr(d, i, p) == PutUint32(d, PtrPos(i), p)

(* Deviation: the size of a node without pairs is that of its metadata.    *)
GetSizeOfEmpty(d) ==
  GetHeaderAndMetadataLen(d) + IF GetNKeys(d) = 0 THEN 0
                               ELSE GetOffset(d, GetNKeys(d) - 1) + GetKVLen(d, GetNKeys(d) - 1)

(* The index of the last pair of a node without pairs wraps.               *)
SizeTo(d, last) == U16(GetHeaderAndMetadataLen(d) + GetOffset(d, last) + GetKVLen(d, last))
GetSize(d)      == SizeTo(d, U16(GetNKeys(d) - 1))

FindIndex(d, k) ==
  Min({i \in 0 .. GetNKeys(d) - 1 : AtMost(k, GetKV(d, i)[1])} \cup {GetNKeys(d)})

-----------------------------------------------------------------------------
TotalLenIfInserted(kv) == Len(kv[1]) + Len(kv[2]) + KVOverhead

UpdateOffsets(d, first, by) ==
  FoldLeft(LAMBDA e, i : SetOffset(e, i, U16(GetOffset(e, i) + by)),
           d, [j \in 1 .. GetNKeys(d) - first |-> first + j - 1])

(* n bytes of room at a position; n bytes taken out of a page that used to *)
(* end at end + n.                                                         *)
Gap(d, at, n)        == Clear(Copy(d, at + n, at), at, at + n)
Close(d, at, n, end) == Clear(Copy(d, at, at + n), end, PageSize)

(* Deviation: the room for the pointer is to the right of the pair.        *)
ShiftRightPtrAfter(d, i, pos, len) ==
  Gap(Gap(Gap(d, PtrPos(i + 1), PointerSize), OffsetPos(d, i), OffsetSize),
      pos + PointerSize + OffsetSize, len)

(* Room for the pointer, the offset and the pair, in this order.           *)
ShiftRight(d, i, pos, len) ==
  Gap(Gap(Gap(d, PtrPos(i), PointerSize), OffsetPos(d, i), OffsetSize),
      pos + PointerSize + OffsetSize, len)

(* The pair is written, and its offset is where that is after the metadata.*)
PutKV(d, kv, i, pos) ==
  SetOffset(SetKV(d, kv, pos), i, pos - GetHeaderAndMetadataLen(d))

InsertAtPos(d, kv, i, pos, len) ==
  UpdateOffsets(PutKV(ShiftRight(SetNKeys(d, GetNKeys(d) + 1), i, pos, len),
                      kv, i, pos + PointerSize + OffsetSize),
                i + 1, len)

InsertAtIndex(d, kv, i) ==
  InsertAtPos(d, kv, i, KvPos(d, i), Len(kv[1]) + Len(kv[2]) + KeyLenSize + ValLenSize)

InsertKV(d, kv) ==
  IF U16(GetSize(d) + TotalLenIfInserted(kv)) >= PageSize THEN Panic
  ELSE InsertAtIndex(d, kv, FindIndex(d, kv[1]))

(* Deviation: what the shifts leave behind the node is not cleared.        *)
CloseUpDirty(d, i, pos, len, end) ==
  Copy(Copy(Copy(d, pos, pos + len), OffsetPos(d, i), OffsetPos(d, i + 1)), PtrPos(i), PtrPos(i + 1))

(* The pair, its offset and its left pointer go, each with what it leaves  *)
(* behind the end of the node.                                             *)
CloseUp(d, i, pos, len, end) ==
  Close(Close(Close(d, pos, len, end),
              OffsetPos(d, i), OffsetSize, end - OffsetSize),
        PtrPos(i), PointerSize, end - OffsetSize - PointerSize)

DeleteLen(d, i, len) ==
  UpdateOffsets(SetNKeys(CloseUp(d, i, KvPos(d, i), len, GetSize(d) - len), GetNKeys(d) - 1),
                i, -len)

DeleteKV(d, i) == DeleteLen(d, i, GetKVLen(d, i))

UpdateKV(d, i, kv) == InsertKV(DeleteKV(d, i), kv)

(* Pairs first .. last - 1 and pointers first .. last on a new page.       *)
Half(d, first, last) ==
  LET upTo(n) == [j \in 1 .. n |-> first + j - 1]
      pairs   == FoldLeft(LAMBDA h, i : InsertKV(h, GetKV(d, i)),
                          SetType(Zeros, GetType(d)), upTo(last - first))
  IN FoldLeft(LAMBDA h, i : SetPtr(h, i - first, GetPtr(d, i)), pairs, upTo(last - first + 1))

Median(d) == GetNKeys(d) \div 2
Left(d)   == Half(d, 0, Median(d))
Right(d)  == Half(d, Median(d) + 1, GetNKeys(d))

-----------------------------------------------------------------------------
Pair(kv) == <<KeyBytes[kv[1]], ValBytes[kv[2]]>>
Slots    == 0 .. GetNKeys(data) - 1
Becomes(d) == d # Panic /\ data' = d

Init == \E t \in {0, 1} : data = SetType(Zeros, t)

Insert == \E kv \in Key \X Val : Becomes(InsertKV(data, Pair(kv)))
Delete == \E i \in Slots : Becomes(DeleteKV(data, i))
Update == \E i \in Slots, kv \in Key \X Val : Becomes(UpdateKV(data, i, Pair(kv)))
Point  == GetType(data) = 1 /\ \E i \in Slots \cup {GetNKeys(data)}, p \in Ptr : Becomes(SetPtr(data, i, p))
Halve  == GetNKeys(data) > 1 /\ (Becomes(Left(data)) \/ Becomes(Right(data)))

Next == Insert \/ Delete \/ Update \/ Point \/ Halve

Spec == Init /\ [][Next]_data

-----------------------------------------------------------------------------
Decoded(d) ==
  [type |-> IF GetType(d) = 0 THEN "leaf" ELSE "internal",
   kvs  |-> [i \in 1 .. GetNKeys(d) |->
              CHOOSE kv \in Key \X Val : Pair(kv) = GetKV(d, i - 1)],
   ptr  |-> [i \in 1 .. GetNKeys(d) + 1 |-> GetPtr(d, i - 1)],
   ok   |-> TRUE]

Same(d, n) == IF d = Panic THEN ~n.ok ELSE n.ok /\ Decoded(d) = n

(* The records are a faithful picture of the bytes: each method does to    *)
(* the page what module Node says of the record, to the last pointer, and  *)
(* panics when it says so.                                                 *)
LayoutAgrees ==
  LET n == Decoded(data)
  IN /\ \A kv \in Key \X Val : Same(InsertKV(data, Pair(kv)), Record!InsertKV(n, kv))
     /\ \A i \in Slots :
          /\ Same(DeleteKV(data, i), Record!DeleteKV(n, i))
          /\ \A kv \in Key \X Val : Same(UpdateKV(data, i, Pair(kv)), Record!UpdateKV(n, i, kv))
     /\ GetNKeys(data) > 1 =>
          /\ Same(Left(data), Record!Split(n).left)
          /\ Same(Right(data), Record!Split(n).right)
     /\ \A k \in Key : FindIndex(data, KeyBytes[k]) = Record!FindIndex(n, k)

(* The size that decides on splits and panics is the one of the record,    *)
(* also for a node without pairs, whose pointer counts as an offset.       *)
SizeAgrees == GetSize(data) = Record!GetSize(Decoded(data))

(* Nothing is left behind the end of a node: a node without pairs takes    *)
(* its first offset and length from there.                                 *)
TailIsClear ==
  LET used == IF GetNKeys(data) = 0 THEN HeaderSize + PointerSize ELSE GetSize(data)
  IN \A x \in used .. PageSize - 1 : data[x] = 0
=============================================================================

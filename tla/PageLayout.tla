----------------------------- MODULE PageLayout -----------------------------
(***************************************************************************)
(* The sizes every layer of the store agrees on.  PageSize and             *)
(* MaxAllowedKVLen are parameters (4096 and 1344 in the build) so that a   *)
(* small page can be checked; the widths of the fields of a page are the   *)
(* ones of the wire format.                                                *)
(***************************************************************************)
EXTENDS Integers, Sequences

CONSTANTS
  PageSize,         \* bytes of a page
  MaxAllowedKVLen   \* largest accepted Len(key) + Len(value)

HeaderSize       == 4   \* type, nkeys
PointerSize      == 4
OffsetSize       == 2
KeyLenSize       == 2
ValLenSize       == 2
MasterHeaderSize == 8   \* root page, free list size

(* What a pair costs in a node besides its key and its value bytes. *)
KVOverhead == PointerSize + OffsetSize + KeyLenSize + ValLenSize

ASSUME PageLayoutAssumption ==
  /\ PageSize \in Nat
  /\ MaxAllowedKVLen \in Nat
  /\ PageSize > MasterHeaderSize + PointerSize

=============================================================================

---------------------------- MODULE MCNodeLayout ----------------------------
(***************************************************************************)
(* A page of 48 bytes takes two or three pairs.  One key is a prefix of    *)
(* another, and one value is empty.  The page numbers are larger than a    *)
(* page is long, as those above 4095 are in the build; the size of an      *)
(* empty node with the second one wraps to a small number.                 *)
(***************************************************************************)
EXTENDS NodeLayout

MCKey == 1 .. 3
MCVal == 1 .. 2
MCKeyBytes == <<<<1>>, <<1, 7>>, <<2>>>>
MCValBytes == <<<< >>, <<8, 9, 8>>>>
MCPtr == {300, 131067}
=============================================================================

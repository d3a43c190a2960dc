----------------------------- MODULE MCCowStore -----------------------------
(* Byte offsets that reach five pages, one fewer than the disk has room for,*)
(* and a master page with room for two free page numbers, so that lists    *)
(* overflow and the cursor reaches the last page an offset can name.       *)
EXTENDS CowDisk, TLC

(* Nothing tells one content of a page from another but equality.          *)
Contents == Permutations(Content)
=============================================================================

----------------------------- MODULE MCArchive ------------------------------
(* Enough keys for three levels of degree 2 and two of degree 3.           *)
EXTENDS Archive

CONSTANTS Keys

MCKey == 1 .. Keys
=============================================================================

------------------------------ MODULE MCEngine ------------------------------
(* Three callers at once, and a fourth call when all have returned: it     *)
(* meets whatever the others have left behind.                             *)
EXTENDS Engine

CONSTANTS a1, a2, b1, b2

ThreeThenOne == [r \in Request |-> IF r = a2 THEN {a1, b1, b2} ELSE {}]
=============================================================================

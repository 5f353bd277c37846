------------------------------ MODULE MCTimer ------------------------------
(* Small instances of Timer.                                               *)
EXTENDS Timer

CONSTANTS c1, c2
=============================================================================

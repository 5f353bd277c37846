------------------------- MODULE MCSystemProcessor -------------------------
(* Small instances of SystemProcessor.                                     *)
EXTENDS SystemProcessor, TLC

CONSTANTS t1, t2, t3, t4

(* Two threads that make, share and drop instances and wait for the stop,  *)
(* one that makes the free calls with no pointer, and one that has nothing *)
(* to do but to be interrupted.                                            *)
Roles == t1 :> {"init", "wait_for_stop", "drop"}
         @@ t2 :> {"init", "share", "wait_for_stop", "reset", "drop"}
         @@ t3 :> {"stop", "reset", "config"}
         @@ t4 :> {}

(* One thread that makes no instance before it waits for its stop.         *)
Main == t1 :> {"init", "wait_for_stop"}
=============================================================================

--------------------------- MODULE MCUnlockedPop ---------------------------
(* Small instances of UnlockedPop.                                         *)
EXTENDS UnlockedPop, TLC

CONSTANTS t1, t2, t3, t4

(* A producer that also pops, a consumer, a thread that takes and waits    *)
(* for the drain, and a stopper: the roles of the tests of the queue,      *)
(* without restart().                                                      *)
Roles == t1 :> {"push"} @@ t2 :> {"wait_pop"}
         @@ t3 :> {"wait_pop", "ts_pop", "wait"}
         @@ t4 :> {"stop", "stop_processing"}
=============================================================================

-------------------------- MODULE MCTaskProcessor --------------------------
(* Small instances of TaskProcessor.                                       *)
EXTENDS TaskProcessor, TLC

CONSTANTS w1, w2, c1, c2

(* One client adds tasks while the other waits for them and stops.         *)
AddAndStop == c1 :> {"wait", "stop"} @@ c2 :> {"add"}
=============================================================================

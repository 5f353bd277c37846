--------------------------- MODULE MCQueueLogger ---------------------------
(* Small instances of QueueLogger.                                         *)
EXTENDS QueueLogger, TLC

CONSTANTS w1, w2, c1, c2

(* Messages are written while the processor is waited for and stopped.     *)
AddersAndStopper == c1 :> {"add", "wait", "stop"} @@ c2 :> {"add", "wait"}

Symmetry == Permutations(Workers) \cup Permutations(Elements)
=============================================================================

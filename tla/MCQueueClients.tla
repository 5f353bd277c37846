--------------------------- MODULE MCQueueClients ---------------------------
(* Small instances of QueueClients.                                        *)
EXTENDS QueueClients, TLC

CONSTANTS t1, t2, t3, t4

(* Every thread may make every call.                                       *)
AnyCall == [t \in Threads |-> Ops]

Symmetry == Permutations(Threads) \cup Permutations(Elements)
=============================================================================

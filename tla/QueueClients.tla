---------------------------- MODULE QueueClients ----------------------------
(***************************************************************************)
(* Threads that share one ts_queue and call its locking member functions   *)
(* in any order, each within the calls the constant MayCall gives it.  A   *)
(* thread that pushes creates a message first; a thread that is left with  *)
(* a message (it popped one, or its push was refused) deletes it before    *)
(* its next call, as the callers in src/ do (queue_logger.h:83-88,         *)
(* task_processor.h:126-147).  pop(), which takes no lock, is the subject  *)
(* of UnlockedPop.                                                         *)
(***************************************************************************)
EXTENDS TsQueue

CONSTANTS MayCall,    \* the calls each thread may make
          MaxBudget   \* bound: calls and spurious wakeups of each thread

ASSUME ClientAssumption == /\ MayCall \in [Threads -> SUBSET Ops]
                           /\ MaxBudget \in Nat

VARIABLE budget       \* what is left to each thread of MaxBudget
vars == <<queue_, stopping_, queue_protector_, pc, op, held, heap, budget>>

Init == /\ QueueInit
        /\ heap = [e \in Elements |-> "raw"]
        /\ budget = [t \in Threads |-> MaxBudget]

Spend(t) == budget[t] > 0 /\ budget' = [budget EXCEPT ![t] = @ - 1]

Push(t) ==
    /\ "push" \in MayCall[t] /\ held[t] = NULL
    /\ \E e \in Elements :
         /\ heap[e] = "raw"
         /\ heap' = [heap EXCEPT ![e] = "live"]
         /\ Enter(t, "push", e)
    /\ Spend(t)

Call(t) ==
    /\ held[t] = NULL
    /\ \E o \in MayCall[t] \ {"push"} : Enter(t, o, NULL)
    /\ Spend(t)
    /\ UNCHANGED heap

Dispose(t) ==
    /\ pc[t] = "idle" /\ held[t] # NULL
    /\ heap' = [heap EXCEPT ![held[t]] = "freed"]
    /\ held' = [held EXCEPT ![t] = NULL]
    /\ UNCHANGED <<queue_, stopping_, queue_protector_, pc, op, budget>>

Wakeup(t) == Spurious(t) /\ Spend(t)

InCall(t) == QueueStep(t) /\ UNCHANGED budget

Next == \E t \in Threads :
            Push(t) \/ Call(t) \/ Dispose(t) \/ Wakeup(t) \/ InCall(t)

(* A runnable thread goes on; the mutex is handed to one that waits for it *)
(* because no thread takes it forever (the budget bounds the calls).       *)
Fairness == \A t \in Threads : WF_vars(InCall(t)) /\ WF_vars(Dispose(t))

Spec == Init /\ [][Next]_vars /\ Fairness

-----------------------------------------------------------------------------
BudgetOK == budget \in [Threads -> 0 .. MaxBudget]

TypeOK == QueueTypeOK /\ BudgetOK

(* The queue implements the closable FIFO list.  A call that has passed    *)
(* its last test of the flag keeps the abstract queue open until it is     *)
(* done; no call gets there while the list is closed, although the flag    *)
(* may be set between its first test and the lock (ts_queue.h:110, 113).   *)
Committed ==
    {t \in Threads : pc[t] = "working" /\ op[t] \in {"push"} \cup Popping}

FifoClosed == stopping_ /\ Committed = {}

InRestart == {t \in Threads : op[t] = "restart"}

Fifo == INSTANCE FifoQueue WITH
            content    <- queue_,
            closed     <- FifoClosed,
            restarting <- InRestart,
            Clients    <- Threads

ImplementsFifo == Fifo!Spec

(* A stop releases everyone: a thread that sleeps in wait() or wait_pop()  *)
(* while the queue is stopping gets out of its call (ts_queue.h:90, 159).  *)
StopReleases ==
    \A t \in Threads :
        (pc[t] = "asleep" /\ stopping_) ~> (pc[t] = "idle")

(* No element is stranded: a list with elements in it and a sleeper on     *)
(* push_ do not stay together.                                             *)
NoneStranded ==
    (queue_ # <<>> /\ push_ # {}) ~> (queue_ = <<>> \/ push_ = {})

(* A wait() whose list became empty returns, unless the list is filled     *)
(* again before the waiter has the mutex (ts_queue.h:90-102).              *)
DrainReleases ==
    \A t \in Threads :
        (op[t] = "wait" /\ queue_ = <<>>) ~> (pc[t] = "idle" \/ queue_ # <<>>)
=============================================================================

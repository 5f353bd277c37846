---------------------------- MODULE UnlockedPop ----------------------------
(***************************************************************************)
(* ts_queue::pop() (ts_queue.h:119-136), which reads and changes the list  *)
(* without the mutex and takes it only to wake the sleepers of wait_.      *)
(*                                                                         *)
(* With PopAlone the callers follow a discipline: while a thread is in     *)
(* pop() every other thread is outside of the queue or inside wait().      *)
(* Without it several threads may be in pop() at once.                     *)
(***************************************************************************)
EXTENDS QueueClients

CONSTANTS Poppers,    \* the threads that call pop()
          PopAlone    \* whether they do so alone

ASSUME PopAssumption == Poppers \subseteq Threads /\ PopAlone \in BOOLEAN

VARIABLES stage,      \* where a thread is inside pop(), "out" if it is not
          result      \* its local variable of that name
popVars == <<vars, stage, result>>

Stages == {"out", "front", "erase", "last", "notify"}

PopInit == /\ Init
           /\ stage = [t \in Threads |-> "out"]
           /\ result = [t \in Threads |-> NULL]

Goto(t, s) == stage' = [stage EXCEPT ![t] = s]

Undisturbed(t) ==
    \A s \in Threads \ {t} : stage[s] = "out" /\ (pc[s] = "idle" \/ op[s] = "wait")

(* A mutant of the test: none is made.                                     *)
PopUntested(t) ==
    /\ t \in Poppers /\ stage[t] = "out" /\ pc[t] = "idle" /\ held[t] = NULL
    /\ PopAlone => Undisturbed(t)
    /\ Spend(t)
    /\ Goto(t, "front")
    /\ UNCHANGED <<qvars, result>>

(* The first test of the list: an empty one makes pop() return NULL.       *)
PopTest(t) ==
    /\ t \in Poppers /\ stage[t] = "out" /\ pc[t] = "idle" /\ held[t] = NULL
    /\ PopAlone => Undisturbed(t)
    /\ Spend(t)
    /\ Goto(t, IF queue_ = <<>> THEN "out" ELSE "front")
    /\ UNCHANGED <<qvars, result>>

(* front() and pop_front() are defined on a list that is not empty; the    *)
(* model ends where the program calls one of them on an empty list.        *)
PopFront(t) ==
    /\ stage[t] = "front" /\ queue_ # <<>>
    /\ result' = [result EXCEPT ![t] = Head(queue_)]
    /\ Goto(t, "erase")
    /\ UNCHANGED vars

PopErase(t) ==
    /\ stage[t] = "erase" /\ queue_ # <<>>
    /\ queue_' = Tail(queue_)
    /\ held' = [held EXCEPT ![t] = result[t]]
    /\ Goto(t, "last")
    /\ UNCHANGED <<stopping_, queue_protector_, pc, op, heap, budget, result>>

PopSilent(t) ==                               \* mutant: nobody is notified
    /\ stage[t] = "last"
    /\ Goto(t, "out")
    /\ UNCHANGED <<vars, result>>

PopLast(t) ==
    /\ stage[t] = "last"
    /\ Goto(t, IF queue_ = <<>> THEN "notify" ELSE "out")
    /\ UNCHANGED <<vars, result>>

PopNotify(t) ==
    /\ stage[t] = "notify" /\ queue_protector_ = NULL
    /\ pc' = [x \in Threads |-> IF x \in wait_ THEN "woken" ELSE pc[x]]
    /\ Goto(t, "out")
    /\ UNCHANGED <<queue_, stopping_, queue_protector_, op, held, heap, budget, result>>

InPop(t) == PopFront(t) \/ PopErase(t) \/ PopLast(t) \/ PopNotify(t)

(* All the other calls, by threads that are not in pop(); under the        *)
(* discipline only wait() begins while somebody is in it.                  *)
NobodyPops == \A s \in Threads : stage[s] = "out"

Locked(t) ==
    /\ stage[t] = "out"
    /\ \/ (Push(t) \/ Call(t)) /\ (PopAlone => NobodyPops \/ op'[t] \in {"wait", "none"})
       \/ Dispose(t) \/ Wakeup(t) \/ InCall(t)
    /\ UNCHANGED <<stage, result>>

PopNext == \E t \in Threads : PopTest(t) \/ InPop(t) \/ Locked(t)

PopFairness == \A t \in Threads :
    /\ WF_popVars(InPop(t))
    /\ WF_popVars(stage[t] = "out" /\ InCall(t) /\ UNCHANGED <<stage, result>>)
    /\ WF_popVars(stage[t] = "out" /\ Dispose(t) /\ UNCHANGED <<stage, result>>)

PopSpec == PopInit /\ [][PopNext]_popVars /\ PopFairness

-----------------------------------------------------------------------------
PopTypeOK == /\ TypeOK
             /\ stage \in [Threads -> Stages]
             /\ result \in [Threads -> Elements \cup {NULL}]

(* pop() tests the list once and then relies on it twice: when it calls    *)
(* front() and pop_front() the list still holds the element it saw.        *)
PopDefined ==
    /\ PopTypeOK
    /\ \A t \in Threads :
         /\ stage[t] \in {"front", "erase"} => queue_ # <<>>
         /\ stage[t] = "erase" => Head(queue_) = result[t]

(* A thread that sleeps in wait() on an empty list is woken by the pop()   *)
(* that emptied it, although that pop() changed the list without the lock: *)
(* the waiter holds the mutex from its test to its sleep.                  *)
PopDrainNotLost ==
    wait_ # {} => \/ queue_ # <<>>
                  \/ \E t \in Threads : stage[t] \in {"last", "notify"}
=============================================================================

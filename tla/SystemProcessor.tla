-------------------------- MODULE SystemProcessor --------------------------
(***************************************************************************)
(* The process-wide instance of system_processor                           *)
(* (src/sources/system_processor): init() makes it and hands out a shared  *)
(* pointer, the last copy of that pointer to go destroys it, free          *)
(* functions find it under instance_protector_, and stop(), reset() and    *)
(* wait_for_stop() work on it under its own stop_protector_.  A signal     *)
(* handler calls stop() on top of whatever its thread is doing.            *)
(*                                                                         *)
(* What the configuration says is abstracted to whether there is one and   *)
(* whether it asks for the handler.                                        *)
(***************************************************************************)
EXTENDS Naturals, FiniteSets

CONSTANTS Threads,
          NULL,
          MayCall,         \* the calls each thread may make
          Interruptible,   \* threads a signal may be delivered to
          WaitersHold,     \* do callers of wait_for_stop() hold a pointer?
          MaxBudget        \* bound: calls, signals, wakeups of each thread

Free == {"init", "stop", "wait_for_stop", "reset", "config"}
Members == {"stop", "wait_for_stop", "reset"}

ASSUME SystemAssumption ==
    /\ NULL \notin Threads
    /\ MayCall \in [Threads -> SUBSET (Free \cup {"share", "drop"})]
    /\ Interruptible \subseteq Threads
    /\ WaitersHold \in BOOLEAN
    /\ MaxBudget \in Nat

VARIABLES instance_,             \* whether the static pointer is set
          instance_protector_,   \* the thread that holds it, or NULL
          objects,               \* how many sp_impl exist
          properties_,           \* whether the instance has a configuration
          handler,               \* whether exit_handler is installed
          stopping_,
          stop_protector_,       \* the thread that holds it, or NULL
          sp,                    \* threads that hold a copy of the pointer
          pc, op,                \* where each thread is, and in which call
          sig,                   \* where it is in exit_handler()
          budget
object == <<instance_, objects, properties_, handler>>
locks  == <<instance_protector_, stop_protector_>>
vars   == <<object, locks, stopping_, sp, pc, op, sig, budget>>

PCs == {"idle",
        "locking",      \* at instance_protector_
        "inside",       \* holds it, about to look at instance_
        "calling",      \* in wait_for_stop(): released it, about to use instance_
        "entering",     \* in a member function, at stop_protector_
        "working",      \* holds stop_protector_
        "asleep",       \* on stop_waiter_
        "woken",        \* notified, taking stop_protector_ again
        "destroying"}   \* in ~sp_impl(), at instance_protector_

InObject == {"calling", "entering", "working", "asleep", "woken"}

Init == /\ instance_ = FALSE /\ objects = 0 /\ properties_ = FALSE
        /\ handler = FALSE
        /\ instance_protector_ = NULL /\ stop_protector_ = NULL
        /\ stopping_ = FALSE
        /\ sp = {}
        /\ pc = [t \in Threads |-> "idle"]
        /\ op = [t \in Threads |-> "none"]
        /\ sig = [t \in Threads |-> "out"]
        /\ budget = [t \in Threads |-> MaxBudget]

Goto(t, p) == pc' = [pc EXCEPT ![t] = p]

Done(t) == Goto(t, "idle") /\ op' = [op EXCEPT ![t] = "none"]

Spend(t) == budget[t] > 0 /\ budget' = [budget EXCEPT ![t] = @ - 1]

(* A thread goes on when no signal handler runs on top of it.              *)
At(t, p) == pc[t] = p /\ sig[t] = "out"

-----------------------------------------------------------------------------
(* The calls.  The free functions begin at instance_protector_, the member *)
(* functions, called through a pointer, at stop_protector_.                *)
Call(t) ==
    /\ At(t, "idle") /\ Spend(t)
    /\ \E o \in MayCall[t] :
         /\ op' = [op EXCEPT ![t] = o]
         /\ \/ /\ o \in Free
               /\ (o = "wait_for_stop" /\ WaitersHold) => t \in sp
               /\ Goto(t, "locking")
            \/ /\ o \in Members /\ t \in sp
               /\ Goto(t, "entering")
    /\ UNCHANGED <<object, locks, stopping_, sp, sig>>

(* A thread gets a copy of the pointer of another.                         *)
Share(t) ==
    /\ At(t, "idle") /\ "share" \in MayCall[t] /\ sp # {} /\ t \notin sp
    /\ sp' = sp \cup {t}
    /\ UNCHANGED <<object, locks, stopping_, pc, op, sig, budget>>

Lock(t) ==
    /\ At(t, "locking") /\ instance_protector_ = NULL
    /\ instance_protector_' = t
    /\ Goto(t, "inside")
    /\ UNCHANGED <<object, stop_protector_, stopping_, sp, op, sig, budget>>

(* What a constructor that does not throw leaves: a configuration, if one  *)
(* was named, and the handler, if the configuration asks for it.           *)
Constructed ==
    /\ stopping_' = FALSE
    /\ properties_' \in BOOLEAN
    /\ handler' \in {handler, handler \/ properties_'}

InitUnchecked(t) ==                  \* mutant: check_that_instance_not_exists
    /\ op[t] = "init"
    /\ instance_' = TRUE
    /\ objects' = objects + 1
    /\ sp' = sp \cup {t}
    /\ Constructed

(* init() throws if there is an instance, or if the arguments or the       *)
(* configuration are bad, and then makes none.                             *)
InitBody(t) ==
    /\ op[t] = "init"
    /\ \/ UNCHANGED <<object, stopping_, sp>>
       \/ /\ ~instance_
          /\ instance_' = TRUE
          /\ objects' = objects + 1
          /\ sp' = sp \cup {t}
          /\ Constructed

(* The other functions throw if there is no instance, config functions if  *)
(* it has no configuration.                                                *)
InstanceRead(t) ==
    /\ op[t] = "config" \/ (op[t] \in {"stop", "reset"} /\ ~instance_)
    /\ UNCHANGED <<object, stopping_, sp>>

Unlocks(t) == InitBody(t) \/ InstanceRead(t)

InsideLeaks(t) ==                    \* mutant: what throws does not unlock
    /\ At(t, "inside")
    /\ Unlocks(t)
    /\ instance_protector_' = IF instance_ THEN NULL ELSE t
    /\ Done(t)
    /\ UNCHANGED <<stop_protector_, sig, budget>>

Inside(t) ==
    /\ At(t, "inside")
    /\ Unlocks(t)
    /\ instance_protector_' = NULL
    /\ Done(t)
    /\ UNCHANGED <<stop_protector_, sig, budget>>

(* stop() and reset() keep the lock while they are in the instance.        *)
InsideStop(t) ==
    /\ At(t, "inside") /\ op[t] \in {"stop", "reset"} /\ instance_
    /\ Goto(t, "entering")
    /\ UNCHANGED <<object, locks, stopping_, sp, op, sig, budget>>

(* wait_for_stop() releases the lock first.  Without an instance it throws *)
(* and does not release it.                                                *)
InsideWait(t) ==
    /\ At(t, "inside") /\ op[t] = "wait_for_stop"
    /\ \/ /\ instance_
          /\ instance_protector_' = NULL
          /\ Goto(t, "calling")
          /\ UNCHANGED op
       \/ /\ ~instance_
          /\ Done(t)
          /\ UNCHANGED instance_protector_
    /\ UNCHANGED <<object, stop_protector_, stopping_, sp, sig, budget>>

(* It reads the pointer again; a null pointer is the end of the program.   *)
CallInstance(t) ==
    /\ At(t, "calling") /\ instance_
    /\ Goto(t, "entering")
    /\ UNCHANGED <<object, locks, stopping_, sp, op, sig, budget>>

-----------------------------------------------------------------------------
(* stop(), reset() and wait_for_stop() of the instance.                    *)
Enter(t) ==
    /\ pc[t] \in {"entering", "woken"} /\ sig[t] = "out"
    /\ stop_protector_ = NULL
    /\ stop_protector_' = t
    /\ Goto(t, "working")
    /\ UNCHANGED <<object, instance_protector_, stopping_, sp, op, sig, budget>>

stop_waiter_ == {t \in Threads : pc[t] = "asleep"}

NotifiedOne == IF stop_waiter_ = {} THEN {{}} ELSE {{t} : t \in stop_waiter_}
                                     \* mutant: notify_one
Notified == {stop_waiter_}

(* A free function releases both mutexes, a member function its own.       *)
Released(t) == /\ stop_protector_' = NULL
               /\ instance_protector_' =
                    IF instance_protector_ = t THEN NULL ELSE instance_protector_

StopBody(t) ==
    /\ At(t, "working") /\ op[t] = "stop"
    /\ stopping_' = TRUE
    /\ \E woken \in Notified :
          pc' = [s \in Threads |-> IF s = t THEN "idle"
                                   ELSE IF s \in woken THEN "woken" ELSE pc[s]]
    /\ op' = [op EXCEPT ![t] = "none"]
    /\ Released(t)
    /\ UNCHANGED <<object, sp, sig, budget>>

ResetBody(t) ==
    /\ At(t, "working") /\ op[t] = "reset"
    /\ stopping_' = FALSE
    /\ Done(t)
    /\ Released(t)
    /\ UNCHANGED <<object, sp, sig, budget>>

WaitBody(t) ==
    /\ At(t, "working") /\ op[t] = "wait_for_stop"
    /\ \/ stopping_ /\ Done(t)
       \/ ~stopping_ /\ Goto(t, "asleep") /\ UNCHANGED op
    /\ stop_protector_' = NULL
    /\ UNCHANGED <<object, instance_protector_, stopping_, sp, sig, budget>>

Spurious(t) ==
    /\ At(t, "asleep") /\ Spend(t)
    /\ Goto(t, "woken")
    /\ UNCHANGED <<object, locks, stopping_, sp, op, sig>>

-----------------------------------------------------------------------------
(* A copy of the pointer goes; the last one destroys the instance.         *)
Drop(t) ==
    /\ At(t, "idle") /\ t \in sp /\ "drop" \in MayCall[t]
    /\ sp' = sp \ {t}
    /\ Goto(t, IF sp = {t} THEN "destroying" ELSE "idle")
    /\ UNCHANGED <<object, locks, stopping_, op, sig, budget>>

DestroyUnlocked(t) ==                \* mutant: no lock in the destructor
    /\ At(t, "destroying")
    /\ instance_' = FALSE
    /\ objects' = objects - 1
    /\ Goto(t, "idle")
    /\ UNCHANGED <<properties_, handler, locks, stopping_, sp, op, sig, budget>>

Destroy(t) ==
    /\ At(t, "destroying") /\ instance_protector_ = NULL
    /\ instance_' = FALSE
    /\ objects' = objects - 1
    /\ Goto(t, "idle")
    /\ UNCHANGED <<properties_, handler, locks, stopping_, sp, op, sig, budget>>

-----------------------------------------------------------------------------
(* exit_handler(): stop() on top of the thread, which holds what it held.  *)
(* Without an instance stop() throws out of the handler, which is the end  *)
(* of the program.                                                         *)
Interrupted(t, p) == sig' = [sig EXCEPT ![t] = p]

Signal(t) ==
    /\ handler /\ t \in Interruptible /\ sig[t] = "out" /\ Spend(t)
    /\ Interrupted(t, "locking")
    /\ UNCHANGED <<object, locks, stopping_, sp, pc, op>>

HandlerLock(t) ==
    /\ sig[t] = "locking" /\ instance_protector_ = NULL /\ instance_
    /\ instance_protector_' = t
    /\ Interrupted(t, "entering")
    /\ UNCHANGED <<object, stop_protector_, stopping_, sp, pc, op, budget>>

HandlerStop(t) ==
    /\ sig[t] = "entering" /\ stop_protector_ = NULL
    /\ stopping_' = TRUE
    /\ \E woken \in Notified :
          pc' = [s \in Threads |-> IF s \in woken THEN "woken" ELSE pc[s]]
    /\ instance_protector_' = NULL
    /\ Interrupted(t, "out")
    /\ UNCHANGED <<object, stop_protector_, sp, op, budget>>

-----------------------------------------------------------------------------
Step(t) == \/ Lock(t) \/ Inside(t) \/ InsideStop(t) \/ InsideWait(t)
           \/ CallInstance(t) \/ Enter(t)
           \/ StopBody(t) \/ ResetBody(t) \/ WaitBody(t)
           \/ Destroy(t) \/ HandlerLock(t) \/ HandlerStop(t)

Next == \E t \in Threads :
            \/ Step(t) \/ Call(t) \/ Share(t) \/ Drop(t) \/ Spurious(t) \/ Signal(t)

(* A thread that can go on does; calls are finitely many, so that a mutex  *)
(* is free for good when nobody is left in a locked section.               *)
Fairness == \A t \in Threads : WF_vars(Step(t))

Spec == Init /\ [][Next]_vars /\ Fairness

-----------------------------------------------------------------------------
TypeOK == /\ instance_ \in BOOLEAN /\ properties_ \in BOOLEAN
          /\ handler \in BOOLEAN /\ stopping_ \in BOOLEAN
          /\ objects \in Nat
          /\ instance_protector_ \in Threads \cup {NULL}
          /\ stop_protector_ \in Threads \cup {NULL}
          /\ sp \in SUBSET Threads
          /\ pc \in [Threads -> PCs]
          /\ op \in [Threads -> Free \cup {"none"}]
          /\ sig \in [Threads -> {"out", "locking", "entering"}]
          /\ budget \in [Threads -> 0 .. MaxBudget]

(* There is one instance at most, and the static pointer never points to   *)
(* one that is gone, nor misses one that is there.                         *)
OneInstance == /\ TypeOK
               /\ objects = IF instance_ THEN 1 ELSE 0

(* Nobody is in an instance that was destroyed: free functions hold        *)
(* instance_protector_, which the destructor takes, and the others hold a  *)
(* copy of the pointer.                                                    *)
NobodyInDeadInstance ==
    \A t \in Threads : (pc[t] \in InObject \/ sig[t] = "entering") => instance_

(* No call leaves a mutex behind, whether it returned or threw.            *)
LocksReleased ==
    \A t \in Threads : (pc[t] = "idle" /\ sig[t] = "out") =>
        instance_protector_ # t /\ stop_protector_ # t

(* A stop releases every thread in wait_for_stop(), unless reset() undoes  *)
(* it or a new instance takes its place.                                   *)
StopReleases ==
    \A t \in Threads :
        (op[t] = "wait_for_stop" /\ stopping_) ~> (pc[t] = "idle" \/ ~stopping_)

(* "system processor was not create, call init first"                      *)
(* (system_processor.cpp:262, the message wait_for_stop() throws): init()  *)
(* then returns.                                                           *)
InitReturns == \A t \in Threads : (op[t] = "init") ~> (op[t] # "init")
=============================================================================

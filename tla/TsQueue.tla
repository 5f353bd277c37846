------------------------------ MODULE TsQueue ------------------------------
(***************************************************************************)
(* The member functions of ts_queue< T > (src/sources/ts_queue/ts_queue.h) *)
(* as steps of the threads that call them.  The module states what the     *)
(* library does and nothing about who calls it: QueueClients, UnlockedPop  *)
(* and TaskProcessor extend it with clients.                               *)
(*                                                                         *)
(* A step is the code between two points where another thread can be seen: *)
(* the read of the volatile flag before the lock, the acquisition of       *)
(* queue_protector_, each read of the flag under the lock, the body under  *)
(* the lock, and the store that reopens the queue.  A condition is its     *)
(* set of sleepers; a sleeper that is notified, or that wakes spuriously,  *)
(* has to take the mutex again before it goes on.                          *)
(***************************************************************************)
EXTENDS Naturals, Sequences, FiniteSets, Functions

CONSTANTS Threads,    \* the threads that may call the queue
          Elements,   \* the addresses of the messages that may be pushed
          NULL        \* the null pointer, and the owner of a free mutex

ASSUME QueueAssumption == /\ NULL \notin Threads \cup Elements
                          /\ IsFiniteSet(Threads)

VARIABLES queue_,            \* the std::list of pointers
          stopping_,         \* the volatile flag
          queue_protector_,  \* the thread that holds the mutex, or NULL
          pc,                \* where each thread is inside its call
          op,                \* the call each thread is in, "none" outside
          held,              \* the pointer each thread answers for
          heap               \* the state of every message
qvars == <<queue_, stopping_, queue_protector_, pc, op, held, heap>>

Popping  == {"ts_pop", "wait_pop"}
Guarded  == {"push", "wait"} \cup Popping       \* calls that look at stopping_
Stopping == {"stop", "stop_processing", "restart"}
Ops      == Guarded \cup Stopping

PCs == {"idle",       \* outside of the queue
        "locking",    \* at the construction of the scoped_lock
        "checking",   \* holds the mutex, about to read stopping_
        "working",    \* holds the mutex, in the body of the call
        "parking",    \* in wait(): found work left, about to sleep
        "asleep",     \* on the condition of the call, mutex released
        "woken",      \* notified, taking the mutex again
        "reopening"}  \* in restart(), after stop_processing() returned

(***************************************************************************)
(* The two conditions: the sleepers of wait_pop() and those of wait().     *)
(***************************************************************************)
push_ == {t \in Threads : pc[t] = "asleep" /\ op[t] = "wait_pop"}
wait_ == {t \in Threads : pc[t] = "asleep" /\ op[t] = "wait"}

HasLock == {"checking", "working", "parking"}

QueueInit == /\ queue_ = <<>>
             /\ stopping_ = FALSE
             /\ queue_protector_ = NULL
             /\ pc = [t \in Threads |-> "idle"]
             /\ op = [t \in Threads |-> "none"]
             /\ held = [t \in Threads |-> NULL]

-----------------------------------------------------------------------------
(* t returns v to its caller after the threads of woken were notified; the *)
(* scoped_lock releases the mutex on the way out.                          *)
Return(t, v, woken) ==
    /\ queue_protector_' = NULL
    /\ pc' = [x \in Threads |-> IF x = t THEN "idle"
                                ELSE IF x \in woken THEN "woken" ELSE pc[x]]
    /\ op' = [op EXCEPT ![t] = "none"]
    /\ held' = [held EXCEPT ![t] = v]

(* condition::wait( lock ): releases the mutex and sleeps in one step.     *)
Sleep(t) ==
    /\ queue_protector_' = NULL
    /\ pc' = [pc EXCEPT ![t] = "asleep"]
    /\ UNCHANGED <<queue_, stopping_, op, held, heap>>

(* The sets notify_one() may wake.                                         *)
OneOf(sleepers) == IF sleepers = {} THEN {{}} ELSE {{t} : t \in sleepers}

(* What the calls do to the list, and whom they wake: push() one sleeper   *)
(* of push_, who takes the last element all of wait_, a stop everyone.     *)
PushedFirst(e) == <<e>> \o queue_            \* mutant: push_front
PushedNull(e) == Append(queue_, NULL)        \* mutant: the argument is lost
Pushed(e) == Append(queue_, e)

PoppedNothing == queue_                      \* mutant: no pop_front
Popped == Tail(queue_)

PushWakesIfWasEmpty == IF queue_ = <<>> THEN OneOf(push_) ELSE {{}}   \* mutant
PushWakes == OneOf(push_)

DrainWakesNobody == {}                       \* mutant: no notify_all
DrainWakes == IF Len(queue_) = 1 THEN wait_ ELSE {}

StopWakesWaiters == wait_                    \* mutant: push_ is forgotten
StopWakesPoppers == push_                    \* mutant: wait_ is forgotten
StopWakes == push_ \cup wait_

-----------------------------------------------------------------------------
(* The start of call o with argument e (NULL unless o is a push).  A       *)
(* guarded call reads the flag without the lock and is over at once when   *)
(* it is set; a stopping call sets it without the lock.                    *)
Enter(t, o, e) ==
    /\ pc[t] = "idle"
    /\ stopping_' = (stopping_ \/ o \in Stopping)
    /\ \/ /\ o \in Guarded /\ stopping_
          /\ UNCHANGED <<pc, op>>
       \/ /\ o \in Stopping \/ ~stopping_
          /\ pc' = [pc EXCEPT ![t] = "locking"]
          /\ op' = [op EXCEPT ![t] = o]
    /\ held' = [held EXCEPT ![t] = e]
    /\ UNCHANGED <<queue_, queue_protector_>>

(* The mutex is taken, on the way in or by condition::wait before it       *)
(* returns.  A stopping call tests nothing; wait() returns from the        *)
(* condition to the test of its loop, all the others to a test of the flag.*)
FirstStep(t) ==
    IF op[t] \in Stopping \/ (op[t] = "wait" /\ pc[t] = "woken")
    THEN "working" ELSE "checking"

Acquire(t) ==
    /\ pc[t] \in {"locking", "woken"}
    /\ queue_protector_ = NULL
    /\ queue_protector_' = t
    /\ pc' = [pc EXCEPT ![t] = FirstStep(t)]
    /\ UNCHANGED <<queue_, stopping_, op, held, heap>>

CheckedBefore(t) ==                          \* mutant: no test under the lock
    /\ pc[t] = "checking"
    /\ pc' = [pc EXCEPT ![t] = "working"]
    /\ UNCHANGED <<queue_, stopping_, queue_protector_, op, held, heap>>

(* The flag is read under the lock; a set flag ends the call.  For push    *)
(* the caller keeps the pointer (the call returned false).                 *)
Recheck(t) ==
    /\ pc[t] = "checking"
    /\ \/ /\ stopping_
          /\ Return(t, held[t], {})
       \/ /\ ~stopping_
          /\ pc' = [pc EXCEPT ![t] = "working"]
          /\ UNCHANGED <<queue_protector_, op, held>>
    /\ UNCHANGED <<queue_, stopping_, heap>>

(* push(): the element is appended and one sleeper of push_ is notified.   *)
PushBack(t) ==
    /\ pc[t] = "working" /\ op[t] = "push"
    /\ queue_' = Pushed(held[t])
    /\ \E woken \in PushWakes : Return(t, NULL, woken)
    /\ UNCHANGED <<stopping_, heap>>

(* ts_pop() and wait_pop(): the front is handed to the caller; who takes   *)
(* the last element wakes every sleeper of wait_.                          *)
TakeFront(t) ==
    /\ pc[t] = "working" /\ op[t] \in Popping
    /\ queue_ # <<>>
    /\ queue_' = Popped
    /\ Return(t, Head(queue_), DrainWakes)
    /\ UNCHANGED <<stopping_, heap>>

TsPopEmpty(t) ==
    /\ pc[t] = "working" /\ op[t] = "ts_pop"
    /\ queue_ = <<>>
    /\ Return(t, NULL, {})
    /\ UNCHANGED <<queue_, stopping_, heap>>

WaitPopSleep(t) ==
    /\ pc[t] = "working" /\ op[t] = "wait_pop"
    /\ queue_ = <<>>
    /\ Sleep(t)

(* wait(): the test of the loop.  The flag may be set between this read    *)
(* and the sleep, since stopping calls set it without the lock.            *)
WaitTest(t) ==
    /\ pc[t] = "working" /\ op[t] = "wait"
    /\ \/ /\ queue_ = <<>> \/ stopping_
          /\ Return(t, NULL, {})
       \/ /\ queue_ # <<>> /\ ~stopping_
          /\ pc' = [pc EXCEPT ![t] = "parking"]
          /\ UNCHANGED <<queue_protector_, op, held>>
    /\ UNCHANGED <<queue_, stopping_, heap>>

WaitSleep(t) ==
    /\ pc[t] = "parking"
    /\ Sleep(t)

(* stop(), and stop_processing() inside restart() or alone, under the      *)
(* lock: all but stop() delete every element that is left; all sleepers    *)
(* of both conditions are notified.                                        *)
NeverFlushes(o) == FALSE                     \* mutant: nothing is deleted
Flushes(o) == o # "stop"

NotifyStop(t) ==
    /\ pc[t] = "working" /\ op[t] \in Stopping
    /\ queue_' = IF Flushes(op[t]) THEN <<>> ELSE queue_
    /\ heap' = [e \in Elements |->
                  IF Flushes(op[t]) /\ e \in Range(queue_) THEN "freed" ELSE heap[e]]
    /\ queue_protector_' = NULL
    /\ pc' = [x \in Threads |->
                IF x = t THEN IF op[t] = "restart" THEN "reopening" ELSE "idle"
                ELSE IF x \in StopWakes THEN "woken" ELSE pc[x]]
    /\ op' = [op EXCEPT ![t] = IF op[t] = "restart" THEN op[t] ELSE "none"]
    /\ UNCHANGED <<stopping_, held>>

(* restart(): the flag is cleared after the lock was released.             *)
Reopen(t) ==
    /\ pc[t] = "reopening"
    /\ stopping_' = FALSE
    /\ pc' = [pc EXCEPT ![t] = "idle"]
    /\ op' = [op EXCEPT ![t] = "none"]
    /\ UNCHANGED <<queue_, queue_protector_, held, heap>>

(* boost::condition may return from wait without a notification.           *)
Spurious(t) ==
    /\ pc[t] = "asleep"
    /\ pc' = [pc EXCEPT ![t] = "woken"]
    /\ UNCHANGED <<queue_, stopping_, queue_protector_, op, held, heap>>

QueueStep(t) == \/ Acquire(t) \/ Recheck(t)
                \/ PushBack(t) \/ TakeFront(t) \/ TsPopEmpty(t)
                \/ WaitPopSleep(t) \/ WaitTest(t) \/ WaitSleep(t)
                \/ NotifyStop(t) \/ Reopen(t)

-----------------------------------------------------------------------------
(* What every client relies on.                                            *)

QueueTypeOK ==
    /\ queue_ \in Seq(Elements)
    /\ stopping_ \in BOOLEAN
    /\ queue_protector_ \in Threads \cup {NULL}
    /\ pc \in [Threads -> PCs]
    /\ op \in [Threads -> Ops \cup {"none"}]
    /\ held \in [Threads -> Elements \cup {NULL}]
    /\ heap \in [Elements -> {"raw", "live", "freed"}]

(* Stopping calls whose notify_all() is still to come.                     *)
PendingStop ==
    {t \in Threads : op[t] \in Stopping /\ pc[t] \in {"locking", "working"}}

(* wait_pop() calls that are on their way to the front of the list.        *)
OnTheirWay ==
    {t \in Threads : op[t] = "wait_pop" /\ pc[t] \in {"woken", "checking", "working"}}

(* A message that was not deleted is in the list exactly once or with      *)
(* exactly one thread, and a deleted one is nowhere: no double delete, no  *)
(* use after delete, no leak, however calls overlap.                       *)
Ownership ==
    /\ \A i, j \in DOMAIN queue_ : queue_[i] = queue_[j] => i = j
    /\ \A i \in DOMAIN queue_, t \in Threads : queue_[i] # held[t]
    /\ \A s, t \in Threads : held[s] = held[t] /\ held[s] # NULL => s = t
    /\ \A e \in Elements :
         heap[e] = "live" <=> \/ \E i \in DOMAIN queue_ : queue_[i] = e
                              \/ \E t \in Threads : held[t] = e

(* No stop is lost: while the flag is set a thread sleeps only as long as  *)
(* some stopping call has its notify_all() before it.  The flag is set     *)
(* outside of the lock, so what saves the sleepers is that the stopping    *)
(* call takes the lock after it.                                           *)
StopNotLost == stopping_ /\ push_ \cup wait_ # {} => PendingStop # {}

(* No push is lost: while a wait_pop() sleeps, every element in the list   *)
(* has a wait_pop() on its way to it, although push() notifies one thread  *)
(* only and ts_pop() may take the element that thread was woken for.       *)
PushNotLost ==
    push_ # {} => \/ Len(queue_) <= Cardinality(OnTheirWay)
                  \/ PendingStop # {}

(* No wait() sleeps on an empty list: whoever empties it, by taking the    *)
(* last element or by deleting them all, wakes the sleepers of wait_.      *)
DrainNotLost == wait_ # {} => queue_ # <<>>

-----------------------------------------------------------------------------
(* The inductive invariant the proofs use: what holds between any two      *)
(* steps of a call, besides the types.                                     *)

(* The owner of the mutex is the one thread inside the locked sections.    *)
LockDiscipline ==
    \A t \in Threads : pc[t] \in HasLock <=> queue_protector_ = t

(* Where a thread can be in each call, and what it has in its hands there. *)
CallShape ==
    \A t \in Threads :
        /\ pc[t] = "idle" <=> op[t] = "none"
        /\ pc[t] = "checking" => op[t] \in Guarded
        /\ pc[t] = "parking" => op[t] = "wait"
        /\ pc[t] \in {"asleep", "woken"} => op[t] \in {"wait", "wait_pop"}
        /\ pc[t] = "reopening" => op[t] = "restart"
        /\ op[t] \in Stopping => pc[t] \in {"locking", "working", "reopening"}
        /\ op[t] = "push" => held[t] \in Elements
        /\ op[t] \notin {"push", "none"} => held[t] = NULL

(* StopNotLost, for those who are about to sleep as well: they passed      *)
(* their last test of the flag and hold the mutex.                         *)
Drowsy == {t \in Threads : \/ pc[t] \in {"asleep", "parking"}
                           \/ pc[t] = "working" /\ op[t] = "wait_pop"}

StopSeen == stopping_ /\ Drowsy # {} => PendingStop # {}

(* DrainNotLost, for those who are about to sleep in wait() as well.       *)
DrainSeen ==
    \A t \in Threads :
        (pc[t] = "parking" \/ (pc[t] = "asleep" /\ op[t] = "wait")) => queue_ # <<>>

QueueInv == QueueTypeOK /\ LockDiscipline /\ CallShape /\ StopSeen /\ DrainSeen /\ Ownership
=============================================================================

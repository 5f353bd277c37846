------------------------ MODULE QueueClientsProofs ------------------------
(***************************************************************************)
(* The safety of the queue for any number of threads, messages and calls,  *)
(* its implementation of the closable FIFO list, and pop() beside it.      *)
(***************************************************************************)
EXTENDS UnlockedPop, TsQueueProofs

(* A thread outside of its calls is free to take a message or to delete it.*)
LEMMA OpsAreCalls ==
    ASSUME NEW t \in Threads
    PROVE  MayCall[t] \subseteq Ops /\ "push" \in Ops
BY ClientAssumption DEF Ops, Guarded

(* Every step of the clients preserves the invariant of the queue.         *)
LEMMA NextKeepsInv == QueueInv /\ [Next]_vars => QueueInv'
<1> SUFFICES ASSUME QueueInv, [Next]_vars
             PROVE  QueueInv'
  OBVIOUS
<1>1. ASSUME NEW t \in Threads, Push(t)
      PROVE  QueueInv'
  <2>1. PICK e \in Elements : /\ heap[e] = "raw"
                              /\ heap' = [heap EXCEPT ![e] = "live"]
                              /\ Enter(t, "push", e)
    BY <1>1 DEF Push
  <2>2. held[t] = NULL /\ held' = [held EXCEPT ![t] = e] /\ UNCHANGED queue_
    BY <1>1, <2>1 DEF Push, Enter
  <2>3. Ownership'
    BY <2>1, <2>2, FreshMessage, InvIsCore
  <2>4. heap' \in [Elements -> {"raw", "live", "freed"}] /\ e # NULL
    BY <2>1, QueueAssumption DEF QueueInv, QueueTypeOK
  <2>. QED BY <2>1, <2>3, <2>4, EnterKeepsInv, OpsAreCalls
<1>2. ASSUME NEW t \in Threads, Call(t)
      PROVE  QueueInv'
  <2>1. PICK o \in MayCall[t] \ {"push"} : Enter(t, o, NULL)
    BY <1>2 DEF Call
  <2>2. o \in Ops /\ o # "push"
    BY <2>1, OpsAreCalls
  <2>3. held' = held /\ heap' = heap /\ queue_' = queue_
    BY <1>2, <2>1 DEF Call, Enter, QueueInv, QueueTypeOK
  <2>4. Ownership' /\ heap' \in [Elements -> {"raw", "live", "freed"}]
    BY <2>3 DEF QueueInv, Ownership, QueueTypeOK
  <2>. QED BY <2>1, <2>2, <2>4, EnterKeepsInv
<1>3. ASSUME NEW t \in Threads, Dispose(t)
      PROVE  QueueInv'
  <2>1. heap' \in [Elements -> {"raw", "live", "freed"}]
    BY <1>3, QueueAssumption DEF Dispose, QueueInv, QueueTypeOK
  <2>2. Ownership'
    BY <1>3, DeletedMessage, InvIsCore DEF Dispose
  <2>. QED BY <1>3, <2>1, <2>2, HandlingKeepsInv DEF Dispose
<1>4. ASSUME NEW t \in Threads, Wakeup(t)
      PROVE  QueueInv'
  BY <1>4, SpuriousKeepsInv DEF Wakeup
<1>5. ASSUME NEW t \in Threads, InCall(t)
      PROVE  QueueInv'
  BY <1>5, StepKeepsInv DEF InCall
<1>6. CASE UNCHANGED vars
  BY <1>6, StutterKeepsInv DEF vars, qvars
<1>. QED BY <1>1, <1>2, <1>3, <1>4, <1>5, <1>6 DEF Next

(* The invariant of the queue holds in every state of every program that   *)
(* uses it this way.                                                       *)
THEOREM InvHolds == Spec => []QueueInv
<1>1. Init => QueueInv
  BY InitInv DEF Init
<1>. QED BY <1>1, NextKeepsInv, PTL DEF Spec

(* A thread never makes more calls than its budget.                        *)
LEMMA NextKeepsBudget == BudgetOK /\ [Next]_vars => BudgetOK'
<1> SUFFICES ASSUME BudgetOK, [Next]_vars
             PROVE  BudgetOK'
  OBVIOUS
<1> USE DEF BudgetOK
<1>1. CASE UNCHANGED vars
  BY <1>1 DEF vars
<1>2. ASSUME NEW t \in Threads, Spend(t)
      PROVE  BudgetOK'
  BY <1>2, ClientAssumption DEF Spend
<1>3. CASE UNCHANGED budget
  BY <1>3
<1>. QED BY <1>1, <1>2, <1>3 DEF Next, Push, Call, Dispose, Wakeup, InCall

(* Type correctness.                                                       *)
THEOREM TypeCorrect == Spec => []TypeOK
<1>1. Init => BudgetOK
  BY ClientAssumption DEF Init, BudgetOK
<1>2. Spec => []BudgetOK
  BY <1>1, NextKeepsBudget, PTL DEF Spec
<1>3. QueueInv => QueueTypeOK
  BY DEF QueueInv
<1>. QED BY <1>2, <1>3, InvHolds, PTL DEF TypeOK

(* No message is leaked, deleted twice or used after its deletion, however *)
(* the calls of any number of threads overlap (ts_queue.h:56-181).         *)
THEOREM OwnershipHolds == Spec => []Ownership
BY InvHolds, InvImplies, PTL

(* No stop is lost: the notify_all() of a stopping call that is under way  *)
(* reaches every sleeper (ts_queue.h:63-83).                               *)
THEOREM StopNeverLost == Spec => []StopNotLost
BY InvHolds, InvImplies, PTL

(* No wait() sleeps on a list that was emptied (ts_queue.h:93-102).        *)
THEOREM DrainNeverLost == Spec => []DrainNotLost
BY InvHolds, InvImplies, PTL

(* No push is lost: while a wait_pop() sleeps, each element of the list    *)
(* has a wait_pop() on its way to it, although push() wakes one thread     *)
(* only and ts_pop() may overtake it (ts_queue.h:108-118, 163-181).        *)
THEOREM PushNeverLost == Spec => []PushNotLost
<1>1. Init => PushNotLost
  BY DEF Init, QueueInit, PushNotLost, push_
<1>2. QueueInv /\ QueueInv' /\ PushNotLost /\ [Next]_vars => PushNotLost'
  <2> SUFFICES ASSUME QueueInv, QueueInv', PushNotLost, [Next]_vars
               PROVE  PushNotLost'
    OBVIOUS
  <2>1. ASSUME NEW t \in Threads, Push(t) \/ Call(t)
        PROVE  PushNotLost'
    <3>1. \E o \in Ops, e \in Elements \cup {NULL} : Enter(t, o, e)
      BY <2>1, OpsAreCalls DEF Push, Call
    <3>. QED BY <3>1, OutsideKeepsPushes
  <2>2. ASSUME NEW t \in Threads, Dispose(t) \/ Wakeup(t)
        PROVE  PushNotLost'
    BY <2>2, OutsideKeepsPushes DEF Dispose, Wakeup
  <2>3. ASSUME NEW t \in Threads, InCall(t)
        PROVE  PushNotLost'
    BY <2>3, StepKeepsPushes DEF InCall
  <2>4. CASE UNCHANGED vars
    <3>1. PushNotLost' = PushNotLost
      BY <2>4 DEF vars, PushNotLost, push_, OnTheirWay, PendingStop
    <3>. QED BY <3>1
  <2>. QED BY <2>1, <2>2, <2>3, <2>4 DEF Next
<1>. QED BY <1>1, <1>2, InvHolds, PTL DEF Spec

-----------------------------------------------------------------------------
(* Refinement.                                                             *)

FifoVars == <<queue_, FifoClosed, InRestart>>

(* At most the owner of the mutex is committed.                            *)
LEMMA CommittedHasLock ==
    ASSUME QueueInv, NEW t \in Committed
    PROVE  queue_protector_ = t
BY DEF QueueInv, LockDiscipline, HasLock, Committed

(* Every step of a call is a step of the abstract queue or none.           *)
LEMMA StepRefines ==
    ASSUME QueueInv, QueueInv', NEW t \in Threads, QueueStep(t)
    PROVE  [Fifo!Next]_FifoVars
<1> USE QueueAssumption, CommittedHasLock
    DEF QueueInv, QueueTypeOK, FifoClosed, FifoVars
<1>0. ASSUME pc[t] # "reopening"
      PROVE  UNCHANGED InRestart
  <2>0. ~Reopen(t)
    BY <1>0 DEF Reopen
  <2>1. \A x \in Threads : op'[x] = "restart" <=> op[x] = "restart"
    BY <2>0 DEF QueueStep, Acquire, Recheck, PushBack, TakeFront, TsPopEmpty, WaitPopSleep,
                WaitTest, WaitSleep, NotifyStop, Return, Sleep, CallShape, Popping, Guarded,
                Stopping
  <2>. QED BY <2>1 DEF InRestart
<1>1. CASE Acquire(t)
  <2>1. Committed = {}
    BY <1>1 DEF Acquire, Committed
  <2>2. Committed' = {}
    <3>1. t \notin Committed'
      BY <1>1 DEF Acquire, FirstStep, Committed, Popping, Stopping, CallShape
    <3>2. \A x \in Threads : x # t => x \notin Committed'
      BY <1>1, <2>1 DEF Acquire, Committed
    <3>. QED BY <3>1, <3>2 DEF Committed
  <2>3. UNCHANGED InRestart
    BY <1>0, <1>1 DEF Acquire
  <2>. QED BY <1>1, <2>1, <2>2, <2>3 DEF Acquire
<1>2. CASE Recheck(t)
  <2>0. UNCHANGED InRestart
    BY <1>0, <1>2 DEF Recheck
  <2>1. CASE stopping_
    <3>1. Committed' = Committed
      BY <1>2, <2>1 DEF Recheck, Return, Committed
    <3>. QED BY <1>2, <2>0, <3>1 DEF Recheck
  <2>2. CASE ~stopping_
    BY <1>2, <2>0, <2>2 DEF Recheck
  <2>. QED BY <2>1, <2>2
<1>3. CASE PushBack(t)
  <2>0. UNCHANGED InRestart
    BY <1>0, <1>3 DEF PushBack
  <2>1. t \in Committed
    BY <1>3 DEF PushBack, Committed
  <2>2. FifoClosed' \in BOOLEAN /\ held[t] \in Elements
    BY <1>3 DEF PushBack, CallShape
  <2>. QED BY <1>3, <2>0, <2>1, <2>2 DEF PushBack, Pushed, Fifo!Next, Fifo!Put
<1>4. CASE TakeFront(t)
  <2>0. UNCHANGED InRestart
    BY <1>0, <1>4 DEF TakeFront
  <2>1. t \in Committed
    BY <1>4 DEF TakeFront, Committed
  <2>2. FifoClosed' \in BOOLEAN
    OBVIOUS
  <2>. QED BY <1>4, <2>0, <2>1, <2>2 DEF TakeFront, Popped, Fifo!Next, Fifo!Take
<1>5. CASE TsPopEmpty(t) \/ WaitPopSleep(t)
  <2>0. UNCHANGED InRestart
    BY <1>0, <1>5 DEF TsPopEmpty, WaitPopSleep
  <2>1. t \in Committed /\ UNCHANGED <<queue_, stopping_>>
    BY <1>5 DEF TsPopEmpty, WaitPopSleep, Sleep, Committed, Popping
  <2>2. FifoClosed' = FALSE \/ FifoClosed' = TRUE
    OBVIOUS
  <2>. QED BY <2>0, <2>1, <2>2 DEF Fifo!Next, Fifo!Close
<1>6. CASE WaitTest(t) \/ WaitSleep(t)
  <2>0. UNCHANGED InRestart
    BY <1>0, <1>6 DEF WaitTest, WaitSleep
  <2>1. Committed' = Committed
    BY <1>6 DEF WaitTest, WaitSleep, Return, Sleep, Committed, Popping
  <2>. QED BY <1>6, <2>0, <2>1 DEF WaitTest, WaitSleep, Sleep
<1>7. CASE NotifyStop(t)
  <2>0. UNCHANGED InRestart
    BY <1>0, <1>7 DEF NotifyStop
  <2>1. Committed = {}
    BY <1>7 DEF NotifyStop, Committed, Popping, Stopping, LockDiscipline, HasLock
  <2>2. Committed' = {}
    BY <1>7, <2>1 DEF NotifyStop, Committed
  <2>. QED BY <1>7, <2>0, <2>1, <2>2 DEF NotifyStop, Fifo!Next, Fifo!Flush
<1>8. CASE Reopen(t)
  <2>1. t \in InRestart /\ InRestart' = InRestart \ {t}
    BY <1>8 DEF Reopen, InRestart, CallShape
  <2>. QED BY <1>8, <2>1 DEF Reopen, Fifo!Next, Fifo!Reopen
<1>. QED
  BY <1>1, <1>2, <1>3, <1>4, <1>5, <1>6, <1>7, <1>8 DEF QueueStep

(* The beginning of a restart is one of the abstract queue; that of        *)
(* another call closes it or leaves it.                                    *)
LEMMA EnterRefines ==
    ASSUME QueueInv, NEW t \in Threads, NEW o \in Ops, NEW e, Enter(t, o, e)
    PROVE  [Fifo!Next]_FifoVars
<1>1. Committed' = Committed /\ UNCHANGED queue_
  BY DEF QueueInv, QueueTypeOK, Enter, Committed
<1>2. FifoClosed' = FifoClosed \/ FifoClosed' = TRUE
  BY <1>1 DEF QueueInv, QueueTypeOK, Enter, FifoClosed
<1>3. CASE o = "restart"
  <2>1. t \notin InRestart /\ InRestart' = InRestart \cup {t}
    BY <1>3 DEF QueueInv, QueueTypeOK, CallShape, Enter, InRestart, Stopping, Guarded, Popping
  <2>. QED BY <1>1, <1>2, <2>1 DEF Fifo!Next, Fifo!Restart, FifoVars
<1>4. CASE o # "restart"
  <2>1. UNCHANGED InRestart
    BY <1>4 DEF QueueInv, QueueTypeOK, CallShape, Enter, InRestart
  <2>. QED BY <1>1, <1>2, <2>1 DEF Fifo!Next, Fifo!Close, FifoVars
<1>. QED BY <1>3, <1>4

(* Every step of the clients is one of the abstract queue or a stutter.    *)
LEMMA NextRefines ==
    QueueInv /\ QueueInv' /\ [Next]_vars => [Fifo!Next]_FifoVars
<1> SUFFICES ASSUME QueueInv, QueueInv', [Next]_vars
             PROVE  [Fifo!Next]_FifoVars
  OBVIOUS
<1>1. ASSUME NEW t \in Threads, Push(t) \/ Call(t)
      PROVE  [Fifo!Next]_FifoVars
  BY <1>1, EnterRefines, OpsAreCalls DEF Push, Call
<1>2. ASSUME NEW t \in Threads, Dispose(t) \/ Wakeup(t)
      PROVE  [Fifo!Next]_FifoVars
  <2>1. Committed' = Committed /\ UNCHANGED <<queue_, stopping_, op>>
    BY <1>2 DEF Dispose, Wakeup, Spurious, Committed, QueueInv, QueueTypeOK
  <2>. QED BY <2>1 DEF FifoClosed, FifoVars, InRestart
<1>3. ASSUME NEW t \in Threads, InCall(t)
      PROVE  [Fifo!Next]_FifoVars
  BY <1>3, StepRefines DEF InCall
<1>4. CASE UNCHANGED vars
  BY <1>4 DEF vars, FifoClosed, Committed, FifoVars, InRestart
<1>. QED BY <1>1, <1>2, <1>3, <1>4 DEF Next

(* The queue implements the FIFO list that can be closed: messages leave   *)
(* it in the order they entered it, none enters or leaves while it is      *)
(* closed, and only restart() opens it again (ts_queue.h:50-181).          *)
THEOREM QueueRefines == Spec => ImplementsFifo
<1>1. Init => Fifo!Init
  BY DEF Init, QueueInit, Fifo!Init, FifoClosed, InRestart
<1>. QED
  BY <1>1, NextRefines, InvHolds, PTL DEF Spec, ImplementsFifo, Fifo!Spec, FifoVars
-----------------------------------------------------------------------------
(* pop(), which takes no lock, when its callers are alone with the waiters.*)

(* What a thread in pop() relies on: the others are outside of the queue   *)
(* or in wait(), and the element it saw is still there.                    *)
PopShape ==
    \A t \in Threads : stage[t] # "out" =>
        /\ pc[t] = "idle"
        /\ \A s \in Threads \ {t} : stage[s] = "out" /\ op[s] \in {"none", "wait"}
        /\ stage[t] \in {"front", "erase"} => held[t] = NULL /\ queue_ # <<>>
        /\ stage[t] = "erase" => Head(queue_) = result[t]

(* DrainSeen, unless the thread that emptied the list has its notification *)
(* before it.                                                              *)
PopSeen == DrainSeen \/ \E t \in Threads : stage[t] \in {"last", "notify"}

PopTypes == /\ stage \in [Threads -> Stages]
            /\ result \in [Threads -> Elements \cup {NULL}]
            /\ BudgetOK

PopInv == CoreInv /\ PopTypes /\ PopShape /\ PopSeen

LEMMA InitPop == PopInit => PopInv
<1> SUFFICES ASSUME PopInit
             PROVE  PopInv
  OBVIOUS
<1>1. CoreInv /\ DrainSeen
  BY InitInv, InvIsCore DEF PopInit, Init
<1>2. PopTypes
  BY ClientAssumption DEF PopInit, Init, PopTypes, Stages, BudgetOK
<1>. QED BY <1>1, <1>2 DEF PopInv, PopInit, PopShape, PopSeen

(* A thread in pop() changes the list, its own pointer, and whom it wakes. *)
LEMMA TestKeepsPop ==
    ASSUME PopAlone, PopInv, NEW t \in Threads, PopTest(t)
    PROVE  PopInv'
<1> USE DEF PopInv
<1>1. CoreInv' /\ (DrainSeen => DrainSeen')
  BY StutterKeepsCore DEF PopTest
<1>2. PopTypes'
  BY ClientAssumption DEF PopTest, PopTypes, Stages, Goto, Spend, BudgetOK
<1>3. \A s \in Threads \ {t} : stage[s] = "out" /\ op[s] \in {"none", "wait"}
  BY DEF PopTest, Undisturbed, CoreInv, CallShape
<1>4. PopShape'
  BY <1>3 DEF PopTest, PopShape, Goto, PopTypes, qvars
<1>5. PopSeen'
  BY <1>1, <1>3 DEF PopTest, PopSeen
<1>. QED BY <1>1, <1>2, <1>4, <1>5

(* The element that is taken goes from the list to the thread              *)
(* (ts_queue.h:128-129).                                                   *)
LEMMA EraseKeepsPop ==
    ASSUME PopInv, NEW t \in Threads, PopErase(t)
    PROVE  PopInv'
<1> USE QueueAssumption DEF PopInv, CoreInv
<1>1. /\ pc[t] = "idle" /\ op[t] = "none" /\ held[t] = NULL
      /\ queue_ # <<>> /\ queue_ \in Seq(Elements) /\ result[t] = queue_[1]
  BY DEF PopErase, PopShape, CallShape, QueueTypeOK
<1>2. /\ queue_' = Tail(queue_) /\ held' = [held EXCEPT ![t] = queue_[1]]
      /\ stage' = [stage EXCEPT ![t] = "last"]
      /\ UNCHANGED <<stopping_, queue_protector_, pc, op, heap, budget, result>>
  BY <1>1 DEF PopErase, Goto
<1>3. /\ Len(queue_) \in Nat /\ Len(queue_) > 0 /\ DOMAIN queue_ = 1 .. Len(queue_)
      /\ Tail(queue_) \in Seq(Elements) /\ Len(Tail(queue_)) = Len(queue_) - 1
      /\ \A i \in 1 .. Len(queue_) - 1 : Tail(queue_)[i] = queue_[i + 1]
      /\ queue_[1] \in Elements
  BY <1>1, HeadTailProperties, EmptySeq
<1>4. DOMAIN queue_' = 1 .. Len(queue_) - 1
  BY <1>2, <1>3
<1>5. QueueTypeOK'
  BY <1>2, <1>3 DEF QueueTypeOK
<1>6. LockDiscipline' /\ StopSeen'
  BY <1>2 DEF LockDiscipline, StopSeen, Drowsy, PendingStop
<1>7. CallShape'
  BY <1>1, <1>2 DEF CallShape, QueueTypeOK
<1>8. Ownership'
  <2> USE DEF Ownership
  <2>1. \A i, j \in DOMAIN queue_' : queue_'[i] = queue_'[j] => i = j
    BY <1>2, <1>3, <1>4
  <2>2. ASSUME NEW i \in DOMAIN queue_', NEW x \in Threads
        PROVE  queue_'[i] # held'[x]
    <3>1. /\ queue_'[i] = queue_[i + 1] /\ i + 1 \in DOMAIN queue_ /\ 1 \in DOMAIN queue_
          /\ i + 1 # 1
      BY <1>2, <1>3, <1>4
    <3>2. held'[x] = IF x = t THEN queue_[1] ELSE held[x]
      BY <1>2 DEF QueueTypeOK
    <3>. QED BY <3>1, <3>2
  <2>3. \A x, y \in Threads : held'[x] = held'[y] /\ held'[x] # NULL => x = y
    BY <1>2, <1>3 DEF QueueTypeOK
  <2>4. ASSUME NEW e \in Elements
        PROVE  heap'[e] = "live" <=> \/ \E i \in DOMAIN queue_' : queue_'[i] = e
                                     \/ \E x \in Threads : held'[x] = e
    <3>1. (\E i \in DOMAIN queue_ : queue_[i] = e)
             <=> queue_[1] = e \/ \E i \in DOMAIN queue_' : queue_'[i] = e
      <4>1. ASSUME NEW i \in DOMAIN queue_, queue_[i] = e, i # 1
            PROVE  i - 1 \in DOMAIN queue_' /\ queue_'[i - 1] = e
        BY <1>2, <1>3, <1>4, <4>1
      <4>2. ASSUME NEW i \in DOMAIN queue_', queue_'[i] = e
            PROVE  i + 1 \in DOMAIN queue_ /\ queue_[i + 1] = e
        BY <1>2, <1>3, <1>4, <4>2
      <4>. QED BY <4>1, <4>2, <1>3
    <3>2. (\E x \in Threads : held'[x] = e)
             <=> queue_[1] = e \/ \E x \in Threads : held[x] = e
      BY <1>1, <1>2 DEF QueueTypeOK
    <3>. QED BY <1>2, <3>1, <3>2
  <2>. QED BY <2>1, <2>2, <2>3, <2>4
<1>9. PopTypes' /\ PopSeen'
  BY <1>2 DEF PopTypes, PopSeen, Stages, BudgetOK
<1>10. PopShape'
  <2>1. \A s \in Threads \ {t} : stage[s] = "out" /\ op[s] \in {"none", "wait"}
    BY DEF PopShape, PopErase
  <2>. QED BY <1>1, <1>2, <2>1 DEF PopTypes, PopShape
<1>. QED BY <1>5, <1>6, <1>7, <1>8, <1>9, <1>10

(* No waiter is between its test and its sleep when pop() has the mutex    *)
(* (ts_queue.h:130-134).                                                   *)
LEMMA NotifyKeepsPop ==
    ASSUME PopInv, NEW t \in Threads, PopNotify(t)
    PROVE  PopInv'
<1> USE QueueAssumption DEF PopInv, CoreInv, PopNotify, Goto
<1>1. QueueTypeOK'
  BY DEF QueueTypeOK, PCs
<1>2. LockDiscipline' /\ CallShape'
  BY DEF LockDiscipline, HasLock, CallShape, QueueTypeOK, wait_, Stopping
<1>3. StopSeen'
  <2>1. Drowsy' \subseteq Drowsy /\ PendingStop \subseteq PendingStop'
    BY DEF QueueTypeOK, Drowsy, PendingStop, wait_
  <2>. QED BY <2>1 DEF StopSeen
<1>4. Ownership'
  BY DEF Ownership
<1>5. PopTypes'
  BY DEF PopTypes, Stages, BudgetOK
<1>6. PopShape'
  BY DEF PopTypes, PopShape, QueueTypeOK, wait_
<1>7. DrainSeen'
  BY DEF DrainSeen, QueueTypeOK, LockDiscipline, HasLock, wait_
<1>. QED BY <1>1, <1>2, <1>3, <1>4, <1>5, <1>6, <1>7 DEF PopSeen

LEMMA InPopKeepsPop ==
    ASSUME PopInv, NEW t \in Threads, InPop(t)
    PROVE  PopInv'
<1> USE DEF PopInv
<1>1. CASE PopFront(t) \/ PopLast(t)
  <2>1. UNCHANGED vars
    BY <1>1 DEF PopFront, PopLast
  <2>2. CoreInv' /\ (DrainSeen => DrainSeen')
    BY <2>1, StutterKeepsCore DEF vars, qvars
  <2>3. PopTypes'
    <3>1. PopFront(t) => Head(queue_) \in Elements
      BY DEF PopFront, CoreInv, QueueTypeOK
    <3>. QED BY <1>1, <2>1, <3>1 DEF PopFront, PopLast, PopTypes, Stages, Goto, vars, BudgetOK
  <2>4. PopShape'
    BY <1>1, <2>1 DEF PopFront, PopLast, PopShape, PopTypes, Goto, vars
  <2>5. PopSeen'
    <3>1. CASE PopFront(t)
      BY <2>2, <3>1 DEF PopFront, PopSeen, PopShape, PopTypes, Goto
    <3>2. CASE PopLast(t) /\ queue_ = <<>>
      BY <3>2 DEF PopLast, PopSeen, PopTypes, Goto
    <3>3. CASE PopLast(t) /\ queue_ # <<>>
      BY <2>1, <3>3 DEF PopSeen, DrainSeen, vars
    <3>. QED BY <1>1, <3>1, <3>2, <3>3
  <2>. QED BY <2>2, <2>3, <2>4, <2>5
<1>. QED BY <1>1, EraseKeepsPop, NotifyKeepsPop DEF InPop

(* A thread in wait() leaves the list and the others alone.                *)
LEMMA WaitStays ==
    ASSUME CoreInv, NEW t \in Threads, op[t] = "wait", QueueStep(t)
    PROVE  /\ UNCHANGED <<queue_, heap, stopping_, held>>
           /\ op'[t] \in {"wait", "none"}
           /\ \A x \in Threads : x # t => op'[x] = op[x] /\ pc'[x] = pc[x]
<1> USE DEF CoreInv, QueueTypeOK, CallShape
<1>1. Acquire(t) \/ Recheck(t) \/ WaitTest(t) \/ WaitSleep(t)
  BY DEF QueueStep, PushBack, TakeFront, TsPopEmpty, WaitPopSleep, NotifyStop, Reopen,
         Popping, Stopping
<1>2. CASE Acquire(t) \/ WaitSleep(t)
  BY <1>2 DEF Acquire, WaitSleep, Sleep
<1>3. CASE Recheck(t) \/ WaitTest(t)
  BY <1>3 DEF Recheck, WaitTest, Return
<1>. QED BY <1>1, <1>2, <1>3

(* The other calls: while a thread is in pop() only wait() is in progress  *)
(* or begins.                                                              *)
LEMMA LockedKeepsPop ==
    ASSUME PopAlone, PopInv, NEW t \in Threads, Locked(t)
    PROVE  PopInv'
<1> USE DEF PopInv
<1> DEFINE Quiet(s) == /\ UNCHANGED queue_ /\ held'[s] = held[s] /\ pc'[s] = pc[s]
                       /\ op'[t] \in {"none", "wait"}
                       /\ \A x \in Threads : x # t => op'[x] = op[x]
<1>1. stage[t] = "out" /\ UNCHANGED <<stage, result>>
  BY DEF Locked
<1>2. /\ CoreInv' /\ (DrainSeen => DrainSeen') /\ BudgetOK'
      /\ \A s \in Threads : stage[s] # "out" => Quiet(s)
  <2> USE DEF CoreInv, QueueTypeOK
  <2>1. CASE (Push(t) \/ Call(t)) /\ (PopAlone => NobodyPops \/ op'[t] \in {"wait", "none"})
    <3>1. PICK o \in Ops, e \in Elements \cup {NULL} :
            /\ Enter(t, o, e) /\ (o = "push" <=> e # NULL)
            /\ heap' \in [Elements -> {"raw", "live", "freed"}] /\ Ownership'
      <4>1. CASE Push(t)
        <5>1. PICK e \in Elements : /\ heap[e] = "raw"
                                    /\ heap' = [heap EXCEPT ![e] = "live"]
                                    /\ Enter(t, "push", e)
          BY <4>1 DEF Push
        <5>2. held[t] = NULL /\ held' = [held EXCEPT ![t] = e] /\ UNCHANGED queue_
          BY <4>1, <5>1 DEF Push, Enter
        <5>3. Ownership'
          BY <5>1, <5>2, FreshMessage
        <5>. QED BY <5>1, <5>3, OpsAreCalls, QueueAssumption
      <4>2. CASE Call(t)
        <5>1. PICK o \in MayCall[t] \ {"push"} : Enter(t, o, NULL)
          BY <4>2 DEF Call
        <5>2. held' = held /\ heap' = heap /\ queue_' = queue_
          BY <4>2, <5>1 DEF Call, Enter
        <5>. QED BY <5>1, <5>2, OpsAreCalls DEF Ownership
      <4>. QED BY <2>1, <4>1, <4>2
    <3>2. CoreInv' /\ (DrainSeen => DrainSeen')
      BY <3>1, EnterKeepsCore
    <3>3. BudgetOK'
      BY <2>1, NextKeepsBudget DEF Next, PopTypes
    <3>4. ASSUME NEW s \in Threads, stage[s] # "out"
          PROVE  Quiet(s)
      BY <1>1, <2>1, <3>1, <3>4 DEF NobodyPops, Enter
    <3>. QED BY <3>2, <3>3, <3>4
  <2>2. CASE Dispose(t)
    <3>1. heap' \in [Elements -> {"raw", "live", "freed"}] /\ Ownership'
      BY <2>2, DeletedMessage, QueueAssumption DEF Dispose
    <3>2. CoreInv' /\ (DrainSeen => DrainSeen')
      BY <2>2, <3>1, HandlingKeepsCore DEF Dispose
    <3>. QED BY <1>1, <2>2, <3>2 DEF Dispose, BudgetOK, PopTypes, PopShape, CallShape
  <2>3. CASE Wakeup(t)
    <3>1. CoreInv' /\ (DrainSeen => DrainSeen')
      BY <2>3, SpuriousKeepsCore DEF Wakeup
    <3>2. BudgetOK'
      BY <2>3, NextKeepsBudget DEF Next, PopTypes
    <3>. QED BY <1>1, <2>3, <3>1, <3>2 DEF Wakeup, Spurious, PopShape, CallShape
  <2>4. CASE InCall(t)
    <3>1. CoreInv' /\ (DrainSeen => DrainSeen')
      BY <2>4, StepKeepsCore DEF InCall
    <3>2. op[t] # "none"
      BY <2>4 DEF InCall, QueueStep, Acquire, Recheck, PushBack, TakeFront, TsPopEmpty,
                  WaitPopSleep, WaitTest, WaitSleep, NotifyStop, Reopen, CallShape
    <3>3. ASSUME NEW s \in Threads, stage[s] # "out"
          PROVE  Quiet(s)
      <4>1. s # t /\ op[t] = "wait"
        BY <1>1, <3>2, <3>3 DEF PopShape
      <4>. QED BY <2>4, <4>1, WaitStays DEF InCall
    <3>. QED BY <2>4, <3>1, <3>3 DEF InCall, BudgetOK, PopTypes
  <2>. QED BY <2>1, <2>2, <2>3, <2>4 DEF Locked
<1>3. PopTypes'
  BY <1>1, <1>2 DEF PopTypes
<1>4. PopShape'
  BY <1>1, <1>2 DEF PopShape
<1>5. PopSeen'
  BY <1>1, <1>2 DEF PopSeen
<1>. QED BY <1>2, <1>3, <1>4, <1>5

LEMMA PopNextKeeps == PopAlone /\ PopInv /\ [PopNext]_popVars => PopInv'
<1> SUFFICES ASSUME PopAlone, PopInv, [PopNext]_popVars
             PROVE  PopInv'
  OBVIOUS
<1>1. CASE PopNext
  BY <1>1, TestKeepsPop, InPopKeepsPop, LockedKeepsPop DEF PopNext
<1>2. CASE UNCHANGED popVars
  <2>1. CoreInv' /\ (DrainSeen => DrainSeen')
    BY <1>2, StutterKeepsCore DEF popVars, vars, qvars, PopInv
  <2>. QED BY <1>2, <2>1 DEF popVars, vars, PopInv, PopTypes, BudgetOK, PopShape, PopSeen
<1>. QED BY <1>1, <1>2

LEMMA PopInvHolds == ASSUME PopAlone PROVE PopSpec => []PopInv
<1>1. PopInv /\ [PopNext]_popVars => PopInv'
  BY PopNextKeeps
<1>. QED BY InitPop, <1>1, PTL DEF PopSpec

(* pop() tests the list once and relies on the test twice, without a lock: *)
(* it is defined as long as the others stay outside or in wait()           *)
(* (ts_queue.h:119-136).                                                   *)
THEOREM PopStaysDefined == PopAlone => (PopSpec => []PopDefined)
<1> SUFFICES ASSUME PopAlone
             PROVE  PopSpec => []PopDefined
  OBVIOUS
<1>1. PopInv => PopDefined
  BY DEF PopInv, CoreInv, PopTypes, PopShape, PopDefined, PopTypeOK, TypeOK
<1>. QED BY <1>1, PopInvHolds, PTL

(* A wait() whose list pop() emptied is notified: the waiter holds the     *)
(* mutex from its test to its sleep and pop() takes it afterwards          *)
(* (ts_queue.h:93-102, 130-133).                                           *)
THEOREM PopDrainNeverLost == PopAlone => (PopSpec => []PopDrainNotLost)
<1> SUFFICES ASSUME PopAlone
             PROVE  PopSpec => []PopDrainNotLost
  OBVIOUS
<1>1. PopInv => PopDrainNotLost
  BY DEF PopInv, PopSeen, DrainSeen, wait_, PopDrainNotLost
<1>. QED BY <1>1, PopInvHolds, PTL

(* Beside pop() every message still has one owner, and no stop is lost.    *)
THEOREM PopKeepsOwnership == PopAlone => (PopSpec => [](Ownership /\ StopNotLost))
<1> SUFFICES ASSUME PopAlone
             PROVE  PopSpec => [](Ownership /\ StopNotLost)
  OBVIOUS
<1>1. PopInv => Ownership /\ StopNotLost
  BY DEF PopInv, CoreInv, StopSeen, StopNotLost, Drowsy, push_, wait_
<1>. QED BY <1>1, PopInvHolds, PTL
=============================================================================

--------------------------- MODULE TsQueueProofs ---------------------------
(***************************************************************************)
(* The steps of the queue preserve QueueInv, whoever the clients are.      *)
(* QueueClientsProofs adds the steps of its clients.                       *)
(***************************************************************************)
EXTENDS TsQueue, SequenceTheorems, FiniteSetTheorems, TLAPS

(* Every step inside a call keeps the types.                               *)
LEMMA StepKeepsTypes ==
    ASSUME QueueTypeOK, CallShape, NEW t \in Threads, QueueStep(t)
    PROVE  QueueTypeOK'
<1> USE QueueAssumption DEF QueueTypeOK, PCs, Ops, Guarded, Popping, Stopping
<1>1. CASE Acquire(t)
  BY <1>1 DEF Acquire, FirstStep
<1>2. CASE Recheck(t)
  BY <1>2 DEF Recheck, Return
<1>3. CASE PushBack(t)
  <2>1. held[t] \in Elements
    BY <1>3 DEF PushBack, CallShape
  <2>2. queue_' \in Seq(Elements)
    BY <1>3, <2>1 DEF PushBack, Pushed
  <2>. QED BY <1>3, <2>2 DEF PushBack, Return
<1>4. CASE TakeFront(t)
  BY <1>4 DEF TakeFront, Return, Popped
<1>5. CASE TsPopEmpty(t)
  BY <1>5 DEF TsPopEmpty, Return
<1>6. CASE WaitPopSleep(t)
  BY <1>6 DEF WaitPopSleep, Sleep
<1>7. CASE WaitTest(t)
  BY <1>7 DEF WaitTest, Return
<1>8. CASE WaitSleep(t)
  BY <1>8 DEF WaitSleep, Sleep
<1>9. CASE NotifyStop(t)
  BY <1>9 DEF NotifyStop
<1>10. CASE Reopen(t)
  BY <1>10 DEF Reopen
<1>. QED
  BY <1>1, <1>2, <1>3, <1>4, <1>5, <1>6, <1>7, <1>8, <1>9, <1>10 DEF QueueStep

(* Whom a call wakes is asleep.                                            *)
LEMMA WakesSleepers ==
    /\ \A woken \in PushWakes : \A x \in woken : x \in Threads /\ pc[x] = "asleep" /\ op[x] = "wait_pop"
    /\ \A x \in DrainWakes : x \in Threads /\ pc[x] = "asleep" /\ op[x] = "wait"
    /\ \A x : x \in StopWakes <=> /\ x \in Threads /\ pc[x] = "asleep"
                                  /\ op[x] \in {"wait", "wait_pop"}
BY DEF PushWakes, OneOf, DrainWakes, StopWakes, push_, wait_

(* Every step inside a call keeps the lock discipline.                     *)
LEMMA StepKeepsLock ==
    ASSUME QueueTypeOK, CallShape, LockDiscipline, NEW t \in Threads, QueueStep(t)
    PROVE  LockDiscipline'
<1> USE QueueAssumption, WakesSleepers DEF QueueTypeOK, LockDiscipline, HasLock
<1>1. CASE Acquire(t)
  BY <1>1 DEF Acquire, FirstStep
<1>2. CASE Recheck(t)
  BY <1>2 DEF Recheck, Return
<1>3. CASE PushBack(t)
  BY <1>3 DEF PushBack, Return
<1>4. CASE TakeFront(t)
  BY <1>4 DEF TakeFront, Return
<1>5. CASE TsPopEmpty(t)
  BY <1>5 DEF TsPopEmpty, Return
<1>6. CASE WaitPopSleep(t)
  BY <1>6 DEF WaitPopSleep, Sleep
<1>7. CASE WaitTest(t)
  BY <1>7 DEF WaitTest, Return
<1>8. CASE WaitSleep(t)
  BY <1>8 DEF WaitSleep, Sleep
<1>9. CASE NotifyStop(t)
  BY <1>9 DEF NotifyStop
<1>10. CASE Reopen(t)
  BY <1>10 DEF Reopen
<1>. QED
  BY <1>1, <1>2, <1>3, <1>4, <1>5, <1>6, <1>7, <1>8, <1>9, <1>10 DEF QueueStep

(* Every step inside a call leaves each thread where its call can be.      *)
LEMMA StepKeepsShape ==
    ASSUME QueueTypeOK, CallShape, NEW t \in Threads, QueueStep(t)
    PROVE  CallShape'
<1> USE QueueAssumption, WakesSleepers
    DEF QueueTypeOK, CallShape, Ops, Guarded, Popping, Stopping
<1>1. CASE Acquire(t)
  BY <1>1 DEF Acquire, FirstStep
<1>2. CASE Recheck(t)
  BY <1>2 DEF Recheck, Return
<1>3. CASE PushBack(t)
  BY <1>3 DEF PushBack, Return
<1>4. CASE TakeFront(t)
  BY <1>4 DEF TakeFront, Return
<1>5. CASE TsPopEmpty(t)
  BY <1>5 DEF TsPopEmpty, Return
<1>6. CASE WaitPopSleep(t)
  BY <1>6 DEF WaitPopSleep, Sleep
<1>7. CASE WaitTest(t)
  BY <1>7 DEF WaitTest, Return
<1>8. CASE WaitSleep(t)
  BY <1>8 DEF WaitSleep, Sleep
<1>9. CASE NotifyStop(t)
  BY <1>9 DEF NotifyStop
<1>10. CASE Reopen(t)
  BY <1>10 DEF Reopen
<1>. QED
  BY <1>1, <1>2, <1>3, <1>4, <1>5, <1>6, <1>7, <1>8, <1>9, <1>10 DEF QueueStep

(* Every step inside a call keeps a pending stop for whoever may sleep.    *)
LEMMA StepKeepsStops ==
    ASSUME QueueTypeOK, CallShape, LockDiscipline, StopSeen,
           NEW t \in Threads, QueueStep(t)
    PROVE  StopSeen'
<1> USE QueueAssumption, WakesSleepers
    DEF QueueTypeOK, CallShape, LockDiscipline, HasLock, StopSeen, Drowsy,
        PendingStop, Stopping, Guarded, Popping
<1>1. CASE Acquire(t)
  BY <1>1 DEF Acquire, FirstStep
<1>2. CASE Recheck(t)
  BY <1>2 DEF Recheck, Return
<1>3. CASE PushBack(t)
  <2>1. \A x \in Threads : pc'[x] # pc[x] => x = t \/ (pc[x] = "asleep" /\ pc'[x] = "woken")
    <3>1. PICK woken \in PushWakes : Return(t, NULL, woken)
      BY <1>3 DEF PushBack
    <3>2. \A x \in woken : pc[x] = "asleep"
      BY <3>1, WakesSleepers
    <3>3. pc' = [x \in Threads |-> IF x = t THEN "idle"
                                  ELSE IF x \in woken THEN "woken" ELSE pc[x]]
      BY <3>1 DEF Return
    <3>. QED BY ONLY <3>2, <3>3
  <2>2. Drowsy' \subseteq Drowsy /\ op'[t] = "none" /\ pc'[t] = "idle"
    BY <1>3, <2>1 DEF PushBack, Return
  <2>3. PendingStop \subseteq PendingStop'
    BY <1>3, <2>1 DEF PushBack, Return
  <2>. QED BY <1>3, <2>2, <2>3 DEF PushBack
<1>4. CASE TakeFront(t)
  <2>1. \A x \in Threads : pc'[x] # pc[x] => x = t \/ (pc[x] = "asleep" /\ pc'[x] = "woken")
    <3>1. PICK woken : woken = DrainWakes /\ Return(t, Head(queue_), woken)
      BY <1>4 DEF TakeFront
    <3>2. \A x \in woken : pc[x] = "asleep"
      BY <3>1, WakesSleepers
    <3>3. pc' = [x \in Threads |-> IF x = t THEN "idle"
                                  ELSE IF x \in woken THEN "woken" ELSE pc[x]]
      BY <3>1 DEF Return
    <3>. QED BY ONLY <3>2, <3>3
  <2>2. Drowsy' \subseteq Drowsy /\ op'[t] = "none" /\ pc'[t] = "idle"
    BY <1>4, <2>1 DEF TakeFront, Return
  <2>3. PendingStop \subseteq PendingStop'
    BY <1>4, <2>1 DEF TakeFront, Return
  <2>. QED BY <1>4, <2>2, <2>3 DEF TakeFront
<1>5. CASE TsPopEmpty(t)
  BY <1>5 DEF TsPopEmpty, Return
<1>6. CASE WaitPopSleep(t)
  BY <1>6 DEF WaitPopSleep, Sleep
<1>7. CASE WaitTest(t)
  BY <1>7 DEF WaitTest, Return
<1>8. CASE WaitSleep(t)
  BY <1>8 DEF WaitSleep, Sleep
<1>9. CASE NotifyStop(t)
  <2>1. \A x \in Threads : pc'[x] \notin {"asleep", "parking"}
    BY <1>9 DEF NotifyStop, PCs, Ops
  <2>2. \A x \in Threads : ~(pc'[x] = "working" /\ op'[x] = "wait_pop")
    BY <1>9 DEF NotifyStop
  <2>. QED BY <2>1, <2>2
<1>10. CASE Reopen(t)
  BY <1>10 DEF Reopen
<1>. QED
  BY <1>1, <1>2, <1>3, <1>4, <1>5, <1>6, <1>7, <1>8, <1>9, <1>10 DEF QueueStep

(* Every step inside a call leaves work for whoever sleeps in wait().      *)
LEMMA StepKeepsDrain ==
    ASSUME QueueTypeOK, CallShape, LockDiscipline, DrainSeen,
           NEW t \in Threads, QueueStep(t)
    PROVE  DrainSeen'
<1> USE QueueAssumption
    DEF QueueTypeOK, CallShape, LockDiscipline, HasLock, DrainSeen
<1>1. CASE Acquire(t)
  BY <1>1 DEF Acquire, FirstStep
<1>2. CASE Recheck(t)
  BY <1>2 DEF Recheck, Return
<1>3. CASE PushBack(t)
  <2>1. queue_' # <<>>
    <3>1. held[t] \in Elements
      BY <1>3 DEF PushBack
    <3>. QED BY <1>3, <3>1 DEF PushBack, Pushed
  <2>. QED BY <2>1
<1>4. CASE TakeFront(t)
  <2>1. CASE Len(queue_) = 1
    <3>1. \A x \in Threads : pc'[x] # "parking" /\ ~(pc'[x] = "asleep" /\ op'[x] = "wait")
      BY <1>4, <2>1 DEF TakeFront, Return, DrainWakes, wait_
    <3>. QED BY <3>1
  <2>2. CASE Len(queue_) # 1
    <3>1. queue_ # <<>> /\ queue_' = Tail(queue_)
      BY <1>4 DEF TakeFront, Popped
    <3>2. Len(queue_) \in Nat /\ Len(queue_) > 1 /\ Len(queue_') = Len(queue_) - 1
      <4>1. Len(queue_) \in Nat /\ Len(queue_) # 0
        BY <3>1
      <4>2. Len(Tail(queue_)) = Len(queue_) - 1
        BY <3>1, HeadTailProperties
      <4>. QED BY <2>2, <3>1, <4>1, <4>2
    <3>3. queue_' # <<>>
      BY <3>2, EmptySeq
    <3>. QED BY <3>3
  <2>. QED BY <2>1, <2>2
<1>5. CASE TsPopEmpty(t)
  BY <1>5 DEF TsPopEmpty, Return
<1>6. CASE WaitPopSleep(t)
  BY <1>6 DEF WaitPopSleep, Sleep
<1>7. CASE WaitTest(t)
  BY <1>7 DEF WaitTest, Return
<1>8. CASE WaitSleep(t)
  BY <1>8 DEF WaitSleep, Sleep
<1>9. CASE NotifyStop(t)
  <2>1. \A x \in Threads : pc'[x] # "parking" /\ ~(pc'[x] = "asleep" /\ op'[x] = "wait")
    BY <1>9, WakesSleepers DEF NotifyStop
  <2>. QED BY <2>1
<1>10. CASE Reopen(t)
  BY <1>10 DEF Reopen
<1>. QED
  BY <1>1, <1>2, <1>3, <1>4, <1>5, <1>6, <1>7, <1>8, <1>9, <1>10 DEF QueueStep

(* Every step inside a call hands each message on to exactly one place.    *)
LEMMA StepKeepsOwnership ==
    ASSUME QueueTypeOK, CallShape, Ownership,
           NEW t \in Threads, QueueStep(t)
    PROVE  Ownership'
<1> USE QueueAssumption DEF QueueTypeOK, CallShape, Ownership
<1>1. CASE Acquire(t)
  BY <1>1 DEF Acquire, FirstStep
<1>2. CASE Recheck(t)
  <2>1. held' = held /\ heap' = heap /\ queue_' = queue_
    BY <1>2 DEF Recheck, Return
  <2>. QED BY <2>1
<1>3. CASE PushBack(t)
  <2> DEFINE n == Len(queue_)
  <2>1. held[t] \in Elements /\ held' = [held EXCEPT ![t] = NULL] /\ heap' = heap
    BY <1>3 DEF PushBack, Return
  <2>2. /\ DOMAIN queue_' = 1 .. n + 1 /\ DOMAIN queue_ = 1 .. n /\ n \in Nat
        /\ queue_'[n + 1] = held[t]
        /\ \A i \in 1 .. n : queue_'[i] = queue_[i]
    BY <1>3, <2>1 DEF PushBack, Pushed
  <2> HIDE DEF n
  <2>3. \A i, j \in DOMAIN queue_' : queue_'[i] = queue_'[j] => i = j
    BY <2>1, <2>2
  <2>4. \A i \in DOMAIN queue_', s \in Threads : queue_'[i] # held'[s]
    BY <2>1, <2>2
  <2>5. \A s, u \in Threads : held'[s] = held'[u] /\ held'[s] # NULL => s = u
    BY <2>1
  <2>6. ASSUME NEW e \in Elements
        PROVE  heap'[e] = "live" <=> \/ \E i \in DOMAIN queue_' : queue_'[i] = e
                                     \/ \E s \in Threads : held'[s] = e
    BY <2>1, <2>2
  <2>. QED BY <2>3, <2>4, <2>5, <2>6
<1>4. CASE TakeFront(t)
  <2> DEFINE n == Len(queue_)
  <2>1. /\ op[t] \in Popping /\ held[t] = NULL /\ heap' = heap
        /\ held' = [held EXCEPT ![t] = queue_[1]]
    BY <1>4 DEF TakeFront, Return, Popping
  <2>2. /\ n \in Nat \ {0} /\ DOMAIN queue_ = 1 .. n /\ DOMAIN queue_' = 1 .. n - 1
        /\ \A i \in 1 .. n : queue_[i] \in Elements
        /\ \A i \in 1 .. n - 1 : queue_'[i] = queue_[i + 1]
    BY <1>4 DEF TakeFront, Popped
  <2> HIDE DEF n
  <2>3. ASSUME NEW i \in DOMAIN queue_', NEW j \in DOMAIN queue_', queue_'[i] = queue_'[j]
        PROVE  i = j
    <3>1. /\ i \in 1 .. n - 1 /\ i + 1 \in 1 .. n /\ queue_'[i] = queue_[i + 1]
          /\ j \in 1 .. n - 1 /\ j + 1 \in 1 .. n /\ queue_'[j] = queue_[j + 1]
      BY <2>2, <2>3
    <3>2. i + 1 = j + 1
      <4>1. queue_[i + 1] = queue_[j + 1]
        BY <2>3, <3>1
      <4>2. i + 1 \in DOMAIN queue_ /\ j + 1 \in DOMAIN queue_
        BY <2>2, <3>1
      <4>. QED BY <4>1, <4>2
    <3>. QED BY <3>1, <3>2
  <2>4. ASSUME NEW i \in DOMAIN queue_', NEW s \in Threads
        PROVE  queue_'[i] # held'[s]
    <3>1. i + 1 \in 1 .. n /\ i + 1 # 1 /\ 1 \in 1 .. n /\ queue_'[i] = queue_[i + 1]
      BY <2>2
    <3>2. queue_[i + 1] # queue_[1] /\ queue_[i + 1] # held[s]
      <4>1. i + 1 \in DOMAIN queue_ /\ 1 \in DOMAIN queue_ /\ i + 1 # 1
        BY <2>2, <3>1
      <4>. QED BY <4>1
    <3>. QED BY <2>1, <3>1, <3>2
  <2>5. \A s, u \in Threads : held'[s] = held'[u] /\ held'[s] # NULL => s = u
    BY <2>1, <2>2
  <2>6. ASSUME NEW e \in Elements
        PROVE  heap'[e] = "live" <=> \/ \E i \in DOMAIN queue_' : queue_'[i] = e
                                     \/ \E s \in Threads : held'[s] = e
    <3>1. (\E i \in 1 .. n : queue_[i] = e)
            <=> (queue_[1] = e \/ \E i \in 1 .. n - 1 : queue_[i + 1] = e)
      <4>1. ASSUME NEW i \in 1 .. n, queue_[i] = e, i # 1
            PROVE  \E j \in 1 .. n - 1 : queue_[j + 1] = e
        <5>1. i - 1 \in 1 .. n - 1 /\ queue_[(i - 1) + 1] = e
          BY <2>2, <4>1
        <5>. QED BY <5>1
      <4>2. ASSUME NEW j \in 1 .. n - 1
            PROVE  j + 1 \in 1 .. n
        BY <2>2
      <4>3. 1 \in 1 .. n
        BY <2>2
      <4>. QED BY ONLY <4>1, <4>2, <4>3
    <3>2. (\E s \in Threads : held'[s] = e) <=> (queue_[1] = e \/ \E s \in Threads : held[s] = e)
      BY <2>1
    <3>3. heap[e] = "live" <=> \/ \E i \in 1 .. n : queue_[i] = e
                               \/ \E s \in Threads : held[s] = e
      BY <2>2
    <3>4. (\E i \in DOMAIN queue_' : queue_'[i] = e) <=> (\E i \in 1 .. n - 1 : queue_[i + 1] = e)
      BY ONLY <2>2
    <3>. QED BY <2>1, <3>1, <3>2, <3>3, <3>4
  <2>. QED BY <2>3, <2>4, <2>5, <2>6
<1>5. CASE TsPopEmpty(t)
  BY <1>5 DEF TsPopEmpty, Return
<1>6. CASE WaitPopSleep(t)
  BY <1>6 DEF WaitPopSleep, Sleep
<1>7. CASE WaitTest(t)
  BY <1>7 DEF WaitTest, Return
<1>8. CASE WaitSleep(t)
  BY <1>8 DEF WaitSleep, Sleep
<1>9. CASE NotifyStop(t)
  <2>1. CASE Flushes(op[t])
    <3>1. /\ queue_' = <<>> /\ held' = held
          /\ heap' = [e \in Elements |-> IF \E i \in DOMAIN queue_ : queue_[i] = e
                                         THEN "freed" ELSE heap[e]]
      BY <1>9, <2>1 DEF NotifyStop, Range
    <3>2. DOMAIN queue_' = {}
      BY <3>1
    <3>. QED BY <3>1, <3>2
  <2>2. CASE ~Flushes(op[t])
    <3>1. queue_' = queue_ /\ held' = held /\ heap' = heap
      BY <1>9, <2>2 DEF NotifyStop
    <3>. QED BY <3>1
  <2>. QED BY <2>1, <2>2
<1>10. CASE Reopen(t)
  BY <1>10 DEF Reopen
<1>. QED
  BY <1>1, <1>2, <1>3, <1>4, <1>5, <1>6, <1>7, <1>8, <1>9, <1>10 DEF QueueStep

-----------------------------------------------------------------------------
(* What every client of the queue may cite.                                *)

(* What holds of the queue even while pop() changes the list without the   *)
(* mutex: all of QueueInv but DrainSeen.                                   *)
CoreInv == QueueTypeOK /\ LockDiscipline /\ CallShape /\ StopSeen /\ Ownership

LEMMA InvIsCore == QueueInv <=> CoreInv /\ DrainSeen
BY DEF QueueInv, CoreInv

(* The steps inside a call preserve the invariant.                         *)
LEMMA StepKeepsCore ==
    ASSUME CoreInv, NEW t \in Threads, QueueStep(t)
    PROVE  CoreInv' /\ (DrainSeen => DrainSeen')
BY StepKeepsTypes, StepKeepsLock, StepKeepsShape, StepKeepsStops, StepKeepsDrain,
   StepKeepsOwnership DEF CoreInv

(* The same for QueueInv: the steps inside a call (ts_queue.h:50-181)      *)
(* preserve it, whoever the clients are.                                   *)
THEOREM StepKeepsInv ==
    ASSUME QueueInv, NEW t \in Threads, QueueStep(t)
    PROVE  QueueInv'
BY StepKeepsCore, InvIsCore DEF QueueInv, CoreInv

(* The beginning of a call preserves it, when the caller of push() has the *)
(* message it pushes to itself.                                            *)
LEMMA EnterKeepsCore ==
    ASSUME CoreInv, NEW t \in Threads, NEW o \in Ops, NEW e \in Elements \cup {NULL},
           o = "push" <=> e # NULL, Enter(t, o, e),
           heap' \in [Elements -> {"raw", "live", "freed"}], Ownership'
    PROVE  CoreInv' /\ (DrainSeen => DrainSeen')
<1> USE QueueAssumption DEF CoreInv
<1>1. QueueTypeOK'
  BY DEF Enter, QueueTypeOK, PCs
<1>2. LockDiscipline'
  BY DEF Enter, QueueTypeOK, LockDiscipline, HasLock
<1>3. CallShape'
  BY DEF Enter, QueueTypeOK, CallShape, Ops, Guarded, Popping, Stopping
<1>4. StopSeen'
  <2>1. Drowsy' \subseteq Drowsy /\ PendingStop \subseteq PendingStop'
    BY DEF Enter, QueueTypeOK, Drowsy, PendingStop, CallShape, Stopping
  <2>2. stopping_' /\ ~stopping_ => t \in PendingStop'
    BY DEF Enter, QueueTypeOK, PendingStop, Guarded, Ops, Stopping, Popping
  <2>3. stopping_ => stopping_'
    BY DEF Enter
  <2>. QED BY <2>1, <2>2, <2>3 DEF StopSeen, QueueTypeOK
<1>5. ASSUME DrainSeen
      PROVE  DrainSeen'
  BY <1>5 DEF Enter, QueueTypeOK, DrainSeen
<1>. QED BY <1>1, <1>2, <1>3, <1>4, <1>5

LEMMA EnterKeepsInv ==
    ASSUME QueueInv, NEW t \in Threads, NEW o \in Ops, NEW e \in Elements \cup {NULL},
           o = "push" <=> e # NULL, Enter(t, o, e),
           heap' \in [Elements -> {"raw", "live", "freed"}], Ownership'
    PROVE  QueueInv'
BY EnterKeepsCore, InvIsCore DEF QueueInv, CoreInv

(* A spurious wakeup preserves it.                                         *)
LEMMA SpuriousKeepsCore ==
    ASSUME CoreInv, NEW t \in Threads, Spurious(t)
    PROVE  CoreInv' /\ (DrainSeen => DrainSeen')
<1> USE QueueAssumption DEF CoreInv, Spurious
<1>1. QueueTypeOK'
  BY DEF QueueTypeOK, PCs
<1>2. LockDiscipline'
  BY DEF QueueTypeOK, LockDiscipline, HasLock
<1>3. CallShape'
  BY DEF QueueTypeOK, CallShape, Stopping
<1>4. StopSeen'
  BY DEF QueueTypeOK, StopSeen, Drowsy, PendingStop, CallShape, Stopping
<1>5. ASSUME DrainSeen
      PROVE  DrainSeen'
  BY <1>5 DEF QueueTypeOK, DrainSeen
<1>6. Ownership'
  BY DEF Ownership
<1>. QED BY <1>1, <1>2, <1>3, <1>4, <1>5, <1>6

LEMMA SpuriousKeepsInv ==
    ASSUME QueueInv, NEW t \in Threads, Spurious(t)
    PROVE  QueueInv'
BY SpuriousKeepsCore, InvIsCore DEF QueueInv, CoreInv

(* So does what a thread does with a message outside of the queue, as long *)
(* as every message stays in one place.                                    *)
LEMMA HandlingKeepsCore ==
    ASSUME CoreInv, NEW t \in Threads, pc[t] = "idle",
           NEW v \in Elements \cup {NULL}, held' = [held EXCEPT ![t] = v],
           heap' \in [Elements -> {"raw", "live", "freed"}], Ownership',
           UNCHANGED <<queue_, stopping_, queue_protector_, pc, op>>
    PROVE  CoreInv' /\ (DrainSeen => DrainSeen')
<1> USE DEF CoreInv
<1>1. QueueTypeOK'
  BY DEF QueueTypeOK
<1>2. LockDiscipline' /\ StopSeen' /\ (DrainSeen => DrainSeen')
  BY DEF LockDiscipline, StopSeen, Drowsy, PendingStop, DrainSeen
<1>3. CallShape'
  BY DEF QueueTypeOK, CallShape
<1>. QED BY <1>1, <1>2, <1>3

LEMMA HandlingKeepsInv ==
    ASSUME QueueInv, NEW t \in Threads, pc[t] = "idle",
           NEW v \in Elements \cup {NULL}, held' = [held EXCEPT ![t] = v],
           heap' \in [Elements -> {"raw", "live", "freed"}], Ownership',
           UNCHANGED <<queue_, stopping_, queue_protector_, pc, op>>
    PROVE  QueueInv'
BY HandlingKeepsCore, InvIsCore DEF QueueInv, CoreInv

(* And whatever leaves the queue alone.                                    *)
LEMMA StutterKeepsCore ==
    ASSUME CoreInv, UNCHANGED qvars
    PROVE  CoreInv' /\ (DrainSeen => DrainSeen')
BY DEF qvars, CoreInv, QueueTypeOK, LockDiscipline, CallShape, StopSeen, Drowsy,
       PendingStop, DrainSeen, Ownership

LEMMA StutterKeepsInv ==
    ASSUME QueueInv, UNCHANGED qvars
    PROVE  QueueInv'
BY StutterKeepsCore, InvIsCore DEF QueueInv, CoreInv

(* It holds in an empty queue with no messages.                            *)
LEMMA InitInv ==
    ASSUME QueueInit, heap = [e \in Elements |-> "raw"]
    PROVE  QueueInv
<1> USE QueueAssumption DEF QueueInit
<1>1. QueueTypeOK
  <2>1. queue_ \in Seq(Elements) /\ stopping_ \in BOOLEAN
    BY EmptySeq
  <2>2. pc \in [Threads -> PCs] /\ op \in [Threads -> Ops \cup {"none"}]
    BY DEF PCs
  <2>. QED BY <2>1, <2>2 DEF QueueTypeOK
<1>2. LockDiscipline /\ CallShape /\ StopSeen /\ DrainSeen
  BY DEF LockDiscipline, HasLock, CallShape, StopSeen, DrainSeen, Stopping
<1>3. Ownership
  <2>1. DOMAIN queue_ = {}
    OBVIOUS
  <2>. QED BY <2>1 DEF Ownership
<1>. QED BY <1>1, <1>2, <1>3 DEF QueueInv

(* A message fresh from the heap, or one that is deleted by the thread     *)
(* that holds it, leaves every message in one place.                       *)
LEMMA FreshMessage ==
    ASSUME CoreInv, NEW t \in Threads, held[t] = NULL, NEW e \in Elements, heap[e] = "raw",
           heap' = [heap EXCEPT ![e] = "live"], held' = [held EXCEPT ![t] = e],
           UNCHANGED queue_
    PROVE  Ownership'
<1> USE QueueAssumption DEF CoreInv, QueueTypeOK
<1>1. /\ \A i \in DOMAIN queue_ : queue_[i] # e
      /\ \A s \in Threads : held[s] # e
  BY DEF Ownership
<1>. QED BY <1>1 DEF Ownership

LEMMA DeletedMessage ==
    ASSUME CoreInv, NEW t \in Threads, held[t] # NULL,
           heap' = [heap EXCEPT ![held[t]] = "freed"], held' = [held EXCEPT ![t] = NULL],
           UNCHANGED queue_
    PROVE  Ownership'
<1> USE QueueAssumption DEF CoreInv, QueueTypeOK
<1>1. /\ held[t] \in Elements
      /\ \A i \in DOMAIN queue_ : queue_[i] # held[t]
      /\ \A s \in Threads : s # t => held[s] # held[t]
  BY DEF Ownership
<1>. QED BY <1>1 DEF Ownership

(* What the invariant says of the runs' properties.                        *)
LEMMA InvImplies ==
    ASSUME QueueInv
    PROVE  QueueTypeOK /\ Ownership /\ StopNotLost /\ DrainNotLost
<1>1. push_ \cup wait_ \subseteq Drowsy
  BY DEF push_, wait_, Drowsy
<1>2. StopNotLost
  BY <1>1 DEF QueueInv, StopSeen, StopNotLost
<1>3. DrainNotLost
  BY DEF QueueInv, DrainSeen, DrainNotLost, wait_
<1>. QED BY <1>2, <1>3 DEF QueueInv

-----------------------------------------------------------------------------
(* No push is lost.  PushNotLost is inductive once QueueInv is known.      *)

(* The threads on their way can be counted.                                *)
LEMMA OnTheirWayFinite ==
    /\ IsFiniteSet(OnTheirWay) /\ Cardinality(OnTheirWay) \in Nat
    /\ IsFiniteSet(OnTheirWay') /\ Cardinality(OnTheirWay)' \in Nat
<1>1. OnTheirWay \in SUBSET Threads /\ OnTheirWay' \in SUBSET Threads
  BY DEF OnTheirWay
<1>. QED BY <1>1, QueueAssumption, FS_Subset, FS_CardinalityType

(* A step that puts nobody to sleep, adds no element, ends no stopping     *)
(* call and stops no thread on its way keeps every push.                   *)
LEMMA NothingNewToWaitFor ==
    ASSUME PushNotLost, queue_ \in Seq(Elements), queue_' \in Seq(Elements),
           Len(queue_') <= Len(queue_), push_' \subseteq push_,
           PendingStop \subseteq PendingStop', OnTheirWay \subseteq OnTheirWay'
    PROVE  PushNotLost'
<1>1. Cardinality(OnTheirWay) <= Cardinality(OnTheirWay)'
  BY OnTheirWayFinite, FS_Subset
<1>2. Len(queue_) \in Nat /\ Len(queue_') \in Nat
  OBVIOUS
<1>. QED BY <1>1, <1>2, OnTheirWayFinite DEF PushNotLost

(* Every step inside a call keeps PushNotLost. push() adds one element and *)
(* wakes one; who goes to sleep or leaves must leave no element without a  *)
(* thread on its way.                                                      *)
LEMMA StepKeepsPushes ==
    ASSUME QueueInv, QueueInv', PushNotLost, NEW t \in Threads, QueueStep(t)
    PROVE  PushNotLost'
<1> USE QueueAssumption DEF QueueInv, QueueTypeOK
<1>1. CASE Acquire(t)
  <2>1. push_' \subseteq push_ /\ PendingStop \subseteq PendingStop'
    BY <1>1 DEF Acquire, FirstStep, push_, PendingStop
  <2>2. OnTheirWay \subseteq OnTheirWay'
    BY <1>1 DEF Acquire, FirstStep, OnTheirWay
  <2>. QED BY <1>1, <2>1, <2>2, NothingNewToWaitFor DEF Acquire
<1>2. CASE Recheck(t)
  <2>1. CASE stopping_
    <3>1. push_' \subseteq push_ /\ PendingStop \subseteq PendingStop'
      BY <1>2 DEF Recheck, Return, push_, PendingStop
    <3>2. StopNotLost
      BY InvImplies
    <3>. QED BY <2>1, <3>1, <3>2 DEF StopNotLost, PushNotLost
  <2>2. CASE ~stopping_
    <3>1. /\ push_' \subseteq push_ /\ PendingStop \subseteq PendingStop'
          /\ OnTheirWay \subseteq OnTheirWay'
      BY <1>2, <2>2 DEF Recheck, push_, PendingStop, OnTheirWay
    <3>. QED BY <1>2, <3>1, NothingNewToWaitFor DEF Recheck
  <2>. QED BY <2>1, <2>2
<1>3. CASE PushBack(t)
  <2>1. PICK woken \in PushWakes : Return(t, NULL, woken)
    BY <1>3 DEF PushBack
  <2>2. /\ pc' = [x \in Threads |-> IF x = t THEN "idle"
                                    ELSE IF x \in woken THEN "woken" ELSE pc[x]]
        /\ op' = [op EXCEPT ![t] = "none"]
        /\ op[t] = "push" /\ pc[t] = "working"
    BY <1>3, <2>1 DEF Return, PushBack
  <2>3. PendingStop \subseteq PendingStop'
    BY <2>2, <2>1, WakesSleepers DEF PendingStop, Stopping
  <2>4. CASE push_ = {}
    <3>1. push_' = {}
      BY <2>2, <2>4 DEF push_
    <3>. QED BY <3>1 DEF PushNotLost
  <2>5. CASE push_ # {}
    <3>1. PICK x \in push_ : woken = {x}
      BY <2>1, <2>5 DEF PushWakes, OneOf
    <3>2. x # t /\ x \in Threads /\ x \notin OnTheirWay /\ op[x] = "wait_pop"
      BY <2>2 DEF push_, OnTheirWay
    <3>3. OnTheirWay \cup {x} \subseteq OnTheirWay'
      BY <2>2, <3>1, <3>2 DEF OnTheirWay
    <3>4. Cardinality(OnTheirWay \cup {x}) = Cardinality(OnTheirWay) + 1
      BY <3>2, OnTheirWayFinite, FS_AddElement
    <3>5. Cardinality(OnTheirWay \cup {x}) <= Cardinality(OnTheirWay)'
      BY <3>3, OnTheirWayFinite, FS_Subset
    <3>6. Len(queue_') = Len(queue_) + 1 /\ Len(queue_) \in Nat
      BY <1>3 DEF PushBack, Pushed
    <3>. QED BY <2>3, <2>5, <3>4, <3>5, <3>6, OnTheirWayFinite DEF PushNotLost
  <2>. QED BY <2>4, <2>5
<1>4. CASE TakeFront(t)
  <2>1. /\ pc' = [x \in Threads |-> IF x = t THEN "idle"
                                    ELSE IF x \in DrainWakes THEN "woken" ELSE pc[x]]
        /\ op' = [op EXCEPT ![t] = "none"]
        /\ op[t] \in Popping /\ pc[t] = "working"
    BY <1>4 DEF Return, TakeFront
  <2>2. push_' \subseteq push_ /\ PendingStop \subseteq PendingStop'
    BY <2>1, WakesSleepers DEF push_, PendingStop, Stopping, Popping
  <2>3. OnTheirWay \ {t} \subseteq OnTheirWay'
    BY <2>1, WakesSleepers DEF OnTheirWay
  <2>4. Cardinality(OnTheirWay) - 1 <= Cardinality(OnTheirWay \ {t})
    <3>1. Cardinality(OnTheirWay \ {t}) = IF t \in OnTheirWay THEN Cardinality(OnTheirWay) - 1
                                         ELSE Cardinality(OnTheirWay)
      BY OnTheirWayFinite, FS_RemoveElement
    <3>. QED BY ONLY <3>1, OnTheirWayFinite
  <2>5. Cardinality(OnTheirWay \ {t}) <= Cardinality(OnTheirWay)'
    BY <2>3, OnTheirWayFinite, FS_Subset
  <2>6. Cardinality(OnTheirWay \ {t}) \in Nat
    BY OnTheirWayFinite, FS_RemoveElement, FS_CardinalityType
  <2>7. Len(queue_') = Len(queue_) - 1 /\ Len(queue_) \in Nat
    BY <1>4, HeadTailProperties DEF TakeFront, Popped
  <2>. QED BY <2>2, <2>4, <2>5, <2>6, <2>7, OnTheirWayFinite DEF PushNotLost
<1>5. CASE TsPopEmpty(t) \/ WaitTest(t) \/ WaitSleep(t) \/ Reopen(t)
  <2>1. push_' \subseteq push_ /\ PendingStop \subseteq PendingStop'
    BY <1>5 DEF TsPopEmpty, WaitTest, WaitSleep, Reopen, Return, Sleep, push_,
                PendingStop, Stopping, CallShape
  <2>2. OnTheirWay \subseteq OnTheirWay' /\ queue_' = queue_
    BY <1>5 DEF TsPopEmpty, WaitTest, WaitSleep, Reopen, Return, Sleep, OnTheirWay
  <2>. QED BY <2>1, <2>2, NothingNewToWaitFor
<1>6. CASE WaitPopSleep(t)
  <2>1. Len(queue_') = 0
    BY <1>6 DEF WaitPopSleep, Sleep
  <2>. QED BY <2>1, OnTheirWayFinite DEF PushNotLost
<1>7. CASE NotifyStop(t)
  <2>1. push_' = {}
    BY <1>7, WakesSleepers DEF NotifyStop, push_
  <2>. QED BY <2>1 DEF PushNotLost
<1>. QED
  BY <1>1, <1>2, <1>3, <1>4, <1>5, <1>6, <1>7 DEF QueueStep

(* Nor do the steps of the clients lose one.                               *)
LEMMA OutsideKeepsPushes ==
    ASSUME QueueInv, QueueInv', PushNotLost, NEW t \in Threads,
           \/ \E o \in Ops, e \in Elements \cup {NULL} : Enter(t, o, e)
           \/ Spurious(t)
           \/ UNCHANGED <<queue_, pc, op>>
    PROVE  PushNotLost'
<1> USE DEF QueueInv, QueueTypeOK
<1>1. push_' \subseteq push_ /\ PendingStop \subseteq PendingStop' /\ queue_' = queue_
  BY DEF Enter, Spurious, push_, PendingStop, CallShape, Stopping
<1>2. OnTheirWay \subseteq OnTheirWay'
  BY DEF Enter, Spurious, OnTheirWay
<1>. QED BY <1>1, <1>2, NothingNewToWaitFor

-----------------------------------------------------------------------------
(* What a caller of the queue sees of the steps inside it.                 *)
Queued(e) == \E i \in DOMAIN queue_ : queue_[i] = e

(* The calls that delete what is left in the list.                         *)
Deleting == {"stop_processing", "restart"}

(* A step moves no thread but the caller out of its call or into one, and  *)
(* takes nothing from any other.                                           *)
LEMMA OthersStay ==
    ASSUME QueueInv, NEW t \in Threads, QueueStep(t)
    PROVE  /\ \A x \in Threads : x # t => op'[x] = op[x] /\ held'[x] = held[x]
           /\ op'[t] \in {op[t], "none"}
           /\ stopping_' \in {stopping_, FALSE}
           /\ op[t] # "restart" => UNCHANGED stopping_
           /\ op[t] # "none"
<1> USE DEF QueueInv, QueueTypeOK, CallShape, Stopping, Popping, Guarded
<1>1. CASE Acquire(t) \/ Recheck(t) \/ PushBack(t) \/ TakeFront(t) \/ TsPopEmpty(t)
  BY <1>1 DEF Acquire, Recheck, PushBack, TakeFront, TsPopEmpty, Return
<1>2. CASE WaitPopSleep(t) \/ WaitTest(t) \/ WaitSleep(t) \/ NotifyStop(t) \/ Reopen(t)
  BY <1>2 DEF WaitPopSleep, WaitTest, WaitSleep, NotifyStop, Reopen, Sleep, Return
<1>. QED BY <1>1, <1>2 DEF QueueStep

(* What a call gives back when it ends.                                    *)
LEMMA CallEnds ==
    ASSUME QueueInv, NEW t \in Threads, QueueStep(t), op[t] # "none", op'[t] = "none"
    PROVE  /\ op[t] = "wait" => (queue_ = <<>> /\ queue_' = <<>>) \/ stopping_
           /\ op[t] = "stop_processing" => queue_' = <<>>
<1> USE DEF QueueInv, QueueTypeOK, CallShape, Stopping, Popping, Guarded
<1>1. CASE Acquire(t) \/ Recheck(t) \/ PushBack(t) \/ TakeFront(t) \/ TsPopEmpty(t)
  BY <1>1 DEF Acquire, Recheck, PushBack, TakeFront, TsPopEmpty, Return, Deleting
<1>2. CASE WaitPopSleep(t) \/ WaitTest(t) \/ WaitSleep(t) \/ Reopen(t)
  BY <1>2 DEF WaitPopSleep, WaitTest, WaitSleep, Reopen, Sleep, Return, Deleting
<1>3. CASE NotifyStop(t)
  BY <1>3 DEF NotifyStop, Flushes, Deleting
<1>. QED BY <1>1, <1>2, <1>3 DEF QueueStep

(* What it does to the pointers: push() hands its own to the list, a pop   *)
(* takes one out of the list, and a stop may delete all of the list.       *)
LEMMA PointersMove ==
    ASSUME QueueInv, NEW t \in Threads, QueueStep(t)
    PROVE  \/ UNCHANGED <<queue_, held, heap>>
           \/ /\ op[t] = "push" /\ held[t] \in Elements
              /\ queue_' = Append(queue_, held[t])
              /\ held' = [held EXCEPT ![t] = NULL] /\ UNCHANGED heap
           \/ /\ op[t] \in Popping /\ queue_ # <<>> /\ queue_' = Tail(queue_)
              /\ held' = [held EXCEPT ![t] = queue_[1]] /\ UNCHANGED heap
           \/ /\ op[t] \in Deleting /\ queue_' = <<>> /\ UNCHANGED held
              /\ heap' = [e \in Elements |-> IF Queued(e) THEN "freed" ELSE heap[e]]
<1> USE DEF QueueInv, QueueTypeOK, CallShape, Stopping, Popping, Guarded
<1>1. CASE Acquire(t) \/ WaitPopSleep(t) \/ WaitSleep(t) \/ Reopen(t)
  BY <1>1 DEF Acquire, WaitPopSleep, WaitSleep, Reopen, Sleep
<1>2. CASE Recheck(t) \/ TsPopEmpty(t) \/ WaitTest(t)
  <2>1. held' = held
    BY <1>2 DEF Recheck, TsPopEmpty, WaitTest, Return
  <2>. QED BY <1>2, <2>1 DEF Recheck, TsPopEmpty, WaitTest
<1>3. CASE PushBack(t)
  BY <1>3 DEF PushBack, Pushed, Return
<1>4. CASE TakeFront(t)
  BY <1>4 DEF TakeFront, Popped, Return
<1>5. CASE NotifyStop(t)
  <2>1. CASE Flushes(op[t])
    BY <1>5, <2>1 DEF NotifyStop, Flushes, Deleting, Range, Queued
  <2>2. CASE ~Flushes(op[t])
    BY <1>5, <2>2 DEF NotifyStop
  <2>. QED BY <2>1, <2>2
<1>. QED BY <1>1, <1>2, <1>3, <1>4, <1>5 DEF QueueStep

(* What was in the list still is, or was popped by the caller, or deleted. *)
LEMMA QueuedOrTaken ==
    ASSUME QueueInv, NEW t \in Threads, QueueStep(t), op[t] \notin Deleting
    PROVE  \A e : /\ Queued(e) => Queued(e)' \/ (op[t] \in Popping /\ held'[t] = e)
                  /\ Queued(e)' => Queued(e) \/ (op[t] = "push" /\ held[t] = e)
<1> USE DEF QueueInv, QueueTypeOK, Queued
<1>1. CASE UNCHANGED queue_
  BY <1>1
<1>2. CASE op[t] = "push" /\ held[t] \in Elements /\ queue_' = Append(queue_, held[t])
  <2>1. /\ DOMAIN queue_ = 1 .. Len(queue_) /\ Len(queue_) \in Nat
        /\ DOMAIN queue_' = 1 .. Len(queue_) + 1 /\ queue_'[Len(queue_) + 1] = held[t]
        /\ \A i \in DOMAIN queue_ : queue_'[i] = queue_[i]
    BY <1>2
  <2>. QED BY <1>2, <2>1
<1>3. CASE /\ op[t] \in Popping /\ queue_ # <<>> /\ queue_' = Tail(queue_)
           /\ held' = [held EXCEPT ![t] = queue_[1]]
  <2> DEFINE n == Len(queue_)
  <2>1. /\ n \in Nat /\ DOMAIN queue_ = 1 .. n /\ DOMAIN queue_' = 1 .. n - 1
        /\ \A i \in 1 .. n - 1 : queue_'[i] = queue_[i + 1]
    BY <1>3
  <2> HIDE DEF n
  <2>2. ASSUME NEW i \in 1 .. n
        PROVE  i = 1 \/ (i - 1 \in 1 .. n - 1 /\ queue_'[i - 1] = queue_[i])
    BY <2>1
  <2>3. ASSUME NEW i \in 1 .. n - 1
        PROVE  i + 1 \in 1 .. n /\ queue_'[i] = queue_[i + 1]
    BY <2>1
  <2>4. held'[t] = queue_[1]
    BY <1>3
  <2>5. ASSUME NEW e, Queued(e)
        PROVE  Queued(e)' \/ held'[t] = e
    BY <2>1, <2>2, <2>4, <2>5
  <2>6. ASSUME NEW e, Queued(e)'
        PROVE  Queued(e)
    BY <2>1, <2>3, <2>6
  <2>. QED BY <1>3, <2>5, <2>6
<1>. QED BY <1>1, <1>2, <1>3, PointersMove
=============================================================================

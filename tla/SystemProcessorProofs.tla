----------------------- MODULE SystemProcessorProofs -----------------------
(***************************************************************************)
(* The one instance and its two mutexes, for any number of threads that    *)
(* init(), share, stop, reset, wait for and drop it, and for signals       *)
(* whenever they come.                                                     *)
(***************************************************************************)
EXTENDS SystemProcessor, TLAPS

(* The last holder of the shared pointer.                                  *)
Destroying(t) == pc[t] = "destroying"

(* There is an instance as long as somebody holds a pointer to it, or      *)
(* dropped the last one and is about to destroy it.                        *)
PointerInv ==
    /\ OneInstance
    /\ instance_ <=> \/ sp # {}
                     \/ \E t \in Threads : Destroying(t)
    /\ \A t \in Threads : Destroying(t) =>
         sp = {} /\ \A u \in Threads : Destroying(u) => u = t

LEMMA InitPointer == Init => PointerInv
<1> SUFFICES ASSUME Init
             PROVE  PointerInv
  OBVIOUS
<1>1. budget \in [Threads -> 0 .. MaxBudget]
  BY SystemAssumption DEF Init
<1>2. TypeOK
  BY <1>1 DEF Init, TypeOK, PCs
<1>. QED BY <1>2 DEF Init, PointerInv, OneInstance, Destroying

(* The steps that leave the pointers alone.                                *)
LEMMA OthersKeepPointer ==
    ASSUME PointerInv, NEW t \in Threads,
           \/ Call(t) \/ Lock(t) \/ InsideStop(t) \/ InsideWait(t)
           \/ CallInstance(t) \/ Enter(t) \/ StopBody(t) \/ ResetBody(t) \/ WaitBody(t)
           \/ Spurious(t) \/ Signal(t) \/ HandlerLock(t) \/ HandlerStop(t)
    PROVE  PointerInv'
<1> USE SystemAssumption DEF Goto, Done, At, Spend, Interrupted, Released, object, locks
<1>1. UNCHANGED <<instance_, objects, properties_, handler, sp>>
  BY DEF Call, Lock, InsideStop, InsideWait, CallInstance, Enter, StopBody, ResetBody, WaitBody,
         Spurious, Signal, HandlerLock, HandlerStop
<1>2. TypeOK'
  <2> USE DEF PointerInv, OneInstance, TypeOK, PCs, Free, Members
  <2>1. CASE Call(t) \/ Spurious(t) \/ Signal(t)
    BY <2>1, <1>1 DEF Call, Spurious, Signal
  <2>2. CASE Lock(t) \/ InsideStop(t) \/ InsideWait(t) \/ CallInstance(t) \/ Enter(t)
    BY <2>2, <1>1 DEF Lock, InsideStop, InsideWait, CallInstance, Enter
  <2>3. CASE StopBody(t) \/ HandlerStop(t)
    <3>1. /\ stopping_' \in BOOLEAN /\ op' \in [Threads -> Free \cup {"none"}]
          /\ sig' \in [Threads -> {"out", "locking", "entering"}]
          /\ instance_protector_' \in Threads \cup {NULL}
          /\ stop_protector_' \in Threads \cup {NULL} /\ UNCHANGED budget
      BY <2>3 DEF StopBody, HandlerStop
    <3>2. pc' \in [Threads -> PCs]
      BY <2>3 DEF StopBody, HandlerStop
    <3>. QED BY <1>1, <3>1, <3>2
  <2>4. CASE ResetBody(t) \/ WaitBody(t) \/ HandlerLock(t)
    BY <2>4, <1>1 DEF ResetBody, WaitBody, HandlerLock
  <2>. QED BY <2>1, <2>2, <2>3, <2>4
<1>3. \A u \in Threads : pc'[u] = "destroying" <=> pc[u] = "destroying"
  <2> USE DEF PointerInv, OneInstance, TypeOK
  <2>1. CASE StopBody(t) \/ HandlerStop(t)
    <3>1. \A woken \in Notified : \A u \in woken : pc[u] = "asleep"
      BY DEF Notified, stop_waiter_
    <3>. QED BY <2>1, <3>1 DEF StopBody, HandlerStop
  <2>2. CASE ~(StopBody(t) \/ HandlerStop(t))
    BY <2>2 DEF Call, Lock, InsideStop, InsideWait, CallInstance, Enter, ResetBody, WaitBody,
         Spurious, Signal, HandlerLock
  <2>. QED BY <2>1, <2>2
<1>. QED BY <1>1, <1>2, <1>3 DEF PointerInv, OneInstance, Destroying

(* The steps that move a pointer, and a body that makes an instance.       *)
LEMMA PointersKeepPointer ==
    ASSUME PointerInv, NEW t \in Threads,
           Inside(t) \/ Share(t) \/ Drop(t) \/ Destroy(t)
    PROVE  PointerInv'
<1> USE SystemAssumption DEF Goto, Done, At, object, locks, PointerInv, OneInstance, Destroying
<1>1. TypeOK'
  <2> USE DEF TypeOK, PCs
  <2>1. CASE Inside(t)
    <3>1. /\ pc' \in [Threads -> PCs] /\ op' \in [Threads -> Free \cup {"none"}]
          /\ instance_protector_' = NULL /\ UNCHANGED <<stop_protector_, sig, budget>>
      BY <2>1 DEF Inside
    <3>2. objects' \in Nat /\ sp' \in SUBSET Threads
      BY <2>1 DEF Inside, Unlocks, InitBody, InstanceRead
    <3>3. /\ instance_' \in BOOLEAN /\ stopping_' \in BOOLEAN
          /\ properties_' \in BOOLEAN /\ handler' \in BOOLEAN
      <4>1. CASE UNCHANGED <<object, stopping_>>
        BY <4>1
      <4>2. CASE instance_' = TRUE /\ Constructed
        BY <4>2, Zenon DEF Constructed
      <4>. QED BY <2>1, <4>1, <4>2 DEF Inside, Unlocks, InitBody, InstanceRead
    <3>. QED BY <3>1, <3>2, <3>3
  <2>2. CASE Share(t) \/ Drop(t)
    BY <2>2 DEF Share, Drop
  <2>3. CASE Destroy(t)
    <3>1. objects' = 0
      BY <2>3 DEF Destroy
    <3>2. pc' \in [Threads -> PCs]
      BY <2>3 DEF Destroy
    <3>3. /\ instance_' = FALSE
          /\ UNCHANGED <<properties_, handler, locks, stopping_, sp, op, sig, budget>>
      BY <2>3 DEF Destroy
    <3>. QED BY <3>1, <3>2, <3>3
  <2>. QED BY <2>1, <2>2, <2>3
<1> USE DEF TypeOK
<1>2. CASE Inside(t)
  <2>1. \A u \in Threads : pc'[u] = "destroying" <=> pc[u] = "destroying"
    BY <1>2 DEF Inside
  <2>2. CASE UNCHANGED <<instance_, objects, sp>>
    BY <1>1, <2>1, <2>2
  <2>3. CASE ~instance_ /\ instance_' = TRUE /\ objects' = objects + 1 /\ sp' = sp \cup {t}
    BY <1>1, <2>1, <2>3
  <2>. QED BY <1>2, <2>2, <2>3 DEF Inside, Unlocks, InitBody, InstanceRead
<1>3. CASE Share(t)
  BY <1>1, <1>3 DEF Share
<1>4. CASE Drop(t)
  BY <1>1, <1>4 DEF Drop
<1>5. CASE Destroy(t)
  BY <1>1, <1>5 DEF Destroy
<1>. QED BY <1>2, <1>3, <1>4, <1>5

LEMMA PointerSafe == Spec => []PointerInv
<1>1. PointerInv /\ [Next]_vars => PointerInv'
  <2> SUFFICES ASSUME PointerInv, [Next]_vars
               PROVE  PointerInv'
    OBVIOUS
  <2>1. CASE Next
    BY <2>1, OthersKeepPointer, PointersKeepPointer DEF Next, Step
  <2>2. CASE UNCHANGED vars
    BY <2>2 DEF vars, object, locks, PointerInv, OneInstance, TypeOK, Destroying
  <2>. QED BY <2>1, <2>2
<1>. QED BY <1>1, InitPointer, PTL DEF Spec

(* There is never a second instance, nor a static pointer to one that is   *)
(* gone, whatever the threads call and the handler interrupts: init() and  *)
(* the destructor look at the pointer under instance_protector_            *)
(* (system_processor.cpp:127-131, 231-235).                                *)
THEOREM NoSecondInstance == Spec => []OneInstance
<1>1. PointerInv => OneInstance
  BY DEF PointerInv
<1>. QED BY <1>1, PointerSafe, PTL

-----------------------------------------------------------------------------
(* Where a thread holds instance_protector_: a free function keeps it      *)
(* while it is in the instance, and so does the handler.                   *)
HoldsInstance(t) ==
    \/ pc[t] = "inside"
    \/ pc[t] \in {"entering", "working"} /\ op[t] \in {"stop", "reset"}
    \/ sig[t] = "entering"

(* Who is in the instance holds its pointer, or instance_protector_ while  *)
(* the static pointer is set (system_processor.cpp:230-271); the two       *)
(* mutexes are held by those the code says, also across the signal         *)
(* handler.                                                                *)
LockInv ==
    /\ \A t \in Threads : pc[t] = "inside" \/ sig[t] = "entering" => instance_protector_ = t
    /\ \A t \in Threads : instance_protector_ = t => HoldsInstance(t)
    /\ \A t \in Threads : pc[t] = "working" <=> stop_protector_ = t
    /\ \A t \in Threads : sig[t] = "entering" =>
         instance_ /\ pc[t] # "inside" /\ (pc[t] \in InObject => t \in sp)
    /\ \A t \in Threads : pc[t] \in InObject =>
         \/ t \in sp
         \/ instance_ /\ instance_protector_ = t /\ op[t] \in {"stop", "reset"}
    /\ \A t \in Threads : (op[t] = "wait_for_stop" /\ pc[t] # "idle") => t \in sp
    /\ \A t \in Threads : pc[t] \in {"calling", "asleep", "woken"} => op[t] = "wait_for_stop"
    /\ \A t \in Threads : pc[t] \in {"idle", "destroying"} => op[t] = "none"

LEMMA InitLock == Init => LockInv
BY SystemAssumption DEF Init, LockInv, InObject

(* A thread that got into the instance stays in it, or leaves all of it.   *)
LEMMA CallsKeepLock ==
    ASSUME WaitersHold, PointerInv, LockInv, NEW t \in Threads,
           Call(t) \/ Lock(t) \/ Inside(t) \/ InsideStop(t) \/ InsideWait(t) \/ CallInstance(t)
    PROVE  LockInv'
<1> USE SystemAssumption DEF Goto, Done, At, Spend, object, locks, PointerInv, OneInstance, TypeOK,
        LockInv, HoldsInstance, InObject
<1>1. CASE Call(t)
  BY <1>1 DEF Call, Members, Free
<1>2. CASE Lock(t)
  BY <1>2 DEF Lock
<1>3. CASE Inside(t)
  BY <1>3 DEF Inside, Unlocks, InitBody, InstanceRead
<1>4. CASE InsideStop(t)
  BY <1>4 DEF InsideStop
<1>5. CASE InsideWait(t)
  BY <1>5 DEF InsideWait
<1>6. CASE CallInstance(t)
  BY <1>6 DEF CallInstance
<1>. QED BY <1>1, <1>2, <1>3, <1>4, <1>5, <1>6

(* What threads do in the instance, and beside it.                         *)
LEMMA WorkKeepsLock ==
    ASSUME WaitersHold, PointerInv, LockInv, NEW t \in Threads,
           \/ Enter(t) \/ StopBody(t) \/ ResetBody(t) \/ WaitBody(t) \/ Spurious(t)
           \/ Share(t) \/ Drop(t) \/ Destroy(t)
    PROVE  LockInv'
<1> USE SystemAssumption DEF Goto, Done, At, Spend, object, locks, PointerInv, OneInstance, TypeOK,
        LockInv, HoldsInstance, InObject
<1>1. CASE Enter(t)
  BY <1>1 DEF Enter
<1>2. CASE StopBody(t)
  <2>1. PICK woken \in Notified :
           pc' = [s \in Threads |-> IF s = t THEN "idle"
                                    ELSE IF s \in woken THEN "woken" ELSE pc[s]]
    BY <1>2 DEF StopBody
  <2>2. \A s \in Threads : IF s = t THEN pc'[s] = "idle"
                           ELSE IF pc[s] = "asleep" THEN pc'[s] = "woken" ELSE pc'[s] = pc[s]
    BY <2>1 DEF Notified, stop_waiter_
  <2>3. /\ pc[t] = "working" /\ op[t] = "stop" /\ sig[t] = "out"
        /\ op' = [op EXCEPT ![t] = "none"] /\ Released(t)
        /\ UNCHANGED <<object, sp, sig, budget>>
    BY <1>2 DEF StopBody
  <2>. QED BY <2>2, <2>3 DEF Released
<1>3. CASE ResetBody(t)
  BY <1>3 DEF ResetBody, Released
<1>4. CASE WaitBody(t)
  BY <1>4 DEF WaitBody
<1>5. CASE Spurious(t)
  BY <1>5 DEF Spurious
<1>6. CASE Share(t)
  BY <1>6 DEF Share
<1>7. CASE Drop(t)
  BY <1>7 DEF Drop
<1>8. CASE Destroy(t)
  BY <1>8 DEF Destroy, Destroying
<1>. QED BY <1>1, <1>2, <1>3, <1>4, <1>5, <1>6, <1>7, <1>8

(* The handler takes instance_protector_ when the thread under it has not. *)
LEMMA HandlerKeepsLock ==
    ASSUME PointerInv, LockInv, NEW t \in Threads,
           Signal(t) \/ HandlerLock(t) \/ HandlerStop(t)
    PROVE  LockInv'
<1> USE SystemAssumption DEF Spend, Interrupted, object, locks, PointerInv, OneInstance, TypeOK,
        LockInv, HoldsInstance, InObject
<1>1. CASE Signal(t)
  BY <1>1 DEF Signal
<1>2. CASE HandlerLock(t)
  BY <1>2 DEF HandlerLock
<1>3. CASE HandlerStop(t)
  <2>1. PICK woken \in Notified :
           pc' = [s \in Threads |-> IF s \in woken THEN "woken" ELSE pc[s]]
    BY <1>3 DEF HandlerStop
  <2>2. \A s \in Threads : IF pc[s] = "asleep" THEN pc'[s] = "woken" ELSE pc'[s] = pc[s]
    BY <2>1 DEF Notified, stop_waiter_
  <2>3. /\ sig[t] = "entering" /\ sig' = [sig EXCEPT ![t] = "out"]
        /\ instance_protector_' = NULL
        /\ UNCHANGED <<object, stop_protector_, sp, op, budget>>
    BY <1>3 DEF HandlerStop
  <2>. QED BY <2>2, <2>3
<1>. QED BY <1>1, <1>2, <1>3

LEMMA LockSafe == ASSUME WaitersHold PROVE Spec => [](PointerInv /\ LockInv)
<1>1. PointerInv /\ LockInv /\ [Next]_vars => LockInv'
  <2> SUFFICES ASSUME PointerInv, LockInv, [Next]_vars
               PROVE  LockInv'
    OBVIOUS
  <2>1. CASE Next
    BY <2>1, CallsKeepLock, WorkKeepsLock, HandlerKeepsLock DEF Next, Step
  <2>2. CASE UNCHANGED vars
    BY <2>2 DEF vars, object, locks, LockInv, HoldsInstance
  <2>. QED BY <2>1, <2>2
<1>. QED BY <1>1, InitLock, PointerSafe, PTL DEF Spec

(* Nobody is in an instance that was destroyed, and its mutexes with it:   *)
(* free functions hold instance_protector_, which ~sp_impl() takes, and    *)
(* the others a pointer (system_processor.cpp:127-131, 245-271).           *)
THEOREM NobodyInDead == WaitersHold => (Spec => []NobodyInDeadInstance)
<1> SUFFICES ASSUME WaitersHold
             PROVE  Spec => []NobodyInDeadInstance
  OBVIOUS
<1>1. PointerInv /\ LockInv => NobodyInDeadInstance
  BY DEF PointerInv, LockInv, NobodyInDeadInstance
<1>2. Spec => [](PointerInv /\ LockInv)
  BY LockSafe
<1>. QED BY <1>1, <1>2, PTL

(* No call leaves a mutex behind, whether it returned or threw, where      *)
(* wait_for_stop() is called by holders of a pointer only.                 *)
THEOREM AllReleased == WaitersHold => (Spec => []LocksReleased)
<1> SUFFICES ASSUME WaitersHold
             PROVE  Spec => []LocksReleased
  OBVIOUS
<1>1. PointerInv /\ LockInv => LocksReleased
  BY DEF LockInv, HoldsInstance, LocksReleased
<1>2. Spec => [](PointerInv /\ LockInv)
  BY LockSafe
<1>. QED BY <1>1, <1>2, PTL
=============================================================================

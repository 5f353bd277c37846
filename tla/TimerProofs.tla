---------------------------- MODULE TimerProofs ----------------------------
(***************************************************************************)
(* What ends a timer that is begun once, for any number of callers that    *)
(* end it.                                                                 *)
(***************************************************************************)
EXTENDS Timer, TLAPS

(* A second begin() may leave an earlier thread behind: the timer has one  *)
(* flag, one condition that notify_one() is called on and one thread it    *)
(* joins.                                                                  *)
BegunOnce == \A r, s \in Runners : r = s

(* Where the timer thread holds the recursive mutex.                       *)
WithMutex == {"calling", "inside", "ending", "after", "parking", "last"}

(* The owner of the recursive mutex is the timer thread in its locked      *)
(* section.                                                                *)
MutexHeld == \A r \in Runners : rpc[r] \in WithMutex <=> should_stop_protector_ = r

(* The thread itself is in end() only from inside the method.              *)
EndsInMethod == \A r \in Runners : epc[r] # "out" => rpc[r] = "ending"

NotBegun == \A r \in Runners : rpc[r] = "none"

(* No end() gets past its test before there is a thread to end, and none   *)
(* begins while begin() is under way.                                      *)
BeforeBegin ==
    /\ NotBegun => /\ ~should_stop_ /\ ~ended
                   /\ started_ => bpc \in {"started", "reset"}
                   /\ \A x \in Users : epc[x] \in {"out", "testing"}
    /\ bpc \in {"started", "reset"} =>
         NotBegun /\ \A x \in Users : epc[x] = "out"

(* The flag stays set from the first end() on.                             *)
StaysTold ==
    /\ ended => should_stop_
    /\ \A x \in Users : epc[x] \in {"notifying", "clearing"} => should_stop_

(* EndNotMissed for a thread that is about to sleep too: it read the flag  *)
(* and keeps the mutex until it sleeps, so that the notification of an     *)
(* end() that set the flag in between is still to come.                    *)
StillToHear ==
    \A r \in Runners : (rpc[r] \in {"parking", "asleep"} /\ should_stop_) =>
        \E x \in Users : epc[x] = "notifying"

(* After the one late call the thread finds the flag set at each test.     *)
LastCall == late # 0 => /\ late = 1 /\ ended
                        /\ \A r \in Runners : rpc[r] \notin {"lock", "calling"}

(* The inductive invariant, for a timer that is begun once.                *)
TimerInv == /\ TypeOK /\ MutexHeld /\ EndsInMethod /\ BeforeBegin /\ StaysTold
            /\ StillToHear /\ LastCall

LEMMA InitTimer == Init => TimerInv
<1> SUFFICES ASSUME Init
             PROVE  TimerInv
  OBVIOUS
<1>1. uses \in [Callers -> 0 .. MaxUses] /\ late \in 0 .. LateBound
  BY TimerAssumption DEF Init, LateBound
<1>2. TypeOK
  BY <1>1 DEF Init, TypeOK, RunnerPCs, OwnerPCs, EndPCs, Users
<1>3. MutexHeld /\ EndsInMethod /\ BeforeBegin /\ StaysTold
  BY TimerAssumption DEF Init, MutexHeld, EndsInMethod, BeforeBegin, StaysTold, WithMutex, Users
<1>4. StillToHear /\ LastCall
  BY DEF Init, StillToHear, LastCall
<1>. QED BY <1>2, <1>3, <1>4 DEF TimerInv

(* The steps of the timer thread.                                          *)
LEMMA RunKeepsTimer ==
    ASSUME BegunOnce, TimerInv, NEW r \in Runners, Run(r) \/ Timeout(r) \/ EndInside(r)
    PROVE  TimerInv'
<1> USE TimerAssumption DEF TimerInv, Users, locks, flags, hist, To, At
<1>1. TypeOK'
  <2> USE DEF TypeOK, RunnerPCs
  <2>1. CASE TestTop(r) \/ Lock(r) \/ TestAfter(r) \/ TimedWait(r) \/ TestLast(r) \/ Timeout(r)
    BY <2>1 DEF TestTop, Lock, TestAfter, TimedWait, TestLast, Timeout
  <2>2. CASE CallMethod(r) \/ MethodEnds(r)
    BY <2>2 DEF CallMethod, MethodEnds, LateBound
  <2>3. CASE EndInside(r)
    BY <2>3 DEF EndInside, InEnd, EndPCs
  <2>. QED BY <2>1, <2>2, <2>3 DEF Run
<1> USE DEF TypeOK
<1>2. MutexHeld' /\ EndsInMethod'
  <2> USE DEF MutexHeld, EndsInMethod, WithMutex
  <2>1. CASE TestTop(r) \/ Lock(r) \/ CallMethod(r) \/ MethodEnds(r)
    BY <2>1 DEF TestTop, Lock, CallMethod, MethodEnds
  <2>2. CASE TestAfter(r) \/ TimedWait(r) \/ TestLast(r) \/ Timeout(r)
    BY <2>2 DEF TestAfter, TimedWait, TestLast, Timeout
  <2>3. CASE EndInside(r)
    BY <2>3 DEF EndInside, InEnd
  <2>. QED BY <2>1, <2>2, <2>3 DEF Run
<1>3. BeforeBegin' /\ StaysTold'
  <2>1. rpc[r] # "none" /\ rpc'[r] # "none" /\ UNCHANGED <<flags, bpc, ended>>
    BY DEF Run, TestTop, Lock, CallMethod, MethodEnds, TestAfter, TimedWait, TestLast,
           Timeout, EndInside
  <2>2. \A x \in Users : epc'[x] = epc[x] \/ epc'[x] = "testing"
    BY DEF Run, TestTop, Lock, CallMethod, MethodEnds, TestAfter, TimedWait, TestLast,
           Timeout, EndInside, InEnd
  <2>. QED BY <2>1, <2>2 DEF BeforeBegin, NotBegun, StaysTold
<1>4. StillToHear'
  <2> USE DEF StillToHear
  <2>1. CASE EndInside(r)
    BY <2>1 DEF EndInside, InEnd, EndsInMethod
  <2>2. CASE ~EndInside(r)
    <3>1. UNCHANGED <<epc, should_stop_>>
      BY <2>2 DEF Run, TestTop, Lock, CallMethod, MethodEnds, TestAfter, TimedWait, TestLast, Timeout
    <3>2. \A s \in Runners : rpc'[s] \in {"parking", "asleep"} =>
             rpc[s] \in {"parking", "asleep"} \/ ~should_stop_
      BY <2>2 DEF Run, TestTop, Lock, CallMethod, MethodEnds, TestAfter, TimedWait, TestLast, Timeout
    <3>. QED BY <3>1, <3>2
  <2>. QED BY <2>1, <2>2
<1>5. LastCall'
  <2> USE DEF LastCall, StaysTold
  <2>1. CASE TestTop(r) \/ Lock(r) \/ MethodEnds(r) \/ TestAfter(r) \/ TimedWait(r)
             \/ TestLast(r) \/ Timeout(r) \/ EndInside(r)
    BY <2>1 DEF TestTop, Lock, MethodEnds, TestAfter, TimedWait, TestLast, Timeout, EndInside
  <2>2. CASE CallMethod(r)
    BY <2>2 DEF CallMethod, LateBound, BegunOnce
  <2>. QED BY <2>1, <2>2 DEF Run
<1>. QED BY <1>1, <1>2, <1>3, <1>4, <1>5

(* The steps of end(), by whomever.  A notification finds the one thread   *)
(* asleep, or not yet in the timed wait: then the mutex is not free for it.*)
LEMMA EndKeepsTimer ==
    ASSUME BegunOnce, TimerInv, NEW x \in Users, End(x)
    PROVE  TimerInv'
<1> USE TimerAssumption DEF TimerInv, Users, locks, flags, hist, InEnd
<1>1. CASE EndTest(x)
  <2>1. TypeOK'
    BY <1>1 DEF EndTest, TypeOK, EndPCs
  <2>2. MutexHeld' /\ EndsInMethod' /\ StaysTold' /\ StillToHear' /\ LastCall'
    BY <1>1 DEF EndTest, TypeOK, MutexHeld, EndsInMethod, StaysTold, StillToHear, LastCall
  <2>3. BeforeBegin'
    BY <1>1 DEF EndTest, TypeOK, BeforeBegin, NotBegun
  <2>. QED BY <2>1, <2>2, <2>3
<1>2. CASE EndSet(x)
  <2>1. TypeOK'
    BY <1>2 DEF EndSet, TypeOK, EndPCs
  <2>2. ~NotBegun
    BY <1>2 DEF EndSet, BeforeBegin
  <2>3. MutexHeld' /\ EndsInMethod' /\ LastCall' /\ BeforeBegin'
    BY <1>2, <2>2 DEF EndSet, TypeOK, MutexHeld, EndsInMethod, LastCall, BeforeBegin, NotBegun
  <2>4. StaysTold' /\ StillToHear'
    BY <1>2 DEF EndSet, TypeOK, StaysTold, StillToHear
  <2>. QED BY <2>1, <2>3, <2>4
<1>3. CASE EndNotify(x)
  <2>1. PICK woken \in Notified :
            rpc' = [r \in Runners |-> IF r \in woken THEN "woken" ELSE rpc[r]]
    BY <1>3 DEF EndNotify
  <2>2. \A r \in Runners : IF rpc[r] = "asleep" THEN rpc'[r] = "woken" ELSE rpc'[r] = rpc[r]
    BY <2>1 DEF Notified, for_stop_, BegunOnce
  <2>3. /\ epc' = [epc EXCEPT ![x] = "clearing"] /\ epc[x] = "notifying"
        /\ UNCHANGED <<locks, flags, bpc, hist>>
    BY <1>3 DEF EndNotify
  <2>4. TypeOK'
    BY <2>1, <2>3 DEF TypeOK, EndPCs, RunnerPCs
  <2>5. MutexHeld' /\ EndsInMethod' /\ LastCall'
    BY <2>2, <2>3 DEF TypeOK, MutexHeld, WithMutex, EndsInMethod, LastCall
  <2>6. BeforeBegin' /\ StaysTold'
    BY <2>2, <2>3 DEF TypeOK, BeforeBegin, NotBegun, StaysTold
  <2>7. StillToHear'
    BY <1>3, <2>2, <2>3 DEF EndNotify, StillToHear, MutexHeld, WithMutex, EndsInMethod
  <2>. QED BY <2>4, <2>5, <2>6, <2>7
<1>4. CASE EndClear(x)
  <2>1. TypeOK'
    BY <1>4 DEF EndClear, TypeOK, EndPCs
  <2>2. MutexHeld' /\ EndsInMethod' /\ StaysTold' /\ StillToHear' /\ LastCall'
    BY <1>4 DEF EndClear, TypeOK, MutexHeld, EndsInMethod, StaysTold, StillToHear, LastCall
  <2>3. BeforeBegin'
    BY <1>4 DEF EndClear, TypeOK, BeforeBegin, NotBegun
  <2>. QED BY <2>1, <2>2, <2>3
<1>. QED BY <1>1, <1>2, <1>3, <1>4 DEF End

(* What the callers and the owner do.  Only begin() touches what the       *)
(* threads and the flags are: the others move nothing but uses,            *)
(* user_mutex, bpc and where a caller is in end().                         *)
LEMMA UsersKeepTimer ==
    ASSUME TimerInv, NEW c \in Callers,
           CallEnd(c) \/ TakeMutex(c) \/ Unlock(c) \/ Destroy \/ Ended \/ Join
    PROVE  TimerInv'
<1> USE TimerAssumption DEF TimerInv, Users, locks, flags, hist, InEnd
<1>1. TypeOK'
  <2>1. CASE CallEnd(c) \/ TakeMutex(c)
    BY <2>1 DEF CallEnd, TakeMutex, TypeOK, EndPCs
  <2>2. CASE Unlock(c) \/ Destroy \/ Ended \/ Join
    BY <2>2 DEF Unlock, Destroy, Ended, Join, TypeOK, EndPCs, OwnerPCs
  <2>. QED BY <2>1, <2>2
<1>2. /\ UNCHANGED <<started_, should_stop_, should_stop_protector_, thread_for_run_,
                     rpc, ended, late>>
      /\ \A x \in Users : \/ epc'[x] = epc[x]
                          \/ /\ x \in Callers /\ epc[x] = "out" /\ epc'[x] = "testing"
                             /\ bpc = "out"
  BY DEF CallEnd, TakeMutex, Unlock, Destroy, Ended, Join, TypeOK, CallerOut
<1>3. MutexHeld' /\ EndsInMethod' /\ StaysTold' /\ StillToHear' /\ LastCall'
  BY <1>2 DEF MutexHeld, EndsInMethod, StaysTold, StillToHear, LastCall
<1>4. /\ bpc' \in {"started", "reset"} => UNCHANGED bpc
      /\ bpc \in {"started", "reset"} => UNCHANGED bpc
  BY DEF CallEnd, TakeMutex, Unlock, Destroy, Ended, Join, CallerOut
<1>5. BeforeBegin'
  BY <1>2, <1>4 DEF BeforeBegin, NotBegun
<1>. QED BY <1>1, <1>3, <1>5

(* The steps of begin(): it is called when nobody is in end() and leaves   *)
(* a thread that has been told nothing.                                    *)
LEMMA BeginKeepsTimer ==
    ASSUME BegunOnce, TimerInv, Begin \/ BeginReset \/ BeginThread
    PROVE  TimerInv'
<1> USE TimerAssumption DEF TimerInv, Users, locks, flags, hist
<1>1. CASE Begin
  <2>1. NotBegun
    BY <1>1 DEF Begin, BegunOnce, NotBegun
  <2>2. \A x \in Users : epc[x] = "out"
    BY <1>1, <2>1 DEF Begin, CallerOut, EndsInMethod, NotBegun
  <2>3. TypeOK' /\ MutexHeld' /\ EndsInMethod' /\ StaysTold' /\ StillToHear' /\ LastCall'
    BY <1>1 DEF Begin, TypeOK, OwnerPCs, MutexHeld, EndsInMethod, StaysTold, StillToHear, LastCall
  <2>4. BeforeBegin'
    BY <1>1, <2>1, <2>2 DEF Begin, BeforeBegin, NotBegun
  <2>. QED BY <2>3, <2>4
<1>2. CASE BeginReset
  <2>1. TypeOK' /\ MutexHeld' /\ EndsInMethod'
    BY <1>2 DEF BeginReset, TypeOK, OwnerPCs, MutexHeld, EndsInMethod
  <2>2. StaysTold' /\ StillToHear' /\ LastCall' /\ BeforeBegin'
    BY <1>2 DEF BeginReset, BeforeBegin, NotBegun, StaysTold, StillToHear, LastCall
  <2>. QED BY <2>1, <2>2
<1>3. CASE BeginThread
  <2>1. PICK r \in Runners : rpc[r] = "none" /\ To(r, "test") /\ thread_for_run_' = r
    BY <1>3 DEF BeginThread
  <2>2. NotBegun /\ \A x \in Users : epc[x] = "out"
    BY <1>3 DEF BeginThread, BeforeBegin
  <2>3. ~should_stop_ /\ \A s \in Runners : s = r
    BY <2>2 DEF BegunOnce, BeforeBegin
  <2>4. /\ late' = 0 /\ ended' = FALSE /\ bpc' = "out"
        /\ UNCHANGED <<locks, started_, should_stop_, epc, uses>>
    BY <1>3 DEF BeginThread
  <2>5. rpc' = [rpc EXCEPT ![r] = "test"]
    BY <2>1 DEF To
  <2>6. TypeOK'
    <3>1. rpc' \in [Runners -> RunnerPCs] /\ late' \in 0 .. LateBound
      BY <2>4, <2>5 DEF TypeOK, RunnerPCs, LateBound
    <3>2. thread_for_run_' \in Runners \cup {NULL} /\ bpc' \in OwnerPCs
      BY <2>1, <2>4 DEF OwnerPCs
    <3>. QED BY <2>4, <3>1, <3>2 DEF TypeOK
  <2>7. MutexHeld' /\ EndsInMethod' /\ StaysTold' /\ StillToHear' /\ LastCall'
    BY <2>1, <2>2, <2>3, <2>4, <2>5 DEF TypeOK, MutexHeld, WithMutex, EndsInMethod, StaysTold,
       StillToHear, LastCall
  <2>8. BeforeBegin'
    BY <2>1, <2>2, <2>3, <2>4, <2>5 DEF TypeOK, BeforeBegin, NotBegun
  <2>. QED BY <2>6, <2>7, <2>8
<1>. QED BY <1>1, <1>2, <1>3

LEMMA TimerSafe == ASSUME BegunOnce PROVE Spec => []TimerInv
<1>1. TimerInv /\ [Next]_vars => TimerInv'
  <2> SUFFICES ASSUME TimerInv, [Next]_vars
               PROVE  TimerInv'
    OBVIOUS
  <2>1. ASSUME NEW r \in Runners, Run(r) \/ Timeout(r) \/ EndInside(r)
        PROVE  TimerInv'
    BY <2>1, RunKeepsTimer
  <2>2. ASSUME NEW x \in Users, End(x)
        PROVE  TimerInv'
    BY <2>2, EndKeepsTimer
  <2>3. ASSUME NEW c \in Callers, CallEnd(c) \/ TakeMutex(c) \/ Unlock(c)
        PROVE  TimerInv'
    BY <2>3, UsersKeepTimer
  <2>4. CASE Destroy \/ Ended \/ Join
    BY <2>4, UsersKeepTimer, TimerAssumption
  <2>5. CASE Begin \/ BeginReset \/ BeginThread
    BY <2>5, BeginKeepsTimer
  <2>6. CASE UNCHANGED vars
    BY <2>6 DEF vars, locks, flags, hist, TimerInv, TypeOK, MutexHeld, EndsInMethod, BeforeBegin,
                NotBegun, StaysTold, StillToHear, LastCall
  <2>. QED BY <2>1, <2>2, <2>3, <2>4, <2>5, <2>6 DEF Next, OwnerStep, Terminated
<1>. QED BY <1>1, InitTimer, PTL DEF Spec

(* A timer begun once never sleeps through its end(): the flag is set and  *)
(* tested without the mutex, but the thread keeps the mutex from the test  *)
(* to the timed wait and end() takes it to notify (timer.cpp:31-35, 62).   *)
THEOREM EndHeard == BegunOnce => (Spec => []EndNotMissed)
<1> SUFFICES ASSUME BegunOnce
             PROVE  Spec => []EndNotMissed
  OBVIOUS
<1>1. TimerInv => EndNotMissed
  BY DEF TimerInv, StillToHear, EndNotMissed
<1>2. Spec => []TimerInv
  BY TimerSafe
<1>. QED BY <1>1, <1>2, PTL

(* At most one method call begins once an end() has returned, however many *)
(* threads called end() and whether the method did (timer.cpp:58-69).      *)
THEOREM OneCallAfterEnd == BegunOnce => (Spec => []OneLateCall)
<1> SUFFICES ASSUME BegunOnce
             PROVE  Spec => []OneLateCall
  OBVIOUS
<1>1. TimerInv => OneLateCall
  BY DEF TimerInv, TypeOK, LateBound, LastCall, OneLateCall
<1>2. Spec => []TimerInv
  BY TimerSafe
<1>. QED BY <1>1, <1>2, PTL
=============================================================================

------------------------------- MODULE Timer -------------------------------
(***************************************************************************)
(* timer_prototype (src/sources/timer/timer.cpp, and its twin for member   *)
(* functions in timer.h): a thread that calls a method over and over with  *)
(* a timed wait in between, and callers that begin and end it.  The method *)
(* is the user's: here it takes a mutex of the user, may call end() and    *)
(* may throw, as the methods of timer_test.cpp do.                         *)
(*                                                                         *)
(* The recursive mutex is held by a timer thread from line 60 to the timed *)
(* wait and again after it.  end() takes it only to notify, which is one   *)
(* step, and may do so on the timer thread that holds it already.          *)
(***************************************************************************)
EXTENDS Naturals, FiniteSets

CONSTANTS Callers,       \* threads that use the timer
          Owner,         \* the caller that begins and destroys it
          Runners,       \* timer threads begin() may create, one per call
          NULL,
          EndsInside,    \* may the method call end()?
          MaxUses        \* bound: what each caller does, an end() or a lock

ASSUME TimerAssumption == /\ Owner \in Callers
                          /\ Callers \cap Runners = {}
                          /\ NULL \notin Callers \cup Runners
                          /\ EndsInside \in BOOLEAN
                          /\ MaxUses \in Nat

VARIABLES started_, should_stop_,
          should_stop_protector_,   \* the timer thread that holds it, or NULL
          thread_for_run_,          \* the last thread begun, or NULL
          user_mutex,               \* who holds the mutex the method takes
          rpc,                      \* where each timer thread is
          bpc,                      \* where the owner is in begin() or ~timer
          epc,                      \* where each thread is in end()
          uses,                     \* uses left to each caller
          ended,                    \* history: an end() returned since begin()
          late                      \* history: method calls begun after that
locks == <<should_stop_protector_, user_mutex>>
flags == <<started_, should_stop_, thread_for_run_>>
hist  == <<uses, ended, late>>
vars  == <<locks, flags, rpc, bpc, epc, hist>>

Users == Callers \cup Runners

LateBound == 2         \* stands for two or more

RunnerPCs == {"none", "test", "lock", "calling", "inside", "ending",
              "after", "parking", "asleep", "woken", "last", "gone"}
OwnerPCs  == {"out", "started", "reset", "destroying", "joining", "destroyed"}
EndPCs    == {"out", "testing", "setting", "notifying", "clearing"}

Init == /\ started_ = FALSE /\ should_stop_ = FALSE
        /\ should_stop_protector_ = NULL /\ user_mutex = NULL
        /\ thread_for_run_ = NULL
        /\ rpc = [r \in Runners |-> "none"]
        /\ bpc = "out"
        /\ epc = [x \in Users |-> "out"]
        /\ uses = [c \in Callers |-> MaxUses]
        /\ ended = FALSE /\ late = 0

-----------------------------------------------------------------------------
(* processing_(), the timer thread r.                                      *)
At(r, p) == rpc[r] = p /\ epc[r] = "out"
To(r, p) == rpc' = [rpc EXCEPT ![r] = p]

(* The flag is tested without the mutex, then the mutex is taken.          *)
TestTop(r) ==
    /\ At(r, "test")
    /\ To(r, IF should_stop_ THEN "gone" ELSE "lock")
    /\ UNCHANGED <<locks, flags, bpc, epc, hist>>

Lock(r) ==
    /\ rpc[r] \in {"lock", "woken"} /\ should_stop_protector_ = NULL
    /\ should_stop_protector_' = r
    /\ To(r, IF rpc[r] = "lock" THEN "calling" ELSE "last")
    /\ UNCHANGED <<user_mutex, flags, bpc, epc, hist>>

CallMethod(r) ==
    /\ At(r, "calling") /\ user_mutex = NULL
    /\ user_mutex' = r
    /\ To(r, "inside")
    /\ late' = IF ended /\ late < LateBound THEN late + 1 ELSE late
    /\ UNCHANGED <<should_stop_protector_, flags, bpc, epc, uses, ended>>

(* The method ends after its own end() or without one.  An exception       *)
(* leaves the loop and releases both mutexes.                              *)
MethodEnds(r) ==
    /\ At(r, "inside") \/ At(r, "ending")
    /\ user_mutex' = NULL
    /\ \/ To(r, "after") /\ UNCHANGED should_stop_protector_
       \/ To(r, "gone") /\ should_stop_protector_' = NULL
    /\ UNCHANGED <<flags, bpc, epc, hist>>

UntestedAfter(r) ==                          \* mutant: no test before the sleep
    /\ At(r, "after")
    /\ To(r, "parking")
    /\ UNCHANGED <<locks, flags, bpc, epc, hist>>

(* The flag is tested again and, some time later, the timed wait releases  *)
(* the mutex.  It ends by notification or by its timeout, and the flag is  *)
(* tested a third time under the mutex.                                    *)
TestAfter(r) ==
    /\ At(r, "after")
    /\ \/ /\ should_stop_
          /\ To(r, "gone") /\ should_stop_protector_' = NULL
       \/ /\ ~should_stop_
          /\ To(r, "parking") /\ UNCHANGED should_stop_protector_
    /\ UNCHANGED <<user_mutex, flags, bpc, epc, hist>>

TimedWait(r) ==
    /\ At(r, "parking")
    /\ To(r, "asleep")
    /\ should_stop_protector_' = NULL
    /\ UNCHANGED <<user_mutex, flags, bpc, epc, hist>>

Timeout(r) ==
    /\ At(r, "asleep")
    /\ To(r, "woken")
    /\ UNCHANGED <<locks, flags, bpc, epc, hist>>

TestLast(r) ==
    /\ At(r, "last")
    /\ should_stop_protector_' = NULL
    /\ To(r, IF should_stop_ THEN "gone" ELSE "test")
    /\ UNCHANGED <<user_mutex, flags, bpc, epc, hist>>

Run(r) == \/ TestTop(r) \/ Lock(r) \/ CallMethod(r) \/ MethodEnds(r)
          \/ TestAfter(r) \/ TimedWait(r) \/ TestLast(r)

-----------------------------------------------------------------------------
(* end(), called by x: a caller, the destructor, or the method itself.     *)
InEnd(x, p) == epc' = [epc EXCEPT ![x] = p]

(* The two flags are read without the mutex.                               *)
EndTest(x) ==
    /\ epc[x] = "testing"
    /\ InEnd(x, IF ~started_ \/ should_stop_ THEN "out" ELSE "setting")
    /\ UNCHANGED <<locks, flags, rpc, bpc, hist>>

EndUnset(x) ==                               \* mutant: the flag is not set
    /\ epc[x] = "setting"
    /\ InEnd(x, "notifying")
    /\ UNCHANGED <<locks, flags, rpc, bpc, hist>>

EndSet(x) ==
    /\ epc[x] = "setting"
    /\ should_stop_' = TRUE
    /\ InEnd(x, "notifying")
    /\ UNCHANGED <<locks, started_, thread_for_run_, rpc, bpc, hist>>

for_stop_ == {r \in Runners : rpc[r] = "asleep"}
NotifiedNobody == {{}}                       \* mutant: no notify_one
Notified == IF for_stop_ = {} THEN {{}} ELSE {{r} : r \in for_stop_}

EndNotify(x) ==
    /\ epc[x] = "notifying" /\ should_stop_protector_ \in {NULL, x}
    /\ \E woken \in Notified :
          rpc' = [r \in Runners |-> IF r \in woken THEN "woken" ELSE rpc[r]]
    /\ InEnd(x, "clearing")
    /\ UNCHANGED <<locks, flags, bpc, hist>>

EndClear(x) ==
    /\ epc[x] = "clearing"
    /\ started_' = FALSE
    /\ InEnd(x, "out")
    /\ ended' = TRUE
    /\ UNCHANGED <<locks, should_stop_, thread_for_run_, rpc, bpc, uses, late>>

End(x) == EndTest(x) \/ EndSet(x) \/ EndNotify(x) \/ EndClear(x)

-----------------------------------------------------------------------------
(* The users.  begin(), end() by a caller and the destructor do not        *)
(* overlap with a begin(), and nothing overlaps with the destructor but    *)
(* what the timer threads do.                                              *)
CallerOut(c) == epc[c] = "out" /\ user_mutex # c /\ (c = Owner => bpc = "out")

Begin ==
    /\ \A c \in Callers : CallerOut(c)
    /\ \E r \in Runners : rpc[r] = "none"
    /\ started_' = TRUE
    /\ bpc' = "started"
    /\ UNCHANGED <<locks, should_stop_, thread_for_run_, rpc, epc, hist>>

BeginReset ==
    /\ bpc = "started"
    /\ should_stop_' = FALSE
    /\ bpc' = "reset"
    /\ UNCHANGED <<locks, started_, thread_for_run_, rpc, epc, hist>>

(* The assignment detaches the thread of an earlier begin(), if any.       *)
BeginThread ==
    /\ bpc = "reset"
    /\ \E r \in Runners : /\ rpc[r] = "none"
                          /\ To(r, "test")
                          /\ thread_for_run_' = r
    /\ ended' = FALSE /\ late' = 0
    /\ bpc' = "out"
    /\ UNCHANGED <<locks, started_, should_stop_, epc, uses>>

(* end() waits for a running method, so a caller must not hold a mutex the *)
(* method takes.                                                           *)
CallEnd(c) ==
    /\ CallerOut(c) /\ bpc = "out" /\ uses[c] > 0
    /\ uses' = [uses EXCEPT ![c] = @ - 1]
    /\ InEnd(c, "testing")
    /\ UNCHANGED <<locks, flags, rpc, bpc, ended, late>>

(* Callers take the mutex of the method too, to see what it did.           *)
TakeMutex(c) ==
    /\ CallerOut(c) /\ bpc = "out" /\ uses[c] > 0
    /\ user_mutex = NULL
    /\ user_mutex' = c
    /\ uses' = [uses EXCEPT ![c] = @ - 1]
    /\ UNCHANGED <<should_stop_protector_, flags, rpc, bpc, epc, ended, late>>

Unlock(c) ==
    /\ user_mutex = c
    /\ user_mutex' = NULL
    /\ UNCHANGED <<should_stop_protector_, flags, rpc, bpc, epc, hist>>

EndInside(r) ==
    /\ EndsInside /\ At(r, "inside")
    /\ To(r, "ending")
    /\ InEnd(r, "testing")
    /\ UNCHANGED <<locks, flags, bpc, hist>>

(* The destructor: end(), then join().                                     *)
Destroy ==
    /\ \A c \in Callers : CallerOut(c)
    /\ bpc' = "destroying"
    /\ InEnd(Owner, "testing")
    /\ UNCHANGED <<locks, flags, rpc, hist>>

Ended ==
    /\ bpc = "destroying" /\ epc[Owner] = "out"
    /\ bpc' = "joining"
    /\ UNCHANGED <<locks, flags, rpc, epc, hist>>

Join ==
    /\ bpc = "joining"
    /\ thread_for_run_ # NULL => rpc[thread_for_run_] = "gone"
    /\ bpc' = "destroyed"
    /\ UNCHANGED <<locks, flags, rpc, epc, hist>>

Terminated == bpc = "destroyed" /\ UNCHANGED vars

OwnerStep == BeginReset \/ BeginThread \/ Ended \/ Join

Next == \/ \E r \in Runners : Run(r) \/ Timeout(r) \/ EndInside(r)
        \/ \E x \in Users : End(x)
        \/ \E c \in Callers : CallEnd(c) \/ TakeMutex(c) \/ Unlock(c)
        \/ Begin \/ Destroy \/ OwnerStep \/ Terminated

(* Threads that can go on do, and methods return; nothing is assumed of    *)
(* the timeout, so that what ends a sleep has to be the notification.      *)
Fairness == /\ \A r \in Runners : WF_vars(Run(r))
            /\ \A x \in Users : WF_vars(End(x))
            /\ \A c \in Callers : WF_vars(Unlock(c))
            /\ WF_vars(OwnerStep)

Spec == Init /\ [][Next]_vars /\ Fairness

-----------------------------------------------------------------------------
TypeOK == /\ started_ \in BOOLEAN /\ should_stop_ \in BOOLEAN
          /\ should_stop_protector_ \in Runners \cup {NULL}
          /\ user_mutex \in Users \cup {NULL}
          /\ thread_for_run_ \in Runners \cup {NULL}
          /\ rpc \in [Runners -> RunnerPCs]
          /\ bpc \in OwnerPCs
          /\ epc \in [Users -> EndPCs]
          /\ uses \in [Callers -> 0 .. MaxUses]
          /\ ended \in BOOLEAN
          /\ late \in 0 .. LateBound

(* The end is never slept through: a timer thread in its timed wait has    *)
(* either not been told to stop, or an end() is still to notify it.  The   *)
(* flag is set and tested without the mutex (timer.cpp:31, 58, 62).        *)
EndNotMissed ==
    /\ TypeOK
    /\ \A r \in Runners : (rpc[r] = "asleep" /\ should_stop_) =>
         \E x \in Users : epc[x] = "notifying"

(* Once an end() has returned the method begins at most once more: a       *)
(* thread that had tested the flag before may still make one call.         *)
OneLateCall == late <= 1

(* The destructor ends without waiting for the interval to pass.           *)
DestructorEnds == (bpc = "destroying") ~> (bpc = "destroyed")
=============================================================================

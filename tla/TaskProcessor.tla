--------------------------- MODULE TaskProcessor ---------------------------
(***************************************************************************)
(* task_processor< task > (src/sources/task_processor/task_processor.h):   *)
(* worker threads that take tasks out of a ts_queue, and client threads    *)
(* that add tasks, wait for them, stop the processor and destroy it.  The  *)
(* queue is that of TsQueue, every one of its calls step by step.          *)
(*                                                                         *)
(* The mutex wait_ of the class guards working_threads_ in sections with   *)
(* no other visible step inside, so that a section is one action and the   *)
(* mutex is no variable.  The name wait_ is the condition of the queue     *)
(* here; wait_condition_ is the one of the processor.                      *)
(***************************************************************************)
EXTENDS TsQueue

CONSTANTS Workers,            \* the threads of threads_
          Clients,            \* the threads that use the processor
          Owner,              \* the client that destroys it
          Calls,              \* what each client does of add, wait, stop
          process_on_stop_,   \* argument of the constructor
          MaxBudget           \* bound: waits, stops, wakeups of each thread

ASSUME ProcessorAssumption ==
    /\ Workers \cap Clients = {} /\ Workers \cup Clients = Threads
    /\ Owner \in Clients
    /\ Calls \in [Clients -> SUBSET {"add", "wait", "stop"}]
    /\ process_on_stop_ \in BOOLEAN
    /\ MaxBudget \in Nat

VARIABLES tp_stopping_,       \* stopping_ of the processor
          working_threads_,   \* workers that are at a task
          tpc,                \* where each thread is in the processor
          destroying,         \* whether the destructor has begun
          refused,            \* history: tasks add_task() returned false for
          ran,                \* history: tasks that were processed
          due,                \* history: tasks accepted when the last wait()
                              \* or stop() of a client began
          early,              \* history: tasks accepted when the first stop()
                              \* began
          budget
hist   == <<refused, ran, due, early>>
tpvars == <<tp_stopping_, working_threads_, tpc, destroying, hist, budget>>
vars   == <<qvars, tpvars>>

WorkerPCs == {"loop",       \* about to call wait_pop()
              "popping",    \* inside it
              "claiming",   \* has a task, working_threads_ not yet incremented
              "running",    \* in operator() of the task
              "retiring",   \* task deleted, working_threads_ not yet decremented
              "gone"}       \* processing() returned
ClientPCs == {"free",       \* in none of the calls below
              "offering",   \* add_task(): past the test of tp_stopping_
              "pushing",    \* add_task(): in push()
              "refused",    \* add_task() returned false
              "waiting",    \* wait(): in wait() of the queue
              "counting",   \* wait(): about to test working_threads_
              "sleeping",   \* wait(): on wait_condition_
              "waited",     \* wait() returned
              "stopping",   \* stop(): tp_stopping_ is set
              "draining",   \* stop(): in wait() of the queue
              "halt",       \* stop(): about to stop the queue
              "halting",    \* stop(): in stop() of the queue
              "stopped",    \* stop() returned
              "joining",    \* ~task_processor(): in join_all()
              "closing",    \* in the destructor of task_queue_
              "destroyed"}

wait_condition_ == {c \in Clients : tpc[c] = "sleeping"}

(* The tasks add_task() returned true for.                                 *)
Accepted == {e \in Elements : /\ heap[e] # "raw" /\ e \notin refused
                              /\ \A c \in Clients : held[c] # e}

Init == /\ QueueInit
        /\ heap = [e \in Elements |-> "raw"]
        /\ tp_stopping_ = FALSE
        /\ working_threads_ = 0
        /\ tpc = [t \in Threads |-> IF t \in Workers THEN "loop" ELSE "free"]
        /\ destroying = FALSE
        /\ refused = {}
        /\ ran = {}
        /\ due = [c \in Clients |-> {}]
        /\ early = {}
        /\ budget = [t \in Threads |-> MaxBudget]

Goto(t, p) == tpc' = [tpc EXCEPT ![t] = p]

Spend(t) == budget[t] > 0 /\ budget' = [budget EXCEPT ![t] = @ - 1]

(* t calls o of the queue and is at p until the call returns.              *)
Enters(t, o, p) == /\ Enter(t, o, NULL)
                   /\ Goto(t, p)
                   /\ UNCHANGED heap

-----------------------------------------------------------------------------
(* processing(), the loop of a worker.                                     *)

Fetch(w) ==
    /\ tpc[w] = "loop"
    /\ Enters(w, "wait_pop", "popping")
    /\ UNCHANGED <<tp_stopping_, working_threads_, destroying, hist, budget>>

Fetched(w) ==
    /\ tpc[w] = "popping" /\ pc[w] = "idle"
    /\ Goto(w, IF held[w] = NULL THEN "gone" ELSE "claiming")
    /\ UNCHANGED <<qvars, tp_stopping_, working_threads_, destroying, hist, budget>>

Claim(w) ==
    /\ tpc[w] = "claiming"
    /\ working_threads_' = working_threads_ + 1
    /\ Goto(w, "running")
    /\ UNCHANGED <<qvars, tp_stopping_, destroying, hist, budget>>

(* The task runs, is destroyed and deallocated.                            *)
Process(w) ==
    /\ tpc[w] = "running"
    /\ ran' = ran \cup {held[w]}
    /\ heap' = [heap EXCEPT ![held[w]] = "freed"]
    /\ held' = [held EXCEPT ![w] = NULL]
    /\ Goto(w, "retiring")
    /\ UNCHANGED <<queue_, stopping_, queue_protector_, pc, op, tp_stopping_,
                   working_threads_, destroying, refused, due, early, budget>>

RetireWakesNobody == {}                       \* mutant: no notify_all
RetireWakes == IF working_threads_ = 1 THEN wait_condition_ ELSE {}

(* The last worker at a task wakes every sleeper of wait_condition_.       *)
Retire(w) ==
    /\ tpc[w] = "retiring"
    /\ working_threads_' = working_threads_ - 1
    /\ tpc' = [x \in Threads |->
                 IF x = w THEN "loop"
                 ELSE IF x \in RetireWakes THEN "counting" ELSE tpc[x]]
    /\ UNCHANGED <<qvars, tp_stopping_, destroying, hist, budget>>

WorkerStep(w) == Fetch(w) \/ Fetched(w) \/ Claim(w) \/ Process(w) \/ Retire(w)

-----------------------------------------------------------------------------
(* The clients.  A call begins while its thread is in no other and the     *)
(* destructor has not begun.                                               *)
Outside(c) == tpc[c] \in {"free", "waited", "stopped"} /\ ~destroying

(* create_task(), and the test add_task() makes without a lock.            *)
AddTask(c) ==
    /\ Outside(c) /\ "add" \in Calls[c]
    /\ \E e \in Elements :
         /\ heap[e] = "raw"
         /\ heap' = [heap EXCEPT ![e] = "live"]
         /\ held' = [held EXCEPT ![c] = e]
    /\ Goto(c, IF tp_stopping_ THEN "refused" ELSE "offering")
    /\ UNCHANGED <<queue_, stopping_, queue_protector_, pc, op, tp_stopping_,
                   working_threads_, destroying, hist, budget>>

Offer(c) ==
    /\ tpc[c] = "offering"
    /\ Enter(c, "push", held[c])
    /\ Goto(c, "pushing")
    /\ UNCHANGED <<heap, tp_stopping_, working_threads_, destroying, hist, budget>>

TaskAccepted(c) ==
    /\ tpc[c] = "pushing" /\ pc[c] = "idle" /\ held[c] = NULL
    /\ Goto(c, "free")
    /\ UNCHANGED <<qvars, tp_stopping_, working_threads_, destroying, hist, budget>>

(* The caller deletes a task that was refused (queue_logger.h:83-88).      *)
TaskRefused(c) ==
    /\ tpc[c] \in {"pushing", "refused"} /\ pc[c] = "idle" /\ held[c] # NULL
    /\ refused' = refused \cup {held[c]}
    /\ heap' = [heap EXCEPT ![held[c]] = "freed"]
    /\ held' = [held EXCEPT ![c] = NULL]
    /\ Goto(c, "free")
    /\ UNCHANGED <<queue_, stopping_, queue_protector_, pc, op, tp_stopping_,
                   working_threads_, destroying, ran, due, early, budget>>

WaitOnlyCounts(c) ==                          \* mutant: no wait() of the queue
    /\ Outside(c) /\ "wait" \in Calls[c]
    /\ Goto(c, "counting")
    /\ due' = [due EXCEPT ![c] = Accepted]
    /\ Spend(c)
    /\ UNCHANGED <<qvars, tp_stopping_, working_threads_, destroying, refused, ran, early>>

(* wait(): first until the queue is empty, then until nobody is at a task. *)
Wait(c) ==
    /\ Outside(c) /\ "wait" \in Calls[c]
    /\ Enters(c, "wait", "waiting")
    /\ due' = [due EXCEPT ![c] = Accepted]
    /\ Spend(c)
    /\ UNCHANGED <<tp_stopping_, working_threads_, destroying, refused, ran, early>>

Drained(c) ==
    /\ tpc[c] = "waiting" /\ pc[c] = "idle"
    /\ Goto(c, "counting")
    /\ UNCHANGED <<qvars, tp_stopping_, working_threads_, destroying, hist, budget>>

CountWorking(c) ==
    /\ tpc[c] = "counting"
    /\ Goto(c, IF working_threads_ # 0 THEN "sleeping" ELSE "waited")
    /\ UNCHANGED <<qvars, tp_stopping_, working_threads_, destroying, hist, budget>>

(* stop(), called by a client or by the destructor.  With process_on_stop_ *)
(* it refuses new tasks and waits until the queue is empty before it stops *)
(* the queue.                                                              *)
StopAtOnce(c) ==                              \* mutant: no wait() of the queue
    /\ due' = [due EXCEPT ![c] = Accepted]
    /\ early' = IF process_on_stop_ /\ ~tp_stopping_ THEN Accepted ELSE early
    /\ tp_stopping_' = (tp_stopping_ \/ process_on_stop_)
    /\ Goto(c, "halt")
    /\ UNCHANGED <<qvars, working_threads_, refused, ran>>

BeginStop(c) ==
    /\ due' = [due EXCEPT ![c] = Accepted]
    /\ early' = IF process_on_stop_ /\ ~tp_stopping_ THEN Accepted ELSE early
    /\ tp_stopping_' = (tp_stopping_ \/ process_on_stop_)
    /\ Goto(c, IF process_on_stop_ THEN "stopping" ELSE "halt")
    /\ UNCHANGED <<qvars, working_threads_, refused, ran>>

Stop(c) == /\ Outside(c) /\ "stop" \in Calls[c]
           /\ BeginStop(c)
           /\ Spend(c)
           /\ UNCHANGED destroying

(* ~task_processor(): nobody may use the processor any more.               *)
Destroy == /\ \A c \in Clients : Outside(c)
           /\ destroying' = TRUE
           /\ BeginStop(Owner)
           /\ UNCHANGED budget

Drain(c) ==
    /\ tpc[c] = "stopping"
    /\ Enters(c, "wait", "draining")
    /\ UNCHANGED <<tp_stopping_, working_threads_, destroying, hist, budget>>

Halt(c) ==
    /\ tpc[c] \in {"halt", "draining"}
    /\ Enters(c, "stop", "halting")
    /\ UNCHANGED <<tp_stopping_, working_threads_, destroying, hist, budget>>

Halted(c) ==
    /\ tpc[c] = "halting" /\ pc[c] = "idle"
    /\ Goto(c, IF destroying THEN "joining" ELSE "stopped")
    /\ UNCHANGED <<qvars, tp_stopping_, working_threads_, destroying, hist, budget>>

(* join_all(), then the destructor of task_queue_.                         *)
Join(c) ==
    /\ tpc[c] = "joining"
    /\ \A w \in Workers : tpc[w] = "gone"
    /\ Enters(c, "stop_processing", "closing")
    /\ UNCHANGED <<tp_stopping_, working_threads_, destroying, hist, budget>>

Closed(c) ==
    /\ tpc[c] = "closing" /\ pc[c] = "idle"
    /\ Goto(c, "destroyed")
    /\ UNCHANGED <<qvars, tp_stopping_, working_threads_, destroying, hist, budget>>

ClientStep(c) == \/ Offer(c) \/ TaskAccepted(c) \/ TaskRefused(c)
                 \/ Drained(c) \/ CountWorking(c)
                 \/ Drain(c) \/ Halt(c) \/ Halted(c) \/ Join(c) \/ Closed(c)

-----------------------------------------------------------------------------
InQueue(t) == QueueStep(t) /\ UNCHANGED tpvars

(* Conditions may wake without a notification.                             *)
Wakeup(t) ==
    /\ Spend(t)
    /\ \/ /\ Spurious(t) /\ UNCHANGED tpc
       \/ /\ t \in wait_condition_ /\ Goto(t, "counting") /\ UNCHANGED qvars
    /\ UNCHANGED <<tp_stopping_, working_threads_, destroying, hist>>

(* Nothing is left to do after the destructor.                             *)
Terminated == tpc[Owner] = "destroyed" /\ UNCHANGED vars

Next == \/ \E t \in Threads : InQueue(t) \/ Wakeup(t)
        \/ \E w \in Workers : WorkerStep(w)
        \/ \E c \in Clients : AddTask(c) \/ Wait(c) \/ Stop(c) \/ ClientStep(c)
        \/ Destroy
        \/ Terminated

(* Runnable threads go on and tasks end; nobody has to make a call.        *)
Fairness == /\ \A t \in Threads : WF_vars(InQueue(t))
            /\ \A w \in Workers : WF_vars(WorkerStep(w))
            /\ \A c \in Clients : WF_vars(ClientStep(c))

Spec == Init /\ [][Next]_vars /\ Fairness

-----------------------------------------------------------------------------
TypeOK == /\ QueueTypeOK
          /\ tp_stopping_ \in BOOLEAN
          /\ working_threads_ \in 0 .. Cardinality(Workers)
          /\ tpc \in [Threads -> WorkerPCs \cup ClientPCs]
          /\ destroying \in BOOLEAN
          /\ refused \in SUBSET Elements
          /\ ran \in SUBSET Elements
          /\ due \in [Clients -> SUBSET Elements]
          /\ early \in SUBSET Elements
          /\ budget \in [Threads -> 0 .. MaxBudget]

(* The workers between their two critical sections.                        *)
AtWork == {w \in Workers : tpc[w] \in {"running", "retiring"}}

(* No end of work is lost: working_threads_ counts the workers at a task,  *)
(* and whoever sleeps on wait_condition_ has such a worker, which is still *)
(* to decrement the count and to wake the sleepers.                        *)
WorkNotLost == /\ working_threads_ = Cardinality(AtWork)
               /\ wait_condition_ # {} => AtWork # {}

(* When wait() returns, every task that was accepted before it was called  *)
(* has left the queue: it was processed or is in the hands of a worker;    *)
(* only a processor that is being stopped lets wait() return earlier       *)
(* (task_processor_tests.cpp:157-158 relies on the empty queue).           *)
WaitDrains ==
    \A c \in Clients : (tpc[c] = "waited" /\ ~stopping_) =>
        \A e \in due[c] : e \in ran \/ \E w \in Workers : held[w] = e

(* "wait until all tasks will be processed by processing threads"          *)
(* (task_processor.h:47): what the code does keep of that promise.  Of a   *)
(* destroyed processor with process_on_stop_ the tasks were run that it    *)
(* had accepted before the first stop(), however many were added meanwhile.*)
EarlyDrained ==
    (tpc[Owner] = "destroyed" /\ process_on_stop_) => early \subseteq ran

(* After the destructor every task was deleted exactly once: by the worker *)
(* that ran it, by the client it was refused to, or by the queue.          *)
NoLeak == tpc[Owner] = "destroyed" => \A e \in Elements : heap[e] # "live"

(* The destructor ends: stop() releases every worker that sleeps in        *)
(* wait_pop(), and the queue is drained when it has to be.                 *)
DestructorEnds == destroying ~> (tpc[Owner] = "destroyed")

(* wait() returns, although the queue and the count of workers change      *)
(* between its two tests and while it sleeps on either condition.          *)
WaitReturns ==
    \A c \in Clients :
        (tpc[c] \in {"waiting", "counting", "sleeping"}) ~> (tpc[c] = "waited")
=============================================================================

------------------------ MODULE TaskProcessorProofs ------------------------
(***************************************************************************)
(* The task processor and the logger over it, for any number of workers,   *)
(* clients and tasks.  What the steps inside the queue preserve is proved  *)
(* in TsQueueProofs; here is who calls the queue, and from where.          *)
(***************************************************************************)
EXTENDS QueueLogger, TsQueueProofs

-----------------------------------------------------------------------------
(* Which call of the queue a thread is in, where it is in the processor.   *)
CallAt(p) == IF p = "popping" THEN "wait_pop"
             ELSE IF p = "pushing" THEN "push"
             ELSE IF p \in {"waiting", "draining"} THEN "wait"
             ELSE IF p = "halting" THEN "stop"
             ELSE IF p = "closing" THEN "stop_processing"
             ELSE "none"

(* Only workers pop and only clients push, wait and stop; and a task is in *)
(* the hands of a thread only where it has to do something about it.       *)
ProcShape ==
    /\ \A w \in Workers : tpc[w] \in WorkerPCs
    /\ \A c \in Clients : tpc[c] \in ClientPCs
    /\ \A t \in Threads : op[t] \in {"none", CallAt(tpc[t])}
    /\ \A w \in Workers : /\ held[w] # NULL => tpc[w] \in {"popping", "claiming", "running"}
                          /\ tpc[w] \in {"claiming", "running"} => held[w] # NULL
    /\ \A c \in Clients : /\ held[c] # NULL => tpc[c] \in {"offering", "pushing", "refused"}
                          /\ tpc[c] \in {"offering", "refused"} => held[c] # NULL

(* The types of what is the processor's own; the count of workers has a    *)
(* lemma of its own below.                                                 *)
ProcTypes == /\ tp_stopping_ \in BOOLEAN /\ destroying \in BOOLEAN
             /\ tpc \in [Threads -> WorkerPCs \cup ClientPCs]
             /\ refused \in SUBSET Elements
             /\ ran \in SUBSET Elements
             /\ due \in [Clients -> SUBSET Elements]
             /\ early \in SUBSET Elements
             /\ budget \in [Threads -> 0 .. MaxBudget]

ShapeInv == QueueInv /\ ProcTypes /\ ProcShape

(* Workers and clients are different threads.                              *)
LEMMA Threadsets == /\ \A w \in Workers : w \in Threads /\ w \notin Clients
                    /\ \A c \in Clients : c \in Threads /\ c \notin Workers
                    /\ \A t \in Threads : t \in Workers \/ t \in Clients
BY ProcessorAssumption

LEMMA InitShape == Init => ShapeInv
<1> SUFFICES ASSUME Init
             PROVE  ShapeInv
  OBVIOUS
<1> USE Threadsets
<1>1. QueueInv
  BY InitInv DEF Init
<1>2. ProcShape
  BY DEF Init, QueueInit, ProcShape, WorkerPCs, ClientPCs
<1>3. budget \in [Threads -> 0 .. MaxBudget]
  BY ProcessorAssumption DEF Init
<1>4. ProcTypes
  BY <1>3 DEF Init, ProcTypes, WorkerPCs, ClientPCs
<1>. QED BY <1>1, <1>2, <1>4 DEF ShapeInv

(* The beginning of a call by a thread that has no task in its hands.      *)
LEMMA EntersKeepsQueue ==
    ASSUME QueueInv, NEW t \in Threads, NEW o \in Ops \ {"push"}, held[t] = NULL,
           Enter(t, o, NULL), UNCHANGED heap
    PROVE  QueueInv' /\ UNCHANGED held
<1>1. held' = held /\ queue_' = queue_
  BY DEF Enter, QueueInv, QueueTypeOK
<1>2. Ownership'
  BY <1>1 DEF QueueInv, Ownership
<1>3. heap' \in [Elements -> {"raw", "live", "freed"}]
  BY DEF QueueInv, QueueTypeOK
<1>. QED BY <1>1, <1>2, <1>3, EnterKeepsInv

(* The steps of a worker.                                                  *)
LEMMA WorkerKeepsQueue ==
    ASSUME ShapeInv, NEW w \in Workers, WorkerStep(w)
    PROVE  QueueInv'
<1> USE Threadsets DEF ShapeInv
<1>1. CASE Fetch(w)
  <2>1. held[w] = NULL /\ Enter(w, "wait_pop", NULL) /\ UNCHANGED heap
    BY <1>1 DEF Fetch, Enters, ProcShape
  <2>2. "wait_pop" \in Ops \ {"push"}
    BY DEF Ops, Guarded, Popping
  <2>. QED BY <2>1, <2>2, EntersKeepsQueue
<1>2. CASE Fetched(w) \/ Claim(w) \/ Retire(w)
  BY <1>2, StutterKeepsInv DEF Fetched, Claim, Retire
<1>3. CASE Process(w)
  <2>1. held[w] # NULL /\ pc[w] = "idle"
    BY <1>3 DEF Process, ProcShape, CallAt, QueueInv, CallShape
  <2>2. /\ heap' = [heap EXCEPT ![held[w]] = "freed"] /\ held' = [held EXCEPT ![w] = NULL]
        /\ UNCHANGED <<queue_, stopping_, queue_protector_, pc, op>>
    BY <1>3 DEF Process
  <2>3. Ownership'
    BY <2>1, <2>2, DeletedMessage, InvIsCore
  <2>4. heap' \in [Elements -> {"raw", "live", "freed"}]
    BY <2>2 DEF QueueInv, QueueTypeOK
  <2>. QED BY <2>1, <2>2, <2>3, <2>4, HandlingKeepsInv
<1>. QED BY <1>1, <1>2, <1>3 DEF WorkerStep

(* The steps of a client.                                                  *)
LEMMA ClientKeepsQueue ==
    ASSUME ShapeInv, NEW c \in Clients,
           AddTask(c) \/ Wait(c) \/ Stop(c) \/ Destroy \/ ClientStep(c)
    PROVE  QueueInv'
<1> USE Threadsets DEF ShapeInv
<1>1. CASE AddTask(c)
  <2>1. PICK e \in Elements : /\ heap[e] = "raw"
                              /\ heap' = [heap EXCEPT ![e] = "live"]
                              /\ held' = [held EXCEPT ![c] = e]
    BY <1>1 DEF AddTask
  <2>2. /\ held[c] = NULL /\ pc[c] = "idle"
        /\ UNCHANGED <<queue_, stopping_, queue_protector_, pc, op>>
    BY <1>1 DEF AddTask, Outside, ProcShape, CallAt, QueueInv, CallShape
  <2>3. Ownership'
    BY <2>1, <2>2, FreshMessage, InvIsCore
  <2>4. heap' \in [Elements -> {"raw", "live", "freed"}]
    BY <2>1 DEF QueueInv, QueueTypeOK
  <2>. QED BY <2>1, <2>2, <2>3, <2>4, HandlingKeepsInv
<1>2. CASE Offer(c)
  <2>1. /\ held[c] # NULL /\ held[c] \in Elements \cup {NULL}
        /\ Enter(c, "push", held[c]) /\ UNCHANGED heap
    BY <1>2 DEF Offer, ProcShape, QueueInv, QueueTypeOK
  <2>2. held' = held /\ queue_' = queue_
    BY <2>1 DEF Enter, QueueInv, QueueTypeOK
  <2>3. Ownership' /\ heap' \in [Elements -> {"raw", "live", "freed"}]
    BY <2>1, <2>2 DEF QueueInv, Ownership, QueueTypeOK
  <2>4. "push" \in Ops
    BY DEF Ops, Guarded
  <2>. QED BY <2>1, <2>3, <2>4, EnterKeepsInv
<1>3. CASE TaskRefused(c)
  <2>1. /\ held[c] # NULL /\ pc[c] = "idle"
        /\ heap' = [heap EXCEPT ![held[c]] = "freed"] /\ held' = [held EXCEPT ![c] = NULL]
        /\ UNCHANGED <<queue_, stopping_, queue_protector_, pc, op>>
    BY <1>3 DEF TaskRefused
  <2>2. Ownership'
    BY <2>1, DeletedMessage, InvIsCore
  <2>3. heap' \in [Elements -> {"raw", "live", "freed"}]
    BY <2>1 DEF QueueInv, QueueTypeOK
  <2>. QED BY <2>1, <2>2, <2>3, HandlingKeepsInv
<1>4. CASE Wait(c) \/ Drain(c) \/ Halt(c) \/ Join(c)
  <2>1. PICK o \in {"wait", "stop", "stop_processing"} : Enter(c, o, NULL) /\ UNCHANGED heap
    BY <1>4 DEF Wait, Drain, Halt, Join, Enters
  <2>2. held[c] = NULL
    BY <1>4 DEF Wait, Drain, Halt, Join, Outside, ProcShape
  <2>3. o \in Ops \ {"push"}
    BY DEF Ops, Guarded, Stopping
  <2>. QED BY <2>1, <2>2, <2>3, EntersKeepsQueue
<1>5. CASE \/ TaskAccepted(c) \/ Drained(c) \/ CountWorking(c) \/ Halted(c) \/ Closed(c)
           \/ Stop(c) \/ Destroy
  BY <1>5, StutterKeepsInv DEF TaskAccepted, Drained, CountWorking, Halted, Closed, Stop, Destroy,
     BeginStop
<1>. QED BY <1>1, <1>2, <1>3, <1>4, <1>5 DEF ClientStep

(* The steps inside the queue, and wakeups.                                *)
LEMMA InsideKeepsQueue ==
    ASSUME ShapeInv, NEW t \in Threads, InQueue(t) \/ Wakeup(t)
    PROVE  QueueInv'
<1> USE DEF ShapeInv
<1>1. CASE InQueue(t)
  BY <1>1, StepKeepsInv DEF InQueue
<1>2. CASE Spurious(t)
  BY <1>2, SpuriousKeepsInv
<1>3. CASE UNCHANGED qvars
  BY <1>3, StutterKeepsInv
<1>. QED BY <1>1, <1>2, <1>3 DEF Wakeup

-----------------------------------------------------------------------------
(* The types of the processor.                                             *)
LEMMA WorkerKeepsTypes ==
    ASSUME ShapeInv, NEW w \in Workers, WorkerStep(w)
    PROVE  ProcTypes'
<1> USE Threadsets DEF ShapeInv, ProcTypes, WorkerPCs, hist, Goto
<1>1. CASE Fetch(w) \/ Fetched(w) \/ Claim(w)
  BY <1>1 DEF Fetch, Fetched, Claim, Enters
<1>2. CASE Process(w)
  BY <1>2 DEF Process, ProcShape, QueueInv, QueueTypeOK
<1>3. CASE Retire(w)
  BY <1>3 DEF Retire, ClientPCs
<1>. QED BY <1>1, <1>2, <1>3 DEF WorkerStep

LEMMA Spending ==
    ASSUME ProcTypes, NEW t \in Threads, Spend(t)
    PROVE  budget' \in [Threads -> 0 .. MaxBudget]
BY ProcessorAssumption DEF ProcTypes, Spend

LEMMA AcceptedElements == Accepted \in SUBSET Elements
BY DEF Accepted

LEMMA ClientKeepsTypes ==
    ASSUME ShapeInv, NEW c \in Clients,
           AddTask(c) \/ Wait(c) \/ Stop(c) \/ Destroy \/ ClientStep(c)
    PROVE  ProcTypes'
<1> USE Threadsets DEF ShapeInv, ProcTypes, ClientPCs, hist, Goto
<1>1. CASE AddTask(c) \/ Offer(c) \/ TaskAccepted(c)
  BY <1>1 DEF AddTask, Offer, TaskAccepted
<1>2. CASE Drained(c) \/ CountWorking(c) \/ Drain(c) \/ Halt(c) \/ Halted(c) \/ Join(c) \/ Closed(c)
  BY <1>2 DEF Drained, CountWorking, Drain, Halt, Halted, Join, Closed, Enters
<1>3. CASE TaskRefused(c)
  BY <1>3 DEF TaskRefused, QueueInv, QueueTypeOK
<1>4. CASE Wait(c)
  <2>1. budget' \in [Threads -> 0 .. MaxBudget]
    BY <1>4, Spending DEF Wait
  <2>. QED BY <1>4, <2>1, AcceptedElements DEF Wait, Enters
<1>5. ASSUME NEW d \in Clients, BeginStop(d)
      PROVE  /\ due' \in [Clients -> SUBSET Elements] /\ early' \in SUBSET Elements
             /\ tp_stopping_' \in BOOLEAN
             /\ tpc' \in [Threads -> WorkerPCs \cup ClientPCs]
             /\ UNCHANGED <<refused, ran>>
  <2>1. tp_stopping_' \in BOOLEAN
    BY <1>5, ProcessorAssumption, Zenon DEF BeginStop
  <2>2. due' \in [Clients -> SUBSET Elements] /\ early' \in SUBSET Elements
    BY <1>5, AcceptedElements DEF BeginStop
  <2>. QED BY <1>5, <2>1, <2>2 DEF BeginStop
<1>6. CASE Stop(c)
  <2>1. budget' \in [Threads -> 0 .. MaxBudget]
    BY <1>6, Spending DEF Stop
  <2>. QED BY <1>5, <1>6, <2>1 DEF Stop
<1>7. CASE Destroy
  BY <1>5, <1>7, ProcessorAssumption DEF Destroy
<1>. QED BY <1>1, <1>2, <1>3, <1>4, <1>6, <1>7 DEF ClientStep

LEMMA InsideKeepsTypes ==
    ASSUME ShapeInv, NEW t \in Threads, InQueue(t) \/ Wakeup(t)
    PROVE  ProcTypes'
<1> USE DEF ShapeInv, ProcTypes, hist, Goto, ClientPCs
<1>1. CASE InQueue(t)
  BY <1>1 DEF InQueue, tpvars
<1>2. CASE Wakeup(t)
  <2>1. budget' \in [Threads -> 0 .. MaxBudget]
    BY <1>2, Spending DEF Wakeup
  <2>. QED BY <1>2, <2>1 DEF Wakeup
<1>. QED BY <1>1, <1>2

-----------------------------------------------------------------------------
(* Where the threads are, and their tasks.                                 *)
LEMMA WorkerKeepsShape ==
    ASSUME ShapeInv, NEW w \in Workers, WorkerStep(w)
    PROVE  ProcShape'
<1> USE Threadsets DEF ShapeInv, ProcTypes, QueueInv, QueueTypeOK, CallShape, ProcShape, Goto, CallAt
<1>1. CASE Fetch(w)
  BY <1>1 DEF Fetch, Enters, Enter, WorkerPCs, Guarded, Popping, Stopping
<1>2. CASE Fetched(w)
  BY <1>2 DEF Fetched, qvars, WorkerPCs
<1>3. CASE Claim(w)
  BY <1>3 DEF Claim, qvars, WorkerPCs
<1>4. CASE Process(w)
  BY <1>4 DEF Process, WorkerPCs
<1>5. CASE Retire(w)
  BY <1>5 DEF Retire, RetireWakes, wait_condition_, qvars, WorkerPCs, ClientPCs
<1>. QED BY <1>1, <1>2, <1>3, <1>4, <1>5 DEF WorkerStep

(* What the clients do between the calls of the queue keeps the shape.     *)
LEMMA ClientKeepsShape ==
    ASSUME ShapeInv, NEW c \in Clients,
           AddTask(c) \/ Wait(c) \/ Stop(c) \/ Destroy \/ ClientStep(c)
    PROVE  ProcShape'
<1> USE Threadsets DEF ShapeInv, ProcTypes, QueueInv, QueueTypeOK, CallShape, ProcShape, Goto, CallAt,
                       ClientPCs
<1>1. CASE AddTask(c)
  BY <1>1, QueueAssumption DEF AddTask, Outside
<1>2. CASE Offer(c)
  BY <1>2 DEF Offer, Enter, Guarded, Stopping
<1>3. CASE TaskAccepted(c) \/ Drained(c) \/ CountWorking(c) \/ Halted(c) \/ Closed(c)
  <2>1. UNCHANGED qvars /\ held[c] = NULL /\ op[c] = "none"
    BY <1>3 DEF TaskAccepted, Drained, CountWorking, Halted, Closed
  <2>2. PICK p \in ClientPCs \ {"offering", "pushing", "refused"} : tpc' = [tpc EXCEPT ![c] = p]
    BY <1>3 DEF TaskAccepted, Drained, CountWorking, Halted, Closed
  <2>3. \A x \in Threads : tpc'[x] = IF x = c THEN p ELSE tpc[x]
    BY <2>2
  <2>4. op' = op /\ held' = held
    BY <2>1 DEF qvars
  <2>5. \A d \in Clients : tpc'[d] \in ClientPCs
    BY <2>3
  <2>6. \A t \in Threads : op'[t] \in {"none", CallAt(tpc'[t])}
    BY <2>1, <2>3, <2>4
  <2>7. \A w \in Workers : tpc'[w] = tpc[w] /\ held'[w] = held[w]
    BY <2>3, <2>4
  <2>8. \A d \in Clients : d # c => tpc'[d] = tpc[d] /\ held'[d] = held[d]
    BY <2>3, <2>4
  <2>9. p \notin {"offering", "refused"} /\ tpc'[c] = p /\ held'[c] = NULL
    BY <2>1, <2>3, <2>4
  <2>10. \A w \in Workers :
            /\ tpc'[w] \in WorkerPCs
            /\ held'[w] # NULL => tpc'[w] \in {"popping", "claiming", "running"}
            /\ tpc'[w] \in {"claiming", "running"} => held'[w] # NULL
    BY <2>7
  <2>11. \A d \in Clients :
            /\ held'[d] # NULL => tpc'[d] \in {"offering", "pushing", "refused"}
            /\ tpc'[d] \in {"offering", "refused"} => held'[d] # NULL
    BY <2>8, <2>9
  <2>. QED BY <2>5, <2>6, <2>10, <2>11
<1>4. CASE TaskRefused(c)
  BY <1>4 DEF TaskRefused
<1>5. CASE Wait(c)
  BY <1>5 DEF Wait, Enters, Enter, Guarded, Stopping, Outside
<1>6. CASE Drain(c)
  BY <1>6 DEF Drain, Enters, Enter, Guarded, Stopping
<1>7. CASE Halt(c)
  BY <1>7 DEF Halt, Enters, Enter, Guarded, Stopping
<1>8. CASE Join(c)
  BY <1>8 DEF Join, Enters, Enter, Guarded, Stopping
<1>9. CASE Stop(c)
  BY <1>9 DEF Stop, BeginStop, Outside, qvars
<1>10. CASE Destroy
  <2>1. Owner \in Clients /\ Outside(Owner)
    BY <1>10, ProcessorAssumption DEF Destroy
  <2>2. /\ UNCHANGED qvars
        /\ tpc' = [tpc EXCEPT ![Owner] = IF process_on_stop_ THEN "stopping" ELSE "halt"]
    BY <1>10 DEF Destroy, BeginStop
  <2>. QED BY <2>1, <2>2 DEF Outside, qvars
<1>. QED BY <1>1, <1>2, <1>3, <1>4, <1>5, <1>6, <1>7, <1>8, <1>9, <1>10 DEF ClientStep

(* So does a step inside such a call.                                      *)
LEMMA InsideKeepsShape ==
    ASSUME ShapeInv, NEW t \in Threads, InQueue(t) \/ Wakeup(t)
    PROVE  ProcShape'
<1> USE Threadsets DEF ShapeInv, ProcTypes, ProcShape
<1>1. CASE InQueue(t)
  <2>1. tpc' = tpc
    BY <1>1 DEF InQueue, tpvars
  <2>2. /\ \A x \in Threads : x # t => op'[x] = op[x] /\ held'[x] = held[x]
        /\ op'[t] \in {op[t], "none"} /\ op[t] # "none"
    BY <1>1, OthersStay DEF InQueue
  <2>3. held'[t] # held[t] => held'[t] = NULL \/ op[t] \in Popping
    BY <1>1, PointersMove DEF InQueue, QueueInv, QueueTypeOK
  <2>4. \A x \in Threads : op'[x] \in {"none", CallAt(tpc[x])}
    BY <2>2
  <2>5. op[t] = CallAt(tpc[t]) /\ tpc[t] \notin {"claiming", "running", "offering", "refused"}
    BY <2>2 DEF CallAt
  <2>6. op[t] \in Popping => tpc[t] = "popping"
    BY <2>5 DEF CallAt, Popping
  <2>7. \A w \in Workers : held'[w] # NULL => held[w] # NULL \/ tpc[w] = "popping"
    BY <2>2, <2>3, <2>6
  <2>8. \A w \in Workers : tpc[w] \in {"claiming", "running"} => held'[w] # NULL
    BY <2>2, <2>5
  <2>9. \A c \in Clients : held'[c] # NULL => held[c] # NULL
    BY <2>2, <2>3, <2>6 DEF ClientPCs
  <2>10. \A c \in Clients : tpc[c] \in {"offering", "refused"} => held'[c] # NULL
    BY <2>2, <2>5
  <2>. QED BY <2>1, <2>4, <2>7, <2>8, <2>9, <2>10
<1>2. CASE Wakeup(t)
  BY <1>2 DEF Wakeup, Spurious, wait_condition_, Goto, CallAt, ClientPCs, qvars
<1>. QED BY <1>1, <1>2

LEMMA StepKeepsShapeInv == ShapeInv /\ [Next]_vars => ShapeInv'
<1> SUFFICES ASSUME ShapeInv, [Next]_vars
             PROVE  ShapeInv'
  OBVIOUS
<1>1. ASSUME NEW t \in Threads, InQueue(t) \/ Wakeup(t)
      PROVE  ShapeInv'
  BY <1>1, InsideKeepsQueue, InsideKeepsTypes, InsideKeepsShape DEF ShapeInv
<1>2. ASSUME NEW w \in Workers, WorkerStep(w)
      PROVE  ShapeInv'
  BY <1>2, WorkerKeepsQueue, WorkerKeepsTypes, WorkerKeepsShape DEF ShapeInv
<1>3. ASSUME NEW c \in Clients, AddTask(c) \/ Wait(c) \/ Stop(c) \/ Destroy \/ ClientStep(c)
      PROVE  ShapeInv'
  BY <1>3, ClientKeepsQueue, ClientKeepsTypes, ClientKeepsShape DEF ShapeInv
<1>4. CASE UNCHANGED vars
  BY <1>4, StutterKeepsInv DEF vars, qvars, tpvars, hist, ShapeInv, ProcTypes, ProcShape
<1>. QED BY <1>1, <1>2, <1>3, <1>4, ProcessorAssumption DEF Next, Terminated

-----------------------------------------------------------------------------
(* The count of the workers at a task.                                     *)
LEMMA AtWorkFinite ==
    /\ IsFiniteSet(AtWork) /\ Cardinality(AtWork) \in Nat
    /\ Cardinality(Workers) \in Nat /\ Cardinality(AtWork) <= Cardinality(Workers)
    /\ (Cardinality(AtWork) = 0) <=> (AtWork = {})
<1>1. IsFiniteSet(Workers)
  BY ProcessorAssumption, QueueAssumption, FS_Subset
<1>2. AtWork \in SUBSET Workers
  BY DEF AtWork
<1>. QED BY <1>1, <1>2, FS_Subset, FS_CardinalityType, FS_EmptySet

(* A worker is counted from Claim to Retire; every step keeps WorkNotLost. *)
LEMMA StepKeepsCount ==
    ASSUME ShapeInv, WorkNotLost, [Next]_vars
    PROVE  WorkNotLost'
<1> USE Threadsets, AtWorkFinite DEF ShapeInv, ProcTypes, WorkNotLost, Goto
<1>1. ASSUME NEW w \in Workers, Claim(w)
      PROVE  WorkNotLost'
  <2>1. AtWork' = AtWork \cup {w} /\ w \notin AtWork
    BY <1>1 DEF Claim, AtWork
  <2>2. Cardinality(AtWork') = Cardinality(AtWork) + 1
    BY <2>1, FS_AddElement
  <2>. QED BY <1>1, <2>1, <2>2 DEF Claim
<1>2. ASSUME NEW w \in Workers, Retire(w)
      PROVE  WorkNotLost'
  <2>1. AtWork' = AtWork \ {w} /\ w \in AtWork
    BY <1>2 DEF Retire, AtWork, RetireWakes, wait_condition_
  <2>2. Cardinality(AtWork') = Cardinality(AtWork) - 1
    BY <2>1, FS_RemoveElement
  <2>3. CASE working_threads_ = 1
    <3>1. wait_condition_' = {}
      BY <1>2, <2>3 DEF Retire, RetireWakes, wait_condition_
    <3>. QED BY <1>2, <2>2, <3>1 DEF Retire
  <2>4. CASE working_threads_ # 1
    <3>1. Cardinality(AtWork') # 0
      BY <2>2, <2>4
    <3>2. AtWork' # {}
      BY <3>1, FS_EmptySet
    <3>. QED BY <1>2, <2>2, <3>2 DEF Retire
  <2>. QED BY <2>3, <2>4
<1>3. ASSUME NEW c \in Clients, CountWorking(c)
      PROVE  WorkNotLost'
  <2>1. AtWork' = AtWork /\ working_threads_' = working_threads_
    BY <1>3 DEF CountWorking, AtWork
  <2>2. wait_condition_' # {} => wait_condition_ # {} \/ working_threads_ # 0
    BY <1>3 DEF CountWorking, wait_condition_
  <2>. QED BY <2>1, <2>2
<1>4. ASSUME AtWork' = AtWork, wait_condition_' \in SUBSET wait_condition_,
             UNCHANGED working_threads_
      PROVE  WorkNotLost'
  BY <1>4
<1>5. ASSUME NEW w \in Workers, Fetch(w) \/ Fetched(w) \/ Process(w)
      PROVE  WorkNotLost'
  <2>1. AtWork' = AtWork /\ wait_condition_' = wait_condition_ /\ UNCHANGED working_threads_
    BY <1>5 DEF Fetch, Fetched, Process, Enters, AtWork, wait_condition_
  <2>. QED BY <1>4, <2>1
<1>6. ASSUME NEW c \in Clients,
             \/ Offer(c) \/ TaskAccepted(c) \/ TaskRefused(c) \/ Drained(c) \/ Drain(c) \/ Halt(c)
             \/ Halted(c) \/ Join(c) \/ Closed(c) \/ AddTask(c) \/ Wait(c)
      PROVE  WorkNotLost'
  <2>1. /\ UNCHANGED working_threads_
        /\ \E p \in ClientPCs \ {"sleeping"} : tpc' = [tpc EXCEPT ![c] = p]
    BY <1>6 DEF Offer, TaskAccepted, TaskRefused, Drained, Drain, Halt, Halted, Join, Closed,
                AddTask, Wait, Enters, ClientPCs
  <2>2. AtWork' = AtWork /\ wait_condition_' \in SUBSET wait_condition_
    BY <2>1 DEF AtWork, wait_condition_
  <2>. QED BY <1>4, <2>1, <2>2
<1>7. ASSUME NEW c \in Clients, BeginStop(c)
      PROVE  WorkNotLost'
  <2>1. AtWork' = AtWork /\ wait_condition_' \in SUBSET wait_condition_ /\ UNCHANGED working_threads_
    BY <1>7 DEF BeginStop, AtWork, wait_condition_
  <2>. QED BY <1>4, <2>1
<1>8. ASSUME NEW t \in Threads, InQueue(t) \/ Wakeup(t)
      PROVE  WorkNotLost'
  <2>1. AtWork' = AtWork /\ wait_condition_' \in SUBSET wait_condition_ /\ UNCHANGED working_threads_
    BY <1>8 DEF InQueue, Wakeup, tpvars, AtWork, wait_condition_
  <2>. QED BY <1>4, <2>1
<1>9. CASE UNCHANGED vars
  BY <1>4, <1>9 DEF vars, tpvars, AtWork, wait_condition_
<1>. QED BY <1>1, <1>2, <1>3, <1>5, <1>6, <1>7, <1>8, <1>9, ProcessorAssumption
         DEF Next, WorkerStep, ClientStep, Stop, Destroy, Terminated

-----------------------------------------------------------------------------
(* The end of the processor.  Once the destructor has begun nobody but the *)
(* owner is in a call; it joins the workers, and what is left in the queue *)
(* it deletes when all of them are gone.                                   *)
LastCalls == {"stopping", "draining", "halt", "halting", "joining", "closing", "destroyed"}

(* The end of a processor: the destructor joins after the stop and closes  *)
(* after the last worker is gone, and the queue is empty after it          *)
(* (task_processor.h:60-64).                                               *)
EndInv ==
    /\ \A c \in Clients : tpc[c] \in {"joining", "closing", "destroyed"} => c = Owner /\ destroying
    /\ \A c \in Clients : tpc[c] \in {"halting", "joining", "closing", "destroyed"} => stopping_
    /\ destroying => /\ tpc[Owner] \in LastCalls
                     /\ \A c \in Clients \ {Owner} : tpc[c] \in {"free", "waited", "stopped"}
    /\ tpc[Owner] \in {"closing", "destroyed"} => \A w \in Workers : tpc[w] = "gone"
    /\ (tpc[Owner] = "closing" /\ op[Owner] = "none") \/ tpc[Owner] = "destroyed" => queue_ = <<>>

LEMMA InitEnd == Init => EndInv
BY Threadsets, ProcessorAssumption DEF Init, QueueInit, EndInv

LEMMA WorkerKeepsEnd ==
    ASSUME ShapeInv, EndInv, NEW w \in Workers, WorkerStep(w)
    PROVE  EndInv'
<1> USE Threadsets, ProcessorAssumption
        DEF ShapeInv, ProcTypes, QueueInv, QueueTypeOK, EndInv, Goto, LastCalls
<1>1. CASE Fetch(w)
  BY <1>1 DEF Fetch, Enters, Enter
<1>2. CASE Fetched(w) \/ Claim(w) \/ Retire(w)
  <2>1. tpc[w] # "gone" /\ UNCHANGED <<qvars, destroying>>
    BY <1>2 DEF Fetched, Claim, Retire
  <2>2. \A c \in Clients : tpc'[c] = tpc[c] \/ (tpc[c] = "sleeping" /\ tpc'[c] = "counting")
    BY <1>2 DEF Fetched, Claim, Retire, RetireWakes, wait_condition_
  <2>. QED BY <2>1, <2>2 DEF qvars
<1>3. CASE Process(w)
  BY <1>3 DEF Process
<1>. QED BY <1>1, <1>2, <1>3 DEF WorkerStep

LEMMA ClientKeepsEnd ==
    ASSUME ShapeInv, EndInv, NEW c \in Clients,
           AddTask(c) \/ Wait(c) \/ Stop(c) \/ Destroy \/ ClientStep(c)
    PROVE  EndInv'
<1> USE Threadsets, ProcessorAssumption
        DEF ShapeInv, ProcTypes, QueueInv, QueueTypeOK, CallShape, EndInv, Goto, LastCalls
<1>1. CASE AddTask(c)
  BY <1>1 DEF AddTask, Outside
<1>2. CASE Offer(c)
  BY <1>2 DEF Offer, Enter
<1>3. CASE TaskAccepted(c) \/ Drained(c) \/ CountWorking(c)
  <2>1. tpc[c] \in {"pushing", "waiting", "counting"} /\ UNCHANGED <<qvars, destroying>>
    BY <1>3 DEF TaskAccepted, Drained, CountWorking
  <2>2. \E p \in {"free", "counting", "sleeping", "waited"} : tpc' = [tpc EXCEPT ![c] = p]
    BY <1>3 DEF TaskAccepted, Drained, CountWorking
  <2>3. ~destroying
    BY <2>1
  <2>. QED BY <2>1, <2>2, <2>3 DEF qvars
<1>4. CASE Halted(c)
  BY <1>4 DEF Halted, qvars
<1>5. CASE Closed(c)
  BY <1>5 DEF Closed, qvars
<1>6. CASE TaskRefused(c)
  BY <1>6 DEF TaskRefused
<1>7. CASE Wait(c)
  BY <1>7 DEF Wait, Enters, Enter, Outside
<1>8. CASE Drain(c)
  BY <1>8 DEF Drain, Enters, Enter
<1>9. CASE Halt(c)
  BY <1>9 DEF Halt, Enters, Enter, Stopping
<1>10. CASE Join(c)
  BY <1>10 DEF Join, Enters, Enter, Stopping, Guarded, Popping
<1>11. CASE Stop(c)
  BY <1>11 DEF Stop, BeginStop, Outside, qvars
<1>12. CASE Destroy
  <2>1. /\ \A d \in Clients : tpc[d] \in {"free", "waited", "stopped"}
        /\ destroying' /\ UNCHANGED qvars
        /\ tpc' = [tpc EXCEPT ![Owner] = IF process_on_stop_ THEN "stopping" ELSE "halt"]
    BY <1>12 DEF Destroy, Outside, BeginStop
  <2>. QED BY <2>1 DEF qvars
<1>. QED BY <1>1, <1>2, <1>3, <1>4, <1>5, <1>6, <1>7, <1>8, <1>9, <1>10, <1>11, <1>12
         DEF ClientStep

LEMMA InsideKeepsEnd ==
    ASSUME ShapeInv, EndInv, NEW t \in Threads, InQueue(t) \/ Wakeup(t)
    PROVE  EndInv'
<1> USE Threadsets, ProcessorAssumption DEF ShapeInv, ProcTypes, EndInv, LastCalls
<1>1. CASE InQueue(t)
  <2>1. /\ UNCHANGED <<tpc, destroying>> /\ QueueStep(t)
    BY <1>1 DEF InQueue, tpvars
  <2>2. op[t] # "none" /\ op[t] = CallAt(tpc[t])
    BY <2>1, OthersStay DEF ProcShape
  <2>3. UNCHANGED stopping_
    BY <2>1, <2>2, OthersStay DEF CallAt
  <2>4. ASSUME tpc[Owner] = "closing" \/ tpc[Owner] = "destroyed"
        PROVE  t = Owner /\ op[Owner] = "stop_processing"
    <3>1. t \notin Workers
      BY <2>2, <2>4 DEF CallAt
    <3>2. t = Owner
      BY <2>2, <2>4, <3>1 DEF CallAt
    <3>. QED BY <2>2, <2>4, <3>2 DEF CallAt
  <2>5. ASSUME tpc[Owner] = "closing" \/ tpc[Owner] = "destroyed", op'[Owner] = "none"
        PROVE  queue_' = <<>>
    BY <2>1, <2>2, <2>4, <2>5, CallEnds
  <2>6. tpc[Owner] # "destroyed"
    BY <2>2, <2>4 DEF CallAt
  <2>. QED BY <2>1, <2>3, <2>5, <2>6
<1>2. CASE Wakeup(t)
  BY <1>2 DEF Wakeup, Spurious, wait_condition_, Goto, qvars
<1>. QED BY <1>1, <1>2

(* The invariant of the processor.                                         *)
ProcInv == ShapeInv /\ WorkNotLost /\ EndInv

LEMMA StepKeepsProc == ProcInv /\ [Next]_vars => ProcInv'
<1> SUFFICES ASSUME ProcInv, [Next]_vars
             PROVE  ProcInv'
  OBVIOUS
<1>1. ShapeInv' /\ WorkNotLost'
  BY StepKeepsShapeInv, StepKeepsCount DEF ProcInv
<1>2. CASE UNCHANGED vars
  BY <1>1, <1>2 DEF vars, qvars, tpvars, ProcInv, EndInv
<1>3. EndInv'
  BY <1>1, <1>2, WorkerKeepsEnd, ClientKeepsEnd, InsideKeepsEnd, ProcessorAssumption
     DEF ProcInv, Next, Terminated
<1>. QED BY <1>1, <1>3 DEF ProcInv

LEMMA InitProc == Init => ProcInv
<1> SUFFICES ASSUME Init
             PROVE  ProcInv
  OBVIOUS
<1>1. AtWork = {} /\ wait_condition_ = {}
  BY Threadsets DEF Init, AtWork, wait_condition_
<1>. QED BY <1>1, FS_EmptySet, InitShape, InitEnd DEF Init, ProcInv, WorkNotLost

(* No end of work is lost: working_threads_ counts the workers between     *)
(* their two sections, and whoever sleeps in wait() has one of them, for   *)
(* any number of workers and clients (task_processor.h).                   *)
THEOREM NoWorkLost == Spec => []WorkNotLost
<1>1. ProcInv => WorkNotLost
  BY DEF ProcInv
<1>. QED BY <1>1, InitProc, StepKeepsProc, PTL DEF Spec

(* Every task was deleted when the destructor has returned, whoever stops  *)
(* the processor and adds to it meanwhile (task_processor.h).              *)
LEMMA ProcNoLeak == ProcInv => NoLeak
<1> SUFFICES ASSUME ProcInv, tpc[Owner] = "destroyed", NEW e \in Elements
             PROVE  heap[e] # "live"
  BY DEF NoLeak
<1> USE Threadsets, ProcessorAssumption DEF ProcInv, EndInv, ShapeInv
<1>1. DOMAIN queue_ = {}
  OBVIOUS
<1>2. \A w \in Workers : held[w] = NULL
  BY DEF ProcShape
<1>3. \A c \in Clients : held[c] = NULL
  BY DEF ProcShape, LastCalls
<1>4. \A t \in Threads : held[t] # e
  BY <1>2, <1>3, QueueAssumption
<1>. QED BY <1>1, <1>4 DEF QueueInv, Ownership

(* After the destructor every task was deleted: run and deleted by a       *)
(* worker, refused and deleted by its caller, or deleted by the queue      *)
(* (task_processor.h:60-64, 126-147, ts_queue.h:86-89).                    *)
THEOREM NothingLeaks == Spec => []NoLeak
BY InitProc, StepKeepsProc, ProcNoLeak, PTL DEF Spec

-----------------------------------------------------------------------------
(* The tasks.  One that has left the queue was run or is in the hands of a *)
(* worker, as long as the destructor has not come to what is left.         *)
Placed(e) == e \in ran \/ \E w \in Workers : held[w] = e

(* A task that was run is deleted, and one that was deleted was run or     *)
(* refused, until the destructor of the queue deletes what is left.        *)
FateInv ==
    /\ \A e \in ran : heap[e] = "freed"
    /\ \A e \in Elements : heap[e] = "freed" =>
         e \in ran \cup refused \/ tpc[Owner] \in {"closing", "destroyed"}

(* What a wait() is due is in the queue only while it waits for the queue. *)
WaitInv ==
    \A c \in Clients :
        (tpc[c] \in {"waiting", "counting", "sleeping", "waited"} /\ ~stopping_) =>
            \A e \in due[c] : \/ Placed(e)
                              \/ Queued(e) /\ tpc[c] = "waiting" /\ op[c] # "none"

(* With process_on_stop_ the queue is stopped only after a stop() has seen *)
(* it empty, and after the first stop() nothing is added to it.            *)
EarlyInv ==
    process_on_stop_ =>
        /\ stopping_ => tp_stopping_
        /\ \A c \in Clients : /\ tpc[c] \in {"stopping", "draining"} => tp_stopping_
                              /\ tpc[c] # "halt"
        /\ \A e \in early : Placed(e) \/ (Queued(e) /\ ~stopping_)
        /\ \A c \in Clients : (tpc[c] = "draining" /\ op[c] = "none") =>
             \A e \in early : Placed(e)

TaskInv == FateInv /\ WaitInv /\ EarlyInv

LEMMA InitTask == Init => TaskInv
BY Threadsets, ProcessorAssumption
   DEF Init, QueueInit, TaskInv, FateInv, WaitInv, EarlyInv

(* What client and worker steps do to the lists.                           *)
LEMMA WorkersHands ==
    ASSUME ProcInv, [Next]_vars
    PROVE  /\ stopping_ => stopping_'
           /\ \A e \in Elements : Placed(e) => Placed(e)'
           /\ tpc[Owner] # "closing" => \A e \in Elements : Queued(e) => Queued(e)' \/ Placed(e)'
<1> USE Threadsets, ProcessorAssumption DEF ProcInv, ShapeInv, Placed
<1>1. ASSUME NEW t \in Threads, InQueue(t)
      PROVE  /\ stopping_ => stopping_'
             /\ \A e \in Elements : Placed(e) => Placed(e)'
             /\ tpc[Owner] # "closing" => \A e \in Elements : Queued(e) => Queued(e)' \/ Placed(e)'
  <2>1. QueueStep(t) /\ UNCHANGED <<tpc, ran>>
    BY <1>1 DEF InQueue, tpvars, hist
  <2>0. op[t] # "none" /\ op[t] = CallAt(tpc[t])
    BY <2>1, OthersStay DEF ProcShape
  <2>2. /\ \A x \in Threads : x # t => held'[x] = held[x]
        /\ op[t] # "none" /\ op[t] = CallAt(tpc[t])
        /\ op[t] # "restart" => UNCHANGED stopping_
    BY ONLY <2>0, <2>1, QueueInv, OthersStay
  <2>3. op[t] # "restart" /\ (op[t] = "stop_processing" => tpc[Owner] = "closing")
    BY <2>2 DEF CallAt, EndInv, ProcShape, WorkerPCs
  <2>4. op[t] \in Popping => t \in Workers
    BY <2>2 DEF CallAt, Popping, ProcShape, ClientPCs
  <2>5. t \in Workers => held[t] = NULL
    BY <2>2 DEF CallAt, ProcShape, WorkerPCs, QueueInv, CallShape
  <2>6. \A e \in Elements : Placed(e) => Placed(e)'
    BY <2>1, <2>2, <2>5, QueueAssumption
  <2>7. ASSUME tpc[Owner] # "closing", NEW e \in Elements, Queued(e)
        PROVE  Queued(e)' \/ Placed(e)'
    <3>1. op[t] \notin Deleting
      BY <2>3, <2>7 DEF Deleting
    <3>2. Queued(e)' \/ (op[t] \in Popping /\ held'[t] = e)
      BY <2>1, <2>7, <3>1, QueuedOrTaken
    <3>. QED BY <2>4, <3>2
  <2>. QED BY <2>2, <2>3, <2>6, <2>7
<1>2. ASSUME NEW w \in Workers, Process(w)
      PROVE  /\ UNCHANGED <<stopping_, queue_>>
             /\ \A e \in Elements : Placed(e) => Placed(e)'
  BY <1>2 DEF Process, QueueInv, QueueTypeOK
<1>3. ASSUME UNCHANGED <<queue_, ran>>, stopping_ => stopping_',
             \A w \in Workers : held'[w] = held[w]
      PROVE  /\ stopping_ => stopping_'
             /\ \A e \in Elements : (Placed(e) => Placed(e)') /\ (Queued(e) => Queued(e)')
  BY <1>3 DEF Queued
<1>4. ASSUME NEW w \in Workers, Fetch(w) \/ Fetched(w) \/ Claim(w) \/ Retire(w)
      PROVE  UNCHANGED <<queue_, ran>> /\ (stopping_ => stopping_') /\ UNCHANGED held
  BY <1>4 DEF Fetch, Fetched, Claim, Retire, Enters, Enter, qvars, hist, ProcShape, QueueInv, QueueTypeOK
<1>5. ASSUME NEW c \in Clients, AddTask(c) \/ Wait(c) \/ Stop(c) \/ Destroy \/ ClientStep(c)
      PROVE  /\ UNCHANGED <<queue_, ran>> /\ (stopping_ => stopping_')
             /\ \A w \in Workers : held'[w] = held[w]
  <2>1. CASE AddTask(c) \/ TaskRefused(c)
    BY <2>1 DEF AddTask, TaskRefused, hist, QueueInv, QueueTypeOK
  <2>2. CASE Offer(c) \/ Wait(c) \/ Drain(c) \/ Halt(c) \/ Join(c)
    BY <2>2 DEF Offer, Wait, Drain, Halt, Join, Enters, Enter, hist, QueueInv, QueueTypeOK
  <2>3. CASE TaskAccepted(c) \/ Drained(c) \/ CountWorking(c) \/ Halted(c) \/ Closed(c) \/ Stop(c) \/ Destroy
    BY <2>3 DEF TaskAccepted, Drained, CountWorking, Halted, Closed, Stop, Destroy, BeginStop,
                qvars, hist
  <2>. QED BY <1>5, <2>1, <2>2, <2>3 DEF ClientStep
<1>6. ASSUME NEW t \in Threads, Wakeup(t)
      PROVE  UNCHANGED <<queue_, stopping_, ran, held>>
  BY <1>6 DEF Wakeup, Spurious, qvars, hist
<1>7. CASE UNCHANGED vars
  BY <1>3, <1>7 DEF vars, qvars, tpvars, hist
<1>8. ASSUME NEW w \in Workers, WorkerStep(w)
      PROVE  /\ stopping_ => stopping_'
             /\ \A e \in Elements : (Placed(e) => Placed(e)') /\ (Queued(e) => Queued(e)')
  <2>1. CASE Process(w)
    BY <1>2, <2>1 DEF Queued
  <2>2. CASE ~Process(w)
    BY <1>3, <1>4, <1>8, <2>2 DEF WorkerStep
  <2>. QED BY <2>1, <2>2
<1>9. ASSUME NEW c \in Clients, AddTask(c) \/ Wait(c) \/ Stop(c) \/ Destroy \/ ClientStep(c)
      PROVE  /\ stopping_ => stopping_'
             /\ \A e \in Elements : (Placed(e) => Placed(e)') /\ (Queued(e) => Queued(e)')
  BY <1>3, <1>5, <1>9
<1>10. ASSUME NEW t \in Threads, Wakeup(t)
       PROVE  /\ stopping_ => stopping_'
              /\ \A e \in Elements : (Placed(e) => Placed(e)') /\ (Queued(e) => Queued(e)')
  BY <1>3, <1>6, <1>10
<1>. QED BY ONLY <1>1, <1>7, <1>8, <1>9, <1>10, ProcessorAssumption, [Next]_vars DEF Next, Terminated

(* Where a task is that add_task() returned true for.                      *)
LEMMA AcceptedPlace ==
    ASSUME ProcInv, FateInv, tpc[Owner] \notin {"closing", "destroyed"}, NEW e \in Accepted
    PROVE  Placed(e) \/ Queued(e)
<1> USE Threadsets DEF ProcInv, ShapeInv
<1>1. /\ e \in Elements /\ heap[e] \in {"live", "freed"} /\ e \notin refused
      /\ \A c \in Clients : held[c] # e
  BY DEF Accepted, QueueInv, QueueTypeOK
<1>2. CASE heap[e] = "live"
  BY <1>1, <1>2 DEF QueueInv, Ownership, Placed, Queued
<1>3. CASE heap[e] = "freed"
  BY <1>1, <1>3 DEF FateInv, Placed
<1>. QED BY <1>1, <1>2, <1>3

(* A task that was run is deleted for good, and one that is deleted was    *)
(* run or refused until the destructor deletes the rest.                   *)
LEMMA StepKeepsFate ==
    ASSUME ProcInv, FateInv, [Next]_vars
    PROVE  FateInv'
<1> USE Threadsets, ProcessorAssumption
        DEF ProcInv, ShapeInv, ProcTypes, FateInv, QueueInv, QueueTypeOK, Goto
<1>1. ASSUME NEW t \in Threads, InQueue(t)
      PROVE  FateInv'
  <2>1. QueueStep(t) /\ UNCHANGED <<tpc, ran, refused>>
    BY <1>1 DEF InQueue, tpvars, hist
  <2>2. CASE UNCHANGED heap
    BY <2>1, <2>2
  <2>3. CASE /\ op[t] \in Deleting
             /\ heap' = [e \in Elements |-> IF Queued(e) THEN "freed" ELSE heap[e]]
    <3>1. tpc[Owner] = "closing"
      BY <2>3 DEF ProcShape, CallAt, EndInv, WorkerPCs, Deleting
    <3>. QED BY <2>1, <2>3, <3>1
  <2>. QED BY <2>1, <2>2, <2>3, PointersMove
<1>2. ASSUME NEW w \in Workers, Process(w)
      PROVE  FateInv'
  <2>1. held[w] \in Elements /\ tpc' = [tpc EXCEPT ![w] = "retiring"]
    BY <1>2 DEF Process, ProcShape
  <2>. QED BY <1>2, <2>1 DEF Process
<1>3. ASSUME NEW c \in Clients, TaskRefused(c)
      PROVE  FateInv'
  <2>1. /\ held[c] \in Elements /\ UNCHANGED ran /\ refused' = refused \cup {held[c]}
        /\ heap' = [heap EXCEPT ![held[c]] = "freed"]
        /\ tpc[c] \in {"pushing", "refused"} /\ tpc' = [tpc EXCEPT ![c] = "free"]
    BY <1>3 DEF TaskRefused
  <2>. QED BY <2>1
<1>4. ASSUME NEW c \in Clients, AddTask(c)
      PROVE  FateInv'
  <2>1. PICK e \in Elements : heap[e] = "raw" /\ heap' = [heap EXCEPT ![e] = "live"]
    BY <1>4 DEF AddTask
  <2>2. /\ UNCHANGED <<ran, refused>>
        /\ tpc[Owner] \in {"closing", "destroyed"} => UNCHANGED tpc[Owner]
    BY <1>4 DEF AddTask, Outside, hist
  <2>. QED BY <2>1, <2>2
<1>5. ASSUME UNCHANGED <<heap, ran, refused>>,
             tpc[Owner] \in {"closing", "destroyed"} => tpc'[Owner] \in {"closing", "destroyed"}
      PROVE  FateInv'
  BY <1>5
<1>6. ASSUME NEW w \in Workers, Fetch(w) \/ Fetched(w) \/ Claim(w) \/ Retire(w)
      PROVE  FateInv'
  <2>1. /\ UNCHANGED <<heap, ran, refused>>
        /\ tpc[Owner] \in {"closing", "destroyed"} => tpc'[Owner] \in {"closing", "destroyed"}
    BY <1>6 DEF Fetch, Fetched, Claim, Retire, RetireWakes, wait_condition_, Enters, qvars, hist
  <2>. QED BY <1>5, <2>1
<1>7. ASSUME NEW c \in Clients,
             \/ Offer(c) \/ TaskAccepted(c) \/ Drained(c) \/ CountWorking(c) \/ Drain(c) \/ Halt(c)
             \/ Halted(c) \/ Join(c) \/ Closed(c) \/ Wait(c)
      PROVE  FateInv'
  <2>1. /\ UNCHANGED <<heap, ran, refused>>
        /\ tpc[Owner] \in {"closing", "destroyed"} => tpc'[Owner] \in {"closing", "destroyed"}
    BY <1>7 DEF Offer, TaskAccepted, Drained, CountWorking, Drain, Halt, Halted, Join, Closed, Wait,
                Outside, Enters, qvars, hist
  <2>. QED BY <1>5, <2>1
<1>8. ASSUME NEW c \in Clients, Stop(c) \/ Destroy
      PROVE  FateInv'
  <2>1. /\ UNCHANGED <<heap, ran, refused>>
        /\ tpc[Owner] \in {"closing", "destroyed"} => tpc'[Owner] \in {"closing", "destroyed"}
    BY <1>8 DEF Stop, Destroy, BeginStop, Outside, EndInv, qvars
  <2>. QED BY <1>5, <2>1
<1>9. ASSUME NEW t \in Threads, Wakeup(t)
      PROVE  FateInv'
  <2>1. /\ UNCHANGED <<heap, ran, refused>>
        /\ tpc[Owner] \in {"closing", "destroyed"} => tpc'[Owner] \in {"closing", "destroyed"}
    BY <1>9 DEF Wakeup, Spurious, wait_condition_, qvars, hist
  <2>. QED BY <1>5, <2>1
<1>10. CASE UNCHANGED vars
  BY <1>5, <1>10 DEF vars, qvars, tpvars, hist
<1>. QED BY ONLY <1>1, <1>2, <1>3, <1>4, <1>6, <1>7, <1>8, <1>9, <1>10, ProcessorAssumption,
                 [Next]_vars DEF Next, WorkerStep, ClientStep, Terminated

(* wait() and the stops: what they are due, they are due until it is in    *)
(* the hands of a worker.                                                  *)
LEMMA StepKeepsWait ==
    ASSUME ProcInv, FateInv, WaitInv, [Next]_vars
    PROVE  WaitInv'
<1> SUFFICES ASSUME NEW c \in Clients, NEW e \in due'[c], ~stopping_',
                    tpc'[c] \in {"waiting", "counting", "sleeping", "waited"}
             PROVE  \/ Placed(e)'
                    \/ Queued(e)' /\ tpc'[c] = "waiting" /\ op'[c] # "none"
  BY DEF WaitInv
<1> DEFINE Waits == {"waiting", "counting", "sleeping", "waited"}
<1>1. /\ ~stopping_ /\ tpc[Owner] \notin {"closing", "destroyed"}
      /\ \A x \in Elements : Placed(x) => Placed(x)'
      /\ \A x \in Elements : Queued(x) => Queued(x)' \/ Placed(x)'
  BY WorkersHands, ProcessorAssumption DEF ProcInv, EndInv
<1> USE Threadsets, ProcessorAssumption DEF ProcInv, ShapeInv, ProcTypes, Goto
<1>2. ASSUME Wait(c)
      PROVE  (Queued(e)' /\ tpc'[c] = "waiting" /\ op'[c] # "none") \/ Placed(e)'
  <2>1. /\ due'[c] = Accepted /\ tpc'[c] = "waiting" /\ Enter(c, "wait", NULL)
    BY <1>2 DEF Wait, Enters
  <2>2. op'[c] # "none"
    BY <1>1, <2>1 DEF Enter, QueueInv, QueueTypeOK
  <2>3. Placed(e) \/ Queued(e)
    BY <1>1, <2>1, AcceptedPlace
  <2>4. e \in Elements
    BY <2>1, AcceptedElements
  <2>. QED BY <1>1, <2>1, <2>2, <2>3, <2>4
<1>3. ASSUME e \in due[c], tpc[c] \in Waits,
             Queued(e) /\ tpc[c] = "waiting" /\ op[c] # "none" =>
                 \/ tpc'[c] = "waiting" /\ op'[c] # "none"
                 \/ Placed(e)'
      PROVE  (Queued(e)' /\ tpc'[c] = "waiting" /\ op'[c] # "none") \/ Placed(e)'
  <2>1. e \in Elements
    BY <1>3
  <2>. QED BY <1>1, <1>3, <2>1 DEF WaitInv
<1>4. ASSUME UNCHANGED due, tpc[c] \in Waits,
             tpc'[c] = tpc[c] \/ tpc[c] # "waiting", op'[c] = op[c]
      PROVE  (Queued(e)' /\ tpc'[c] = "waiting" /\ op'[c] # "none") \/ Placed(e)'
  BY <1>3, <1>4
<1>5. ASSUME NEW t \in Threads, InQueue(t)
      PROVE  (Queued(e)' /\ tpc'[c] = "waiting" /\ op'[c] # "none") \/ Placed(e)'
  <2>1. QueueStep(t) /\ UNCHANGED <<tpc, due>>
    BY <1>5 DEF InQueue, tpvars, hist
  <2>2. c # t => op'[c] = op[c]
    BY <2>1, OthersStay
  <2>3. ASSUME Queued(e), op[c] # "none", tpc[c] = "waiting"
        PROVE  op'[c] # "none"
    <3>1. queue_ # <<>>
      BY <2>3 DEF Queued
    <3>2. op[c] = "wait"
      BY <2>3 DEF ProcShape, CallAt
    <3>3. c = t => op'[c] # "none"
      BY <1>1, <2>1, <3>1, <3>2, CallEnds
    <3>. QED BY <2>2, <2>3, <3>3
  <2>4. tpc[c] \in Waits /\ e \in due[c] /\ tpc'[c] = tpc[c]
    BY <2>1
  <2>. QED BY <1>3, <2>3, <2>4
<1>6. ASSUME NEW w \in Workers, WorkerStep(w)
      PROVE  (Queued(e)' /\ tpc'[c] = "waiting" /\ op'[c] # "none") \/ Placed(e)'
  <2>1. UNCHANGED due /\ op'[c] = op[c]
    BY <1>6 DEF WorkerStep, Fetch, Fetched, Claim, Process, Retire, Enters, Enter, qvars, hist,
                QueueInv, QueueTypeOK
  <2>2. tpc'[c] = tpc[c] \/ tpc[c] = "sleeping"
    BY <1>6 DEF WorkerStep, Fetch, Fetched, Claim, Process, Retire, RetireWakes, wait_condition_, Enters
  <2>. QED BY <1>4, <2>1, <2>2
<1>7. ASSUME NEW d \in Clients, AddTask(d) \/ ClientStep(d)
      PROVE  (Queued(e)' /\ tpc'[c] = "waiting" /\ op'[c] # "none") \/ Placed(e)'
  <2>1. UNCHANGED due /\ (c # d => tpc'[c] = tpc[c] /\ op'[c] = op[c])
    BY <1>7 DEF AddTask, ClientStep, Offer, TaskAccepted, TaskRefused, Drained, CountWorking, Drain,
                Halt, Halted, Join, Closed, Enters, Enter, qvars, hist, QueueInv, QueueTypeOK
  <2>2. CASE c # d
    BY <1>4, <2>1, <2>2
  <2>3. CASE c = d
    <3>1. CountWorking(c) \/ Drained(c)
      BY <1>7, <2>3 DEF AddTask, ClientStep, Offer, TaskAccepted, TaskRefused, Drain,
                Halt, Halted, Join, Closed, Enters
    <3>2. CASE Drained(c)
      <4>1. tpc[c] = "waiting" /\ op[c] = "none"
        BY <3>2 DEF Drained, QueueInv, CallShape
      <4>. QED BY <1>3, <2>1, <4>1
    <3>3. CASE CountWorking(c)
      BY <1>4, <2>1, <3>3 DEF CountWorking, qvars
    <3>. QED BY <3>1, <3>2, <3>3
  <2>. QED BY <2>2, <2>3
<1>8. ASSUME NEW d \in Clients, Wait(d), d # c
      PROVE  (Queued(e)' /\ tpc'[c] = "waiting" /\ op'[c] # "none") \/ Placed(e)'
  <2>1. due'[c] = due[c] /\ tpc'[c] = tpc[c] /\ op'[c] = op[c]
    BY <1>8 DEF Wait, Enters, Enter, QueueInv, QueueTypeOK
  <2>. QED BY <1>3, <2>1
<1>9. ASSUME NEW d \in Clients, BeginStop(d)
      PROVE  (Queued(e)' /\ tpc'[c] = "waiting" /\ op'[c] # "none") \/ Placed(e)'
  <2>1. d # c
    BY <1>9 DEF BeginStop
  <2>2. due'[c] = due[c] /\ tpc'[c] = tpc[c] /\ op'[c] = op[c]
    BY <1>9, <2>1 DEF BeginStop, qvars
  <2>. QED BY <1>3, <2>2
<1>10. ASSUME NEW t \in Threads, Wakeup(t)
       PROVE  (Queued(e)' /\ tpc'[c] = "waiting" /\ op'[c] # "none") \/ Placed(e)'
  <2>1. UNCHANGED <<due, op>> /\ (tpc'[c] = tpc[c] \/ tpc[c] = "sleeping")
    BY <1>10 DEF Wakeup, Spurious, wait_condition_, qvars, hist
  <2>. QED BY <1>4, <2>1
<1>11. CASE UNCHANGED vars
  BY <1>4, <1>11 DEF vars, qvars, tpvars, hist
<1>. QED BY <1>2, <1>5, <1>6, <1>7, <1>8, <1>9, <1>10, <1>11 DEF Next, Stop, Destroy, Terminated

(* A step that neither begins a stop, nor stops the queue, nor ends the    *)
(* wait of one.                                                            *)
LEMMA EarlyKept ==
    ASSUME ProcInv, EarlyInv, [Next]_vars, process_on_stop_,
           UNCHANGED <<early, tp_stopping_, stopping_>>,
           \A c \in Clients :
               /\ tpc'[c] \in {"stopping", "draining"} => tpc[c] \in {"stopping", "draining"}
               /\ tpc'[c] # "halt"
               /\ (tpc'[c] = "draining" /\ op'[c] = "none") => stopping_ \/
                     (tpc[c] = "draining" /\ op[c] = "none")
    PROVE  EarlyInv'
<1> USE Threadsets, ProcessorAssumption DEF ProcInv, ShapeInv, ProcTypes
<1>1. ASSUME NEW e \in early
      PROVE  /\ Placed(e) => Placed(e)'
             /\ Queued(e) /\ ~stopping_ => Queued(e)' \/ Placed(e)'
  <2>1. e \in Elements /\ (~stopping_ => tpc[Owner] # "closing")
    BY DEF EndInv
  <2>. QED BY <2>1, WorkersHands
<1>2. \A e \in early : Placed(e)' \/ (Queued(e)' /\ ~stopping_)
  BY <1>1 DEF EarlyInv
<1>3. ASSUME NEW c \in Clients, tpc'[c] = "draining", op'[c] = "none", NEW e \in early
      PROVE  Placed(e)'
  BY <1>1, <1>3 DEF EarlyInv
<1>4. \A c \in Clients : tpc'[c] \in {"stopping", "draining"} => tp_stopping_
  BY DEF EarlyInv
<1>5. stopping_ => tp_stopping_
  BY DEF EarlyInv
<1>. QED BY <1>2, <1>3, <1>4, <1>5 DEF EarlyInv

(* What the first stop() of a processor with process_on_stop_ has before   *)
(* it, it waits for: nothing is added, and the queue is stopped by one who *)
(* has seen it empty.                                                      *)
LEMMA StepKeepsEarly ==
    ASSUME ProcInv, FateInv, EarlyInv, [Next]_vars
    PROVE  EarlyInv'
<1> SUFFICES ASSUME process_on_stop_
             PROVE  EarlyInv'
  BY DEF EarlyInv
<1> USE Threadsets, ProcessorAssumption DEF ProcInv, ShapeInv, ProcTypes, Goto
<1>1. ASSUME NEW t \in Threads, InQueue(t)
      PROVE  EarlyInv'
  <2>1. QueueStep(t) /\ UNCHANGED <<tpc, early, tp_stopping_>>
    BY <1>1 DEF InQueue, tpvars, hist
  <2>0. op[t] # "none" /\ op[t] = CallAt(tpc[t])
    BY <2>1, OthersStay DEF ProcShape
  <2>2. /\ \A x \in Threads : x # t => op'[x] = op[x]
        /\ op[t] # "none" /\ op[t] = CallAt(tpc[t])
    BY ONLY <2>0, <2>1, QueueInv, OthersStay
  <2>3. UNCHANGED stopping_
    BY <2>1, <2>2, OthersStay DEF CallAt
  <2>4. \A c \in Clients : tpc[c] # "halt"
    BY DEF EarlyInv
  <2>5. CASE \/ tpc[t] # "draining" \/ op'[t] # "none" \/ t \notin Clients
    <3>1. \A c \in Clients : (tpc'[c] = "draining" /\ op'[c] = "none") =>
              (tpc[c] = "draining" /\ op[c] = "none")
      BY <2>1, <2>2, <2>5
    <3>. QED BY <2>1, <2>3, <2>4, <3>1, EarlyKept
  <2>6. CASE tpc[t] = "draining" /\ op'[t] = "none" /\ t \in Clients
    <3>1. op[t] = "wait"
      BY <2>2, <2>6 DEF CallAt
    <3>2. (queue_ = <<>> /\ queue_' = <<>>) \/ stopping_
      BY <2>1, <2>2, <2>6, <3>1, CallEnds
    <3>3. \A e \in early : Placed(e)
      <4>1. CASE stopping_
        BY <4>1 DEF EarlyInv
      <4>2. CASE queue_ = <<>>
        BY <4>2 DEF EarlyInv, Queued
      <4>. QED BY <3>2, <4>1, <4>2
    <3>4. \A e \in early : Placed(e)'
      BY <3>3, WorkersHands
    <3>. QED BY <2>1, <2>3, <2>4, <3>4 DEF EarlyInv
  <2>. QED BY <2>5, <2>6
<1>2. ASSUME NEW w \in Workers, WorkerStep(w)
      PROVE  EarlyInv'
  <2>1. UNCHANGED <<early, tp_stopping_, stopping_>>
    BY <1>2 DEF WorkerStep, Fetch, Fetched, Claim, Process, Retire, Enters, Enter, Stopping, qvars, hist,
                QueueInv, QueueTypeOK
  <2>2. \A c \in Clients : op'[c] = op[c]
    BY <1>2 DEF WorkerStep, Fetch, Fetched, Claim, Process, Retire, Enters, Enter, qvars, QueueInv,
                QueueTypeOK
  <2>3. \A c \in Clients : tpc'[c] = tpc[c] \/ tpc'[c] = "counting"
    BY <1>2 DEF WorkerStep, Fetch, Fetched, Claim, Process, Retire, RetireWakes, wait_condition_, Enters
  <2>. QED BY <2>1, <2>2, <2>3, EarlyKept DEF EarlyInv
<1>3. ASSUME NEW c \in Clients,
             AddTask(c) \/ Offer(c) \/ TaskAccepted(c) \/ TaskRefused(c) \/ Drained(c)
             \/ CountWorking(c) \/ Halted(c) \/ Closed(c) \/ Wait(c)
      PROVE  EarlyInv'
  <2>1. UNCHANGED <<early, tp_stopping_, stopping_>>
    BY <1>3 DEF AddTask, Offer, TaskAccepted, TaskRefused, Drained, CountWorking, Halted, Closed, Wait,
                Enters, Enter, Stopping, qvars, hist, QueueInv, QueueTypeOK
  <2>2. /\ \A d \in Clients \ {c} : op'[d] = op[d] /\ tpc'[d] = tpc[d]
        /\ tpc'[c] \notin {"stopping", "draining", "halt"}
    BY <1>3 DEF AddTask, Offer, TaskAccepted, TaskRefused, Drained, CountWorking, Halted, Closed, Wait,
                Enters, Enter, qvars, QueueInv, QueueTypeOK
  <2>. QED BY <2>1, <2>2, EarlyKept DEF EarlyInv
<1>4. ASSUME NEW c \in Clients, Drain(c)
      PROVE  EarlyInv'
  <2>1. /\ UNCHANGED <<early, tp_stopping_, stopping_>> /\ tpc[c] = "stopping"
        /\ \A d \in Clients \ {c} : op'[d] = op[d] /\ tpc'[d] = tpc[d]
        /\ tpc'[c] = "draining"
    BY <1>4 DEF Drain, Enters, Enter, Stopping, hist, QueueInv, QueueTypeOK
  <2>2. op'[c] = "none" => stopping_
    BY <1>4 DEF Drain, Enters, Enter, Stopping, QueueInv, QueueTypeOK
  <2>. QED BY <2>1, <2>2, EarlyKept DEF EarlyInv
<1>5. ASSUME NEW c \in Clients, Halt(c)
      PROVE  EarlyInv'
  <2>1. /\ tpc[c] = "draining" /\ op[c] = "none" /\ tp_stopping_
        /\ UNCHANGED <<early, tp_stopping_>>
        /\ \A d \in Clients \ {c} : tpc'[d] = tpc[d]
        /\ tpc'[c] = "halting"
    BY <1>5 DEF Halt, Enters, Enter, EarlyInv, hist, QueueInv, CallShape
  <2>2. \A e \in early : Placed(e)'
    BY <2>1, WorkersHands DEF EarlyInv
  <2>. QED BY <2>1, <2>2 DEF EarlyInv
<1>6. ASSUME NEW c \in Clients, Join(c)
      PROVE  EarlyInv'
  <2>1. stopping_
    BY <1>6 DEF Join, EndInv
  <2>2. /\ UNCHANGED <<early, tp_stopping_, stopping_>>
        /\ \A d \in Clients \ {c} : op'[d] = op[d] /\ tpc'[d] = tpc[d]
        /\ tpc'[c] = "closing"
    BY <1>6, <2>1 DEF Join, Enters, Enter, hist, QueueInv, QueueTypeOK
  <2>. QED BY <2>2, EarlyKept DEF EarlyInv
<1>7. ASSUME NEW c \in Clients, BeginStop(c), tpc[Owner] \notin {"closing", "destroyed"}
      PROVE  EarlyInv'
  <2>1. /\ tp_stopping_' /\ UNCHANGED qvars
        /\ tpc' = [tpc EXCEPT ![c] = "stopping"]
        /\ early' = IF ~tp_stopping_ THEN Accepted ELSE early
    BY <1>7 DEF BeginStop
  <2>2. CASE tp_stopping_
    <3>1. UNCHANGED early /\ tp_stopping_' = tp_stopping_
      BY <2>1, <2>2
    <3>2. UNCHANGED <<stopping_, op>>
      BY <2>1 DEF qvars
    <3>3. /\ \A d \in Clients : tpc'[d] = IF d = c THEN "stopping" ELSE tpc[d]
      BY <2>1
    <3>4. \A d \in Clients : tpc'[d] \in {"stopping", "draining"} => tp_stopping_
      BY <2>2
    <3>5. \A e \in early : Placed(e)' \/ (Queued(e)' /\ ~stopping_)
      <4>1. \A e \in early : e \in Elements /\ (Placed(e) \/ (Queued(e) /\ ~stopping_))
        BY DEF EarlyInv
      <4>. QED BY <1>7, <4>1, WorkersHands
    <3>6. \A d \in Clients : (tpc'[d] = "draining" /\ op'[d] = "none") => \A e \in early : Placed(e)'
      <4>1. \A e \in early : e \in Elements
        OBVIOUS
      <4>. QED BY <3>2, <3>3, <4>1, WorkersHands DEF EarlyInv
    <3>. QED BY <2>1, <3>1, <3>2, <3>3, <3>5, <3>6 DEF EarlyInv
  <2>3. CASE ~tp_stopping_
    <3>1. /\ ~stopping_ /\ ~stopping_' /\ early' = Accepted
          /\ \A d \in Clients : tpc'[d] \notin {"draining", "halt"}
      BY <2>1, <2>3 DEF EarlyInv, qvars
    <3>2. \A e \in Accepted : Placed(e) \/ Queued(e)
      BY <1>7, AcceptedPlace
    <3>3. \A e \in Accepted : Placed(e)' \/ Queued(e)'
      BY <1>7, <3>2, AcceptedElements, WorkersHands
    <3>. QED BY <2>1, <3>1, <3>3 DEF EarlyInv
  <2>. QED BY <2>2, <2>3
<1>8. ASSUME NEW c \in Clients, Stop(c) \/ Destroy
      PROVE  EarlyInv'
  <2>1. tpc[Owner] \notin {"closing", "destroyed"} /\ \E d \in Clients : BeginStop(d)
    BY <1>8 DEF Stop, Destroy, Outside, EndInv, LastCalls
  <2>. QED BY <1>7, <2>1
<1>9. ASSUME NEW t \in Threads, Wakeup(t)
      PROVE  EarlyInv'
  <2>1. /\ UNCHANGED <<early, tp_stopping_, stopping_, op>>
        /\ \A c \in Clients : tpc'[c] = tpc[c] \/ tpc'[c] = "counting"
    BY <1>9 DEF Wakeup, Spurious, qvars, hist
  <2>. QED BY <2>1, EarlyKept DEF EarlyInv
<1>10. CASE UNCHANGED vars
  <2>1. UNCHANGED <<early, tp_stopping_, stopping_, op, tpc>>
    BY <1>10 DEF vars, qvars, tpvars, hist
  <2>. QED BY <2>1, EarlyKept DEF EarlyInv
<1>. QED BY ONLY <1>1, <1>2, <1>3, <1>4, <1>5, <1>6, <1>8, <1>9, <1>10, ProcessorAssumption,
                 [Next]_vars DEF Next, ClientStep, Terminated

LEMMA StepKeepsTask == ProcInv /\ TaskInv /\ [Next]_vars => ProcInv' /\ TaskInv'
BY StepKeepsProc, StepKeepsFate, StepKeepsWait, StepKeepsEarly DEF TaskInv

(* A wait() that returns while the queue is not stopped leaves none of the *)
(* tasks it is due in the queue: each was run, or a worker has it in its   *)
(* hands (task_processor.h, wait()).                                       *)
LEMMA TaskDrains == TaskInv => WaitDrains
BY DEF TaskInv, WaitInv, WaitDrains, Placed

(* When wait() returns without a stop, each task that was in the processor *)
(* when it began was run, or is in the hands of a worker                   *)
(* (task_processor.h:109-115, 130-135).                                    *)
THEOREM WaitLeavesNone == Spec => []WaitDrains
BY InitProc, InitTask, StepKeepsTask, TaskDrains, PTL DEF Spec

(* With process_on_stop_ the destructor returns only when every task was   *)
(* run that had been accepted when the first stop() began, whoever stops   *)
(* and adds meanwhile (task_processor.h, stop()).                          *)
LEMMA TaskEarly == ProcInv /\ TaskInv => EarlyDrained
<1> SUFFICES ASSUME ProcInv, TaskInv, tpc[Owner] = "destroyed", process_on_stop_, NEW e \in early
             PROVE  e \in ran
  BY DEF EarlyDrained
<1> USE Threadsets, ProcessorAssumption DEF ProcInv, EndInv
<1>1. stopping_ /\ \A w \in Workers : tpc[w] = "gone"
  OBVIOUS
<1>2. e \in Elements /\ \A w \in Workers : held[w] = NULL
  BY <1>1 DEF ShapeInv, ProcTypes, ProcShape
<1>3. Placed(e)
  BY <1>1 DEF TaskInv, EarlyInv
<1>. QED BY <1>2, <1>3, QueueAssumption DEF Placed

(* A destroyed processor with process_on_stop_ has run every task that was *)
(* accepted before the first stop(), although tasks are added meanwhile    *)
(* (task_processor.h:60-64, 116-124).                                      *)
THEOREM EarlyTasksRun == Spec => []EarlyDrained
BY InitProc, InitTask, StepKeepsTask, TaskEarly, PTL DEF Spec

-----------------------------------------------------------------------------
(* The types of the processor follow from ProcInv: the count of workers is *)
(* that of a set of workers.                                               *)
LEMMA ProcTypeOK == ProcInv => TypeOK
<1> SUFFICES ASSUME ProcInv
             PROVE  TypeOK
  OBVIOUS
<1>1. working_threads_ \in 0 .. Cardinality(Workers)
  BY AtWorkFinite DEF ProcInv, WorkNotLost
<1>. QED BY <1>1 DEF ProcInv, ShapeInv, ProcTypes, QueueInv, TypeOK

(* Type correctness of the processor.                                      *)
THEOREM ProcessorTypes == Spec => []TypeOK
BY InitProc, StepKeepsProc, ProcTypeOK, PTL DEF Spec

-----------------------------------------------------------------------------
(* The logger over the processor.  Its steps are steps of the processor or *)
(* leave it alone, so what holds of the processor holds of the logger.     *)
LEMMA LoggerSteps == [LoggerNext]_logvars => [Next]_vars
<1> SUFFICES ASSUME [LoggerNext]_logvars
             PROVE  [Next]_vars
  OBVIOUS
<1>1. CASE UNCHANGED logvars
  BY <1>1 DEF logvars
<1>2. ASSUME NEW w \in Workers, LogStep(w)
      PROVE  [Next]_vars
  <2>1. UNCHANGED vars \/ Process(w)
    BY <1>2 DEF LogStep, LockWrite, WriteText, WriteEnd, Written
  <2>. QED BY <2>1 DEF Next, WorkerStep
<1>3. ASSUME NEW t \in Threads, Queueing(t) \/ Wakeup(t)
      PROVE  Next
  BY <1>3 DEF Queueing, Next
<1>4. ASSUME NEW w \in Workers, Working(w)
      PROVE  Next
  BY <1>4 DEF Working, Next, WorkerStep
<1>5. ASSUME NEW c \in Clients, Calling(c)
      PROVE  Next
  BY <1>5 DEF Calling, Next
<1>. QED BY <1>1, <1>2, <1>3, <1>4, <1>5 DEF LoggerNext, Next

(* The steps of the logger are steps of its processor, or of its stream.   *)
LEMMA LoggerKeepsTask ==
    ProcInv /\ TaskInv /\ [LoggerNext]_logvars => ProcInv' /\ TaskInv'
BY LoggerSteps, StepKeepsTask

(* The count of workers and the destruction of messages, under the logger  *)
(* (queue_logger.h, on task_processor.h).                                  *)
THEOREM LoggerProcessor == LoggerSpec => [](WorkNotLost /\ NoLeak)
<1>1. ProcInv => WorkNotLost /\ NoLeak
  BY ProcNoLeak DEF ProcInv
<1>2. LoggerInit => ProcInv /\ TaskInv
  BY InitProc, InitTask DEF LoggerInit
<1>. QED BY <1>1, <1>2, LoggerKeepsTask, PTL DEF LoggerSpec

(* Who writes, and what is in the stream.                                  *)
LoggerTypes ==
    /\ stream_ \in Seq([message : Elements, part : {"text", "end"}, by : Workers])
    /\ protect_write_ \in Workers \cup {NULL}
    /\ wpc \in [Workers -> {"outside", "locked", "texted", "written"}]
    /\ order \in Seq(Elements)

(* Only a worker that runs a task writes, and the mutex of the logger is   *)
(* with the one between the lock and the end of its line.                  *)
WriterInv ==
    /\ \A w \in Workers : wpc[w] # "outside" => tpc[w] = "running"
    /\ \A w \in Workers : wpc[w] \in {"locked", "texted"} <=> protect_write_ = w

(* Text and end alternate; the line without an end is that of the writer.  *)
StreamInv ==
    /\ \A i \in DOMAIN stream_ :
         IF i % 2 = 1 THEN stream_[i].part = "text"
         ELSE stream_[i] = [stream_[i - 1] EXCEPT !.part = "end"]
    /\ \A w \in Workers : wpc[w] = "texted" =>
         Len(stream_) % 2 = 1 /\ stream_[Len(stream_)] = Piece(w, "text")
    /\ Len(stream_) % 2 = 1 => \E w \in Workers : wpc[w] = "texted"

(* A message has its line when it was run, or when its worker is about to  *)
(* return from operator(), and then no other.                              *)
LineInv ==
    /\ ran \subseteq Lines
    /\ \A w \in Workers : wpc[w] = "written" => held[w] \in Lines
    /\ \A e \in Lines : e \in ran \/ \E w \in Workers : wpc[w] = "written" /\ held[w] = e
    /\ \A i, j \in Ends : stream_[i].message = stream_[j].message => i = j

(* The list is the end of the order, what was taken from it the beginning; *)
(* what a worker has in its hands is later than all it has written.        *)
Taken == Len(order) - Len(queue_)

(* The list is the part of the pushes that was not taken, and whoever has  *)
(* a message in its hands writes after it only what was pushed later;      *)
(* LinesInOrder is inductive with it.                                      *)
OrderInv ==
    /\ Len(queue_) <= Len(order)
    /\ \A i \in DOMAIN queue_ : queue_[i] = order[Taken + i]
    /\ \A i \in DOMAIN stream_ : \E m \in 1 .. Taken : order[m] = stream_[i].message
    /\ \A w \in Workers : held[w] # NULL =>
         \E n \in 1 .. Taken :
             /\ order[n] = held[w]
             /\ \A i \in DOMAIN stream_ : stream_[i].by = w =>
                    \E m \in 1 .. n : order[m] = stream_[i].message
    /\ LinesInOrder

(* The invariant of the logger: its types, its mutex, its stream, its      *)
(* lines, their order.                                                     *)
LogInv == LoggerTypes /\ WriterInv /\ StreamInv /\ LineInv /\ OrderInv

LEMMA InitLog == LoggerInit => LogInv
<1> SUFFICES ASSUME LoggerInit
             PROVE  LogInv
  OBVIOUS
<1> USE DEF LoggerInit
<1>1. LoggerTypes /\ DOMAIN stream_ = {} /\ Len(stream_) = 0 /\ Len(order) = 0
  BY DEF LoggerTypes
<1>2. WriterInv
  BY QueueAssumption, Threadsets DEF WriterInv
<1>3. StreamInv
  BY <1>1 DEF StreamInv
<1>4. LineInv
  BY <1>1 DEF LineInv, Lines, Ends, Init
<1>5. queue_ = <<>> /\ \A w \in Workers : held[w] = NULL
  BY Threadsets DEF Init, QueueInit
<1>6. OrderInv
  BY <1>1, <1>5 DEF OrderInv, Taken, LinesInOrder
<1>. QED BY <1>1, <1>2, <1>3, <1>4, <1>6 DEF LogInv

(* The steps that neither run a task nor touch the list: what the writers  *)
(* have in their hands stays, and so does their place.                     *)
LEMMA OthersLeaveWriters ==
    ASSUME ShapeInv,
           \/ \E c \in Clients : AddTask(c) \/ Wait(c) \/ Stop(c) \/ Destroy \/ ClientStep(c)
           \/ \E w \in Workers : Fetch(w) \/ Fetched(w) \/ Claim(w) \/ Retire(w)
           \/ \E t \in Threads : Wakeup(t)
           \/ UNCHANGED vars
    PROVE  /\ UNCHANGED <<queue_, ran>>
           /\ \A w \in Workers : /\ held'[w] = held[w]
                                 /\ tpc[w] = "running" => tpc'[w] = "running"
<1> USE Threadsets, ProcessorAssumption
        DEF ShapeInv, ProcTypes, QueueInv, QueueTypeOK, ProcShape, Goto
<1>1. ASSUME NEW c \in Clients, AddTask(c) \/ TaskRefused(c)
      PROVE  /\ UNCHANGED <<queue_, ran>>
             /\ \A w \in Workers : held'[w] = held[w] /\ tpc'[w] = tpc[w]
  BY <1>1 DEF AddTask, TaskRefused, hist
<1>2. ASSUME NEW c \in Clients, Offer(c) \/ Wait(c) \/ Drain(c) \/ Halt(c) \/ Join(c)
      PROVE  /\ UNCHANGED <<queue_, ran>>
             /\ \A w \in Workers : held'[w] = held[w] /\ tpc'[w] = tpc[w]
  BY <1>2 DEF Offer, Wait, Drain, Halt, Join, Enters, Enter, hist
<1>3. ASSUME NEW c \in Clients,
             TaskAccepted(c) \/ Drained(c) \/ CountWorking(c) \/ Halted(c) \/ Closed(c) \/ BeginStop(c)
      PROVE  /\ UNCHANGED <<queue_, ran>>
             /\ \A w \in Workers : held'[w] = held[w] /\ tpc'[w] = tpc[w]
  BY <1>3 DEF TaskAccepted, Drained, CountWorking, Halted, Closed, BeginStop, qvars, hist
<1>4. ASSUME NEW w \in Workers, Fetch(w)
      PROVE  UNCHANGED <<queue_, ran, held>> /\ tpc[w] = "loop" /\ tpc' = [tpc EXCEPT ![w] = "popping"]
  <2>1. tpc[w] = "loop" /\ held[w] = NULL /\ Enter(w, "wait_pop", NULL)
    BY <1>4 DEF Fetch, Enters
  <2>2. UNCHANGED <<queue_, held>>
    BY <2>1 DEF Enter
  <2>. QED BY <1>4, <2>1, <2>2 DEF Fetch, Enters, hist
<1>5. ASSUME NEW w \in Workers, Fetched(w) \/ Claim(w) \/ Retire(w)
      PROVE  /\ UNCHANGED <<queue_, ran, held>>
             /\ \A x \in Workers : tpc[x] = "running" => tpc'[x] = "running"
  BY <1>5 DEF Fetched, Claim, Retire, RetireWakes, wait_condition_, qvars, hist
<1>6. ASSUME NEW t \in Threads, Wakeup(t)
      PROVE  /\ UNCHANGED <<queue_, ran, held>>
             /\ \A x \in Workers : tpc'[x] = tpc[x]
  BY <1>6 DEF Wakeup, Spurious, wait_condition_, qvars, hist
<1>7. CASE UNCHANGED vars
  BY <1>7 DEF vars, qvars, tpvars, hist
<1>8. CASE \E c \in Clients : AddTask(c) \/ Wait(c) \/ Stop(c) \/ Destroy \/ ClientStep(c)
  BY <1>1, <1>2, <1>3, <1>8 DEF Stop, Destroy, ClientStep
<1>9. CASE \E w \in Workers : Fetch(w) \/ Fetched(w) \/ Claim(w) \/ Retire(w)
  BY <1>4, <1>5, <1>9
<1>. QED BY <1>6, <1>7, <1>8, <1>9

(* A step that touches neither the stream nor a worker that writes keeps   *)
(* it.                                                                     *)
LEMMA LeaveWritersKeepsLog ==
    ASSUME LogInv, UNCHANGED lvars, UNCHANGED <<queue_, ran>>,
           \A w \in Workers : /\ held'[w] = held[w]
                              /\ tpc[w] = "running" => tpc'[w] = "running"
    PROVE  LogInv'
<1> USE DEF LogInv, lvars
<1>1. LoggerTypes' /\ WriterInv'
  BY DEF LoggerTypes, WriterInv
<1>2. StreamInv' /\ LineInv'
  BY DEF StreamInv, LineInv, Piece, Lines, Ends
<1>3. OrderInv'
  BY DEF OrderInv, Taken, LinesInOrder
<1>. QED BY <1>1, <1>2, <1>3

(* The steps of the logger itself.                                         *)
LEMMA LockWriteKeepsLog ==
    ASSUME ProcInv, LogInv, NEW w \in Workers, LockWrite(w)
    PROVE  LogInv'
<1> USE Threadsets DEF LogInv, LoggerTypes, LockWrite
<1>1. UNCHANGED <<queue_, ran, held, tpc, stream_, order>>
  BY DEF vars, qvars, tpvars, hist
<1>2. LoggerTypes' /\ WriterInv'
  BY <1>1, QueueAssumption DEF WriterInv
<1>3. \A x \in Workers : wpc'[x] \in {"texted", "written"} <=> wpc[x] \in {"texted", "written"}
  OBVIOUS
<1>4. \A x \in Workers : /\ wpc'[x] = "texted" <=> wpc[x] = "texted"
                         /\ wpc'[x] = "written" <=> wpc[x] = "written"
  OBVIOUS
<1>5. StreamInv'
  BY <1>1, <1>4 DEF StreamInv, Piece
<1>6. LineInv'
  BY <1>1, <1>4 DEF LineInv, Lines, Ends
<1>7. OrderInv'
  BY <1>1 DEF OrderInv, Taken, LinesInOrder
<1>. QED BY <1>2, <1>5, <1>6, <1>7

(* A piece more in the stream.                                             *)
LEMMA OnePieceMore ==
    ASSUME LoggerTypes, NEW w \in Workers, held[w] \in Elements, NEW p \in {"text", "end"},
           stream_' = Append(stream_, Piece(w, p))
    PROVE  /\ stream_' \in Seq([message : Elements, part : {"text", "end"}, by : Workers])
           /\ Len(stream_) \in Nat /\ Len(stream_') = Len(stream_) + 1
           /\ DOMAIN stream_ = 1 .. Len(stream_) /\ DOMAIN stream_' = 1 .. Len(stream_) + 1
           /\ stream_'[Len(stream_) + 1] = Piece(w, p)
           /\ \A i \in 1 .. Len(stream_) : stream_'[i] = stream_[i]
           /\ Piece(w, p).message = held[w] /\ Piece(w, p).part = p /\ Piece(w, p).by = w
<1>1. Piece(w, p) \in [message : Elements, part : {"text", "end"}, by : Workers]
  BY DEF Piece
<1>. QED BY <1>1 DEF LoggerTypes, Piece

(* Its line is as late as anything its worker wrote.                       *)
LEMMA WritingKeepsOrder ==
    ASSUME LogInv, NEW w \in Workers, held[w] \in Elements, NEW p \in {"text", "end"},
           stream_' = Append(stream_, Piece(w, p)), UNCHANGED <<queue_, order, held>>
    PROVE  OrderInv'
<1> DEFINE n == Len(stream_)
           q == Piece(w, p)
<1>1. /\ n \in Nat /\ DOMAIN stream_ = 1 .. n /\ DOMAIN stream_' = 1 .. n + 1
      /\ stream_'[n + 1] = q /\ \A i \in 1 .. n : stream_'[i] = stream_[i]
      /\ q.message = held[w] /\ q.by = w
  BY OnePieceMore DEF LogInv
<1> HIDE DEF n, q
<1>2. PICK k \in 1 .. Taken :
          /\ order[k] = held[w]
          /\ \A i \in 1 .. n : stream_[i].by = w =>
                \E m \in 1 .. k : order[m] = stream_[i].message
  <2>1. held[w] # NULL
    BY QueueAssumption
  <2>2. \E k \in 1 .. Taken :
           /\ order[k] = held[w]
           /\ \A i \in DOMAIN stream_ : stream_[i].by = w =>
                  \E m \in 1 .. k : order[m] = stream_[i].message
    BY <2>1, Zenon DEF LogInv, OrderInv
  <2>. QED BY ONLY <1>1, <2>2
<1>3. k \in DOMAIN order /\ Taken \in Int
  BY DEF LogInv, OrderInv, LoggerTypes, Taken
<1>4. Taken' = Taken
  BY DEF Taken
<1>5. \A i \in DOMAIN stream_' : \E m \in 1 .. Taken : order[m] = stream_'[i].message
  <2>1. \A i \in 1 .. n : \E m \in 1 .. Taken : order[m] = stream_[i].message
    BY <1>1 DEF LogInv, OrderInv
  <2>. QED BY <1>1, <1>2, <2>1
<1>6. ASSUME NEW x \in Workers, held[x] # NULL
      PROVE  \E j \in 1 .. Taken :
                 /\ order[j] = held[x]
                 /\ \A i \in DOMAIN stream_' : stream_'[i].by = x =>
                        \E m \in 1 .. j : order[m] = stream_'[i].message
  <2>1. CASE x = w
    <3>1. \A i \in DOMAIN stream_' : stream_'[i].by = w =>
              \E m \in 1 .. k : order[m] = stream_'[i].message
      BY <1>1, <1>2
    <3>. QED BY <1>2, <2>1, <3>1
  <2>2. CASE x # w
    <3>1. PICK j \in 1 .. Taken :
              /\ order[j] = held[x]
              /\ \A i \in DOMAIN stream_ : stream_[i].by = x =>
                     \E m \in 1 .. j : order[m] = stream_[i].message
      BY <1>6 DEF LogInv, OrderInv
    <3>2. \A i \in DOMAIN stream_' : stream_'[i].by = x => i \in 1 .. n /\ stream_'[i] = stream_[i]
      BY <1>1, <2>2
    <3>. QED BY <1>1, <3>1, <3>2
  <2>. QED BY <2>1, <2>2
<1>7. LinesInOrder'
  <2> SUFFICES ASSUME NEW i \in DOMAIN stream_', NEW j \in DOMAIN stream_',
                      i < j, stream_'[i].by = stream_'[j].by
               PROVE  \E a, b \in DOMAIN order : /\ order[a] = stream_'[i].message
                                                 /\ order[b] = stream_'[j].message
                                                 /\ a <= b
    BY DEF LinesInOrder
  <2>1. CASE j = n + 1
    <3>1. i \in 1 .. n /\ stream_[i].by = w /\ stream_'[i] = stream_[i]
      BY <1>1, <2>1
    <3>2. PICK a \in 1 .. k : order[a] = stream_[i].message
      BY <1>2, <3>1
    <3>3. a \in DOMAIN order /\ a <= k
      BY <1>3 DEF LogInv, LoggerTypes
    <3>. QED BY <1>1, <1>2, <1>3, <2>1, <3>1, <3>2, <3>3
  <2>2. CASE j # n + 1
    <3>1. i \in 1 .. n /\ j \in 1 .. n /\ stream_'[i] = stream_[i] /\ stream_'[j] = stream_[j]
      BY <1>1, <2>2
    <3>. QED BY <1>1, <3>1 DEF LogInv, OrderInv, LinesInOrder
  <2>. QED BY <2>1, <2>2
<1>8. Len(queue_') <= Len(order') /\ \A i \in DOMAIN queue_' : queue_'[i] = order'[Taken' + i]
  BY <1>4 DEF LogInv, OrderInv
<1>. QED BY ONLY <1>4, <1>5, <1>6, <1>7, <1>8, UNCHANGED <<queue_, order, held>> DEF OrderInv

(* The text of a line, its end, and the deletion of its task               *)
(* (queue_logger.h:83-93).                                                 *)
LEMMA WriteTextKeepsLog ==
    ASSUME ProcInv, LogInv, NEW w \in Workers, WriteText(w)
    PROVE  LogInv'
<1> USE Threadsets DEF ProcInv, ShapeInv
<1>1. /\ UNCHANGED <<queue_, ran, held, tpc, order, protect_write_>>
      /\ wpc[w] = "locked" /\ stream_' = Append(stream_, Piece(w, "text"))
      /\ wpc' = [wpc EXCEPT ![w] = "texted"]
  BY DEF WriteText, vars, qvars, tpvars, hist
<1>2. held[w] \in Elements
  BY <1>1 DEF LogInv, WriterInv, ProcShape, QueueInv, QueueTypeOK
<1> DEFINE n == Len(stream_)
           q == Piece(w, "text")
<1>3. /\ stream_' \in Seq([message : Elements, part : {"text", "end"}, by : Workers])
      /\ n \in Nat /\ Len(stream_') = n + 1
      /\ DOMAIN stream_ = 1 .. n /\ DOMAIN stream_' = 1 .. n + 1
      /\ stream_'[n + 1] = q /\ \A i \in 1 .. n : stream_'[i] = stream_[i]
      /\ q.message = held[w] /\ q.part = "text"
  BY <1>1, <1>2, OnePieceMore DEF LogInv
<1>4. q = Piece(w, "text")'
  BY <1>1 DEF Piece
<1> HIDE DEF n, q
<1>5. LoggerTypes'
  BY <1>1, <1>3 DEF LogInv, LoggerTypes
<1>6. WriterInv'
  BY <1>1, <1>5 DEF LogInv, LoggerTypes, WriterInv
<1>7. /\ \A x \in Workers : x # w => wpc[x] \notin {"locked", "texted"} /\ wpc'[x] = wpc[x]
      /\ wpc'[w] = "texted"
  BY <1>1, <1>6 DEF LogInv, LoggerTypes, WriterInv
<1>8. n % 2 = 0
  <2>1. n % 2 # 1
    BY <1>1, <1>7 DEF LogInv, StreamInv, n
  <2>. QED BY <1>3, <2>1
<1>9. StreamInv'
  <2>1. \A i \in DOMAIN stream_' :
           IF i % 2 = 1 THEN stream_'[i].part = "text"
           ELSE stream_'[i] = [stream_'[i - 1] EXCEPT !.part = "end"]
    <3> SUFFICES ASSUME NEW i \in 1 .. n + 1
                 PROVE  IF i % 2 = 1 THEN stream_'[i].part = "text"
                        ELSE stream_'[i] = [stream_'[i - 1] EXCEPT !.part = "end"]
      BY <1>3
    <3>1. CASE i = n + 1
      BY <1>3, <1>8, <3>1
    <3>2. CASE i # n + 1
      <4>1. i \in 1 .. n /\ (i % 2 # 1 => i - 1 \in 1 .. n)
        BY <1>3, <3>2
      <4>. QED BY <1>3, <4>1 DEF LogInv, StreamInv
    <3>. QED BY <3>1, <3>2
  <2>2. (n + 1) % 2 = 1
    BY <1>3, <1>8
  <2>3. \A x \in Workers : wpc'[x] = "texted" => x = w
    BY <1>7
  <2>4. \A x \in Workers : wpc'[x] = "texted" =>
           Len(stream_') % 2 = 1 /\ stream_'[Len(stream_')] = Piece(x, "text")'
    BY <1>3, <1>4, <2>2, <2>3
  <2>. QED BY <1>7, <2>1, <2>4 DEF StreamInv
<1>10. LineInv'
  <2>1. Ends' = Ends /\ \A i \in Ends : i \in 1 .. n /\ stream_'[i] = stream_[i]
    <3>1. \A i \in 1 .. n + 1 : i = n + 1 \/ i \in 1 .. n
      BY <1>3
    <3>2. 1 .. n \subseteq 1 .. n + 1
      BY <1>3
    <3>. QED BY <1>3, <3>1, <3>2 DEF Ends
  <2>2. Lines' = Lines
    BY <2>1 DEF Lines
  <2>3. \A x \in Workers : wpc'[x] = "written" <=> wpc[x] = "written"
    BY <1>1, <1>7
  <2>4. \A i, j \in Ends' : stream_'[i].message = stream_'[j].message => i = j
    BY <2>1 DEF LogInv, LineInv
  <2>5. \A e \in Lines : e \in ran \/ \E x \in Workers : wpc'[x] = "written" /\ held'[x] = e
    BY <1>1, <2>3 DEF LogInv, LineInv
  <2>6. \A x \in Workers : wpc'[x] = "written" => held'[x] \in Lines
    BY <1>1, <2>3 DEF LogInv, LineInv
  <2>7. ran' \subseteq Lines
    BY <1>1 DEF LogInv, LineInv
  <2>. QED BY ONLY <1>1, <2>2, <2>4, <2>5, <2>6, <2>7 DEF LineInv
<1>. QED BY <1>1, <1>2, <1>5, <1>6, <1>9, <1>10, WritingKeepsOrder DEF LogInv

LEMMA WriteEndKeepsLog ==
    ASSUME ProcInv, FateInv, LogInv, NEW w \in Workers, WriteEnd(w)
    PROVE  LogInv'
<1> USE Threadsets DEF ProcInv, ShapeInv
<1>1. /\ UNCHANGED <<queue_, ran, held, tpc, order>>
      /\ wpc[w] = "texted" /\ stream_' = Append(stream_, Piece(w, "end"))
      /\ wpc' = [wpc EXCEPT ![w] = "written"] /\ protect_write_' = NULL
  BY DEF WriteEnd, vars, qvars, tpvars, hist
<1>2. held[w] \in Elements
  BY <1>1 DEF LogInv, WriterInv, ProcShape, QueueInv, QueueTypeOK
<1> DEFINE n == Len(stream_)
           q == Piece(w, "end")
<1>3. /\ stream_' \in Seq([message : Elements, part : {"text", "end"}, by : Workers])
      /\ n \in Nat /\ Len(stream_') = n + 1
      /\ DOMAIN stream_ = 1 .. n /\ DOMAIN stream_' = 1 .. n + 1
      /\ stream_'[n + 1] = q /\ \A i \in 1 .. n : stream_'[i] = stream_[i]
      /\ q.message = held[w] /\ q.part = "end"
  BY <1>1, <1>2, OnePieceMore DEF LogInv
<1>4. n % 2 = 1 /\ stream_[n] = Piece(w, "text")
  BY <1>1 DEF LogInv, StreamInv
<1>5. q = [Piece(w, "text") EXCEPT !.part = "end"]
  BY DEF Piece
<1> HIDE DEF n, q
<1>6. LoggerTypes'
  BY <1>1, <1>3 DEF LogInv, LoggerTypes
<1>7. /\ \A x \in Workers : x # w => wpc[x] \notin {"locked", "texted"} /\ wpc'[x] = wpc[x]
      /\ wpc'[w] = "written"
  BY <1>1 DEF LogInv, LoggerTypes, WriterInv
<1>8. WriterInv'
  BY <1>1, <1>7, QueueAssumption DEF LogInv, WriterInv
<1>9. StreamInv'
  <2>1. \A i \in DOMAIN stream_' :
           IF i % 2 = 1 THEN stream_'[i].part = "text"
           ELSE stream_'[i] = [stream_'[i - 1] EXCEPT !.part = "end"]
    <3> SUFFICES ASSUME NEW i \in 1 .. n + 1
                 PROVE  IF i % 2 = 1 THEN stream_'[i].part = "text"
                        ELSE stream_'[i] = [stream_'[i - 1] EXCEPT !.part = "end"]
      BY <1>3
    <3>1. CASE i = n + 1
      <4>1. i % 2 # 1 /\ i - 1 = n /\ n \in 1 .. n
        BY <1>3, <1>4, <3>1
      <4>. QED BY <1>3, <1>4, <1>5, <3>1, <4>1
    <3>2. CASE i # n + 1
      <4>1. i \in 1 .. n /\ (i % 2 # 1 => i - 1 \in 1 .. n)
        BY <1>3, <3>2
      <4>. QED BY <1>3, <4>1 DEF LogInv, StreamInv
    <3>. QED BY <3>1, <3>2
  <2>2. (n + 1) % 2 # 1
    BY <1>3, <1>4
  <2>3. \A x \in Workers : wpc'[x] # "texted"
    BY <1>7
  <2>. QED BY <1>3, <2>1, <2>2, <2>3 DEF StreamInv
<1>10. held[w] \notin Lines
  <2>1. heap[held[w]] = "live"
    BY <1>2 DEF QueueInv, Ownership
  <2>2. held[w] \notin ran
    BY <2>1 DEF FateInv
  <2>3. \A x \in Workers : wpc[x] = "written" => held[x] # held[w]
    BY <1>1, <1>2, QueueAssumption DEF QueueInv, Ownership
  <2>. QED BY <2>2, <2>3 DEF LogInv, LineInv
<1>11. LineInv'
  <2>1. Ends' = Ends \cup {n + 1} /\ \A i \in Ends : i \in 1 .. n /\ stream_'[i] = stream_[i]
    <3>1. \A i \in 1 .. n + 1 : i = n + 1 \/ i \in 1 .. n
      BY <1>3
    <3>2. 1 .. n \subseteq 1 .. n + 1 /\ n + 1 \in 1 .. n + 1
      BY <1>3
    <3>. QED BY <1>3, <3>1, <3>2 DEF Ends
  <2>2. Lines' = Lines \cup {held[w]}
    BY <1>3, <2>1 DEF Lines
  <2>3. \A i \in Ends : stream_[i].message # held[w]
    BY <1>10 DEF Lines
  <2>4. \A i, j \in Ends' : stream_'[i].message = stream_'[j].message => i = j
    BY <1>3, <2>1, <2>3 DEF LogInv, LineInv
  <2>5. \A e \in Lines' : e \in ran \/ \E x \in Workers : wpc'[x] = "written" /\ held'[x] = e
    BY <1>1, <1>7, <2>2 DEF LogInv, LineInv
  <2>6. \A x \in Workers : wpc'[x] = "written" => held'[x] \in Lines'
    BY <1>1, <1>7, <2>2 DEF LogInv, LineInv
  <2>7. ran' \subseteq Lines'
    BY <1>1, <2>2 DEF LogInv, LineInv
  <2>. QED BY ONLY <1>1, <2>4, <2>5, <2>6, <2>7 DEF LineInv
<1>. QED BY <1>1, <1>2, <1>6, <1>8, <1>9, <1>11, WritingKeepsOrder DEF LogInv

LEMMA WrittenKeepsLog ==
    ASSUME ProcInv, LogInv, NEW w \in Workers, Written(w)
    PROVE  LogInv'
<1> USE Threadsets DEF ProcInv, ShapeInv
<1>1. /\ UNCHANGED <<queue_, order, stream_, protect_write_>>
      /\ wpc[w] = "written" /\ wpc' = [wpc EXCEPT ![w] = "outside"]
      /\ held' = [held EXCEPT ![w] = NULL] /\ ran' = ran \cup {held[w]}
      /\ tpc' = [tpc EXCEPT ![w] = "retiring"]
  BY DEF Written, Process, Goto
<1>2. \A x \in Workers : x # w => wpc'[x] = wpc[x] /\ held'[x] = held[x] /\ tpc'[x] = tpc[x]
  BY <1>1 DEF LogInv, LoggerTypes, QueueInv, QueueTypeOK, ProcTypes
<1>3. wpc'[w] = "outside" /\ held'[w] = NULL
  BY <1>1 DEF LogInv, LoggerTypes, QueueInv, QueueTypeOK
<1>4. LoggerTypes'
  BY <1>1 DEF LogInv, LoggerTypes
<1>5. WriterInv'
  BY <1>1, <1>2, <1>3 DEF LogInv, WriterInv
<1>6. StreamInv'
  <2>1. \A x \in Workers : wpc'[x] = "texted" <=> wpc[x] = "texted"
    BY <1>1, <1>2, <1>3
  <2>2. \A x \in Workers : wpc'[x] = "texted" => Piece(x, "text")' = Piece(x, "text")
    BY <1>2, <1>3 DEF Piece
  <2>. QED BY <1>1, <2>1, <2>2 DEF LogInv, StreamInv
<1>7. LineInv'
  <2>1. Ends' = Ends /\ Lines' = Lines
    BY <1>1 DEF Ends, Lines
  <2>. QED BY <1>1, <1>2, <1>3, <2>1 DEF LogInv, LineInv
<1>8. OrderInv'
  <2>1. Taken' = Taken /\ LinesInOrder'
    BY <1>1 DEF LogInv, OrderInv, Taken, LinesInOrder
  <2>2. \A x \in Workers : held'[x] # NULL => held'[x] = held[x]
    BY <1>2, <1>3
  <2>. QED BY <1>1, <2>1, <2>2 DEF LogInv, OrderInv
<1>. QED BY <1>4, <1>5, <1>6, <1>7, <1>8 DEF LogInv

LEMMA SameOrder ==
    ASSUME OrderInv, UNCHANGED <<queue_, held, order, stream_>>
    PROVE  OrderInv'
BY DEF OrderInv, Taken, LinesInOrder

(* The steps of the queue: a push gives its message the next turn, a pop   *)
(* takes the message whose turn it is.                                     *)
LEMMA QueueingKeepsLog ==
    ASSUME ProcInv, LogInv, NEW t \in Threads, Queueing(t)
    PROVE  LogInv'
<1> USE Threadsets DEF ProcInv, ShapeInv
<1>1. /\ QueueStep(t) /\ UNCHANGED <<tpc, ran, stream_, protect_write_, wpc>>
      /\ order' = IF Len(queue_') > Len(queue_) THEN Append(order, held[t]) ELSE order
  BY DEF Queueing, InQueue, tpvars, hist
<1>0. op[t] # "none" /\ op[t] = CallAt(tpc[t])
  BY <1>1, OthersStay DEF ProcShape
<1>2. \A x \in Threads : x # t => held'[x] = held[x]
  BY ONLY <1>1, QueueInv, OthersStay
<1>3. \A w \in Workers : wpc[w] # "outside" => held'[w] = held[w]
  <2>1. tpc[t] # "running"
    BY <1>0 DEF CallAt
  <2>. QED BY <1>2, <2>1 DEF LogInv, WriterInv
<1>4. WriterInv' /\ LineInv' /\ StreamInv'
  <2>1. WriterInv'
    BY <1>1 DEF LogInv, WriterInv
  <2>2. StreamInv'
    <3>1. \A w \in Workers : wpc[w] = "texted" => Piece(w, "text")' = Piece(w, "text")
      BY <1>3 DEF Piece
    <3>. QED BY <1>1, <3>1 DEF LogInv, StreamInv
  <2>3. LineInv'
    <3>1. Ends' = Ends /\ Lines' = Lines
      BY <1>1 DEF Ends, Lines
    <3>2. \A w \in Workers : wpc[w] = "written" => held'[w] = held[w]
      BY <1>3
    <3>. QED BY <1>1, <3>1, <3>2 DEF LogInv, LineInv
  <2>. QED BY <2>1, <2>2, <2>3
<1>5. /\ queue_ \in Seq(Elements) /\ order \in Seq(Elements)
      /\ Len(queue_) \in Nat /\ Len(order) \in Nat /\ Len(queue_) <= Len(order)
      /\ DOMAIN queue_ = 1 .. Len(queue_) /\ DOMAIN order = 1 .. Len(order)
      /\ \A i \in 1 .. Len(queue_) : queue_[i] = order[Taken + i]
  BY DEF QueueInv, QueueTypeOK, LogInv, LoggerTypes, OrderInv
<1> DEFINE Behind(w, k) == /\ order[k] = held'[w]
                           /\ \A i \in DOMAIN stream_ : stream_[i].by = w =>
                                \E m \in 1 .. k : order[m] = stream_[i].message
<1>10. ~(Len(queue_') > Len(queue_)) => order' = order
  BY ONLY <1>1, Zenon
<1>6. CASE UNCHANGED <<queue_, held, heap>>
  <2>1. UNCHANGED order
    BY ONLY <1>5, <1>6, <1>10
  <2>2. LoggerTypes' /\ OrderInv'
    <3>1. UNCHANGED <<queue_, held, order, stream_, protect_write_, wpc>>
      BY ONLY <1>1, <1>6, <2>1
    <3>. QED BY <3>1, SameOrder DEF LogInv, LoggerTypes
  <2>. QED BY <1>4, <2>2 DEF LogInv
<1>7. CASE /\ op[t] = "push" /\ held[t] \in Elements
           /\ queue_' = Append(queue_, held[t])
           /\ held' = [held EXCEPT ![t] = NULL] /\ UNCHANGED heap
  <2>1. /\ Len(queue_') = Len(queue_) + 1 /\ order' = Append(order, held[t])
        /\ Len(order') = Len(order) + 1 /\ order' \in Seq(Elements)
        /\ DOMAIN queue_' = 1 .. Len(queue_) + 1
        /\ \A m \in 1 .. Len(order) : order'[m] = order[m]
        /\ order'[Len(order) + 1] = held[t]
        /\ queue_'[Len(queue_) + 1] = held[t]
        /\ \A i \in 1 .. Len(queue_) : queue_'[i] = queue_[i]
    BY <1>1, <1>5, <1>7
  <2>2. Taken' = Taken /\ Taken \in Nat /\ Taken <= Len(order) /\ Taken = Len(order) - Len(queue_)
    BY <1>5, <2>1 DEF Taken
  <2>3. \A i \in 1 .. Len(queue_) + 1 : queue_'[i] = order'[Taken + i]
    <3> SUFFICES ASSUME NEW i \in 1 .. Len(queue_) + 1
                 PROVE  queue_'[i] = order'[Taken + i]
      OBVIOUS
    <3>1. CASE i = Len(queue_) + 1
      BY <1>5, <2>1, <2>2, <3>1
    <3>2. CASE i # Len(queue_) + 1
      <4>1. i \in 1 .. Len(queue_) /\ Taken + i \in 1 .. Len(order)
        BY <1>5, <2>2, <3>2
      <4>. QED BY <1>5, <2>1, <4>1
    <3>. QED BY <3>1, <3>2
  <2>4. \A k \in 1 .. Taken : order'[k] = order[k] /\ \A m \in 1 .. k : order'[m] = order[m]
    BY <1>5, <2>1, <2>2
  <2>5. \A w \in Workers : held'[w] # NULL => held'[w] = held[w]
    BY <1>2, <1>7 DEF QueueInv, QueueTypeOK
  <2>6. \A i \in DOMAIN stream_ : \E m \in 1 .. Taken : order'[m] = stream_[i].message
    BY <2>4 DEF LogInv, OrderInv
  <2>7. ASSUME NEW w \in Workers, held'[w] # NULL
        PROVE  \E k \in 1 .. Taken :
                   /\ order'[k] = held'[w]
                   /\ \A i \in DOMAIN stream_ : stream_[i].by = w =>
                        \E m \in 1 .. k : order'[m] = stream_[i].message
    <3>1. PICK k \in 1 .. Taken : Behind(w, k)
      BY <2>5, <2>7 DEF LogInv, OrderInv
    <3>. QED BY <2>4, <3>1
  <2>8. LinesInOrder'
    BY <1>1, <1>5, <2>1 DEF LogInv, OrderInv, LinesInOrder
  <2>9. LoggerTypes'
    BY <1>1, <2>1 DEF LogInv, LoggerTypes
  <2>10. OrderInv'
    <3>1. Len(queue_') <= Len(order')
      BY <1>5, <2>1
    <3>2. \A w \in Workers : held'[w] # NULL =>
             \E k \in 1 .. Taken' :
                 /\ order'[k] = held'[w]
                 /\ \A i \in DOMAIN stream_ : stream_[i].by = w =>
                      \E m \in 1 .. k : order'[m] = stream_[i].message
      BY ONLY <2>2, <2>7
    <3>3. \A i \in DOMAIN queue_' : queue_'[i] = order'[Taken' + i]
      BY ONLY <2>1, <2>2, <2>3
    <3>4. \A i \in DOMAIN stream_ : \E m \in 1 .. Taken' : order'[m] = stream_[i].message
      BY ONLY <2>2, <2>6
    <3>. QED BY ONLY <1>1, <2>8, <3>1, <3>2, <3>3, <3>4, Zenon DEF OrderInv
  <2>. QED BY <1>4, <2>9, <2>10 DEF LogInv
<1>8. CASE /\ op[t] \in Popping /\ queue_ # <<>> /\ queue_' = Tail(queue_)
           /\ held' = [held EXCEPT ![t] = queue_[1]] /\ UNCHANGED heap
  <2>1. /\ Len(queue_) > 0 /\ Len(queue_') = Len(queue_) - 1
        /\ DOMAIN queue_' = 1 .. Len(queue_) - 1
        /\ \A i \in 1 .. Len(queue_) - 1 : queue_'[i] = queue_[i + 1]
    BY <1>5, <1>8
  <2>2. UNCHANGED order
    BY ONLY <1>5, <1>10, <2>1
  <2>3. /\ Taken' = Taken + 1 /\ Taken \in Nat /\ Taken = Len(order) - Len(queue_)
        /\ 1 .. Taken \subseteq 1 .. Taken + 1
    BY <1>5, <2>1, <2>2 DEF Taken
  <2>4. \A i \in 1 .. Len(queue_) - 1 : queue_'[i] = order[Taken + 1 + i]
    <3> SUFFICES ASSUME NEW i \in 1 .. Len(queue_) - 1
                 PROVE  queue_'[i] = order[Taken + 1 + i]
      OBVIOUS
    <3>1. i + 1 \in 1 .. Len(queue_) /\ Taken + (i + 1) = Taken + 1 + i
      BY <1>5, <2>3
    <3>. QED BY <1>5, <2>1, <3>1
  <2>5. \A i \in DOMAIN stream_ : \E m \in 1 .. Taken : order[m] = stream_[i].message
    BY DEF LogInv, OrderInv
  <2>6. queue_[1] = order[Taken + 1] /\ held'[t] = queue_[1]
    BY <1>5, <1>8, <2>1 DEF QueueInv, QueueTypeOK
  <2>7. ASSUME NEW w \in Workers, held'[w] # NULL
        PROVE  \E k \in 1 .. Taken + 1 : Behind(w, k)
    <3>1. CASE w = t
      <4>1. \A i \in DOMAIN stream_ : \E m \in 1 .. Taken + 1 : order[m] = stream_[i].message
        BY <2>3, <2>5
      <4>2. Taken + 1 \in 1 .. Taken + 1
        BY <2>3
      <4>. QED BY <2>6, <3>1, <4>1, <4>2
    <3>2. CASE w # t
      <4>1. held'[w] = held[w]
        BY <1>2, <3>2
      <4>2. PICK k \in 1 .. Taken : Behind(w, k)
        BY <2>7, <4>1 DEF LogInv, OrderInv
      <4>. QED BY <2>3, <4>2
    <3>. QED BY <3>1, <3>2
  <2>8. LinesInOrder' /\ LoggerTypes'
    BY <1>1, <2>2 DEF LogInv, OrderInv, LinesInOrder, LoggerTypes
  <2>9. Len(queue_') <= Len(order)
    BY <1>5, <2>1
  <2>10. OrderInv'
    <3>1. \A i \in DOMAIN stream_ : \E m \in 1 .. Taken + 1 : order[m] = stream_[i].message
      BY <2>3, <2>5
    <3>2. \A w \in Workers : held'[w] # NULL =>
             \E k \in 1 .. Taken' :
                 /\ order[k] = held'[w]
                 /\ \A i \in DOMAIN stream_ : stream_[i].by = w =>
                      \E m \in 1 .. k : order[m] = stream_[i].message
      BY ONLY <2>3, <2>7
    <3>3. \A i \in DOMAIN queue_' : queue_'[i] = order[Taken' + i]
      BY ONLY <2>1, <2>3, <2>4
    <3>. QED BY ONLY <1>1, <2>2, <2>3, <2>8, <2>9, <3>1, <3>2, <3>3 DEF OrderInv
  <2>. QED BY <1>4, <2>8, <2>10 DEF LogInv
<1>9. CASE op[t] \in Deleting /\ queue_' = <<>> /\ UNCHANGED held
  <2>0. Len(queue_') = 0 /\ DOMAIN queue_' = {}
    BY <1>9
  <2>1. UNCHANGED order /\ Len(queue_') = 0 /\ DOMAIN queue_' = {}
    BY ONLY <1>5, <1>10, <2>0
  <2>2. /\ Taken' = Len(order) /\ Taken \in Nat /\ Taken = Len(order) - Len(queue_)
        /\ 1 .. Taken \subseteq 1 .. Len(order)
    BY <1>5, <2>1 DEF Taken
  <2>3. \A i \in DOMAIN stream_ : \E m \in 1 .. Len(order) : order[m] = stream_[i].message
    BY <2>2 DEF LogInv, OrderInv
  <2>4. ASSUME NEW w \in Workers, held'[w] # NULL
        PROVE  \E k \in 1 .. Len(order) : Behind(w, k)
    <3>1. PICK k \in 1 .. Taken : Behind(w, k)
      BY <1>9, <2>4 DEF LogInv, OrderInv
    <3>. QED BY <2>2, <3>1
  <2>5. LinesInOrder' /\ LoggerTypes'
    BY <1>1, <2>1 DEF LogInv, OrderInv, LinesInOrder, LoggerTypes
  <2>6. OrderInv'
    <3>1. Len(queue_') <= Len(order')
      BY <1>5, <2>1
    <3>. QED BY ONLY <1>1, <2>1, <2>2, <2>3, <2>4, <2>5, <3>1 DEF OrderInv
  <2>. QED BY <1>4, <2>5, <2>6 DEF LogInv
<1>. QED BY <1>1, <1>6, <1>7, <1>8, <1>9, PointersMove

LEMMA StepKeepsLog ==
    ASSUME ProcInv, FateInv, LogInv, [LoggerNext]_logvars
    PROVE  LogInv'
<1>1. ASSUME NEW w \in Workers, LogStep(w)
      PROVE  LogInv'
  BY <1>1, LockWriteKeepsLog, WriteTextKeepsLog, WriteEndKeepsLog, WrittenKeepsLog DEF LogStep
<1>2. ASSUME NEW t \in Threads, Queueing(t)
      PROVE  LogInv'
  BY <1>2, QueueingKeepsLog
<1>3. ASSUME UNCHANGED lvars,
             \/ \E c \in Clients : AddTask(c) \/ Wait(c) \/ Stop(c) \/ Destroy \/ ClientStep(c)
             \/ \E w \in Workers : Fetch(w) \/ Fetched(w) \/ Claim(w) \/ Retire(w)
             \/ \E t \in Threads : Wakeup(t)
             \/ UNCHANGED vars
      PROVE  LogInv'
  BY <1>3, OthersLeaveWriters, LeaveWritersKeepsLog DEF ProcInv
<1>4. ASSUME NEW c \in Clients, Calling(c)
      PROVE  LogInv'
  BY <1>3, <1>4 DEF Calling
<1>5. ASSUME NEW w \in Workers, Working(w)
      PROVE  LogInv'
  BY <1>3, <1>5 DEF Working
<1>6. CASE Destroy /\ UNCHANGED lvars
  BY <1>3, <1>6, ProcessorAssumption
<1>7. CASE UNCHANGED logvars
  BY <1>3, <1>7 DEF logvars
<1>8. CASE Terminated /\ UNCHANGED lvars
  BY <1>3, <1>8 DEF Terminated
<1>. QED BY <1>1, <1>2, <1>3, <1>4, <1>5, <1>6, <1>7, <1>8 DEF LoggerNext

LoggerInv == ProcInv /\ TaskInv /\ LogInv

LEMMA InitLogger == LoggerInit => LoggerInv
BY InitLog, InitProc, InitTask DEF LoggerInit, LoggerInv

LEMMA StepKeepsLogger == LoggerInv /\ [LoggerNext]_logvars => LoggerInv'
BY LoggerKeepsTask, StepKeepsLog DEF LoggerInv, TaskInv

(* The stream is a sequence of whole lines, one for each message, and the  *)
(* last perhaps without its end, for any number of workers that write; and *)
(* every message that was run has its line (queue_logger.h, real_write()). *)
LEMMA LoggerWhole == LoggerInv => WholeLines
<1> SUFFICES ASSUME LoggerInv
             PROVE  WholeLines
  OBVIOUS
<1>1. LoggerTypeOK
  BY ProcTypeOK DEF LoggerInv, LogInv, LoggerTypes, LoggerTypeOK
<1>2. \A i \in DOMAIN stream_ :
         IF i % 2 = 1 THEN stream_[i].part = "text"
         ELSE stream_[i] = [stream_[i - 1] EXCEPT !.part = "end"]
  BY DEF LoggerInv, LogInv, StreamInv
<1>3. /\ \A i, j \in Ends : stream_[i].message = stream_[j].message => i = j
      /\ ran \subseteq Lines
  BY DEF LoggerInv, LogInv, LineInv
<1>. QED BY <1>1, <1>2, <1>3 DEF WholeLines

(* The text of a line and its end stay together, a message has at most one *)
(* line, and every message that was run has one (queue_logger.h:83-93).    *)
THEOREM LinesStayWhole == LoggerSpec => []WholeLines
BY InitLogger, StepKeepsLogger, LoggerWhole, PTL DEF LoggerSpec

(* The lines of one worker stand in the order of the queue: a line passes  *)
(* only one that another worker has in its hands (queue_logger.h).         *)
THEOREM LinesKeepOrder == LoggerSpec => []LinesInOrder
<1>1. LoggerInv => LinesInOrder
  BY DEF LoggerInv, LogInv, OrderInv
<1>. QED BY <1>1, InitLogger, StepKeepsLogger, PTL DEF LoggerSpec
=============================================================================

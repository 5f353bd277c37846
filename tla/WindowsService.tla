--------------------------- MODULE WindowsService ---------------------------
(***************************************************************************)
(* windows_service and service_manager (src/sources/windows_service): a    *)
(* process that the service control manager of Windows starts, that tells  *)
(* it its state and is stopped by it; and the commands install, uninstall, *)
(* start and stop, given by other processes or by the service itself.  The *)
(* control manager is external, modelled from how its functions are used:  *)
(* it refuses the control of a command unless the service runs, tells once *)
(* that Windows shuts down, and removes a deleted service when it is       *)
(* stopped and nobody has a handle to it.                                  *)
(***************************************************************************)
EXTENDS Naturals

CONSTANTS Commands,           \* the threads that give commands
          NULL,
          MaxRuns             \* bound: commands that are given

ASSUME ServiceAssumption == NULL \notin Commands /\ MaxRuns \in Nat

Kinds == {"install", "uninstall", "start", "stop"}

VARIABLES installed, marked,  \* the entry of the service, and its mark that
                              \* it was deleted
          dwCurrentState,     \* what the service reported last
          handles,            \* of each command: the handles it has open
          service_main,       \* the thread that runs start_(): "none",
                              \* "pending", "starting", "started"
          handler,            \* the dispatcher, which runs stop_(): "none",
                              \* "idle", "called", "stopping", "stopped"
          caller,             \* the command whose control it handles, or NULL
          application,        \* "none", "started", "told": what start_thread()
                              \* and stop_thread() have done
          shutdown,           \* of Windows: "no", "sent", or "early", sent
                              \* while start_() was at work
          pc, kind,           \* of each command: its place and name
          runs                \* how many were given
manager == <<installed, marked, dwCurrentState>>
process == <<service_main, handler, caller, application>>
command == <<handles, pc, kind, runs>>
vars    == <<manager, process, command, shutdown>>

Init == /\ installed \in BOOLEAN /\ marked = FALSE
        /\ dwCurrentState = "stopped"
        /\ handles = [c \in Commands |-> {}]
        /\ service_main = "none" /\ handler = "none" /\ caller = NULL
        /\ application = "none" /\ shutdown = "no"
        /\ pc = [c \in Commands |-> "idle"]
        /\ kind = [c \in Commands |-> "none"]
        /\ runs = 0

Goto(c, p)     == pc' = [pc EXCEPT ![c] = p]
Gain(c, h)     == handles' = [handles EXCEPT ![c] = @ \cup {h}]

-----------------------------------------------------------------------------
(* The process of the service: service_main_() and start_(), then          *)
(* service_ctrl_handler_() and stop_() in the thread of the dispatcher.    *)
set_service_status(s) == dwCurrentState' = s

RunningFirst ==                               \* mutant: reported too early
    /\ service_main = "pending"
    /\ set_service_status("running")
    /\ service_main' = "starting"
    /\ UNCHANGED <<installed, marked, handler, caller, application, command, shutdown>>

StartPending ==
    /\ service_main = "pending"
    /\ set_service_status("start_pending")
    /\ service_main' = "starting"
    /\ UNCHANGED <<installed, marked, handler, caller, application, command, shutdown>>

start_thread ==
    /\ service_main = "starting"
    /\ application' = "started"
    /\ service_main' = "started"
    /\ UNCHANGED <<manager, handler, caller, command, shutdown>>

Running ==
    /\ service_main = "started"
    /\ set_service_status("running")
    /\ service_main' = "none"
    /\ UNCHANGED <<installed, marked, handler, caller, application, command, shutdown>>

StopPending ==
    /\ handler = "called"
    /\ set_service_status("stop_pending")
    /\ handler' = "stopping"
    /\ UNCHANGED <<installed, marked, service_main, caller, application, command, shutdown>>

stop_thread ==
    /\ handler = "stopping"
    /\ application' = "told"
    /\ handler' = "stopped"
    /\ UNCHANGED <<manager, service_main, caller, command, shutdown>>

(* The dispatcher returns after this.                                      *)
Stopped ==
    /\ handler = "stopped"
    /\ set_service_status("stopped")
    /\ handler' = "none" /\ caller' = NULL
    /\ UNCHANGED <<installed, marked, service_main, application, command, shutdown>>

(* process() returns when the dispatcher did, and with main() ends what    *)
(* service_main_() is still at; the control manager notes it.              *)
ProcessEnds ==
    /\ handler = "none" /\ (service_main # "none" \/ dwCurrentState # "stopped")
    /\ set_service_status("stopped")
    /\ service_main' = "none" /\ application' = "none"
    /\ UNCHANGED <<installed, marked, handler, caller, command, shutdown>>

ServiceStep == \/ StartPending \/ start_thread \/ Running
               \/ StopPending \/ stop_thread \/ Stopped
               \/ ProcessEnds

-----------------------------------------------------------------------------
(* process() of another process, or a call of service_manager.  Every      *)
(* function of the control manager may fail; the command then goes on to   *)
(* cleanup_().                                                             *)
Run(c) == /\ pc[c] = "idle" /\ runs < MaxRuns
          /\ runs' = runs + 1
          /\ \E k \in Kinds : kind' = [kind EXCEPT ![c] = k]
          /\ Goto(c, "opening")
          /\ UNCHANGED <<manager, process, handles, shutdown>>

Fails(c) == /\ pc[c] \in {"opening", "finding", "starting", "deleting"}
            /\ Goto(c, "closing")
            /\ UNCHANGED <<manager, process, handles, kind, runs, shutdown>>

OpenSCManager(c) ==
    /\ pc[c] = "opening"
    /\ Gain(c, "manager")
    /\ Goto(c, "finding")
    /\ UNCHANGED <<manager, process, kind, runs, shutdown>>

CreateService(c) ==
    /\ pc[c] = "finding" /\ kind[c] = "install" /\ ~installed
    /\ installed' = TRUE
    /\ Gain(c, "service")
    /\ Goto(c, "closing")
    /\ UNCHANGED <<marked, dwCurrentState, process, kind, runs, shutdown>>

OpenService(c) ==
    /\ pc[c] = "finding" /\ kind[c] # "install" /\ installed
    /\ Gain(c, "service")
    /\ Goto(c, IF kind[c] = "start" THEN "starting" ELSE "asking")
    /\ UNCHANGED <<manager, process, kind, runs, shutdown>>

(* The control manager makes a process, which reaches service_main_().     *)
StartService(c) ==
    /\ pc[c] = "starting" /\ dwCurrentState = "stopped" /\ ~marked
    /\ shutdown = "no"
    /\ dwCurrentState' = "start_pending"
    /\ service_main' = "pending" /\ handler' = "idle" /\ application' = "none"
    /\ Goto(c, "closing")
    /\ UNCHANGED <<installed, marked, caller, handles, kind, runs, shutdown>>

AfterControl(c) == IF kind[c] = "uninstall" THEN "deleting" ELSE "closing"

(* ControlService( SERVICE_CONTROL_STOP ) returns when the handler did, or *)
(* fails: refused, or not answered in time.                                *)
ControlService(c) ==
    /\ pc[c] = "asking"
    /\ \/ /\ dwCurrentState = "running" /\ handler = "idle"
          /\ handler' = "called" /\ caller' = c
          /\ Goto(c, "asked")
       \/ /\ Goto(c, AfterControl(c))
          /\ UNCHANGED <<handler, caller>>
    /\ UNCHANGED <<manager, service_main, application, handles, kind, runs, shutdown>>

Answered(c) ==
    /\ pc[c] = "asked"
    /\ Goto(c, IF caller = c THEN AfterControl(c) ELSE "polling")
    /\ UNCHANGED <<manager, process, handles, kind, runs, shutdown>>

PolledUntilStopped(c) ==                      \* mutant: only "stopped" will do
    /\ pc[c] = "polling" /\ dwCurrentState = "stopped"
    /\ Goto(c, AfterControl(c))
    /\ UNCHANGED <<manager, process, handles, kind, runs, shutdown>>

(* The loop over QueryServiceStatus(): while the stop is pending.          *)
Polled(c) ==
    /\ pc[c] = "polling" /\ dwCurrentState # "stop_pending"
    /\ Goto(c, AfterControl(c))
    /\ UNCHANGED <<manager, process, handles, kind, runs, shutdown>>

QueryFails(c) ==
    /\ pc[c] = "polling"
    /\ Goto(c, AfterControl(c))
    /\ UNCHANGED <<manager, process, handles, kind, runs, shutdown>>

DeleteService(c) ==
    /\ pc[c] = "deleting" /\ ~marked
    /\ marked' = TRUE
    /\ Goto(c, "closing")
    /\ UNCHANGED <<installed, dwCurrentState, process, handles, kind, runs, shutdown>>

(* cleanup_().  process() of a stop command goes on into run_service_(),   *)
(* where StartServiceCtrlDispatcher() fails: no service manager started    *)
(* that process.                                                           *)
CleanupManager(c) ==                          \* mutant: one of two handles
    /\ pc[c] = "closing"
    /\ handles' = [handles EXCEPT ![c] = @ \ {"manager"}]
    /\ Goto(c, "idle") /\ kind' = [kind EXCEPT ![c] = "none"]
    /\ UNCHANGED <<manager, process, runs, shutdown>>

Cleanup(c) ==
    /\ pc[c] = "closing"
    /\ handles' = [handles EXCEPT ![c] = {}]
    /\ Goto(c, "idle") /\ kind' = [kind EXCEPT ![c] = "none"]
    /\ UNCHANGED <<manager, process, runs, shutdown>>

CommandGoesOn(c) ==
    \/ OpenSCManager(c) \/ CreateService(c) \/ OpenService(c) \/ StartService(c)
    \/ ControlService(c) \/ Answered(c) \/ Polled(c) \/ DeleteService(c) \/ Cleanup(c)

(* The control manager removes the entry.                                  *)
RemoveEntry ==
    /\ marked /\ dwCurrentState = "stopped"
    /\ \A c \in Commands : "service" \notin handles[c]
    /\ installed' = FALSE /\ marked' = FALSE
    /\ UNCHANGED <<dwCurrentState, process, command, shutdown>>

(* Windows shuts down, once.  SERVICE_CONTROL_SHUTDOWN is sent to a service*)
(* that has reported that it accepts it (init_() says so for every state)  *)
(* and is not about to stop: when it runs, and while start_() is at work.  *)
(* No service is started any more.                                         *)
AcceptsShutdown == /\ handler = "idle"
                   /\ dwCurrentState = "running" \/ service_main \in {"starting", "started"}

Shutdown ==
    /\ shutdown = "no"
    /\ \/ /\ AcceptsShutdown
          /\ handler' = "called"
          /\ shutdown' = IF service_main = "none" THEN "sent" ELSE "early"
       \/ /\ ~AcceptsShutdown
          /\ shutdown' = "sent"
          /\ UNCHANGED handler
    /\ UNCHANGED <<manager, service_main, caller, application, command>>

Next == \/ \E c \in Commands : \/ Run(c) \/ CommandGoesOn(c)
                               \/ Fails(c) \/ QueryFails(c)
        \/ ServiceStep \/ RemoveEntry \/ Shutdown

(* The two methods of the application end, and commands go on: a function  *)
(* succeeds or fails, but nothing has to fail that can succeed, and the    *)
(* poll of a status does not.                                              *)
Fairness == /\ WF_vars(ServiceStep) /\ WF_vars(RemoveEntry)
            /\ \A c \in Commands : WF_vars(CommandGoesOn(c) \/ Fails(c))

Spec == Init /\ [][Next]_vars /\ Fairness

-----------------------------------------------------------------------------
TypeOK == /\ installed \in BOOLEAN /\ marked \in BOOLEAN
          /\ dwCurrentState \in {"stopped", "start_pending", "running", "stop_pending"}
          /\ handles \in [Commands -> SUBSET {"manager", "service"}]
          /\ service_main \in {"none", "pending", "starting", "started"}
          /\ handler \in {"none", "idle", "called", "stopping", "stopped"}
          /\ caller \in Commands \cup {NULL}
          /\ application \in {"none", "started", "told"}
          /\ shutdown \in {"no", "sent", "early"}
          /\ pc \in [Commands -> {"idle", "opening", "finding", "starting", "asking",
                                  "asked", "polling", "deleting", "closing"}]
          /\ kind \in [Commands -> Kinds \cup {"none"}]
          /\ runs \in 0 .. MaxRuns

(* The state reported last is the true one, whatever commands and the      *)
(* shutdown of Windows overlap: a service that runs was started and not    *)
(* told to stop, one that is stopped was told to stop, and start_() and    *)
(* stop_(), which write status_ without a lock from two threads, are not   *)
(* at work together.  The exception is a shutdown that is sent while       *)
(* start_() is at work: it is accepted from the first report on, although  *)
(* the controls of commands are refused until the service runs.            *)
StatusHonest ==
    /\ TypeOK
    /\ dwCurrentState = "stop_pending" => handler \in {"stopping", "stopped"}
    /\ shutdown # "early" =>
         /\ service_main # "none" => handler = "idle" /\ dwCurrentState = "start_pending"
         /\ dwCurrentState = "running" => application = "started"
         /\ dwCurrentState = "stopped" => application # "started"

(* Every command returns: the loop that polls the status sees the service  *)
(* leave the pending stop.                                                 *)
CommandsReturn == \A c \in Commands : (pc[c] # "idle") ~> (pc[c] = "idle")

(* A deleted service that is stopped goes: no command keeps a handle to it,*)
(* whichever of its steps failed.                                          *)
DeletedGoes == (marked /\ dwCurrentState = "stopped") ~> ~installed
=============================================================================

# Verification of system_utilities

TLA+ specifications of *system_utilities*, a C++ library of building blocks for
multi-threaded servers, with the TLC configurations that check them and TLAPS
proofs of most of their safety. Paths below are relative to `src/`.

## 1. The system

### Components

| component | state | operations | correct when |
|---|---|---|---|
| `ts_queue` (`sources/ts_queue`) | a `std::list` of owned pointers, the volatile flag `stopping_`, one mutex, the conditions `push_` (sleepers of `wait_pop`) and `wait_` (sleepers of `wait`) | `push`, `pop`, `ts_pop`, `wait_pop`, `wait`, `stop`, `stop_processing`, `restart` | FIFO; every message has one owner; no wake-up is lost; a stop releases all sleepers |
| `task_processor` (`sources/task_processor`) | a `ts_queue` of tasks, worker threads, `working_threads_` and its condition, `stopping_` | `create_task`, `add_task`, `wait`, `stop`, destructor, the worker loop | accepted tasks run once and are deleted once; `wait` and the destructor end; nothing is lost when it stops |
| `timer` (`sources/timer`, twice: for functions and for member functions) | `started_`, `should_stop_`, a recursive mutex, a condition, one thread per `begin` | `begin`, `end`, destructor, the timer thread | an end is never slept through; at most one method call begins after it; `end` and the destructor return |
| `logger` and its streamer (`sources/logger`) | an output stream; a streamer shares its text with its copies | `note` ... `fatal`, stream insertion | a message is written once, whole, however its streamer is copied |
| `ts_logger`, `file_logger`, `limited_file_logger` | a mutex; a file stream and its buffer; a counted file size, the length of a time | `write`, open, close, `rename_` | lines are not mixed; the file stays within its limit; no line is lost but for newer ones |
| `queue_logger` | a `task_processor` by reference, a mutex, a stream | `write`, `real_write` | every accepted message has one whole line before its logger goes |
| `multikey_tree` | children per node, each array under the mutex of its node | `get_for_edit` (creates the path), `get_for_read`, `clear` | one node per path; readers see a created path |
| `shared_name_storage` | a map of names to shared identifiers, a set of identifiers | add, get, check, delete, clear | map and set are a bijection; an identifier is valid until its name is deleted, and then invalid for good |
| `property_reader` | a map of settings; the open files while it reads | parse, include, set, reset, delete, rename | last assignment wins; includes are read in place; reading ends |
| `system_processor` | a process-wide instance behind `instance_protector_`; `stopping_` and a condition | `init`, `stop`, `wait_for_stop`, `reset`, config calls, the exit handler | one instance; a stop releases every waiter; no call leaves a lock behind |
| `time_tracker` | an atomic start time | `reset`, `elapsed` | the time since the last `reset` |
| `windows_service`, `service_manager` | the state reported to Windows; handles | start, stop, control handler; install, uninstall, start, stop commands | the last report is the true state; commands end and leave no handle |
| `boost_dynamic_test_helper` | none | link macros for the tests | - |

### Interactions

`task_processor` owns a `ts_queue` and calls `push` from its clients, `wait_pop`
from its workers, `wait` and `stop` when it is stopped, and `stop_processing`
from the queue's destructor. `queue_logger` makes a task of every message and
gives it to a `task_processor`; the task holds a reference to its logger.
`limited_file_logger` derives from `file_logger`, which wraps any logger class;
`ts_logger` puts a mutex around `write` of any of them.
`system_processor` owns a `property_reader` and a `file_logger` and installs
signal handlers. A `timer` calls a method of its user while it holds its mutex.
`service_manager` talks to a `windows_service` in another process through the
service control manager of Windows.

### What is hard

- Flags are volatile and read outside of the locks (`ts_queue.h:65, 110`,
  `task_processor.h:101`, `timer.cpp:28, 31, 58, 62`).
- Three conditions are signalled by code that changes what they wait for in
  another critical section, or in none (`ts_queue.h:116, 130-133, 178`,
  `task_processor.h:143`).
- A task is handed from the queue to a worker before the worker is counted
  (`task_processor.h:130-135`).
- Stop, restart and destruction overlap with every other call.
- The timer calls user code with its mutex held (`timer.cpp:60-61`).
- The size of a log file is kept beside the file (`limited_file_logger.h:72`), and
  a renaming is four steps of which each may be the last (`limited_file_logger.h:88-94`).
- A walk in the tree reads a child again after it released the mutex it was
  tested under (`multikey_tree.h:73-77`).
- An identifier is an address, and addresses are used again.

`PROJECT.json` lists every hazard with its line and the properties aimed at it.

## 2. Modules

| module | what it is |
|---|---|
| `TsQueue` | the member functions of `ts_queue` as steps of the threads that call them; its safety properties and the inductive invariant. No clients. |
| `FifoQueue` | abstract specification: a FIFO list that can be closed, and opened by a restart that was begun |
| `QueueClients` | threads that call the seven locking functions in any order; the refinement of `FifoQueue`; liveness |
| `UnlockedPop` | `pop`, which takes no lock, beside the locking calls |
| `TaskProcessor` | workers and clients of `task_processor` over the steps of `TsQueue` |
| `QueueLogger` | `queue_logger` over `TaskProcessor`: lines of a stream written by the workers |
| `Timer` | the timer threads, `begin`, `end`, the destructor |
| `SystemProcessor` | the process-wide instance of `system_processor`, its users and its signal handler |
| `LimitedFileLog` | `ts_logger< limited_file_logger >` with its streamers, a file system that may fail and a process that may crash |
| `MultikeyTree` | threads that walk, extend and clear the tree |
| `KeyMap` | abstract specification: a map of keys that grow by one symbol |
| `SharedNames` | `shared_name_storage` and the pointers its clients keep |
| `PropertyReader` | `property_reader` over files that include each other |
| `TimeTracker` | `time_tracker` |
| `WindowsService` | the process of a service, the commands, and the control manager between them |
| `TsQueueProofs`, `QueueClientsProofs` | proofs about the queue: its steps, and its clients with `pop` |
| `TaskProcessorProofs` | proofs about the processor and the logger over it |
| `TimerProofs`, `SystemProcessorProofs` | proofs about these components |
| `LimitedFileLogProofs` | proofs about what the two files of a limited logger hold |
| `MultikeyTreeProofs` | proofs about the tree and its refinement of `KeyMap` |
| `UtilitiesProofs` | proofs about `SharedNames`, `TimeTracker`, `WindowsService` and `PropertyReader`, the components without a part in the others |
| `MC*` | values for the constants of the small instances |

`QueueClients` and `TaskProcessor` extend `TsQueue`: its steps belong to the
library and leave the caller's variables alone, so that each client adds only
what it does between two calls. `UnlockedPop` extends `QueueClients` and
`QueueLogger` extends `TaskProcessor` in the same way. `MCStorages` puts three
components without connection side by side; a behaviour picks one of them.

### TsQueue

`queue_`, `stopping_` and `queue_protector_` are the members of the class; `pc`
and `op` say where each thread is; `held` is the pointer a thread answers for,
`heap` whether a message is raw (not created yet), live or freed. A condition is
the set of its sleepers (`push_`, `wait_`). One step is the code between two
points at which another thread can be seen:

| action | code |
|---|---|
| `Enter` | the test of `stopping_` before the lock; a stopping call sets the flag here |
| `Acquire` | `scoped_lock`; the wake-up of a sleeper takes the lock again here |
| `Recheck` | the second test under the lock |
| `PushBack` | the body of `push` and its `notify_one` |
| `TakeFront` | the bodies of `ts_pop` and `wait_pop`, with `notify_all` on `wait_` when the list becomes empty |
| `TsPopEmpty`, `WaitPopSleep` | an empty list: return NULL, or sleep |
| `WaitTest`, `WaitSleep` | `wait`: the test of list and flag, and the sleep |
| `NotifyStop` | `stop`, `stop_processing`, `restart`: flush where the code does, `notify_all` on both conditions |
| `Reopen` | `restart` clears the flag after the lock was released |
| `Spurious` | a condition wakes without notification |

`notify_one` wakes any one sleeper, `notify_all` all. `size`, `ts_size` and
`empty` change nothing and are left out.

### TaskProcessor

`tpc` is the place of a worker in `processing` or of a client in `add_task`,
`wait`, `stop` or the destructor, and the queue's `pc` its place in the call of
the queue it makes from there. `Fetch` calls `wait_pop`, `Fetched` looks at its
result, `Claim` increments `working_threads_`, `Process` runs, destroys and
frees the task, `Retire` decrements and notifies. The mutex of the class guards
only sections with one visible step inside, so it needs no variable. The
histories `ran`, `refused`, `due`, `early` are read by properties only.

### Timer

`should_stop_protector_` names the timer thread that holds the recursive mutex;
`end` takes it for one step and may do so on the thread that holds it. The
method takes a mutex of the user, may call `end` and may throw, as the methods
of `timer_test.cpp` do. Callers take that mutex too, but not around `end`, which
waits for a running method (`timer_test.cpp:79-81` does, and may deadlock). The
length of a sleep is abstracted: a timed wait ends by notification or at any time.

### SystemProcessor

`instance_` says whether the static pointer is set, `objects` counts the
instances, `sp` is the set of threads that hold a copy of the shared pointer: the
last one to drop it runs `Destroy`. A free function goes through `Lock` and
`Inside`; `stop` and `reset` keep `instance_protector_` while they are in the
instance (`InsideStop`), `wait_for_stop` releases it and reads the pointer again
(`InsideWait`, `CallInstance`). `Enter`, `StopBody`, `ResetBody` and `WaitBody` are
the members under `stop_protector_`. `sig` is a second place for a thread, inside
`exit_handler`; while it is there the thread itself does not move. The functions
that read and edit the configuration are one step that leaves it abstract.

### QueueLogger

A message is the `Element` of the task that carries it. `real_write` is four
steps of the worker that runs the task: `LockWrite`, the insertion of the text and
of the end of the line, and `Written`, which is `Process` of the task. `Queueing`
is a step of the queue that also notes in `order` the message a `push` put there.
`write` itself is `AddTask`, `Offer` and `TaskRefused` of `TaskProcessor`.

### LimitedFileLog

A thread logs a message directly or through a streamer, whose copies carry one flag each
(`destroy_`): `Copy` and `Drop` are the copy constructor and the destructor. The copy
constructor gives the new copy the duty to write whatever the flag of its source is
(`logger.h:74-75`): a second copy of one streamer, or a copy of one that wrote, writes
the message again. `recopied` remembers such messages. `Measure` takes the mutex of
`ts_logger` and compares; `CloseStream`, `RemoveOld`, `RenameToOld`, `OpenStream` are
`rename_`, `Insert` the insertion and the count. `Start` is the constructor, which takes
the size from the file. `FileSystemFails` lets a removal, a renaming or an open fail; an
exception that leaves the destructor of a streamer, and `Crash`, end the process; one
that a direct call gets leaves the stream closed, and `begun` keeps the size of the
message that renaming was for and `swallowed` what the closed stream has swallowed
since. `Spill` moves a line from the buffer to the file. Sizes are numbers: a line is a
bracket, the time, the text and a newline, for which the counter adds two. Times come
with a fraction or without, as `to_simple_string` writes them, and the first one that
was measured is the length the counter uses from then on.

### MultikeyTree

`at` is the node a walk is in and `depth` how much of the key it has used. `Lock`,
then `Found` or `Missing`, then `Create`, are the section under the mutex of the node;
`Descend` reads the child again without it. `Use` returns the address of the
value and, for an editor, changes it. `Clear` takes no lock in the code and is
enabled when nobody is in the tree: no test or example clears a tree in use.

### SharedNames, PropertyReader, TimeTracker

`handle` holds the pointers clients keep: an address is free for a new string
only when neither map, set nor client points to it. `Write` is a client that
writes through its pointer (the pointers are to strings that are not const). The
history `asked` is the name a pointer was got for, until that name is deleted.
A file of `PropertyReader` is a sequence of lines of four kinds, in the
working directory or under the default path; `frames` is the stack of open files,
one per nested `parse_istream`. `TimeTracker` reads the clock and the start time in
two steps, and its clock may be set back once.

### WindowsService

`service_main` and `handler` are the two threads of the service process and
`application` what its start and stop methods have done. A command goes from
`opening` the manager through `finding` the service to `closing`; any call of
the control manager may fail on the way. The control manager is external: it
passes the stop of a command on only while the service runs, starts only what is
stopped and not marked, and removes a marked service when it is stopped and nobody
has a handle. `Shutdown` is `SERVICE_CONTROL_SHUTDOWN`, sent at most once: the
service accepts it in every state it reports (`windows_service.cpp:62`), so that
`stop_` may also run while `start_` is at work. `ProcessEnds` is the return of the
dispatcher, with which the process ends whatever `start_` is still at.

## 3. Runs

| run | result | shows |
|---|---|---|
| `queue_safety` | holds | four threads, all seven locking calls in any order, two calls or spurious wake-ups each: `Ownership`, `StopNotLost`, `PushNotLost`, `DrainNotLost`, refinement of `FifoQueue` |
| `queue_liveness` | holds | producer that also calls `pop`, consumers, waiter, stopper, no `restart`: nothing in `pop` is undefined and no wake-up is lost to it; `StopReleases`, `NoneStranded`, `DrainReleases` |
| `processor_ends` | holds | tasks added while others wait for, stop and destroy a processor with `process_on_stop`: `WaitDrains`, `EarlyDrained`, `DestructorEnds`, `WaitReturns`, no deadlock |
| `queue_logger` | holds | messages logged while the processor is waited for, stopped and destroyed: `WorkNotLost`, `NoLeak`, `WholeLines`, `LinesInOrder`, no deadlock |
| `lines_after_wait` | violated | `LinesAfterWait`: `wait` returns while a worker has a message it has not written |
| `timer_once` | holds | a timer begun once, ended by two callers, its method and its destructor: `EndNotMissed`, `OneLateCall`, `DestructorEnds`, no deadlock |
| `system_shared` | holds | threads make, share, use and drop the instance: `OneInstance`, `NobodyInDeadInstance`, `LocksReleased`, `StopReleases` |
| `init_first` | violated | `InitReturns`: `init` blocks after a `wait_for_stop` that threw |
| `limited_file` | holds | two threads, copies of streamers, renamings, crashes, restarts, failures of the file system: `NewestKept`, `WithinLimit`, `DroppedForNewer`, `SwallowedLess` |
| `multikey_tree` | holds | two threads on keys with a common prefix and one that is invalid: `OneNodePerPath`, `ReadersFind`, refinement of `KeyMap` |
| `storages` | holds | names: `OneIdPerName`, `AcceptedWhileNamed`; settings: `ReadsInPlace`; times: `ElapsedSinceReset` |
| `service` | holds | two threads give five commands in all, any function of the control manager may fail, Windows may shut down at any time: `StatusHonest`, `CommandsReturn`, `DeletedGoes` |

The type invariants are conjuncts of the first invariant of a run (`TypeOK` in
`queue_safety`, else `PopDefined`, `WholeLines`, `EndNotMissed`, `OneInstance`,
`NewestKept`, `OneNodePerPath`, `OneIdPerName`, `ReadsInPlace`,
`ElapsedSinceReset`, `StatusHonest`).

**Bounds.** `MaxBudget` bounds the calls and spurious wake-ups of each thread together,
`Elements` the messages created, `MaxUses` what a caller of the timer does. Every
wake-up defect needs a sleeper, a thread that changes the state and at most two others
that interfere (one overtakes the woken thread, one stops the queue): four threads. Two
messages are enough for the order, for the difference between "was empty" and "is
empty", and for more elements than woken threads. A second call lets every thread come
back to the queue it left in any state. In the processor two workers are enough for one
to be counted while another is not, and two messages for two lines that could be mixed
or change places. In `Timer` two callers, the method and the destructor make up to four
`end` calls that overlap. In `SystemProcessor` two threads hold the pointer, so that one
drops it while the other makes a new instance, and a third has none. `LimitedFileLog`
sends three messages: the third meets a file that was renamed for the second; a file has
room for one short line (two if the times are counted short), a long line has none, a
streamer has up to two copies at a time and one of them all may be made of a copy
without the duty to write (`MaxRecopies`), and two faults are a crash and another one
after the restart, or a failure and a crash. The tree has nodes for every path of its
keys, one is unused when two threads make the same path. `SharedNames` has more
addresses than names and than handles. In `PropertyReader` a file may include itself,
the other and the same one twice; `MaxOpen` is the number of files a process may have
open, the end of an endless include. `TimeTracker` has two threads and a clock of three
values. Five commands, in any division between the two threads, reach a service that is
stopped, deleted, installed again and started. Every property is refuted by a plausible
defect in the code under the bounds of its own run (`mutants` in `PROJECT.json`).

**Deadlock.** The clients of a queue may all go to sleep with nobody left to
stop it, and their calls are bounded; these runs set `CHECK_DEADLOCK FALSE`. In
`processor_ends`, `queue_logger` and `timer_once` deadlock is checked: the
only end is after the destructor. In `system_shared` a waiter sleeps for good if
nobody stops the system. In `limited_file`, `multikey_tree`, `storages` and
`service` nobody sleeps; they stop when the messages, calls, edits and commands
of the bounds are used up, and the tree may also run out of nodes never needed.

**Fairness.** A thread that can go on in a call does (weak fairness of its
steps); this includes taking the mutex, since the number of calls is finite and
no step keeps the mutex for ever. Nobody has to make a call. A task or a method
ends. The end of a timed wait is not assumed: what ends the sleep of a timer that
is told to stop must be the notification. In `service` the two methods of the
application end, a command goes on, by success or failure, and the control manager
removes what it may remove; the query of a status is never assumed to fail, so that
the polling loop has to end by itself. The other specifications have safety
properties only and state no fairness.

**Symmetry** is used in `queue_safety`, `queue_logger`, `limited_file`,
`multikey_tree` and `storages`, over constants that the specifications treat alike;
they have no liveness property (refinements and action properties are safety).

### Disagreements found

1. `ts_queue.h:159-160`: `wait_pop` is said to return when the queue is stopped;
   after `restart` a notified sleeper may find the flag clear again and sleep on.
   With `"restart"` in `MayCall`, `StopReleases` of `queue_liveness` fails.
2. `ts_queue.h:123, 141`: the comments "thread safe" and "not thread safe" of
   `pop` and `ts_pop` are the wrong way round. With `PopAlone = FALSE` and two
   `Poppers`, `Ownership` fails: both return the same element.
3. `task_processor.h:130-135`: `wait` (and `stop` with `process_on_stop`) may
   return while a worker holds a task it has not run; the tests of the
   processor and of `queue_logger` count on it (`lines_after_wait`).
4. `task_processor.h:47, 101`: a task accepted between the drain and the stop of
   the queue is deleted, not processed. `EarlyDrained` is what does hold.
5. `system_processor.cpp:255-262`: `wait_for_stop` without an instance throws "call
   init first" and leaves `instance_protector_` locked; `init` then blocks
   (`init_first`).

What the properties had to excuse, where no document of the repository says
otherwise:

- `NewestKept`: a copy made of a copy that had passed its duty on, or done it,
  writes the message once more (`logger.h:74-75`); the property says nothing of how
  often such a message is written. A message whose call is over may be in no file once a
  renaming failed. Lines may miss in the middle once a crash took a buffer.
- `WithinLimit`: the length of a time is measured once per process
  (`limited_file_logger.cpp:43`). A process whose first time has no fraction counts
  every line short by a fraction, and its file may pass the limit by that for each line. A
  line too long for the limit has a file of its own.
- `DroppedForNewer`: what is left when lines are dropped fills a file only together with the
  message at hand and with what a closed stream swallowed, each line taken as long as it may have been
  counted. A crash takes the buffer; a renaming after an open that failed removes
  the old file and has no current one (`limited_file_logger.h:90-92`).
- `SwallowedLess`: after any failure in a renaming the stream is closed
  (`limited_file_logger.h:88`), and messages that fit the counted size are inserted in it
  and lost while their calls return. They are together shorter than the message the renaming was for,
  whose own call threw: with that much counted the next one tries to rename again.
- `LinesInOrder`: a line may pass another that a different worker has in its hands.
- `OneIdPerName`, `AcceptedWhileNamed`: only until a client writes through its pointer; then
  `del_name( shared_string )` looks for the wrong name.
- `ReadsInPlace`: an include of a directory is never at its end
  (`property_reader.cpp:32`); the model stops there, and nothing is said of a read that
  does not end.
- `ElapsedSinceReset`: a `reset` during `elapsed`, or a clock that is set back, gives
  a negative time; of two overlapping `reset`s the earlier time may win.
- `StatusHonest`: a stop command that arrives before `RUNNING` was reported is refused by
  the control manager, a shutdown of Windows is not: sent while `start_` is at work it runs
  `stop_` beside it, and the last report may be `RUNNING` of a service that was told to
  stop (`shutdown = "early"`). What is left then is that `STOP_PENDING` is reported
  only while `stop_` is at work. The model has no application that stops by itself.

## 4. Proofs

Each theorem holds for every value of the constants their assumptions allow: any
finite set of threads, any messages, keys, names, clocks and bounds. The
assumptions are those the modules declare (`QueueAssumption`, `ClientAssumption`,
`PopAssumption`, `ProcessorAssumption`, `TreeAssumption`, ...: NULL is not a
thread, sets of threads are finite, bounds are numbers). TLC evaluates them in the runs.
Three theorem families have a hypothesis on top; each is named below with the code that
justifies it. Every inductive invariant was checked by TLC on the instance of its
run before it was proved (`ReaderInv` with the lines that are left computed from the
open files instead of a quantifier over all of them).

### The queue (`TsQueueProofs`, `QueueClientsProofs`)

`InvHolds`: `Spec => []QueueInv`. `QueueInv` is the inductive invariant:
- `QueueTypeOK`, the types;
- `LockDiscipline`: a thread is inside a locked section exactly when it owns
  the mutex. Needed because two threads in their bodies would break all else;
- `CallShape`: which places belong to which call, and what a thread holds
  there. Needed to know, for instance, that a sleeper holds no message;
- `StopSeen`: `StopNotLost` for threads that are about to sleep too. The flag
  is set without the lock, so a thread between its last test and its sleep is
  the case that matters; the stopping call still has to take the mutex after it;
- `DrainSeen`: `DrainNotLost` for threads between the test in `wait` and the
  sleep, who hold the mutex;
- `Ownership`, inductive with `CallShape`.

`TypeCorrect`, `OwnershipHolds`, `StopNeverLost`, `DrainNeverLost` follow.
`PushNeverLost`: `PushNotLost` is inductive on top of `QueueInv`. A `push` adds
one element and wakes one sleeper; what must not happen is that a thread on its
way to the list goes to sleep or leaves with elements to spare. The proof
counts the threads on their way (`OnTheirWay`) with the library's facts about
finite sets. `QueueRefines`: `Spec => ImplementsFifo`. The mapping is
`content <- queue_`, `closed <- FifoClosed` (the flag, unless some call that
passed its tests is still in its body; such a call takes effect before the
closing does) and `restarting <- InRestart`, the threads in a call of `restart`. Once
closed, the list opens again only by a `Reopen` of one of those, once for each call: a
push that skips the test under the lock enters a closed list and is refuted
(`CheckedBefore`).

`PopStaysDefined`, `PopDrainNeverLost`, `PopKeepsOwnership` are about `UnlockedPop`
under `PopAlone`: while a thread is in `pop` the others are outside of the queue or
in `wait`. Without it the second disagreement of section 3 refutes them; the tests, which
call `pop` on a queue nobody else uses, keep to it. `pop` empties the list without the mutex, so `DrainSeen` fails
for a moment; the invariant is the rest of `QueueInv` (`CoreInv`) with `PopSeen`, that
`DrainSeen` holds or the thread that emptied the list is still to notify, and
`PopShape`, that the others leave the list alone and the element that was seen is
there.

`TsQueueProofs` proves for each step of the library that it keeps each part
(`StepKeepsCore`, `StepKeepsInv`), for what clients do between calls
that they do too, and what a caller sees of the steps inside the queue (`OthersStay`,
`CallEnds`, `PointersMove`, `QueuedOrTaken`). The processor uses all of it again.

### The processor and its logger (`TaskProcessorProofs`)

`ProcInv` is `QueueInv` with
- `ProcShape`: which call of the queue a thread is in at each place of the
  processor, and where a task may be in its hands;
- `WorkNotLost`, inductive with the shape: between the two critical sections of
  `processing` a worker is counted exactly once (`NoWorkLost`);
- `EndInv`: who is left once the destructor has begun. With `Ownership` it gives
  `NothingLeaks`.

`TaskInv` follows the tasks: `FateInv` (deleted means run, refused, or left to the
destructor), `WaitInv` (a task that is due to a `wait` is in the queue only while that `wait`
is in the queue's own `wait`) and `EarlyInv` (with `process_on_stop` the queue is stopped
after it was seen empty, and an early task that is not with a worker is still in a queue that
is not stopped). They give `WaitLeavesNone` and `EarlyTasksRun`.

The steps of `QueueLogger` are steps of the processor or leave it alone
(`LoggerSteps`), so all this holds under the logger (`LoggerProcessor`). `LogInv`
adds `WriterInv` (the mutex of the logger), `StreamInv` and `LineInv` (texts and ends
alternate, and which messages have a line), from which `LinesStayWhole`,
and `OrderInv`: the list is what was not taken of the order of the pushes, and what a worker
has in its hands is later than all it has written. `LinesInOrder` alone is not
inductive, since it says nothing of the next line. `LinesKeepOrder` states it.

### The timer (`TimerProofs`)

`EndHeard` and `OneCallAfterEnd` hold under `BegunOnce`: there is
one timer thread. A second `begin` resets the flag an earlier thread has not read,
forgets that thread and notifies one of two sleepers (`timer.cpp:20-36`), so neither
is claimed then; `timer_once` begins once too, as the tests do. `TimerInv` has, besides the
types, who owns the recursive mutex, `StillToHear` (the thread keeps it from
its last test of the flag to its sleep, so the notification of an `end` that set the
flag in between is still to come) and `LastCall` (after the late call each test
finds the flag set).

### The system processor (`SystemProcessorProofs`)

`PointerInv`: there is an instance exactly while somebody holds a pointer or the last
holder is about to destroy it. `NoSecondInstance` needs no hypothesis. `LockInv`: who is in
the instance holds a pointer, or `instance_protector_` while the static pointer is
set, also across the signal handler. `NobodyInDead` and `AllReleased` assume `WaitersHold`:
who calls `wait_for_stop` holds a shared pointer. The code releases the mutex before it
enters the instance (`system_processor.cpp:255-259`), so without that the instance may be
destroyed in between, and without an instance it throws with the mutex locked (`init_first`).
The tests and the example of `windows_service.h:39` hold the pointer.

### The tree (`MultikeyTreeProofs`)

`NodeOf`, the node of each path, is a recursive function. That its equation has one solution for
any children is proved first (`OneSolution`), by induction on the length of a path: a
set of counterexamples has a shortest (`Least`), and the facts for shorter
paths refute it. Then one fact is left of the recursion: to know `NodeOf` after a step, give
a solution (`NextNodeOf`). `TreeInv` has `OnePath` (nodes are those of paths, one
each), `WalkInv` (a walk is at the node of the part of the key it has used, and
what it tested under the mutex still holds when it reads the child again without it),
`MutexInv` (two threads may not create the same child) and `KnewInv` (for
readers). `NodesHavePaths`, `LookupsFind` and the refinement of the map, `TreeRefines`,
follow. `TreeAssumption` has `Keys # {}`: without a key there is no path and no lookup.

### The log file (`LimitedFileLogProofs`)

`LogInv` (`LogInvariant`) is what the rest needs at each place: the types; `Stages` (who is
between the measuring and the insertion owns the mutex, and what is true of stream and files
at each stage of a renaming, a start included); `OneFlag` (of the copies of a streamer at most
the last has the duty to write, until one without it is copied, and when none has it the
message was written); `Fresh` (a message that is still to be written is with one thread and,
unless it is in `recopied`, was not written); `Failures` (as long as no renaming failed the stream is
open but within one).

- `NewestAreKept`: `Ordered`, `Complete` and `AllWritten` are inductive over it. A renaming moves
  the current file to the old one and drops what the old one had, so what is left stays an end
  of what was written (`KeptSteps`: only `Insert`, `RemoveOld` and the end of a process change
  the lines that are kept).
- `LimitIsKept`: `WithinLimit` is not inductive, since the counter is compared and not the
  file. `CountedEnough` adds that the counter is below the size of file and buffer by no more
  than it misses of each line, from the start of a process, when it is read from the file, and
  that a message about to be inserted was found to fit or has an empty file.
- `DropsAreForNewer`: the other direction. `CountedAtMost`: the counter is not above what the
  lines may have been counted for (`Counted`) and what the stream swallowed, and a renaming that
  has begun found the counter and its message at the limit. So what `RemoveOld` leaves, the
  current file, is full, unless there is none.
- `LittleIsSwallowed`: `Swallows`, inductive over `CountedAtMost`: when a renaming closes the
  stream the counter and the message at hand reach the limit, each message that is swallowed
  is counted, and it is swallowed only if it leaves the counter below the limit.

The three lemmas on counters share one list of what each step does to them (`CounterSteps`).
What `Bytes` does when a line is appended is proved first: `Bytes` is a recursive
function, shown to exist by induction on the number of lines. The assumptions are that a time
has a length, that one without fraction is not longer than one with it, and that no file is the
value `Absent`.

### Names, times, the service, settings (`UtilitiesProofs`)

`NamesAgree` and `AcceptedUntilDeleted` rest on `OneEach`: the set holds exactly the addresses the
map gives, and the text at each is its name until a client writes through a pointer; a
new string is at an address nobody points to (`NewAddress`). `AcceptedUntilDeleted` adds
`GotRight`: a pointer that was got for a name that is still there is the one the map has
for it, any other is not in the set.
`ElapsedTrue` rests on `TrackInv`: `start_` is the latest time that was
stored, a `reset` that is alone has read a later one, and an `elapsed` that no `reset`
overlaps has read a later one still. `StatusTrue` rests on `ReportShape`: what the two threads
of the service and the application do in each reported state, on the way too, and on
`StopShape`, the part of it that a shutdown beside `start_` leaves true.

`IncludesReadInPlace` compares a stack of open files with a file that is flattened
beforehand, for any files and any depth. `Flattened` and `Meaning` are recursive functions. That such a function
exists and satisfies its equation is proved by induction on the number of its argument: a set of
counterexamples has a least one, and the equation at the number before refutes it
(`Least`, `GrownExists`, `SameGrowth`). `ReaderInv` links the two sides by a number
`n`: the first `n` flattened lines are in the settings, none of them throws, and what is left of
the open files, each flattened at its own depth, is the flattened file from line `n + 1` on. An
include puts the lines of a file in front of what is left, the end of a
file takes an empty piece away, any other line moves `n` by one.
`ReaderAssumption` says that a directory is no sequence of lines.

### Model-checked only

- All liveness (`StopReleases`, `NoneStranded`, `DrainReleases`, `DestructorEnds`,
  `WaitReturns`, `CommandsReturn`, `DeletedGoes`): TLAPS 1.4 handles neither fairness nor
  ENABLED.
- The two properties that are violated, `LinesAfterWait` and `InitReturns`.

Every other property of the runs, with the refinements and the action properties
`DroppedForNewer` and `ElapsedSinceReset`, has a theorem.

## 5. Not modelled

- Of `system_processor`, the contents of the configuration, the directories it
  makes and its log files.
- A caller of `end` that holds a mutex the method of the timer takes: both wait for ever.
- A signal that finds its thread with a mutex held: the handler blocks for ever.
  The run delivers signals to a thread outside of every call (`Interruptible`).
- `boost_dynamic_test_helper`: preprocessor macros, no state.
- Memory order: flags are read and written one at a time, atomically and in
  program order, as the x86 builds of the project do with volatile variables.
- Exceptions of `new` and of the thread constructor; tasks that throw, which the
  header of `task_processor` forbids; a processor without workers; a second
  `begin` of a timer (its hazard is listed).
- Two queue loggers on one stream: they have a mutex each, so their lines may mix.
- `clear` of a tree in use: the walks would go on in freed nodes.
- Text: the words of log levels, the grammar of a settings line (a setting named
  `include` is read as an include), the conversions of `check` and `get_value`
  to types, which change nothing. `rename_parameter` uses an iterator after an
  insertion that may rehash the map (`property_reader.cpp:240-241`); the model
  has the outcome without a rehash.
- Of `windows_service`, the arguments, the description of the service and the
  case `process()` falls through from a stop command to `run_service_`
  (`windows_service.cpp:50`), where the dispatcher fails at once; controls other than stop and
  shutdown, which the handler ignores; a status that is
  read while no process of the service is there.

## 6. Plan

Done, in this order: `TsQueue` with `QueueClients` and `FifoQueue`,
`UnlockedPop`, `TaskProcessor`, `Timer`, `SystemProcessor`, the proofs about the
queue, `QueueLogger`, `LimitedFileLog`, `MultikeyTree` with `KeyMap`, `SharedNames`,
`PropertyReader`, `TimeTracker`, `WindowsService`.

The proofs, in this order: the queue, the system processor, the timer, the service,
the names and times, the processor and its logger, the tree, `pop`, the log file, the
settings.

What could come next: a second `begin` of a timer, with the thread it forgets; the
configuration that `system_processor` keeps, over `PropertyReader`; streams shared by two
queue loggers.

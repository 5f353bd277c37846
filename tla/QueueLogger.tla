---------------------------- MODULE QueueLogger ----------------------------
(***************************************************************************)
(* queue_logger (src/sources/queue_logger/queue_logger.h) over the         *)
(* task_processor of TaskProcessor: write() makes a task of a message and  *)
(* offers it (AddTask, Offer), or deletes it when it is refused            *)
(* (TaskRefused).  A worker that runs the task writes the line to the      *)
(* stream, in several insertions under the mutex of the logger.  A message *)
(* is the Element that carries it; one logger and its stream.              *)
(***************************************************************************)
EXTENDS TaskProcessor

VARIABLES stream_,            \* the pieces of lines, as they were inserted
          protect_write_,     \* the worker that holds the mutex of the logger
          wpc,                \* of each worker: its place in real_write()
          order               \* history: messages in the order of the queue
lvars   == <<stream_, protect_write_, wpc, order>>
logvars == <<vars, lvars>>

Piece(w, part) == [message |-> held[w], part |-> part, by |-> w]

LoggerInit == /\ Init
              /\ stream_ = <<>>
              /\ protect_write_ = NULL
              /\ wpc = [w \in Workers |-> "outside"]
              /\ order = <<>>

-----------------------------------------------------------------------------
(* real_write(), called by operator() of the task: the lock, the text of   *)
(* the line, its end, and the return to the worker.                        *)
LockWriteFree(w) ==                           \* mutant: no scoped_lock
    /\ tpc[w] = "running" /\ wpc[w] = "outside"
    /\ wpc' = [wpc EXCEPT ![w] = "locked"]
    /\ UNCHANGED <<vars, stream_, protect_write_, order>>

LockWrite(w) ==
    /\ tpc[w] = "running" /\ wpc[w] = "outside"
    /\ protect_write_ = NULL
    /\ protect_write_' = w
    /\ wpc' = [wpc EXCEPT ![w] = "locked"]
    /\ UNCHANGED <<vars, stream_, order>>

WriteText(w) ==
    /\ wpc[w] = "locked"
    /\ stream_' = Append(stream_, Piece(w, "text"))
    /\ wpc' = [wpc EXCEPT ![w] = "texted"]
    /\ UNCHANGED <<vars, protect_write_, order>>

WriteEnd(w) ==
    /\ wpc[w] = "texted"
    /\ stream_' = Append(stream_, Piece(w, "end"))
    /\ protect_write_' = NULL
    /\ wpc' = [wpc EXCEPT ![w] = "written"]
    /\ UNCHANGED <<vars, order>>

Written(w) ==
    /\ wpc[w] = "written"
    /\ Process(w)
    /\ wpc' = [wpc EXCEPT ![w] = "outside"]
    /\ UNCHANGED <<stream_, protect_write_, order>>

LogStep(w) == LockWrite(w) \/ WriteText(w) \/ WriteEnd(w) \/ Written(w)

(* A step of the queue; a message it accepts has its turn from then on.    *)
Queueing(t) ==
    /\ InQueue(t)
    /\ order' = IF Len(queue_') > Len(queue_) THEN Append(order, held[t]) ELSE order
    /\ UNCHANGED <<stream_, protect_write_, wpc>>

Working(w) == /\ Fetch(w) \/ Fetched(w) \/ Claim(w) \/ Retire(w)
              /\ UNCHANGED lvars

Calling(c) == /\ AddTask(c) \/ Wait(c) \/ Stop(c) \/ ClientStep(c)
              /\ UNCHANGED lvars

LoggerNext == \/ \E t \in Threads : Queueing(t) \/ (Wakeup(t) /\ UNCHANGED lvars)
              \/ \E w \in Workers : LogStep(w) \/ Working(w)
              \/ \E c \in Clients : Calling(c)
              \/ Destroy /\ UNCHANGED lvars
              \/ Terminated /\ UNCHANGED lvars

LoggerSpec == LoggerInit /\ [][LoggerNext]_logvars

-----------------------------------------------------------------------------
LoggerTypeOK ==
    /\ TypeOK
    /\ stream_ \in Seq([message : Elements, part : {"text", "end"}, by : Workers])
    /\ protect_write_ \in Workers \cup {NULL}
    /\ wpc \in [Workers -> {"outside", "locked", "texted", "written"}]
    /\ order \in Seq(Elements)

(* The messages of the lines that have their end.                          *)
Ends  == {i \in DOMAIN stream_ : stream_[i].part = "end"}
Lines == {stream_[i].message : i \in Ends}

(* The stream is a sequence of whole lines, the last perhaps without its   *)
(* end; no message has two lines, and every message that a worker ran has  *)
(* its line, also when the processor is stopped and destroyed meanwhile.   *)
WholeLines ==
    /\ LoggerTypeOK
    /\ \A i \in DOMAIN stream_ :
         IF i % 2 = 1 THEN stream_[i].part = "text"
         ELSE stream_[i] = [stream_[i - 1] EXCEPT !.part = "end"]
    /\ \A i, j \in Ends : stream_[i].message = stream_[j].message => i = j
    /\ ran \subseteq Lines

(* Lines stand in the order of the queue, except that one line may pass    *)
(* another that a different worker has in its hands.                       *)
LinesInOrder ==
    \A i, j \in DOMAIN stream_ :
        (i < j /\ stream_[i].by = stream_[j].by) =>
            \E m, n \in DOMAIN order : /\ order[m] = stream_[i].message
                                       /\ order[n] = stream_[j].message
                                       /\ m <= n

(* What the write test of queue_logger expects (queue_logger_tests.cpp:    *)
(* 54-67): when wait() returns, every message that was accepted before it  *)
(* has its line, and the logger may be destroyed.                          *)
LinesAfterWait ==
    \A c \in Clients :
        (tpc[c] = "waited" /\ ~stopping_) => due[c] \subseteq Lines
=============================================================================

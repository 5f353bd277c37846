----------------------------- MODULE FifoQueue -----------------------------
(***************************************************************************)
(* What ts_queue promises to its users, without threads or locks: a FIFO   *)
(* list of messages that can be closed.  While it is closed nothing enters *)
(* it and nothing is handed out; a message leaves it at the front or with  *)
(* all the others when the list is flushed.  A call that was already past  *)
(* its tests when the queue was closed may complete, and the closing then  *)
(* takes effect together with it.  Only a client that began a restart      *)
(* opens a closed list, once.                                              *)
(***************************************************************************)
EXTENDS Naturals, Sequences

CONSTANTS Elements,
          Clients

VARIABLES content, closed,
          restarting  \* the clients that are in a restart

Init == content = <<>> /\ closed = FALSE /\ restarting = {}

Put == /\ ~closed
       /\ \E e \in Elements : content' = Append(content, e)
       /\ closed' \in BOOLEAN
       /\ UNCHANGED restarting

Take == /\ ~closed
        /\ content # <<>>
        /\ content' = Tail(content)
        /\ closed' \in BOOLEAN
        /\ UNCHANGED restarting

Flush == content' = <<>> /\ UNCHANGED <<closed, restarting>>

Close == closed' = TRUE /\ UNCHANGED <<content, restarting>>

Restart(c) == /\ c \notin restarting
              /\ restarting' = restarting \cup {c}
              /\ closed' \in {closed, TRUE}
              /\ UNCHANGED content

Reopen(c) == /\ c \in restarting
             /\ restarting' = restarting \ {c}
             /\ closed' = FALSE
             /\ UNCHANGED content

Next == \/ Put \/ Take \/ Flush \/ Close
        \/ \E c \in Clients : Restart(c) \/ Reopen(c)

Spec == Init /\ [][Next]_<<content, closed, restarting>>
=============================================================================

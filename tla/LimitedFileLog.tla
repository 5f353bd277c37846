--------------------------- MODULE LimitedFileLog ---------------------------
(***************************************************************************)
(* ts_logger< limited_file_logger > (src/sources/logger, ts_logger,        *)
(* file_logger, limited_file_logger): threads that log to a file, which is *)
(* renamed to ".old" before it reaches its limit.  The size of the file is *)
(* counted beside the file, from the messages.  The process may crash      *)
(* between any two steps and start again, and the file system may fail.    *)
(*                                                                         *)
(* A message is a number; what matters of it is its size.  A level is part *)
(* of the text.  Sizes are in units, with print_prefix.                    *)
(***************************************************************************)
EXTENDS Naturals, SequencesExt

CONSTANTS Threads,
          NULL,
          Absent,             \* what a file is that does not exist
          Limit,              \* file_size_limit
          Texts,              \* sizes of level and message
          ShortTime, LongTime,\* to_simple_string(), without and with fraction
          MaxMessages,        \* bound
          MaxCopies,          \* bound: copies of a streamer at a time
          MaxRecopies,        \* bound: copies of one that has no duty to write
          MaxFaults           \* bound: crashes and failures of the file system

ASSUME LogAssumption == /\ NULL \notin Threads
                        /\ Limit \in Nat /\ Texts \subseteq Nat
                        /\ ShortTime \in Nat \ {0} /\ LongTime \in Nat
                        /\ ShortTime <= LongTime
                        /\ Absent \notin Seq([id : Nat \ {0}, size : Nat])
                        /\ MaxMessages \in Nat /\ MaxCopies \in Nat
                        /\ MaxRecopies \in Nat /\ MaxFaults \in Nat

VARIABLES flush_stream,       \* template argument
          file, old,          \* lines in the two files, or Absent
          life,               \* of the logger: "down", "opening", "up"
          open,               \* file_stream_ is open
          buffer,             \* lines in the buffer of file_stream_
          current_file_size_,
          current_time_size,  \* static: length of the first time that was
                              \* formatted in this process, 0 before
          protect_write_,     \* the thread that holds the mutex
          pc, message,        \* of each thread: its place, its message
          destroy_,           \* the flags of its copies of the streamer
          sent,               \* how many messages there were
          written,            \* history: lines inserted in an open stream
          returned,           \* history: messages whose call is over
          recopied,           \* history: those whose streamer was copied from a
                              \* copy that had not the duty to write
          recopies,           \* how many such copies there were
          cut,                \* history: a crash lost a buffer
          failed,             \* history: a step of a renaming failed
          begun,              \* history: the size of the message whose renaming
                              \* closed the stream, while it is not open again
          swallowed,          \* history: the sizes it swallowed since then
          faults
disk    == <<file, old>>
memory  == <<life, open, buffer, current_file_size_, current_time_size>>
callers == <<protect_write_, pc, message, destroy_, sent>>
record  == <<written, returned, recopied, recopies, cut, failed, faults>>
hist    == <<record, begun, swallowed>>
vars    == <<flush_stream, disk, memory, callers, hist>>

Bytes(lines) ==
    LET sum[n \in 0 .. Len(lines)] == IF n = 0 THEN 0 ELSE sum[n - 1] + lines[n].size
    IN  sum[Len(lines)]

Lines(f) == IF f = Absent THEN <<>> ELSE f

(* A line is "[", the time, level and message, a newline; the counter adds *)
(* two for the newline.                                                    *)
LineSize(time, text)     == 1 + time + text + 1
message_size(time, text) == 1 + time + text + 2

NoMessage == [id |-> 0, text |-> 0]

Init == /\ flush_stream \in BOOLEAN
        /\ file = Absent /\ old = Absent
        /\ life = "down" /\ open = FALSE /\ buffer = <<>>
        /\ current_file_size_ = 0 /\ current_time_size = 0
        /\ protect_write_ = NULL
        /\ pc = [t \in Threads |-> "idle"]
        /\ message = [t \in Threads |-> NoMessage]
        /\ destroy_ = [t \in Threads |-> <<>>]
        /\ sent = 0
        /\ written = <<>> /\ returned = {}
        /\ recopied = {} /\ recopies = 0
        /\ cut = FALSE /\ failed = FALSE
        /\ begun = 0 /\ swallowed = 0
        /\ faults = 0

Goto(t, p) == pc' = [pc EXCEPT ![t] = p]

(* A call is over when no copy of its streamer is left.                    *)
Leave(t, flags) ==
    IF flags = <<>>
    THEN Goto(t, "idle") /\ message' = [message EXCEPT ![t] = NoMessage]
    ELSE Goto(t, "streaming") /\ UNCHANGED message

EndWrite(t) == protect_write_' = NULL /\ Leave(t, destroy_[t])

-----------------------------------------------------------------------------
(* note( message ), formatted_note(), note() and the other levels.  A      *)
(* format that fails is logged as another text.                            *)
Log(t) ==
    /\ life = "up" /\ pc[t] = "idle" /\ sent < MaxMessages
    /\ sent' = sent + 1
    /\ \E text \in Texts : message' = [message EXCEPT ![t] = [id |-> sent + 1, text |-> text]]
    /\ \/ Goto(t, "locking") /\ UNCHANGED destroy_
       \/ Goto(t, "streaming") /\ destroy_' = [destroy_ EXCEPT ![t] = <<TRUE>>]
    /\ UNCHANGED <<flush_stream, disk, memory, protect_write_, hist>>

(* The copy constructor of the streamer: the new copy has the duty to      *)
(* write, the one it is made from has it no more.  Whether that one had it *)
(* is not asked.                                                           *)
Recopied(t, i) ==
    \/ /\ destroy_[t][i]
       /\ UNCHANGED <<recopied, recopies>>
    \/ /\ ~destroy_[t][i] /\ recopies < MaxRecopies
       /\ recopied' = recopied \cup {message[t].id}
       /\ recopies' = recopies + 1

CopyKeepsFlag(t) ==                           \* mutant: ls.destroy_ stays
    /\ pc[t] = "streaming" /\ Len(destroy_[t]) < MaxCopies
    /\ \E i \in DOMAIN destroy_[t] :
         /\ destroy_' = [destroy_ EXCEPT ![t] = Append(@, TRUE)]
         /\ Recopied(t, i)
    /\ UNCHANGED <<flush_stream, disk, memory, protect_write_, pc, message, sent,
                   written, returned, cut, failed, begun, swallowed, faults>>

Copy(t) ==
    /\ pc[t] = "streaming" /\ Len(destroy_[t]) < MaxCopies
    /\ \E i \in DOMAIN destroy_[t] :
         /\ destroy_' = [destroy_ EXCEPT ![t] = Append([@ EXCEPT ![i] = FALSE], TRUE)]
         /\ Recopied(t, i)
    /\ UNCHANGED <<flush_stream, disk, memory, protect_write_, pc, message, sent,
                   written, returned, cut, failed, begun, swallowed, faults>>

(* The destructor of the streamer, of the copies in any order.             *)
Drop(t) ==
    /\ pc[t] = "streaming"
    /\ \E i \in DOMAIN destroy_[t] :
         LET flags == RemoveAt(destroy_[t], i)
         IN  /\ destroy_' = [destroy_ EXCEPT ![t] = flags]
             /\ \/ /\ destroy_[t][i]
                   /\ Goto(t, "locking")
                   /\ UNCHANGED <<message, returned>>
                \/ /\ ~destroy_[t][i]
                   /\ Leave(t, flags)
                   /\ returned' = returned \cup (IF flags = <<>> THEN {message[t].id} ELSE {})
    /\ UNCHANGED <<flush_stream, disk, memory, protect_write_, sent,
                   written, recopied, recopies, cut, failed, begun, swallowed, faults>>

(* write() of ts_logger takes the mutex, write() of limited_file_logger    *)
(* compares.                                                               *)
NeverFull(size) == FALSE                      \* mutant: nothing is renamed
Full(size) == current_file_size_ + size >= Limit

Measure(t) ==
    /\ pc[t] = "locking" /\ protect_write_ = NULL
    /\ protect_write_' = t
    /\ \E time \in IF current_time_size = 0 THEN {ShortTime, LongTime}
                   ELSE {current_time_size} :
         LET size == message_size(time, message[t].text)
         IN  /\ current_time_size' = time
             /\ Goto(t, IF Full(size) THEN "closing" ELSE "inserting")
    /\ UNCHANGED <<flush_stream, disk, life, open, buffer, current_file_size_, message,
                   destroy_, sent, hist>>

(* The counted size of the message in the hands of the mutex' owner.       *)
Due == IF life = "up" /\ protect_write_ # NULL
       THEN message_size(current_time_size, message[protect_write_].text)
       ELSE 0

(* rename_(), step by step.                                                *)
CloseForgetsSize(t) ==                        \* mutant: the size is reset first
    /\ pc[t] = "closing"
    /\ open' = FALSE
    /\ buffer' = <<>>
    /\ file' = IF open THEN Lines(file) \o buffer ELSE file
    /\ begun' = IF open THEN Due ELSE begun
    /\ current_file_size_' = 0
    /\ Goto(t, "removing")
    /\ UNCHANGED <<flush_stream, old, life, current_time_size,
                   protect_write_, message, destroy_, sent, record, swallowed>>

CloseStream(t) ==
    /\ pc[t] = "closing"
    /\ open' = FALSE
    /\ buffer' = <<>>
    /\ file' = IF open THEN Lines(file) \o buffer ELSE file
    /\ begun' = IF open THEN Due ELSE begun
    /\ Goto(t, "removing")
    /\ UNCHANGED <<flush_stream, old, life, current_file_size_, current_time_size,
                   protect_write_, message, destroy_, sent, record, swallowed>>

RemoveOld(t) ==
    /\ pc[t] = "removing"
    /\ old' = Absent
    /\ Goto(t, "renaming")
    /\ UNCHANGED <<flush_stream, file, memory, protect_write_, message, destroy_, sent, hist>>

RenameToOld(t) ==
    /\ pc[t] = "renaming" /\ file # Absent
    /\ old' = file
    /\ file' = Absent
    /\ Goto(t, "reopening")
    /\ UNCHANGED <<flush_stream, memory, protect_write_, message, destroy_, sent, hist>>

(* The constructor is done when the file is open again.                    *)
KeepsSize == current_file_size_               \* mutant: the size is not reset
NewSize == 0

OpenStream(t) ==
    /\ pc[t] = "reopening"
    /\ file' = <<>> /\ open' = TRUE
    /\ current_file_size_' = NewSize
    /\ begun' = 0 /\ swallowed' = 0
    /\ IF life = "opening"
       THEN life' = "up" /\ EndWrite(t)
       ELSE Goto(t, "inserting") /\ UNCHANGED <<life, protect_write_, message>>
    /\ UNCHANGED <<flush_stream, old, buffer, current_time_size, destroy_, sent, record>>

(* A stream that is not open swallows the line.                            *)
Insert(t) ==
    /\ pc[t] = "inserting"
    /\ current_file_size_' = current_file_size_ + Due
    /\ \/ /\ open
          /\ \E time \in {ShortTime, LongTime} :
               LET line == [id |-> message[t].id, size |-> LineSize(time, message[t].text)]
               IN  /\ written' = Append(written, line)
                   /\ IF flush_stream
                      THEN file' = Append(file, line) /\ UNCHANGED buffer
                      ELSE buffer' = Append(buffer, line) /\ UNCHANGED file
          /\ UNCHANGED swallowed
       \/ /\ ~open
          /\ swallowed' = swallowed + Due
          /\ UNCHANGED <<written, file, buffer>>
    /\ returned' = returned \cup {message[t].id}
    /\ EndWrite(t)
    /\ UNCHANGED <<flush_stream, old, life, open, current_time_size, destroy_, sent,
                   recopied, recopies, cut, failed, begun, faults>>

-----------------------------------------------------------------------------
(* What the process loses with its memory.                                 *)
Forget == /\ life' = "down" /\ open' = FALSE /\ buffer' = <<>>
          /\ current_file_size_' = 0
          /\ protect_write_' = NULL
          /\ pc' = [t \in Threads |-> "idle"]
          /\ message' = [t \in Threads |-> NoMessage]
          /\ destroy_' = [t \in Threads |-> <<>>]
          /\ begun' = 0 /\ swallowed' = 0
          /\ UNCHANGED sent

Die == Forget /\ current_time_size' = 0 /\ cut' = (cut \/ buffer # <<>>)

(* An exception: the caller of note( message ) gets it with the mutex      *)
(* released, the constructor leaves no logger, and in the destructor of a  *)
(* streamer it ends the process.                                           *)
Throw(t) ==
    /\ failed' = TRUE
    /\ \/ /\ life = "opening"
          /\ Forget
          /\ UNCHANGED <<current_time_size, cut>>
       \/ /\ life = "up" /\ destroy_[t] = <<>>
          /\ EndWrite(t)
          /\ UNCHANGED <<memory, destroy_, sent, cut, begun, swallowed>>
       \/ /\ life = "up"
          /\ Die
    /\ UNCHANGED <<flush_stream, disk, written, returned, recopied, recopies>>

(* exists(), remove(), rename() or open() fail; rename() always without a  *)
(* file.                                                                   *)
FileSystemFails(t) ==
    /\ pc[t] \in {"removing", "renaming", "reopening"} /\ faults < MaxFaults
    /\ faults' = faults + 1
    /\ Throw(t)

NothingToRename(t) ==
    /\ pc[t] = "renaming" /\ file = Absent
    /\ Throw(t)
    /\ UNCHANGED faults

Crash == /\ life # "down" /\ faults < MaxFaults
         /\ faults' = faults + 1
         /\ Die
         /\ UNCHANGED <<flush_stream, disk, written, returned, recopied, recopies, failed>>

(* The destructor closes the stream; the process may go on.                *)
Exit == /\ life = "up" /\ \A t \in Threads : pc[t] = "idle"
        /\ file' = IF open THEN Lines(file) \o buffer ELSE file
        /\ Forget
        /\ UNCHANGED <<flush_stream, old, current_time_size, record>>

(* The constructor opens the file to append, and reads its size.           *)
file_size == Bytes(Lines(file))

MustRename == file_size >= Limit

Start(t) ==
    /\ life = "down"
    /\ file' = Lines(file) /\ open' = TRUE
    /\ current_file_size_' = file_size
    /\ \/ /\ ~MustRename
          /\ life' = "up"
          /\ UNCHANGED <<pc, protect_write_>>
       \/ /\ MustRename
          /\ life' = "opening"
          /\ Goto(t, "closing")
          /\ protect_write_' = t
    /\ UNCHANGED <<flush_stream, old, buffer, current_time_size, message, destroy_, sent, hist>>

(* A full buffer goes to the file.                                         *)
Spill == /\ buffer # <<>>
         /\ file' = Append(file, Head(buffer))
         /\ buffer' = Tail(buffer)
         /\ UNCHANGED <<flush_stream, old, life, open, current_file_size_,
                        current_time_size, callers, hist>>

Next == \/ \E t \in Threads :
             \/ Log(t) \/ Copy(t) \/ Drop(t) \/ Measure(t) \/ Insert(t)
             \/ CloseStream(t) \/ RemoveOld(t) \/ RenameToOld(t) \/ OpenStream(t)
             \/ FileSystemFails(t) \/ NothingToRename(t) \/ Start(t)
        \/ Crash \/ Exit \/ Spill

Spec == Init /\ [][Next]_vars

-----------------------------------------------------------------------------
TypeOK ==
    LET Line == [id : Nat \ {0}, size : Nat]
    IN  /\ flush_stream \in BOOLEAN
        /\ file \in Seq(Line) \cup {Absent} /\ old \in Seq(Line) \cup {Absent}
        /\ buffer \in Seq(Line) /\ written \in Seq(Line)
        /\ life \in {"down", "opening", "up"} /\ open \in BOOLEAN
        /\ current_file_size_ \in Nat
        /\ current_time_size \in {0, ShortTime, LongTime}
        /\ protect_write_ \in Threads \cup {NULL}
        /\ pc \in [Threads -> {"idle", "streaming", "locking", "inserting",
                               "closing", "removing", "renaming", "reopening"}]
        /\ message \in [Threads -> [id : Nat, text : Nat]]
        /\ destroy_ \in [Threads -> Seq(BOOLEAN)]
        /\ sent \in Nat /\ returned \subseteq 1 .. sent /\ recopied \subseteq 1 .. sent
        /\ recopies \in 0 .. MaxRecopies /\ cut \in BOOLEAN /\ failed \in BOOLEAN
        /\ begun \in Nat /\ swallowed \in Nat /\ faults \in 0 .. MaxFaults

(* The lines in the two files and the buffer, oldest first.                *)
Current == Lines(file) \o buffer
Kept    == Lines(old) \o Lines(file) \o buffer

(* A message is written once, through renaming, failures of the file       *)
(* system, crashes, restarts and copies of its streamer: not twice, unless *)
(* a copy that had passed its duty on, or done it, was copied again, and   *)
(* not never, as long as no renaming failed.  The lines that are kept are  *)
(* in the order they were written, and if no crash took a buffer they are  *)
(* the last ones without a gap, whatever failed.                           *)
NewestKept ==
    /\ TypeOK
    /\ \A i, j \in DOMAIN written :
         written[i].id = written[j].id => i = j \/ written[i].id \in recopied
    /\ ~failed => returned \subseteq {written[i].id : i \in DOMAIN written}
    /\ \A i \in DOMAIN Kept : \E k \in DOMAIN written : written[k] = Kept[i]
    /\ \A i, j \in DOMAIN Kept :
         i < j => \E k, l \in DOMAIN written :
                     k < l /\ written[k] = Kept[i] /\ written[l] = Kept[j]
    /\ ~cut => IsSuffix(Kept, written)

(* How much longer than counted a line may be: the length of a time is     *)
(* measured once, and the first time may have been one without fraction.   *)
Undercount == IF current_time_size = 0 THEN 0 ELSE LongTime - current_time_size

(* The file stays below its limit, but for a line that is too long alone   *)
(* and for what the counter misses of each line.                           *)
WithinLimit ==
    life = "up" => \/ Bytes(Current) < Limit + Len(Current) * Undercount
                   \/ Len(Current) <= 1

(* What lines may have been counted: each with a time of full length, and  *)
(* one more for its newline.                                               *)
Counted(lines) == Bytes(lines) + Len(lines) * (LongTime - ShortTime + 1)

(* A step that drops lines drops the oldest, and only when those that are  *)
(* left fill a file, together with the message the renaming is for and     *)
(* with what a closed stream swallowed since it was counted.  Two other    *)
(* steps take lines: the end of a process that has lines in its buffer,    *)
(* and a renaming after an open() that failed, which removes the old file  *)
(* and has no current one to put in its place.                             *)
DropsForNewer ==
    \/ IsPrefix(Kept, Kept')
    \/ life' = "down" /\ buffer # <<>> /\ IsPrefix(Kept', Kept)
    \/ /\ IsSuffix(Kept', Kept)
       /\ file = Absent \/ Counted(Kept') + swallowed + Due >= Limit

DroppedForNewer == [][DropsForNewer]_vars

(* After a renaming that failed the stream is closed and swallows messages *)
(* whose calls return.  Together they are shorter than the message that    *)
(* renaming was for: one that is not tries to rename again.                *)
SwallowedLess == swallowed > 0 => swallowed < begun
=============================================================================

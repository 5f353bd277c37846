------------------------ MODULE LimitedFileLogProofs ------------------------
(***************************************************************************)
(* What the two files of a limited_file_logger hold, for any number of     *)
(* threads, messages, copies, crashes and failures, any limit and sizes.   *)
(***************************************************************************)
EXTENDS LimitedFileLog, SequenceTheorems, WellFoundedInduction, TLAPS

-----------------------------------------------------------------------------
(* The stages of a write under the mutex, and of the renaming within.      *)
Renaming == {"closing", "removing", "renaming", "reopening"}
Within   == Renaming \cup {"inserting"}

(* What the stages say of the stream and of the two files.                 *)
Stages ==
    /\ \A t \in Threads : pc[t] \in Within <=> protect_write_ = t
    /\ life = "down" => ~open /\ \A t \in Threads : pc[t] = "idle"
    /\ life = "opening" => \A t \in Threads : pc[t] \in {"idle"} \cup Renaming
    /\ \A t \in Threads : pc[t] \in {"removing", "renaming", "reopening"} => ~open
    /\ ~open \/ flush_stream => buffer = <<>>
    /\ open => file # Absent
    /\ \A t \in Threads : /\ pc[t] = "renaming" => old = Absent
                          /\ pc[t] = "reopening" => file = Absent

(* A logger that is not up has no streamers, and an idle thread none.  Of  *)
(* the copies of a streamer only the last may have the duty to write, as   *)
(* long as none without it was copied; and when none has it the message    *)
(* was written.                                                            *)
OneFlag(t) ==
    /\ (life # "up" \/ pc[t] = "idle") => destroy_[t] = <<>>
    /\ message[t].id \notin recopied =>
         \A i \in DOMAIN destroy_[t] :
           destroy_[t][i] => i = Len(destroy_[t]) /\ pc[t] = "streaming"
    /\ pc[t] = "streaming" =>
         message[t].id \in returned \/ \E i \in DOMAIN destroy_[t] : destroy_[t][i]

Flags == \A t \in Threads : OneFlag(t)

(* A message in the hands of a thread, and one that is still to be written.*)
Busy(t)     == life = "up" /\ pc[t] # "idle"
InFlight(t) == /\ life = "up"
               /\ \/ pc[t] \in Within \cup {"locking"}
                  \/ \E i \in DOMAIN destroy_[t] : destroy_[t][i]

(* No two threads have the same message, and none that is still to be      *)
(* written was written, but for what the copies do.                        *)
Distinct(t) == /\ message[t].id \in 1 .. sent /\ message[t].text \in Texts
               /\ \A u \in Threads \ {t} : Busy(u) => message[u].id # message[t].id

NotWritten(t) == \/ message[t].id \in recopied
                 \/ \A i \in DOMAIN written : written[i].id # message[t].id

Fresh ==
    /\ \A i \in DOMAIN written : written[i].id <= sent
    /\ \A t \in Threads : /\ Busy(t) => Distinct(t)
                          /\ InFlight(t) => NotWritten(t)

(* As long as no renaming failed the stream is open but within one.        *)
Failures ==
    (~failed /\ life = "up" /\ \A t \in Threads : pc[t] \notin Renaming \ {"closing"})
        => open

(* Types and stages; what is kept of the lines comes on top of it.         *)
LogInv == TypeOK /\ Stages /\ Flags /\ Fresh /\ Failures

(* The files hold lines that were written, in that order ...               *)
Ordered ==
    /\ \A i, j \in DOMAIN written :
         written[i].id = written[j].id => i = j \/ written[i].id \in recopied
    /\ \A i \in DOMAIN Kept : \E k \in DOMAIN written : written[k] = Kept[i]
    /\ \A i, j \in DOMAIN Kept :
         i < j => \E k, l \in DOMAIN written :
                     k < l /\ written[k] = Kept[i] /\ written[l] = Kept[j]

(* ... and the last of them as long as no buffer was lost.                 *)
IsEnd(s, t) == /\ Len(s) <= Len(t)
               /\ \A i \in DOMAIN s : s[i] = t[Len(t) - Len(s) + i]

Complete == ~cut => IsEnd(Kept, written)

(* A message whose call is over was written.                               *)
AllWritten == ~failed => returned \subseteq {written[i].id : i \in DOMAIN written}

(* The counter is below the size of the file by no more than what it       *)
(* misses of its lines.                                                    *)
Product(n, u) == n * u
Missed == Product(Len(Current), Undercount)

CountedEnough ==
    /\ \A t \in Threads : life = "up" /\ pc[t] \in Within => current_time_size # 0
    /\ life # "down" => Bytes(Current) <= current_file_size_ + Missed
    /\ life = "up" => \/ Bytes(Current) < Limit + Missed
                      \/ Len(Current) <= 1
    /\ \A t \in Threads : pc[t] = "inserting" =>
         current_file_size_ + Due < Limit \/ Current = <<>>

(* Nor is it above the size by more than what a line may have been counted *)
(* for and what the closed stream swallowed, so that a renaming that has   *)
(* begun finds a full file.                                                *)
CountedAtMost ==
    /\ (life # "down" /\ file # Absent) =>
         current_file_size_ <= Counted(Current) + swallowed
    /\ \A t \in Threads : pc[t] \in {"closing", "removing"} =>
         current_file_size_ + Due >= Limit

(* A stream that is closed swallows no more than had room in a full file.  *)
Swallows ==
    /\ open \/ life # "up" => swallowed = 0
    /\ \A t \in Threads : pc[t] = "inserting" => open \/ current_file_size_ + Due < Limit
    /\ life = "up" /\ ~open => current_file_size_ + begun >= Limit + swallowed
    /\ swallowed > 0 => current_file_size_ < Limit

-----------------------------------------------------------------------------
(* What the files consist of.                                              *)
Line == [id : Nat \ {0}, size : Nat]

(* TypeOK in three parts.                                                  *)
LinesOK   == /\ file \in Seq(Line) \cup {Absent} /\ old \in Seq(Line) \cup {Absent}
             /\ buffer \in Seq(Line) /\ written \in Seq(Line)
Places    == {"idle", "streaming", "locking"} \cup Within
ThreadsOK == /\ pc \in [Threads -> Places]
             /\ message \in [Threads -> [id : Nat, text : Nat]]
             /\ destroy_ \in [Threads -> Seq(BOOLEAN)]
RestOK    == /\ flush_stream \in BOOLEAN
             /\ life \in {"down", "opening", "up"} /\ open \in BOOLEAN
             /\ current_file_size_ \in Nat
             /\ current_time_size \in {0, ShortTime, LongTime}
             /\ protect_write_ \in Threads \cup {NULL}
             /\ sent \in Nat /\ returned \subseteq 1 .. sent /\ recopied \subseteq 1 .. sent
             /\ recopies \in 0 .. MaxRecopies /\ cut \in BOOLEAN /\ failed \in BOOLEAN
             /\ begun \in Nat /\ swallowed \in Nat /\ faults \in 0 .. MaxFaults

(* The parts are the whole ...                                             *)
LEMMA TypeParts == TypeOK <=> LinesOK /\ ThreadsOK /\ RestOK
BY DEF TypeOK, LinesOK, ThreadsOK, RestOK, Line, Places, Within, Renaming

(* ... and so after a step.                                                *)
LEMMA TypePartsNext == TypeOK' <=> LinesOK' /\ ThreadsOK' /\ RestOK'
BY DEF TypeOK, LinesOK, ThreadsOK, RestOK, Line, Places, Within, Renaming

(* What TypeOK says of the lines.                                          *)
LEMMA LinesTyped ==
    ASSUME LinesOK
    PROVE  /\ Lines(old) \in Seq(Line) /\ Lines(file) \in Seq(Line)
           /\ Current \in Seq(Line) /\ Kept \in Seq(Line)
BY DEF LinesOK, Lines, Current, Kept

(* A sequence of lines is a file that exists.                              *)
LEMMA Exists == \A s \in Seq(Line) : s # Absent /\ Lines(s) = s
BY LogAssumption DEF Lines, Line

(* Only a logger that is up has streamers and inserts messages.            *)
LEMMA Holding ==
    ASSUME LogInv, NEW t \in Threads, pc[t] \in {"streaming", "locking", "inserting"}
    PROVE  life = "up" /\ Busy(t) /\ Distinct(t) /\ message[t].text \in Nat
<1>1. life = "up"
  BY TypeParts DEF LogInv, Stages, RestOK, Renaming
<1>2. Busy(t)
  BY <1>1 DEF Busy
<1>3. Distinct(t)
  BY <1>2 DEF LogInv, Fresh
<1>. QED BY <1>1, <1>2, <1>3, LogAssumption DEF Distinct

(* ... which are still to be written.                                      *)
LEMMA Inserting ==
    ASSUME LogInv, NEW t \in Threads, pc[t] = "inserting"
    PROVE  /\ life = "up" /\ InFlight(t) /\ NotWritten(t)
           /\ message[t].id \in 1 .. sent /\ message[t].text \in Texts
<1>1. life = "up" /\ Distinct(t)
  BY Holding
<1>2. InFlight(t)
  BY <1>1 DEF InFlight, Within
<1>. QED BY <1>1, <1>2 DEF LogInv, Fresh, Distinct

(* The owner of the mutex, and the size of its message.                    *)
LEMMA DueIs ==
    ASSUME TypeOK, Stages
    PROVE  /\ Due \in Nat
           /\ \A t \in Threads : pc[t] \in Within =>
                /\ protect_write_ = t
                /\ life = "up" => Due = message_size(current_time_size, message[t].text)
                /\ life # "up" => Due = 0
<1>1. /\ message \in [Threads -> [id : Nat, text : Nat]]
      /\ current_time_size \in Nat /\ protect_write_ \in Threads \cup {NULL}
  BY LogAssumption DEF TypeOK
<1>2. \A t \in Threads : message_size(current_time_size, message[t].text) \in Nat
  BY <1>1 DEF message_size
<1>. QED BY <1>1, <1>2, LogAssumption DEF Due, Stages

(* Where a thread goes and what becomes of its message.                    *)
LEMMA Leaving ==
    ASSUME ThreadsOK, NEW t \in Threads, NEW flags, Leave(t, flags)
    PROVE  /\ \A u \in Threads \ {t} : pc'[u] = pc[u] /\ message'[u] = message[u]
           /\ pc'[t] \in {"idle", "streaming"}
           /\ pc' \in [Threads -> Places]
           /\ message' \in [Threads -> [id : Nat, text : Nat]]
           /\ message'[t] \in {message[t], NoMessage}
<1>1. NoMessage \in [id : Nat, text : Nat]
  BY DEF NoMessage
<1>2. /\ pc' = [pc EXCEPT ![t] = pc'[t]] /\ pc'[t] \in {"idle", "streaming"}
      /\ message' = [message EXCEPT ![t] = message'[t]] /\ message'[t] \in {message[t], NoMessage}
  BY DEF Leave, Goto, ThreadsOK
<1>. QED BY <1>1, <1>2 DEF ThreadsOK, Places

(* A thread that goes to a place leaves the others where they are.         *)
LEMMA Going ==
    ASSUME ThreadsOK, NEW t \in Threads, NEW p \in Places, Goto(t, p)
    PROVE  /\ \A u \in Threads \ {t} : pc'[u] = pc[u]
           /\ pc'[t] = p
           /\ pc' \in [Threads -> Places]
BY DEF ThreadsOK, Goto

(* What the end of a process or of a logger leaves.                        *)
LEMMA Forgetting ==
    ASSUME LinesOK, Forget
    PROVE  /\ buffer' \in Seq(Line) /\ ThreadsOK'
           /\ \A t \in Threads : pc'[t] = "idle" /\ destroy_'[t] = <<>>
<1>1. NoMessage \in [id : Nat, text : Nat] /\ <<>> \in Seq(Line) /\ <<>> \in Seq(BOOLEAN)
  BY DEF NoMessage
<1>. QED BY <1>1 DEF Forget, ThreadsOK, Places

(* The flags that are left.                                                *)
LEMMA Removed ==
    ASSUME NEW s \in Seq(BOOLEAN), NEW i \in DOMAIN s
    PROVE  /\ RemoveAt(s, i) \in Seq(BOOLEAN) /\ Len(RemoveAt(s, i)) = Len(s) - 1
           /\ \A j \in 1 .. Len(s) - 1 :
                RemoveAt(s, i)[j] = IF j < i THEN s[j] ELSE s[j + 1]
<1> DEFINE a == SubSeq(s, 1, i - 1)
           b == SubSeq(s, i + 1, Len(s))
<1>1. i \in 1 .. Len(s) /\ Len(s) \in Nat
  OBVIOUS
<1>2. /\ a \in Seq(BOOLEAN) /\ Len(a) = i - 1
      /\ \A j \in 1 .. i - 1 : a[j] = s[j]
  BY <1>1, SubSeqProperties
<1>3. /\ b \in Seq(BOOLEAN) /\ Len(b) = Len(s) - i
      /\ \A j \in 1 .. Len(s) - i : b[j] = s[i + j]
  BY <1>1, SubSeqProperties
<1>4. RemoveAt(s, i) = a \o b
  BY DEF RemoveAt
<1> HIDE DEF a, b
<1>5. /\ a \o b \in Seq(BOOLEAN) /\ Len(a \o b) = Len(a) + Len(b)
      /\ \A j \in 1 .. Len(a) + Len(b) : (a \o b)[j] = IF j <= Len(a) THEN a[j] ELSE b[j - Len(a)]
  BY <1>2, <1>3, ConcatProperties
<1> DEFINE c == a \o b
<1>6. /\ c \in Seq(BOOLEAN) /\ Len(c) = Len(s) - 1
      /\ \A j \in 1 .. Len(s) - 1 : c[j] = IF j <= i - 1 THEN a[j] ELSE b[j - (i - 1)]
  <2>1. Len(a) + Len(b) = Len(s) - 1
    BY <1>1, <1>2, <1>3
  <2>. QED BY <1>2, <1>5, <2>1
<1>7. RemoveAt(s, i) = c
  BY <1>4
<1> HIDE DEF c
<1>8. ASSUME NEW j \in 1 .. Len(s) - 1
      PROVE  c[j] = IF j < i THEN s[j] ELSE s[j + 1]
  <2>1. CASE j < i
    BY <1>1, <1>2, <1>6, <2>1
  <2>2. CASE ~(j < i)
    <3>1. c[j] = b[j - (i - 1)] /\ j - (i - 1) \in 1 .. Len(s) - i
      BY <1>1, <1>6, <2>2
    <3>2. i + (j - (i - 1)) = j + 1
      BY <1>1
    <3>. QED BY <1>3, <2>2, <3>1, <3>2
  <2>. QED BY <2>1, <2>2
<1>. QED BY <1>6, <1>7, <1>8

-----------------------------------------------------------------------------
(* A set of numbers has a least one: the induction below looks at the      *)
(* least counterexample.                                                   *)
LEMMA Least ==
    ASSUME NEW T \in SUBSET Nat, T # {}
    PROVE  \E n \in T : \A m \in T : n <= m
<1>1. IsWellFoundedOn(OpToRel(<, Nat), Nat)
  BY NatLessThanWellFounded
<1>2. PICK n \in T : \A m \in T : <<m, n>> \notin OpToRel(<, Nat)
  BY <1>1, WFMin
<1>3. ASSUME NEW m \in T
      PROVE  n <= m
  <2>1. <<m, n>> \in Nat \X Nat /\ ~(m < n)
    BY <1>2 DEF OpToRel
  <2>. QED BY <2>1
<1>. QED BY <1>3

(* The sum of the sizes of the first lines, as far as n.                   *)
IsSum(f, lines, n) ==
    f = [k \in 0 .. n |-> IF k = 0 THEN 0 ELSE f[k - 1] + lines[k].size]

(* A sum over the first n lines exists ...                                 *)
LEMMA SumExists ==
    ASSUME NEW lines \in Seq(Line), NEW n \in 0 .. Len(lines)
    PROVE  \E f \in [0 .. n -> Nat] : IsSum(f, lines, n)
<1> DEFINE Bad == {m \in 0 .. Len(lines) : ~ \E f \in [0 .. m -> Nat] : IsSum(f, lines, m)}
<1>1. Bad \in SUBSET Nat
  OBVIOUS
<1>2. ASSUME Bad # {}
      PROVE  FALSE
  <2>1. PICK m \in Bad : \A x \in Bad : m <= x
    BY <1>1, <1>2, Least
  <2>2. m # 0
    <3>1. IsSum([k \in 0 .. 0 |-> 0], lines, 0)
      BY DEF IsSum
    <3>2. [k \in 0 .. 0 |-> 0] \in [0 .. 0 -> Nat]
      OBVIOUS
    <3>. QED BY <2>1, <3>1, <3>2
  <2>3. m \in 1 .. Len(lines) /\ m - 1 \in 0 .. Len(lines) /\ m - 1 < m
    BY <2>1, <2>2
  <2>4. m - 1 \notin Bad
    <3> HIDE DEF Bad
    <3>. QED BY <2>1, <2>3
  <2>5. PICK f \in [0 .. m - 1 -> Nat] : IsSum(f, lines, m - 1)
    BY <2>3, <2>4
  <2> DEFINE g == [k \in 0 .. m |-> IF k = m THEN f[m - 1] + lines[m].size ELSE f[k]]
  <2>6. lines[m].size \in Nat
    <3>1. lines[m] \in Line
      BY <2>3
    <3>. QED BY <3>1 DEF Line
  <2>7. g \in [0 .. m -> Nat]
    BY <2>3, <2>5, <2>6
  <2>8. ASSUME NEW k \in 0 .. m
        PROVE  g[k] = IF k = 0 THEN 0 ELSE g[k - 1] + lines[k].size
    <3>1. CASE k = m
      BY <2>3, <3>1
    <3>2. CASE k # m
      <4>1. k \in 0 .. m - 1 /\ g[k] = f[k] /\ (k # 0 => g[k - 1] = f[k - 1])
        BY <2>3, <3>2
      <4>2. f[k] = IF k = 0 THEN 0 ELSE f[k - 1] + lines[k].size
        BY <2>5, <4>1 DEF IsSum
      <4>. QED BY <4>1, <4>2
    <3>. QED BY <3>1, <3>2
  <2>9. IsSum(g, lines, m)
    BY <2>8 DEF IsSum
  <2>. QED BY <2>1, <2>7, <2>9
<1>. QED BY <1>2

(* The first n lines are the same.                                         *)
SameStart(s, t, n) == \A k \in 1 .. n : s[k] = t[k]

(* ... and its value depends on these lines only.                          *)
LEMMA SumUnique ==
    ASSUME NEW s, NEW t, NEW m \in Nat, NEW n \in 0 .. m, NEW f, NEW g,
           IsSum(f, s, m), IsSum(g, t, n), SameStart(s, t, n)
    PROVE  f[n] = g[n]
<1> DEFINE Bad == {k \in 0 .. n : f[k] # g[k]}
<1>1. Bad \in SUBSET Nat
  OBVIOUS
<1>2. ASSUME Bad # {}
      PROVE  FALSE
  <2>1. PICK k \in Bad : \A x \in Bad : k <= x
    BY <1>1, <1>2, Least
  <2>2. k \in 0 .. n /\ k \in 0 .. m /\ f[k] # g[k]
    BY <2>1
  <2>3. /\ f[k] = IF k = 0 THEN 0 ELSE f[k - 1] + s[k].size
        /\ g[k] = IF k = 0 THEN 0 ELSE g[k - 1] + t[k].size
    BY <2>2 DEF IsSum
  <2>4. k \in 1 .. n /\ k - 1 \in 0 .. n /\ k - 1 < k
    BY <2>2, <2>3
  <2>5. f[k - 1] = g[k - 1] /\ s[k] = t[k]
    BY <2>1, <2>4 DEF SameStart
  <2>. QED BY <2>2, <2>3, <2>4, <2>5
<1>. QED BY <1>2

(* What Bytes is: nothing for no lines, and one line more.                 *)
LEMMA BytesIsSum ==
    ASSUME NEW lines \in Seq(Line)
    PROVE  \E f \in [0 .. Len(lines) -> Nat] :
               IsSum(f, lines, Len(lines)) /\ Bytes(lines) = f[Len(lines)]
<1> DEFINE sum == CHOOSE f : IsSum(f, lines, Len(lines))
<1>1. Bytes(lines) = sum[Len(lines)]
  BY DEF Bytes, IsSum
<1>2. Len(lines) \in Nat /\ Len(lines) \in 0 .. Len(lines)
  OBVIOUS
<1>3. PICK f \in [0 .. Len(lines) -> Nat] : IsSum(f, lines, Len(lines))
  BY <1>2, SumExists
<1>4. IsSum(sum, lines, Len(lines))
  BY <1>3
<1> HIDE DEF sum
<1>5. sum[Len(lines)] = f[Len(lines)]
  BY <1>2, <1>3, <1>4, SumUnique DEF SameStart
<1>. QED BY <1>1, <1>3, <1>5

(* A file has a size.                                                      *)
LEMMA BytesNat ==
    ASSUME NEW lines \in Seq(Line)
    PROVE  Bytes(lines) \in Nat
<1>1. Len(lines) \in 0 .. Len(lines)
  OBVIOUS
<1>. QED BY <1>1, BytesIsSum

(* An empty file has the size 0.                                           *)
LEMMA BytesEmpty == Bytes(<<>>) = 0
<1>1. <<>> \in Seq(Line) /\ Len(<<>>) = 0
  OBVIOUS
<1>2. PICK f \in [0 .. 0 -> Nat] : IsSum(f, <<>>, 0) /\ Bytes(<<>>) = f[0]
  BY <1>1, BytesIsSum
<1>. QED BY <1>2 DEF IsSum

(* A line at the end adds its size.                                        *)
LEMMA BytesAppend ==
    ASSUME NEW lines \in Seq(Line), NEW line \in Line
    PROVE  Bytes(Append(lines, line)) = Bytes(lines) + line.size
<1> DEFINE n == Len(lines)
           more == Append(lines, line)
<1>1. /\ n \in Nat /\ more \in Seq(Line) /\ Len(more) = n + 1 /\ more[n + 1] = line
      /\ \A k \in 1 .. n : more[k] = lines[k]
  BY AppendProperties
<1>2. PICK f \in [0 .. n -> Nat] : IsSum(f, lines, n) /\ Bytes(lines) = f[n]
  BY BytesIsSum
<1> HIDE DEF n, more
<1>3. PICK g \in [0 .. n + 1 -> Nat] : IsSum(g, more, n + 1) /\ Bytes(more) = g[n + 1]
  BY <1>1, BytesIsSum
<1>4. g[n] = f[n]
  <2>1. n + 1 \in Nat /\ n \in 0 .. n + 1
    BY <1>1
  <2>2. IsSum(g, more, n + 1) /\ IsSum(f, lines, n) /\ SameStart(more, lines, n)
    BY <1>1, <1>2, <1>3 DEF SameStart
  <2>. QED BY ONLY <2>1, <2>2, SumUnique
<1>5. g[n + 1] = g[n] + more[n + 1].size
  <2>1. n + 1 \in 0 .. n + 1 /\ n + 1 # 0 /\ n + 1 - 1 = n
    BY <1>1
  <2>2. g[n + 1] = IF n + 1 = 0 THEN 0 ELSE g[n + 1 - 1] + more[n + 1].size
    BY <1>1, <1>3, <2>1 DEF IsSum
  <2>. QED BY <2>1, <2>2
<1>6. Bytes(more) = Bytes(lines) + line.size
  BY <1>1, <1>2, <1>3, <1>4, <1>5
<1>. QED BY <1>6 DEF more

(* What Counted is, and that it is never less.                             *)
LEMMA CountedAppend ==
    ASSUME NEW lines \in Seq(Line), NEW line \in Line
    PROVE  /\ Counted(lines) \in Nat /\ Bytes(lines) <= Counted(lines)
           /\ Counted(Append(lines, line)) =
                Counted(lines) + line.size + (LongTime - ShortTime + 1)
<1> DEFINE c == LongTime - ShortTime + 1
<1>1. c \in Nat
  BY LogAssumption
<1>2. Len(lines) \in Nat /\ Len(Append(lines, line)) = Len(lines) + 1
  BY AppendProperties
<1>3. Bytes(lines) \in Nat /\ line.size \in Nat
  BY BytesNat DEF Line
<1>4. Bytes(Append(lines, line)) = Bytes(lines) + line.size
  BY BytesAppend
<1>5. /\ Counted(lines) = Bytes(lines) + Len(lines) * c
      /\ Counted(Append(lines, line)) = Bytes(Append(lines, line)) + (Len(lines) + 1) * c
  BY <1>2 DEF Counted
<1> HIDE DEF c
<1>6. Len(lines) * c \in Nat /\ (Len(lines) + 1) * c = Len(lines) * c + c
  BY <1>1, <1>2
<1>7. Counted(Append(lines, line)) = Counted(lines) + line.size + c
  BY <1>1, <1>3, <1>4, <1>5, <1>6
<1>8. Counted(lines) \in Nat /\ Bytes(lines) <= Counted(lines)
  BY <1>3, <1>5, <1>6
<1>. QED BY <1>7, <1>8 DEF c

-----------------------------------------------------------------------------
(* What is inserted is a line.                                             *)
NewLine(t, time) == [id |-> message[t].id, size |-> LineSize(time, message[t].text)]

(* The line that a thread inserts, and its size.                           *)
LEMMA NewLineTyped ==
    ASSUME LogInv, NEW t \in Threads, pc[t] = "inserting", NEW time \in {ShortTime, LongTime}
    PROVE  /\ NewLine(t, time) \in Line
           /\ NewLine(t, time).id = message[t].id
           /\ NewLine(t, time).size = 2 + time + message[t].text
           /\ message[t].text \in Nat /\ time \in Nat
<1>1. message[t].id \in 1 .. sent /\ message[t].text \in Texts /\ sent \in Nat
  BY Inserting, TypeParts DEF LogInv, RestOK
<1>2. message[t].text \in Nat /\ time \in Nat
  <2>1. Texts \subseteq Nat /\ ShortTime \in Nat /\ LongTime \in Nat
    BY LogAssumption
  <2>. QED BY <1>1, <2>1
<1>3. message[t].id \in Nat \ {0}
  BY <1>1
<1>. QED BY <1>2, <1>3 DEF NewLine, Line, LineSize

(* Insert puts it at the end of the current file, or nowhere.              *)
LEMMA Inserts ==
    ASSUME LogInv, NEW t \in Threads, Insert(t)
    PROVE  \/ /\ ~open /\ UNCHANGED <<written, file, buffer>>
           \/ /\ open
              /\ \E time \in {ShortTime, LongTime} :
                   /\ written' = Append(written, NewLine(t, time))
                   /\ \/ flush_stream /\ file' = Append(file, NewLine(t, time)) /\ buffer' = buffer
                      \/ ~flush_stream /\ buffer' = Append(buffer, NewLine(t, time)) /\ file' = file
BY DEF Insert, NewLine

(* The lines stay lines.                                                   *)
LEMMA LinesStep == LogInv /\ [Next]_vars => LinesOK'
<1> SUFFICES ASSUME LogInv, [Next]_vars
             PROVE  LinesOK'
  OBVIOUS
<1>0. LinesOK /\ ThreadsOK
  BY TypeParts DEF LogInv
<1> USE <1>0
<1>1. CASE UNCHANGED <<file, old, buffer, written>>
  BY <1>1 DEF LinesOK
<1>2. ASSUME NEW t \in Threads, Insert(t)
      PROVE  LinesOK'
  <2>1. CASE ~open
    BY <1>2, <2>1, Inserts, <1>1 DEF Insert
  <2>2. CASE open
    <3>1. file \in Seq(Line)
      BY <2>2 DEF LogInv, Stages, LinesOK
    <3>2. PICK time \in {ShortTime, LongTime} :
               /\ written' = Append(written, NewLine(t, time))
               /\ \/ file' = Append(file, NewLine(t, time)) /\ buffer' = buffer
                  \/ buffer' = Append(buffer, NewLine(t, time)) /\ file' = file
      BY <1>2, <2>2, Inserts
    <3>3. NewLine(t, time) \in Line
      BY <1>2, NewLineTyped DEF Insert
    <3>4. UNCHANGED old
      BY <1>2 DEF Insert
    <3>5. /\ Append(file, NewLine(t, time)) \in Seq(Line)
          /\ Append(buffer, NewLine(t, time)) \in Seq(Line)
          /\ Append(written, NewLine(t, time)) \in Seq(Line)
      BY <3>1, <3>3, AppendProperties DEF LinesOK
    <3>. QED BY <3>2, <3>4, <3>5 DEF LinesOK
  <2>. QED BY <2>1, <2>2
<1>3. ASSUME file' \in {file, Lines(file), Lines(file) \o buffer, <<>>, Absent},
             old' \in {old, Absent, file}, buffer' \in {buffer, <<>>}, UNCHANGED written
      PROVE  LinesOK'
  <2>1. <<>> \in Seq(Line) /\ Lines(file) \in Seq(Line) /\ Lines(file) \o buffer \in Seq(Line)
    BY LinesTyped DEF Current
  <2>. QED BY <1>3, <2>1 DEF LinesOK
<1>4. CASE Spill
  <2>1. file \in Seq(Line) /\ buffer # <<>>
    BY <1>4 DEF LogInv, Stages, LinesOK, Spill
  <2>2. Head(buffer) \in Line /\ Tail(buffer) \in Seq(Line)
    BY <2>1 DEF LinesOK
  <2>. QED BY <1>4, <2>1, <2>2 DEF LinesOK, Spill, hist, record
<1>5. ASSUME NEW t \in Threads, Throw(t)
      PROVE  LinesOK'
  BY <1>3, <1>5 DEF Throw, disk, memory, Forget, Die
<1>6. ASSUME NEW t \in Threads,
             Log(t) \/ Copy(t) \/ Drop(t) \/ Measure(t)
      PROVE  LinesOK'
  BY <1>1, <1>6 DEF Log, Copy, Drop, Measure, disk, memory, hist, record
<1>7. ASSUME NEW t \in Threads,
             CloseStream(t) \/ RemoveOld(t) \/ RenameToOld(t) \/ OpenStream(t) \/ Start(t)
      PROVE  LinesOK'
  BY <1>3, <1>7 DEF CloseStream, RemoveOld, RenameToOld, OpenStream, Start, memory, hist, record
<1>8. CASE Crash \/ Exit
  BY <1>3, <1>8 DEF Crash, Exit, Die, Forget, disk, hist, record
<1>9. CASE UNCHANGED vars
  BY <1>1, <1>9 DEF vars, disk, memory, hist, record
<1>. QED BY <1>2, <1>4, <1>5, <1>6, <1>7, <1>8, <1>9 DEF Next, FileSystemFails, NothingToRename

(* What the threads do.                                                    *)
LEMMA ThreadsStep == LogInv /\ [Next]_vars => ThreadsOK'
<1> SUFFICES ASSUME LogInv, [Next]_vars
             PROVE  ThreadsOK'
  OBVIOUS
<1>0. LinesOK /\ ThreadsOK /\ RestOK
  BY TypeParts DEF LogInv
<1> USE <1>0
<1>1. ASSUME NEW t \in Threads, Log(t)
      PROVE  ThreadsOK'
  <2>1. message' \in [Threads -> [id : Nat, text : Nat]]
    <3>1. PICK text \in Texts : message' = [message EXCEPT ![t] = [id |-> sent + 1, text |-> text]]
      BY <1>1 DEF Log
    <3>2. [id |-> sent + 1, text |-> text] \in [id : Nat, text : Nat]
      BY LogAssumption DEF RestOK
    <3>. QED BY <3>1, <3>2 DEF ThreadsOK
  <2>2. pc' \in [Threads -> Places]
    BY <1>1, Going DEF Log, Places
  <2>3. destroy_' \in [Threads -> Seq(BOOLEAN)]
    <3>1. <<TRUE>> \in Seq(BOOLEAN)
      OBVIOUS
    <3>. QED BY <1>1, <3>1 DEF Log, ThreadsOK
  <2>. QED BY <2>1, <2>2, <2>3 DEF ThreadsOK
<1>2. ASSUME NEW t \in Threads, Copy(t)
      PROVE  ThreadsOK'
  <2>1. PICK i \in DOMAIN destroy_[t] :
             destroy_' = [destroy_ EXCEPT ![t] = Append([@ EXCEPT ![i] = FALSE], TRUE)]
    BY <1>2 DEF Copy
  <2>2. [destroy_[t] EXCEPT ![i] = FALSE] \in Seq(BOOLEAN)
    BY ExceptSeq DEF ThreadsOK
  <2>3. Append([destroy_[t] EXCEPT ![i] = FALSE], TRUE) \in Seq(BOOLEAN)
    BY <2>2, AppendProperties
  <2>4. destroy_' \in [Threads -> Seq(BOOLEAN)]
    BY <2>1, <2>3 DEF ThreadsOK
  <2>. QED BY <1>2, <2>4 DEF ThreadsOK, Copy
<1>3. ASSUME NEW t \in Threads, Drop(t)
      PROVE  ThreadsOK'
  <2>1. PICK i \in DOMAIN destroy_[t] :
             /\ destroy_' = [destroy_ EXCEPT ![t] = RemoveAt(destroy_[t], i)]
             /\ \/ destroy_[t][i] /\ Goto(t, "locking") /\ UNCHANGED message
                \/ ~destroy_[t][i] /\ Leave(t, RemoveAt(destroy_[t], i))
    BY <1>3 DEF Drop
  <2>2. destroy_[t] \in Seq(BOOLEAN)
    BY DEF ThreadsOK
  <2>3. destroy_' \in [Threads -> Seq(BOOLEAN)]
    BY <2>1, <2>2, Removed DEF ThreadsOK
  <2>4. pc' \in [Threads -> Places] /\ message' \in [Threads -> [id : Nat, text : Nat]]
    <3>1. CASE destroy_[t][i]
      BY <2>1, <3>1, Going DEF ThreadsOK, Places
    <3>2. CASE ~destroy_[t][i]
      BY <2>1, <3>2, Leaving
    <3>. QED BY <3>1, <3>2
  <2>. QED BY <2>3, <2>4 DEF ThreadsOK
<1>4. ASSUME NEW t \in Threads,
             Measure(t) \/ CloseStream(t) \/ RemoveOld(t) \/ RenameToOld(t)
      PROVE  ThreadsOK'
  <2>1. \E p \in Places : Goto(t, p)
    BY <1>4 DEF Measure, CloseStream, RemoveOld, RenameToOld, Places, Within, Renaming
  <2>2. UNCHANGED <<message, destroy_>>
    BY <1>4 DEF Measure, CloseStream, RemoveOld, RenameToOld
  <2>. QED BY <2>1, <2>2, Going DEF ThreadsOK
<1>5. ASSUME NEW t \in Threads, EndWrite(t), UNCHANGED destroy_
      PROVE  ThreadsOK'
  BY <1>5, Leaving DEF EndWrite, ThreadsOK
<1>6. ASSUME NEW t \in Threads, Insert(t)
      PROVE  ThreadsOK'
  BY <1>5, <1>6 DEF Insert
<1>7. ASSUME NEW t \in Threads, OpenStream(t)
      PROVE  ThreadsOK'
  <2>1. CASE Goto(t, "inserting") /\ UNCHANGED message
    BY <1>7, <2>1, Going DEF OpenStream, ThreadsOK, Places, Within
  <2>. QED BY <1>5, <1>7, <2>1 DEF OpenStream
<1>8. ASSUME NEW t \in Threads, Throw(t)
      PROVE  ThreadsOK'
  BY <1>5, <1>8, Forgetting DEF Throw, Die
<1>9. ASSUME NEW t \in Threads, Start(t)
      PROVE  ThreadsOK'
  <2>1. CASE Goto(t, "closing")
    BY <1>9, <2>1, Going DEF Start, ThreadsOK, Places, Within, Renaming
  <2>. QED BY <1>9, <2>1 DEF Start, ThreadsOK
<1>10. CASE Crash \/ Exit
  BY <1>10, Forgetting DEF Crash, Exit, Die
<1>11. CASE Spill \/ UNCHANGED vars
  BY <1>11 DEF Spill, vars, callers, ThreadsOK
<1>. QED BY <1>1, <1>2, <1>3, <1>4, <1>6, <1>7, <1>8, <1>9, <1>10, <1>11
         DEF Next, FileSystemFails, NothingToRename

(* What remains of TypeOK.                                                 *)
LEMMA RestStep == LogInv /\ [Next]_vars => RestOK'
<1> SUFFICES ASSUME LogInv, [Next]_vars
             PROVE  RestOK'
  OBVIOUS
<1>0. LinesOK /\ ThreadsOK /\ RestOK /\ TypeOK /\ Stages
  BY TypeParts DEF LogInv
<1> USE <1>0
<1>1. ASSUME NEW t \in Threads, Log(t)
      PROVE  RestOK'
  <2>1. sent' \in Nat /\ 1 .. sent \subseteq 1 .. sent'
    BY <1>1 DEF Log, RestOK
  <2>. QED BY <1>1, <2>1 DEF Log, memory, hist, record, RestOK
<1>2. ASSUME NEW t \in Threads, Copy(t)
      PROVE  RestOK'
  <2>1. message[t].id \in 1 .. sent
    BY <1>2, Holding DEF Copy, Distinct
  <2>2. recopied' \in {recopied, recopied \cup {message[t].id}} /\ recopies' \in 0 .. MaxRecopies
    BY <1>2, LogAssumption DEF Copy, Recopied, RestOK
  <2>. QED BY <1>2, <2>1, <2>2 DEF Copy, memory, RestOK
<1>3. ASSUME NEW t \in Threads, Drop(t)
      PROVE  RestOK'
  <2>1. message[t].id \in 1 .. sent
    BY <1>3, Holding DEF Drop, Distinct
  <2>2. returned' \subseteq returned \cup {message[t].id}
    BY <1>3 DEF Drop
  <2>. QED BY <1>3, <2>1, <2>2 DEF Drop, memory, RestOK
<1>4. ASSUME NEW t \in Threads, Measure(t)
      PROVE  RestOK'
  BY <1>4, LogAssumption DEF Measure, hist, record, RestOK
<1>5. ASSUME NEW t \in Threads, Insert(t)
      PROVE  RestOK'
  <2>1. message[t].id \in 1 .. sent
    BY <1>5, Inserting DEF Insert
  <2>2. current_file_size_' \in Nat /\ swallowed' \in Nat
    BY <1>5, DueIs DEF Insert, RestOK
  <2>3. returned' \subseteq 1 .. sent
    BY <1>5, <2>1 DEF Insert, RestOK
  <2>. QED BY <1>5, <2>2, <2>3 DEF Insert, EndWrite, RestOK
<1>6. ASSUME NEW t \in Threads, CloseStream(t)
      PROVE  RestOK'
  <2>1. begun' \in Nat
    BY <1>6, DueIs DEF CloseStream, RestOK
  <2>. QED BY <1>6, <2>1 DEF CloseStream, record, RestOK
<1>7. ASSUME NEW t \in Threads, RemoveOld(t) \/ RenameToOld(t)
      PROVE  RestOK'
  BY <1>7 DEF RemoveOld, RenameToOld, memory, hist, record, RestOK
<1>8. ASSUME NEW t \in Threads, OpenStream(t)
      PROVE  RestOK'
  BY <1>8 DEF OpenStream, EndWrite, NewSize, record, RestOK
<1>9. ASSUME Forget, faults' \in 0 .. MaxFaults, cut' \in BOOLEAN, failed' \in BOOLEAN,
             current_time_size' \in {0, current_time_size},
             UNCHANGED <<flush_stream, returned, recopied, recopies>>
      PROVE  RestOK'
  BY <1>9 DEF Forget, RestOK
<1>10. ASSUME NEW t \in Threads, FileSystemFails(t) \/ NothingToRename(t)
       PROVE  RestOK'
  <2>1. faults' \in 0 .. MaxFaults
    BY <1>10, LogAssumption DEF FileSystemFails, NothingToRename, RestOK
  <2>2. Throw(t)
    BY <1>10 DEF FileSystemFails, NothingToRename
  <2>3. failed' \in BOOLEAN /\ UNCHANGED <<flush_stream, returned, recopied, recopies>>
    BY <2>2 DEF Throw
  <2>4. CASE Forget /\ UNCHANGED <<current_time_size, cut>>
    <3>1. cut' \in BOOLEAN
      BY <2>4 DEF RestOK
    <3>. QED BY <1>9, <2>1, <2>3, <2>4, <3>1
  <2>5. CASE EndWrite(t) /\ UNCHANGED <<memory, destroy_, sent, cut, begun, swallowed>>
    BY <2>1, <2>3, <2>5 DEF EndWrite, memory, RestOK
  <2>6. CASE Die
    <3>1. cut' \in BOOLEAN
      BY <2>6 DEF Die, RestOK
    <3>. QED BY <1>9, <2>1, <2>3, <2>6, <3>1 DEF Die
  <2>. QED BY <2>2, <2>4, <2>5, <2>6 DEF Throw
<1>11. ASSUME NEW t \in Threads, Start(t)
       PROVE  RestOK'
  <2>1. current_file_size_' \in Nat
    BY <1>11, LinesTyped, BytesNat DEF Start, file_size
  <2>. QED BY <1>11, <2>1 DEF Start, hist, record, RestOK
<1>12. CASE Crash
  <2>1. faults' \in 0 .. MaxFaults /\ cut' \in BOOLEAN /\ failed' \in BOOLEAN
    BY <1>12, LogAssumption DEF Crash, Die, RestOK
  <2>. QED BY <1>9, <1>12, <2>1 DEF Crash, Die, RestOK
<1>13. CASE Exit
  <2>1. faults' \in 0 .. MaxFaults /\ cut' \in BOOLEAN /\ failed' \in BOOLEAN
        /\ UNCHANGED <<returned, recopied, recopies>>
    BY <1>13 DEF Exit, record, RestOK
  <2>. QED BY <1>9, <1>13, <2>1 DEF Exit
<1>14. CASE Spill \/ UNCHANGED vars
  BY <1>14 DEF Spill, vars, memory, callers, hist, record, RestOK
<1>. QED BY <1>1, <1>2, <1>3, <1>4, <1>5, <1>6, <1>7, <1>8, <1>10, <1>11, <1>12, <1>13, <1>14 DEF Next

(* Every step keeps the types.                                             *)
LEMMA TypeStep == LogInv /\ [Next]_vars => TypeOK'
BY LinesStep, ThreadsStep, RestStep, TypePartsNext

-----------------------------------------------------------------------------
(* The stages.                                                             *)
LEMMA StagesStep == LogInv /\ [Next]_vars => Stages'
<1> SUFFICES ASSUME LogInv, [Next]_vars
             PROVE  Stages'
  OBVIOUS
<1>0. LinesOK /\ ThreadsOK /\ RestOK /\ Stages
  BY TypeParts DEF LogInv
<1> USE <1>0, LogAssumption
<1>1. ASSUME NEW t \in Threads, pc[t] \notin Within, pc'[t] \notin Within,
             life = "up", \A u \in Threads \ {t} : pc'[u] = pc[u],
             UNCHANGED <<flush_stream, disk, memory, protect_write_>>
      PROVE  Stages'
  BY <1>1 DEF Stages, disk, memory, Within, Renaming
<1>2. ASSUME NEW t \in Threads, Log(t)
      PROVE  Stages'
  <2>1. /\ \A u \in Threads \ {t} : pc'[u] = pc[u]
        /\ pc'[t] \in {"locking", "streaming"}
    BY <1>2 DEF Log, Goto, ThreadsOK
  <2>. QED BY <1>1, <1>2, <2>1 DEF Log, Within, Renaming
<1>3. ASSUME NEW t \in Threads, Copy(t)
      PROVE  Stages'
  BY <1>3 DEF Copy, Stages, disk, memory
<1>4. ASSUME NEW t \in Threads, Drop(t)
      PROVE  Stages'
  <2>1. /\ \A u \in Threads \ {t} : pc'[u] = pc[u]
        /\ pc'[t] \in {"idle", "locking", "streaming"}
    BY <1>4, Leaving, Going DEF Drop, Places
  <2>2. life = "up"
    BY <1>4 DEF Drop, Stages, RestOK, Renaming
  <2>. QED BY <1>1, <1>4, <2>1, <2>2 DEF Drop, Within, Renaming
<1>5. ASSUME NEW t \in Threads, Measure(t)
      PROVE  Stages'
  <2>1. /\ \A u \in Threads \ {t} : pc'[u] = pc[u]
        /\ pc'[t] \in {"closing", "inserting"}
    BY <1>5 DEF Measure, Goto, ThreadsOK
  <2>2. life = "up"
    BY <1>5 DEF Measure, Stages, RestOK, Renaming
  <2>3. UNCHANGED <<flush_stream, disk, life, open, buffer>> /\ protect_write_' = t /\ protect_write_ = NULL
    BY <1>5 DEF Measure
  <2>. QED BY <2>1, <2>2, <2>3 DEF Stages, disk, Within, Renaming
<1>6. ASSUME NEW t \in Threads, pc[t] \in Within
      PROVE  protect_write_ = t /\ \A u \in Threads \ {t} : pc[u] \notin Within
  BY <1>6 DEF Stages
<1>7. ASSUME NEW t \in Threads, pc[t] \in Within, EndWrite(t), open' \in BOOLEAN, life = "up" \/ open',
             life' = "up", UNCHANGED <<flush_stream, old>>,
             ~open' \/ flush_stream => buffer' = <<>>, open' => file' # Absent
      PROVE  Stages'
  <2>1. /\ \A u \in Threads \ {t} : pc'[u] = pc[u]
        /\ pc'[t] \in {"idle", "streaming"} /\ protect_write_' = NULL
    BY <1>7, Leaving DEF EndWrite
  <2>2. \A u \in Threads : pc'[u] \notin Within
    BY <1>6, <1>7, <2>1 DEF Within, Renaming
  <2>. QED BY <1>7, <2>1, <2>2 DEF Stages, Within, Renaming
<1>8. ASSUME NEW t \in Threads, Insert(t)
      PROVE  Stages'
  <2>1. pc[t] \in Within /\ life = "up" /\ life' = "up" /\ EndWrite(t) /\ open' = open
        /\ UNCHANGED <<flush_stream, old>>
    BY <1>8, Inserting DEF Insert, Within
  <2>2. CASE ~open
    <3>1. UNCHANGED <<file, buffer>>
      BY <1>8, <2>2, Inserts
    <3>. QED BY <1>7, <2>1, <2>2, <3>1 DEF Stages, RestOK
  <2>3. CASE open
    <3>1. PICK time \in {ShortTime, LongTime} :
               \/ flush_stream /\ file' = Append(file, NewLine(t, time)) /\ buffer' = buffer
               \/ ~flush_stream /\ buffer' = Append(buffer, NewLine(t, time)) /\ file' = file
      BY <1>8, <2>3, Inserts
    <3>2. file \in Seq(Line) /\ NewLine(t, time) \in Line
      BY <1>8, <2>3, NewLineTyped DEF Insert, Stages, LinesOK
    <3>3. Append(file, NewLine(t, time)) # Absent
      BY <3>2, Exists, AppendProperties
    <3>. QED BY <1>7, <2>1, <2>3, <3>1, <3>3 DEF Stages
  <2>. QED BY <2>2, <2>3
<1>9. ASSUME NEW t \in Threads, NEW p \in Renaming \ {"closing"}, pc[t] \in Within, Goto(t, p), ~open',
             UNCHANGED <<flush_stream, life, protect_write_>>, life # "down", buffer' = <<>>,
             p = "renaming" => old' = Absent, p = "reopening" => file' = Absent
      PROVE  Stages'
  <2>1. (\A u \in Threads \ {t} : pc'[u] = pc[u]) /\ pc'[t] = p
    BY <1>9, Going DEF Places, Within
  <2>. QED BY <1>6, <1>9, <2>1 DEF Stages, Within, Renaming
<1>10. ASSUME NEW t \in Threads, CloseStream(t)
       PROVE  Stages'
  <2>1. pc[t] \in Within /\ life # "down"
    BY <1>10 DEF CloseStream, Within, Renaming, Stages
  <2>. QED BY <1>9, <1>10, <2>1 DEF CloseStream, Renaming
<1>11. ASSUME NEW t \in Threads, RemoveOld(t) \/ RenameToOld(t)
       PROVE  Stages'
  <2>1. pc[t] \in Within /\ life # "down" /\ ~open /\ buffer = <<>>
    BY <1>11 DEF RemoveOld, RenameToOld, Within, Renaming, Stages
  <2>. QED BY <1>9, <1>11, <2>1 DEF RemoveOld, RenameToOld, Renaming, memory
<1>12. ASSUME NEW t \in Threads, OpenStream(t)
       PROVE  Stages'
  <2>1. /\ pc[t] \in Within /\ life # "down" /\ buffer = <<>>
        /\ open' /\ file' = <<>> /\ UNCHANGED <<flush_stream, old, buffer>>
    BY <1>12 DEF OpenStream, Within, Renaming, Stages
  <2>2. file' # Absent
    <3>1. <<>> \in Seq(Line)
      OBVIOUS
    <3>. QED BY <2>1, <3>1, Exists
  <2>3. CASE life = "opening"
    <3>1. life' = "up" /\ EndWrite(t)
      BY <1>12, <2>3 DEF OpenStream
    <3>. QED BY <1>7, <1>12, <2>1, <2>2, <2>3, <3>1 DEF OpenStream
  <2>4. CASE life # "opening"
    <3>1. life = "up" /\ Goto(t, "inserting") /\ UNCHANGED <<life, protect_write_>>
      BY <1>12, <2>1, <2>4 DEF OpenStream, RestOK
    <3>2. (\A u \in Threads \ {t} : pc'[u] = pc[u]) /\ pc'[t] = "inserting"
      BY <3>1, Going DEF Places, Within
    <3>. QED BY <1>6, <2>1, <2>2, <3>1, <3>2 DEF Stages, Within, Renaming
  <2>. QED BY <2>3, <2>4
<1>13. ASSUME Forget, UNCHANGED <<flush_stream>>
       PROVE  Stages'
  <2>1. /\ life' = "down" /\ open' = FALSE /\ buffer' = <<>> /\ protect_write_' = NULL
        /\ \A t \in Threads : pc'[t] = "idle"
    BY <1>13, Forgetting DEF Forget
  <2>. QED BY <2>1 DEF Stages, Within, Renaming
<1>14. ASSUME NEW t \in Threads, FileSystemFails(t) \/ NothingToRename(t)
       PROVE  Stages'
  <2>1. pc[t] \in {"removing", "renaming", "reopening"} /\ Throw(t)
    BY <1>14 DEF FileSystemFails, NothingToRename
  <2>2. pc[t] \in Within /\ ~open /\ buffer = <<>>
    BY <2>1 DEF Stages, Within, Renaming
  <2>3. CASE Forget
    BY <1>13, <2>1, <2>3 DEF Throw
  <2>4. CASE life = "up" /\ EndWrite(t) /\ UNCHANGED <<memory, destroy_, sent, cut, begun, swallowed>>
    BY <1>7, <2>1, <2>2, <2>4 DEF Throw, memory, disk, RestOK
  <2>. QED BY <2>1, <2>3, <2>4 DEF Throw, Die
<1>15. ASSUME NEW t \in Threads, Start(t)
       PROVE  Stages'
  <2>1. /\ life = "down" /\ buffer = <<>> /\ \A u \in Threads : pc[u] = "idle"
        /\ open' /\ file' = Lines(file) /\ UNCHANGED <<flush_stream, old, buffer>>
    BY <1>15 DEF Start, Stages
  <2>2. protect_write_ = NULL /\ file' # Absent
    BY <2>1, Exists, LinesTyped DEF Stages, RestOK, Within, Renaming
  <2>3. CASE life' = "up" /\ UNCHANGED <<pc, protect_write_>>
    BY <2>1, <2>2, <2>3 DEF Stages, Within, Renaming
  <2>4. CASE life' = "opening" /\ Goto(t, "closing") /\ protect_write_' = t
    <3>1. (\A u \in Threads \ {t} : pc'[u] = pc[u]) /\ pc'[t] = "closing"
      BY <2>4, Going DEF Places, Within, Renaming
    <3>. QED BY <2>1, <2>2, <2>4, <3>1 DEF Stages, Within, Renaming
  <2>. QED BY <1>15, <2>3, <2>4 DEF Start
<1>16. CASE Crash \/ Exit
  BY <1>13, <1>16 DEF Crash, Exit, Die
<1>17. CASE Spill
  <2>1. open /\ ~flush_stream /\ file \in Seq(Line) /\ Head(buffer) \in Line
    BY <1>17 DEF Spill, Stages, LinesOK
  <2>2. file' # Absent
    BY <1>17, <2>1, Exists, AppendProperties DEF Spill
  <2>3. \A t \in Threads : pc[t] \notin {"removing", "renaming", "reopening"}
    BY <2>1 DEF Stages
  <2>. QED BY <1>17, <2>1, <2>2, <2>3 DEF Spill, Stages, callers
<1>18. CASE UNCHANGED vars
  BY <1>18 DEF vars, disk, memory, callers, Stages
<1>. QED BY <1>2, <1>3, <1>4, <1>5, <1>8, <1>10, <1>11, <1>12, <1>14, <1>15, <1>16, <1>17, <1>18
         DEF Next

(* A step of a thread leaves the flags of the others alone.                *)
LEMMA FlagsElsewhere ==
    ASSUME LogInv, NEW t \in Threads,
           \A u \in Threads \ {t} : /\ pc'[u] = pc[u] /\ message'[u] = message[u]
                                    /\ destroy_'[u] = destroy_[u],
           life' \in {life, "up"}, recopied \subseteq recopied', returned \subseteq returned',
           OneFlag(t)'
    PROVE  Flags'
<1>1. ASSUME NEW u \in Threads \ {t}
      PROVE  OneFlag(u)'
  <2>1. OneFlag(u)
    BY DEF LogInv, Flags
  <2>2. (life' # "up" \/ pc'[u] = "idle") => destroy_'[u] = <<>>
    BY <2>1 DEF OneFlag
  <2>3. message'[u].id \notin recopied' =>
          \A i \in DOMAIN destroy_'[u] :
            destroy_'[u][i] => i = Len(destroy_'[u]) /\ pc'[u] = "streaming"
    BY <2>1 DEF OneFlag
  <2>4. pc'[u] = "streaming" =>
          message'[u].id \in returned' \/ \E i \in DOMAIN destroy_'[u] : destroy_'[u][i]
    BY <2>1 DEF OneFlag
  <2>. QED BY <2>2, <2>3, <2>4 DEF OneFlag
<1>. QED BY <1>1 DEF Flags

(* An element is changed, and one is put at the end.                       *)
LEMMA Changed ==
    ASSUME NEW S, NEW s \in Seq(S), NEW i \in 1 .. Len(s), NEW e \in S, NEW f \in S, NEW d,
           d = Append([s EXCEPT ![i] = e], f)
    PROVE  /\ Len(d) = Len(s) + 1 /\ DOMAIN d = 1 .. Len(s) + 1 /\ d[Len(s) + 1] = f
           /\ \A j \in 1 .. Len(s) : d[j] = IF j = i THEN e ELSE s[j]
<1> DEFINE front == [s EXCEPT ![i] = e]
<1>1. /\ front \in Seq(S) /\ Len(front) = Len(s)
      /\ \A j \in 1 .. Len(s) : front[j] = IF j = i THEN e ELSE s[j]
  BY ExceptSeq
<1>2. d = Append(front, f)
  OBVIOUS
<1> HIDE DEF front
<1>3. /\ d \in Seq(S) /\ Len(d) = Len(front) + 1
      /\ d[Len(front) + 1] = f /\ \A j \in 1 .. Len(front) : d[j] = front[j]
  BY <1>1, <1>2, AppendProperties
<1>4. DOMAIN d = 1 .. Len(d)
  BY <1>3
<1>. QED BY <1>1, <1>3, <1>4

(* A flag is passed on to a copy.                                          *)
LEMMA PassedOn ==
    ASSUME NEW s \in Seq(BOOLEAN), NEW i \in 1 .. Len(s), NEW d,
           d = Append([s EXCEPT ![i] = FALSE], TRUE)
    PROVE  /\ Len(d) = Len(s) + 1 /\ DOMAIN d = 1 .. Len(s) + 1 /\ d[Len(s) + 1] = TRUE
           /\ \A j \in 1 .. Len(s) : d[j] = IF j = i THEN FALSE ELSE s[j]
<1> DEFINE B == BOOLEAN
<1>1. FALSE \in B /\ TRUE \in B /\ s \in Seq(B)
  OBVIOUS
<1> HIDE DEF B
<1>2. PICK e \in B, f \in B : e = FALSE /\ f = TRUE
  BY <1>1
<1>3. d = Append([s EXCEPT ![i] = e], f)
  BY <1>2
<1>4. /\ Len(d) = Len(s) + 1 /\ DOMAIN d = 1 .. Len(s) + 1 /\ d[Len(s) + 1] = f
      /\ \A j \in 1 .. Len(s) : d[j] = IF j = i THEN e ELSE s[j]
  BY ONLY <1>1, <1>3, Changed, i \in 1 .. Len(s)
<1>. QED BY <1>2, <1>4

(* The flags after a copy.                                                 *)
LEMMA FlagsCopied ==
    ASSUME LogInv, NEW t \in Threads, Copy(t)
    PROVE  OneFlag(t)'
<1> DEFINE s == destroy_[t]
           n == Len(s)
<1>1. s \in Seq(BOOLEAN) /\ n \in Nat /\ DOMAIN s = 1 .. n
  BY TypeParts DEF LogInv, ThreadsOK
<1>2. PICK i \in 1 .. n :
           /\ destroy_' = [destroy_ EXCEPT ![t] = Append([s EXCEPT ![i] = FALSE], TRUE)]
           /\ Recopied(t, i)
  BY <1>1 DEF Copy
<1>3. pc[t] = "streaming" /\ life = "up" /\ UNCHANGED <<pc, life, message>>
  BY Holding DEF Copy, memory
<1>4. destroy_'[t] = Append([s EXCEPT ![i] = FALSE], TRUE)
  BY <1>2, TypeParts DEF LogInv, ThreadsOK
<1>5. ASSUME message[t].id \notin recopied'
      PROVE  s[i] /\ \A j \in 1 .. n : s[j] => j = n
  <2>1. s[i] /\ message[t].id \notin recopied
    BY <1>2, <1>5 DEF Recopied
  <2>. QED BY <1>1, <2>1 DEF LogInv, Flags, OneFlag
<1>8. /\ Len(destroy_'[t]) = n + 1 /\ DOMAIN destroy_'[t] = 1 .. n + 1 /\ destroy_'[t][n + 1] = TRUE
      /\ \A j \in 1 .. n : destroy_'[t][j] = IF j = i THEN FALSE ELSE s[j]
  <2> HIDE DEF s
  <2>. QED BY <1>1, <1>4, PassedOn
<1> HIDE DEF s, n
<1>9. message'[t].id \notin recopied' =>
        \A j \in DOMAIN destroy_'[t] : destroy_'[t][j] => j = Len(destroy_'[t]) /\ pc'[t] = "streaming"
  <2> SUFFICES ASSUME message[t].id \notin recopied', NEW j \in 1 .. n + 1, destroy_'[t][j]
               PROVE  j = n + 1
    BY <1>3, <1>8
  <2>1. \A k \in 1 .. n : ~destroy_'[t][k]
    BY <1>5, <1>8
  <2>2. j \notin 1 .. n
    BY <2>1
  <2>. QED BY <1>1, <2>2
<1>10. n + 1 \in DOMAIN destroy_'[t]
  BY <1>1, <1>8
<1>11. \E j \in DOMAIN destroy_'[t] : destroy_'[t][j]
  BY <1>8, <1>10
<1>. QED BY <1>3, <1>9, <1>11 DEF OneFlag

(* The flags that are left when one is dropped.                            *)
LEMMA FlagsDropped ==
    ASSUME LogInv, NEW t \in Threads, NEW i \in DOMAIN destroy_[t], pc[t] = "streaming"
    PROVE  /\ \A k \in DOMAIN RemoveAt(destroy_[t], i) : RemoveAt(destroy_[t], i)[k] =>
                /\ \E j \in DOMAIN destroy_[t] : destroy_[t][j]
                /\ message[t].id \notin recopied =>
                     k = Len(RemoveAt(destroy_[t], i)) /\ ~destroy_[t][i]
           /\ RemoveAt(destroy_[t], i) \in Seq(BOOLEAN)
           /\ ~destroy_[t][i] /\ (\E j \in DOMAIN destroy_[t] : destroy_[t][j]) =>
                /\ RemoveAt(destroy_[t], i) # <<>>
                /\ \E k \in DOMAIN RemoveAt(destroy_[t], i) : RemoveAt(destroy_[t], i)[k]
<1> DEFINE s == destroy_[t]
           n == Len(s)
           d == RemoveAt(s, i)
<1>1. s \in Seq(BOOLEAN) /\ n \in Nat /\ DOMAIN s = 1 .. n
  BY TypeParts DEF LogInv, ThreadsOK
<1>2. message[t].id \notin recopied => \A j \in 1 .. n : s[j] => j = n
  BY <1>1 DEF LogInv, Flags, OneFlag
<1>3. i \in 1 .. n /\ d = RemoveAt(s, i)
  BY <1>1
<1> HIDE DEF d
<1> HIDE DEF s
<1>4. /\ d \in Seq(BOOLEAN) /\ Len(d) = n - 1
      /\ \A j \in 1 .. n - 1 : d[j] = IF j < i THEN s[j] ELSE s[j + 1]
  BY <1>1, <1>3, Removed
<1>40. DOMAIN d = 1 .. n - 1
  BY <1>4
<1> HIDE DEF n
<1>5. ASSUME NEW k \in 1 .. n - 1, d[k]
      PROVE  /\ \E j \in 1 .. n : s[j]
             /\ message[t].id \notin recopied => k = n - 1 /\ ~s[i]
  <2>1. k \in 1 .. n /\ k + 1 \in 1 .. n
    BY <1>1
  <2>2. CASE k < i
    <3>1. s[k] /\ k # n
      BY <1>1, <1>4, <1>5, <2>2
    <3>. QED BY <1>2, <2>1, <3>1
  <2>3. CASE ~(k < i)
    <3>1. s[k + 1] /\ i # k + 1
      BY <1>1, <1>3, <1>4, <1>5, <2>3
    <3>2. message[t].id \notin recopied => k + 1 = n /\ ~s[i]
      BY <1>2, <1>3, <2>1, <3>1
    <3>. QED BY <1>1, <2>1, <3>1, <3>2
  <2>. QED BY <2>2, <2>3
<1>6. ASSUME ~s[i], NEW j \in 1 .. n, s[j]
      PROVE  d # <<>> /\ \E k \in 1 .. n - 1 : d[k]
  <2>1. j # i
    BY <1>6
  <2>2. CASE j < i
    <3>1. j \in 1 .. n - 1 /\ d[j]
      BY <1>1, <1>3, <1>4, <1>6, <2>2
    <3>. QED BY <1>4, <3>1
  <2>3. CASE ~(j < i)
    <3>1. j - 1 \in 1 .. n - 1 /\ ~(j - 1 < i) /\ j - 1 + 1 = j
      BY <1>1, <1>3, <2>1, <2>3
    <3>2. d[j - 1]
      BY <1>4, <1>6, <3>1
    <3>. QED BY <1>4, <3>1, <3>2
  <2>. QED BY <2>2, <2>3
<1>. QED BY <1>1, <1>4, <1>40, <1>5, <1>6 DEF s, d

(* The end of a write: the streamer of a message that is not written any   *)
(* more goes on.                                                           *)
LEMMA FlagsWritten ==
    ASSUME LogInv, NEW t \in Threads, EndWrite(t), UNCHANGED destroy_,
           pc[t] \notin {"idle", "streaming"}, life' \in {life, "up"}, recopied' = recopied,
           destroy_[t] = <<>> \/ message[t].id \in returned'
    PROVE  OneFlag(t)'
<1>1. pc'[t] = IF destroy_[t] = <<>> THEN "idle" ELSE "streaming"
  BY TypeParts DEF LogInv, ThreadsOK, EndWrite, Leave, Goto
<1>2. OneFlag(t)
  BY DEF LogInv, Flags
<1>3. CASE destroy_[t] = <<>>
  BY <1>1, <1>3 DEF OneFlag
<1>4. CASE destroy_[t] # <<>>
  <2>1. life = "up" /\ life' = "up" /\ message' = message
    BY <1>2, <1>4 DEF OneFlag, EndWrite, Leave
  <2>. QED BY <1>1, <1>2, <1>4, <2>1 DEF OneFlag
<1>. QED BY <1>3, <1>4

(* The flags.                                                              *)
LEMMA FlagsStep == LogInv /\ [Next]_vars => Flags'
<1> SUFFICES ASSUME LogInv, [Next]_vars
             PROVE  Flags'
  OBVIOUS
<1>0. LinesOK /\ ThreadsOK /\ RestOK /\ Stages /\ Flags
  BY TypeParts DEF LogInv
<1> USE <1>0
<1>1. ASSUME NEW t \in Threads, Log(t)
      PROVE  Flags'
  <2>1. /\ \A u \in Threads \ {t} : pc'[u] = pc[u] /\ message'[u] = message[u] /\ destroy_'[u] = destroy_[u]
        /\ pc[t] = "idle" /\ life = "up" /\ UNCHANGED <<life, recopied, returned>>
    BY <1>1 DEF Log, Goto, ThreadsOK, memory, hist, record
  <2>2. CASE Goto(t, "locking") /\ UNCHANGED destroy_
    <3>1. destroy_'[t] = <<>> /\ pc'[t] = "locking"
      BY <2>1, <2>2 DEF Flags, OneFlag, Goto, ThreadsOK
    <3>2. OneFlag(t)'
      BY <3>1 DEF OneFlag
    <3>. QED BY <2>1, <3>2, FlagsElsewhere
  <2>3. CASE Goto(t, "streaming") /\ destroy_' = [destroy_ EXCEPT ![t] = <<TRUE>>]
    <3>1. destroy_'[t] = <<TRUE>> /\ pc'[t] = "streaming" /\ life' = "up"
      BY <2>1, <2>3 DEF Goto, ThreadsOK
    <3>2. DOMAIN <<TRUE>> = {1} /\ Len(<<TRUE>>) = 1 /\ <<TRUE>>[1] = TRUE
      OBVIOUS
    <3>3. OneFlag(t)'
      BY <3>1, <3>2 DEF OneFlag
    <3>. QED BY <2>1, <3>3, FlagsElsewhere
  <2>. QED BY <1>1, <2>2, <2>3 DEF Log
<1>2. ASSUME NEW t \in Threads, Copy(t)
      PROVE  Flags'
  <2>1. /\ \A u \in Threads \ {t} : pc'[u] = pc[u] /\ message'[u] = message[u] /\ destroy_'[u] = destroy_[u]
        /\ life' = life /\ returned' = returned
    BY <1>2 DEF Copy, ThreadsOK, memory
  <2>2. recopied \subseteq recopied'
    BY <1>2 DEF Copy, Recopied
  <2>. QED BY <1>2, <2>1, <2>2, FlagsCopied, FlagsElsewhere
<1>3. ASSUME NEW t \in Threads, Drop(t)
      PROVE  Flags'
  <2> DEFINE flags(i) == RemoveAt(destroy_[t], i)
  <2>1. PICK i \in DOMAIN destroy_[t] :
             /\ destroy_' = [destroy_ EXCEPT ![t] = flags(i)]
             /\ \/ destroy_[t][i] /\ Goto(t, "locking") /\ UNCHANGED <<message, returned>>
                \/ /\ ~destroy_[t][i] /\ Leave(t, flags(i))
                   /\ returned' = returned \cup (IF flags(i) = <<>> THEN {message[t].id} ELSE {})
    BY <1>3 DEF Drop
  <2>2. /\ pc[t] = "streaming" /\ life = "up" /\ UNCHANGED <<life, recopied>>
        /\ message[t].id \in returned \/ \E j \in DOMAIN destroy_[t] : destroy_[t][j]
    BY <1>3, Holding DEF Drop, memory, Flags, OneFlag
  <2>3. /\ \A u \in Threads \ {t} : pc'[u] = pc[u] /\ message'[u] = message[u] /\ destroy_'[u] = destroy_[u]
        /\ destroy_'[t] = flags(i) /\ returned \subseteq returned'
    BY <2>1, Going, Leaving DEF Places, ThreadsOK
  <2>4. /\ \A k \in DOMAIN flags(i) : flags(i)[k] =>
             /\ \E j \in DOMAIN destroy_[t] : destroy_[t][j]
             /\ message[t].id \notin recopied => k = Len(flags(i)) /\ ~destroy_[t][i]
        /\ ~destroy_[t][i] /\ (\E j \in DOMAIN destroy_[t] : destroy_[t][j]) =>
             flags(i) # <<>> /\ \E k \in DOMAIN flags(i) : flags(i)[k]
    BY <2>2, FlagsDropped
  <2> HIDE DEF flags
  <2>5. CASE destroy_[t][i] /\ Goto(t, "locking") /\ UNCHANGED <<message, returned>>
    <3>1. pc'[t] = "locking"
      BY <2>5, Going DEF Places
    <3>2. message[t].id \notin recopied => \A k \in DOMAIN flags(i) : ~flags(i)[k]
      BY <2>4, <2>5
    <3>3. OneFlag(t)'
      BY <2>2, <2>3, <2>5, <3>1, <3>2 DEF OneFlag
    <3>. QED BY <2>2, <2>3, <3>3, FlagsElsewhere
  <2>6. CASE ~destroy_[t][i] /\ Leave(t, flags(i)) /\ flags(i) = <<>>
    <3>1. pc'[t] = "idle" /\ destroy_'[t] = <<>>
      BY <2>3, <2>6 DEF Leave, Goto, ThreadsOK
    <3>2. OneFlag(t)'
      BY <3>1 DEF OneFlag
    <3>. QED BY <2>2, <2>3, <3>2, FlagsElsewhere
  <2>7. CASE ~destroy_[t][i] /\ Leave(t, flags(i)) /\ flags(i) # <<>>
    <3>1. pc'[t] = "streaming" /\ message' = message
      BY <2>7 DEF Leave, Goto, ThreadsOK
    <3>2. message[t].id \notin recopied' => \A k \in DOMAIN flags(i) : flags(i)[k] => k = Len(flags(i))
      BY <2>2, <2>4
    <3>3. message[t].id \in returned' \/ \E k \in DOMAIN flags(i) : flags(i)[k]
      BY <2>2, <2>3, <2>4, <2>7
    <3>4. OneFlag(t)'
      BY <2>2, <2>3, <3>1, <3>2, <3>3 DEF OneFlag
    <3>. QED BY <2>2, <2>3, <3>4, FlagsElsewhere
  <2>. QED BY <2>1, <2>5, <2>6, <2>7
<1>4. ASSUME NEW t \in Threads, NEW p \in Within, Goto(t, p), UNCHANGED <<destroy_, message, life>>,
             pc[t] \notin {"idle", "streaming"}, recopied' = recopied, returned' = returned
      PROVE  Flags'
  <2>1. pc'[t] = p /\ \A u \in Threads \ {t} : pc'[u] = pc[u]
    BY <1>4, Going DEF Places
  <2>2. OneFlag(t)'
    BY <1>4, <2>1 DEF Flags, OneFlag, Within, Renaming
  <2>. QED BY <1>4, <2>1, <2>2, FlagsElsewhere
<1>5. ASSUME NEW t \in Threads,
             Measure(t) \/ CloseStream(t) \/ RemoveOld(t) \/ RenameToOld(t)
      PROVE  Flags'
  <2>1. /\ pc[t] \notin {"idle", "streaming"} /\ UNCHANGED <<life, destroy_, message, recopied, returned>>
        /\ \E p \in Within : Goto(t, p)
    BY <1>5 DEF Measure, CloseStream, RemoveOld, RenameToOld, memory, hist, record, Within, Renaming
  <2>. QED BY <1>4, <2>1
<1>6. ASSUME NEW t \in Threads, EndWrite(t), UNCHANGED destroy_,
             pc[t] \notin {"idle", "streaming"}, life' \in {life, "up"}, recopied' = recopied,
             returned \subseteq returned',
             destroy_[t] = <<>> \/ message[t].id \in returned'
      PROVE  Flags'
  <2>1. \A u \in Threads \ {t} : pc'[u] = pc[u] /\ message'[u] = message[u]
    BY <1>6, Leaving DEF EndWrite
  <2>2. OneFlag(t)'
    BY <1>6, FlagsWritten
  <2>. QED BY <1>6, <2>1, <2>2, FlagsElsewhere
<1>7. ASSUME NEW t \in Threads, Insert(t)
      PROVE  Flags'
  BY <1>6, <1>7 DEF Insert
<1>8. ASSUME NEW t \in Threads, OpenStream(t)
      PROVE  Flags'
  <2>1. UNCHANGED <<destroy_, recopied, returned>> /\ pc[t] \notin {"idle", "streaming"}
    BY <1>8 DEF OpenStream, record
  <2>2. CASE life = "opening"
    BY <1>6, <1>8, <2>1, <2>2 DEF OpenStream, Flags, OneFlag
  <2>3. CASE life # "opening"
    BY <1>4, <1>8, <2>1, <2>3 DEF OpenStream, Within
  <2>. QED BY <2>2, <2>3
<1>9. ASSUME Forget
      PROVE  Flags'
  <2>1. \A t \in Threads : pc'[t] = "idle" /\ destroy_'[t] = <<>>
    BY <1>9, Forgetting
  <2>. QED BY <2>1 DEF Flags, OneFlag
<1>10. ASSUME NEW t \in Threads, FileSystemFails(t) \/ NothingToRename(t)
       PROVE  Flags'
  <2>1. pc[t] \notin {"idle", "streaming"} /\ Throw(t)
    BY <1>10 DEF FileSystemFails, NothingToRename
  <2>. QED BY <1>6, <1>9, <2>1 DEF Throw, Die, memory
<1>11. ASSUME NEW t \in Threads, Start(t)
       PROVE  Flags'
  <2>1. life = "down" /\ UNCHANGED <<destroy_, message, recopied, returned>> /\ life' \in {"opening", "up"}
    BY <1>11 DEF Start, hist, record
  <2>2. destroy_'[t] = <<>> /\ pc'[t] \in {"idle", "closing"} /\ \A u \in Threads \ {t} : pc'[u] = pc[u]
    <3>1. pc[t] = "idle" /\ \A u \in Threads : destroy_[u] = <<>>
      BY <2>1 DEF Stages, Flags, OneFlag
    <3>. QED BY <1>11, <2>1, <3>1, Going DEF Start, Places, Within, Renaming
  <2>3. \A u \in Threads : destroy_'[u] = <<>> /\ pc'[u] # "streaming"
    BY <2>1, <2>2 DEF Stages, Flags, OneFlag
  <2>. QED BY <2>3 DEF Flags, OneFlag
<1>12. CASE Crash \/ Exit
  BY <1>9, <1>12 DEF Crash, Exit, Die
<1>13. CASE Spill \/ UNCHANGED vars
  BY <1>13 DEF Spill, vars, memory, callers, hist, record, Flags, OneFlag
<1>. QED BY <1>1, <1>2, <1>3, <1>5, <1>7, <1>8, <1>10, <1>11, <1>12, <1>13 DEF Next

(* Who has a message to write has a message, after a step too.             *)
LEMMA InFlightIsBusyNext == Flags' => \A t \in Threads : InFlight(t)' => Busy(t)'
BY DEF Flags, OneFlag, InFlight, Busy, Within, Renaming

(* A step that gives nobody a message and writes none.                     *)
LEMMA FreshKept ==
    ASSUME LogInv, UNCHANGED <<written, sent>>, recopied \subseteq recopied',
           \A u \in Threads : Busy(u)' => Busy(u) /\ message'[u] = message[u],
           \A u \in Threads : InFlight(u)' => InFlight(u) \/ message[u].id \in recopied',
           Flags'
    PROVE  Fresh'
<1>1. \A u \in Threads : InFlight(u)' => Busy(u)'
  BY InFlightIsBusyNext
<1>2. ASSUME NEW u \in Threads, Busy(u)'
      PROVE  Distinct(u)'
  <2>1. Busy(u) /\ message'[u] = message[u] /\ Distinct(u)
    BY <1>2 DEF LogInv, Fresh
  <2>2. message'[u].id \in 1 .. sent' /\ message'[u].text \in Texts
    BY <2>1 DEF Distinct
  <2>3. \A w \in Threads \ {u} : Busy(w)' => message'[w].id # message'[u].id
    BY <2>1 DEF Distinct
  <2>. QED BY <2>2, <2>3 DEF Distinct
<1>3. ASSUME NEW u \in Threads, InFlight(u)'
      PROVE  NotWritten(u)'
  <2>1. message'[u] = message[u]
    BY <1>1, <1>3
  <2>2. CASE message[u].id \in recopied'
    BY <2>1, <2>2 DEF NotWritten
  <2>3. CASE InFlight(u)
    <3>1. NotWritten(u)
      BY <2>3 DEF LogInv, Fresh
    <3>. QED BY <2>1, <3>1 DEF NotWritten
  <2>. QED BY <1>3, <2>2, <2>3
<1>4. \A i \in DOMAIN written' : written'[i].id <= sent'
  BY DEF LogInv, Fresh
<1>. QED BY <1>2, <1>3, <1>4 DEF Fresh

(* A new message was neither written nor given to another thread.          *)
LEMMA FreshLogged ==
    ASSUME LogInv, NEW t \in Threads, Log(t), Flags'
    PROVE  Fresh'
<1>1. LinesOK /\ ThreadsOK /\ RestOK
  BY TypeParts DEF LogInv
<1>2. PICK text \in Texts : message' = [message EXCEPT ![t] = [id |-> sent + 1, text |-> text]]
  BY DEF Log
<1>3. sent' = sent + 1 /\ UNCHANGED <<written, life, recopied>> /\ sent \in Nat
  BY <1>1 DEF Log, memory, hist, record, RestOK
<1>4. /\ \A u \in Threads \ {t} : /\ pc'[u] = pc[u] /\ message'[u] = message[u]
                                  /\ destroy_'[u] = destroy_[u]
      /\ message'[t].id = sent + 1 /\ message'[t].text \in Texts
  BY <1>1, <1>2 DEF Log, Goto, ThreadsOK
<1>5. \A i \in DOMAIN written : written[i].id \in Nat /\ written[i].id <= sent
  <2>1. \A i \in DOMAIN written : written[i] \in Line
    BY <1>1 DEF LinesOK
  <2>. QED BY <2>1 DEF LogInv, Fresh, Line
<1>6. ASSUME NEW u \in Threads \ {t}, Busy(u)'
      PROVE  Distinct(u)
  <2>1. Busy(u)
    BY <1>3, <1>4, <1>6 DEF Busy
  <2>. QED BY <2>1 DEF LogInv, Fresh
<1>7. ASSUME NEW u \in Threads, Busy(u)'
      PROVE  Distinct(u)'
  <2>1. CASE u = t
    <3>1. message'[u].id \in 1 .. sent' /\ message'[u].text \in Texts
      BY <1>3, <1>4, <2>1
    <3>2. \A w \in Threads \ {u} : Busy(w)' => message'[w].id # message'[u].id
      <4> SUFFICES ASSUME NEW w \in Threads \ {t}, Busy(w)'
                   PROVE  message'[w].id # message'[t].id
        BY <2>1
      <4>1. message[w].id \in 1 .. sent
        BY <1>6 DEF Distinct
      <4>. QED BY <1>3, <1>4, <4>1
    <3>. QED BY <3>1, <3>2 DEF Distinct
  <2>2. CASE u # t
    <3>1. Distinct(u) /\ message'[u] = message[u]
      BY <1>4, <1>6, <1>7, <2>2
    <3>2. message'[u].id \in 1 .. sent' /\ message'[u].text \in Texts
      BY <1>3, <3>1 DEF Distinct
    <3>3. \A w \in Threads \ {u} : Busy(w)' => message'[w].id # message'[u].id
      <4> SUFFICES ASSUME NEW w \in Threads \ {u}, Busy(w)'
                   PROVE  message'[w].id # message'[u].id
        OBVIOUS
      <4>1. CASE w = t
        <5>1. message[u].id \in 1 .. sent
          BY <3>1 DEF Distinct
        <5>. QED BY <1>3, <1>4, <3>1, <4>1, <5>1
      <4>2. CASE w # t
        <5>1. Busy(w) /\ message'[w] = message[w]
          BY <1>3, <1>4, <4>2 DEF Busy
        <5>. QED BY <3>1, <5>1 DEF Distinct
      <4>. QED BY <4>1, <4>2
    <3>. QED BY <3>2, <3>3 DEF Distinct
  <2>. QED BY <2>1, <2>2
<1>8. ASSUME NEW u \in Threads, InFlight(u)'
      PROVE  NotWritten(u)'
  <2>1. CASE u = t
    <3>1. \A i \in DOMAIN written : written[i].id # sent + 1
      BY <1>3, <1>5
    <3>. QED BY <1>3, <1>4, <2>1, <3>1 DEF NotWritten
  <2>2. CASE u # t
    <3>1. InFlight(u) /\ message'[u] = message[u]
      BY <1>3, <1>4, <1>8, <2>2 DEF InFlight
    <3>2. NotWritten(u)
      BY <3>1 DEF LogInv, Fresh
    <3>. QED BY <1>3, <3>1, <3>2 DEF NotWritten
  <2>. QED BY <2>1, <2>2
<1>9. \A i \in DOMAIN written' : written'[i].id <= sent'
  BY <1>3, <1>5
<1>. QED BY <1>7, <1>8, <1>9 DEF Fresh

(* A message that is written is not still to be written.                   *)
LEMMA FreshWritten ==
    ASSUME LogInv, NEW t \in Threads, Insert(t), NEW line \in Line,
           line.id = message[t].id, written' = Append(written, line), Flags'
    PROVE  Fresh'
<1>1. LinesOK /\ ThreadsOK /\ RestOK
  BY TypeParts DEF LogInv
<1>2. /\ pc[t] = "inserting" /\ life = "up" /\ Distinct(t) /\ EndWrite(t)
      /\ UNCHANGED <<sent, life, destroy_, recopied>>
  BY Holding DEF Insert
<1>3. /\ DOMAIN written' = 1 .. Len(written) + 1 /\ DOMAIN written = 1 .. Len(written)
      /\ Len(written) \in Nat /\ written'[Len(written) + 1] = line
      /\ \A i \in 1 .. Len(written) : written'[i] = written[i]
  BY <1>1, AppendProperties DEF LinesOK
<1>4. \A i \in DOMAIN written' :
        written'[i].id = message[t].id \/ \E k \in DOMAIN written : written'[i] = written[k]
  BY <1>3
<1>5. \A i \in DOMAIN written' : written'[i].id <= sent'
  BY <1>1, <1>2, <1>4 DEF LogInv, Fresh, Distinct, RestOK
<1>6. /\ \A u \in Threads \ {t} : pc'[u] = pc[u] /\ message'[u] = message[u]
      /\ pc'[t] \in {"idle", "streaming"} /\ (pc'[t] = "streaming" => message'[t] = message[t])
  <2>1. \A u \in Threads \ {t} : pc'[u] = pc[u] /\ message'[u] = message[u]
    BY <1>1, <1>2, Leaving DEF EndWrite
  <2>2. pc'[t] \in {"idle", "streaming"} /\ (pc'[t] = "streaming" => message'[t] = message[t])
    BY <1>1, <1>2 DEF EndWrite, Leave, Goto, ThreadsOK
  <2>. QED BY <2>1, <2>2
<1>7. \A u \in Threads : Busy(u)' => Busy(u) /\ Distinct(u) /\ message'[u] = message[u]
  <2>1. \A u \in Threads : Busy(u)' => Busy(u) /\ message'[u] = message[u]
    <3>1. Busy(t)' => Busy(t) /\ message'[t] = message[t]
      BY <1>2, <1>6 DEF Busy
    <3>2. \A u \in Threads \ {t} : Busy(u)' => Busy(u) /\ message'[u] = message[u]
      BY <1>2, <1>6 DEF Busy
    <3>. QED BY <3>1, <3>2
  <2>. QED BY <2>1 DEF LogInv, Fresh
<1>8. ASSUME NEW u \in Threads, Busy(u)'
      PROVE  Distinct(u)'
  <2>1. message'[u].id \in 1 .. sent' /\ message'[u].text \in Texts
    BY <1>2, <1>7, <1>8 DEF Distinct
  <2>2. \A w \in Threads \ {u} : Busy(w)' => message'[w].id # message'[u].id
    BY <1>7, <1>8 DEF Distinct
  <2>. QED BY <2>1, <2>2 DEF Distinct
<1>9. ASSUME NEW u \in Threads, InFlight(u)'
      PROVE  NotWritten(u)'
  <2>1. Busy(u)' /\ Busy(u) /\ message'[u] = message[u]
    BY <1>7, <1>9, InFlightIsBusyNext
  <2>2. CASE u = t
    <3>1. \E i \in DOMAIN destroy_[t] : destroy_[t][i]
      BY <1>2, <1>6, <1>9, <2>2 DEF InFlight, Within, Renaming
    <3>2. message[t].id \in recopied
      BY <1>2, <3>1 DEF LogInv, Flags, OneFlag
    <3>. QED BY <1>2, <2>1, <2>2, <3>2 DEF NotWritten
  <2>3. CASE u # t
    <3>1. InFlight(u)
      BY <1>2, <1>6, <1>9, <2>3 DEF InFlight
    <3>2. NotWritten(u) /\ message[u].id # message[t].id
      BY <1>2, <2>1, <2>3, <3>1 DEF LogInv, Fresh, Distinct
    <3>. QED BY <1>2, <1>4, <2>1, <3>2 DEF NotWritten
  <2>. QED BY <2>2, <2>3
<1>. QED BY <1>5, <1>8, <1>9 DEF Fresh

(* The messages that are still to be written.                              *)
LEMMA FreshStep == LogInv /\ [Next]_vars => Fresh'
<1> SUFFICES ASSUME LogInv, [Next]_vars
             PROVE  Fresh'
  OBVIOUS
<1>0. LinesOK /\ ThreadsOK /\ RestOK /\ Stages /\ Flags /\ Flags'
  BY TypeParts, FlagsStep DEF LogInv
<1> USE <1>0
<1>1. ASSUME \A u \in Threads : ~Busy(u)', UNCHANGED <<written, sent, recopied>>
      PROVE  Fresh'
  <2>1. \A u \in Threads : InFlight(u)' => Busy(u)'
    BY InFlightIsBusyNext
  <2>. QED BY <1>1, <2>1, FreshKept
<1>2. ASSUME NEW t \in Threads, UNCHANGED <<written, sent, life, recopied, destroy_>>,
             \A u \in Threads \ {t} : pc'[u] = pc[u] /\ message'[u] = message[u],
             pc[t] \in Within \cup {"locking"},
             pc'[t] = "idle" \/ message'[t] = message[t]
      PROVE  Fresh'
  <2>1. \A u \in Threads : Busy(u)' => Busy(u) /\ message'[u] = message[u]
    BY <1>2 DEF Busy, Within, Renaming
  <2>2. \A u \in Threads : InFlight(u)' => InFlight(u)
    BY <1>2 DEF InFlight
  <2>. QED BY <1>2, <2>1, <2>2, FreshKept
<1>3. ASSUME NEW t \in Threads, Copy(t)
      PROVE  Fresh'
  <2>1. PICK i \in DOMAIN destroy_[t] :
             /\ destroy_' = [destroy_ EXCEPT ![t] = Append([@ EXCEPT ![i] = FALSE], TRUE)]
             /\ Recopied(t, i)
    BY <1>3 DEF Copy
  <2>2. UNCHANGED <<written, sent, life, pc, message>> /\ life = "up"
    BY <1>3, Holding DEF Copy, memory
  <2>3. recopied \subseteq recopied' /\ (destroy_[t][i] \/ message[t].id \in recopied')
    BY <2>1 DEF Recopied
  <2>4. \A u \in Threads \ {t} : destroy_'[u] = destroy_[u]
    BY <2>1 DEF ThreadsOK
  <2>5. \A u \in Threads : InFlight(u)' => InFlight(u) \/ message[u].id \in recopied'
    BY <2>2, <2>3, <2>4 DEF InFlight
  <2>6. \A u \in Threads : Busy(u)' => Busy(u) /\ message'[u] = message[u]
    BY <2>2 DEF Busy
  <2>. QED BY <2>2, <2>3, <2>5, <2>6, FreshKept
<1>4. ASSUME NEW t \in Threads, Drop(t)
      PROVE  Fresh'
  <2> DEFINE flags(i) == RemoveAt(destroy_[t], i)
  <2>1. PICK i \in DOMAIN destroy_[t] :
             /\ destroy_' = [destroy_ EXCEPT ![t] = flags(i)]
             /\ \/ destroy_[t][i] /\ Goto(t, "locking") /\ UNCHANGED message
                \/ ~destroy_[t][i] /\ Leave(t, flags(i))
    BY <1>4 DEF Drop
  <2>2. UNCHANGED <<written, sent, life, recopied>> /\ pc[t] = "streaming" /\ life = "up"
    BY <1>4, Holding DEF Drop, memory
  <2>3. /\ \A u \in Threads \ {t} : pc'[u] = pc[u] /\ message'[u] = message[u] /\ destroy_'[u] = destroy_[u]
        /\ destroy_'[t] = flags(i)
    BY <2>1, Going, Leaving DEF Places, ThreadsOK
  <2>4. \A k \in DOMAIN flags(i) : flags(i)[k] => \E j \in DOMAIN destroy_[t] : destroy_[t][j]
    BY <2>2, FlagsDropped
  <2> HIDE DEF flags
  <2>5. destroy_[t][i] \/ pc'[t] \in {"idle", "streaming"}
    BY <2>1, Leaving
  <2>6. pc'[t] # "idle" => message'[t] = message[t]
    BY <2>1 DEF Leave, Goto, ThreadsOK
  <2>7. \A u \in Threads : Busy(u)' => Busy(u) /\ message'[u] = message[u]
    BY <2>2, <2>3, <2>6 DEF Busy
  <2>8. InFlight(t)' => InFlight(t)
    BY <2>2, <2>3, <2>4, <2>5 DEF InFlight, Within, Renaming
  <2>9. \A u \in Threads : InFlight(u)' => InFlight(u)
    BY <2>2, <2>3, <2>8 DEF InFlight
  <2>. QED BY <2>2, <2>7, <2>9, FreshKept
<1>5. ASSUME NEW t \in Threads,
             Measure(t) \/ CloseStream(t) \/ RemoveOld(t) \/ RenameToOld(t)
      PROVE  Fresh'
  <2>1. /\ pc[t] \in Within \cup {"locking"}
        /\ UNCHANGED <<life, destroy_, message, written, sent, recopied>>
        /\ \E p \in Places : Goto(t, p)
    BY <1>5 DEF Measure, CloseStream, RemoveOld, RenameToOld, memory, hist, record, Places, Within, Renaming
  <2>. QED BY <1>2, <2>1, Going
<1>6. ASSUME NEW t \in Threads, EndWrite(t), pc[t] \in Within,
             UNCHANGED <<life, destroy_, written, sent, recopied>>
      PROVE  Fresh'
  <2>1. \A u \in Threads \ {t} : pc'[u] = pc[u] /\ message'[u] = message[u]
    BY <1>6, Leaving DEF EndWrite
  <2>2. pc'[t] = "idle" \/ message'[t] = message[t]
    BY <1>6 DEF EndWrite, Leave, Goto, ThreadsOK
  <2>. QED BY <1>2, <1>6, <2>1, <2>2
<1>7. ASSUME NEW t \in Threads, Insert(t)
      PROVE  Fresh'
  <2>1. CASE UNCHANGED written
    BY <1>6, <1>7, <2>1 DEF Insert, Within
  <2>2. ASSUME NEW time \in {ShortTime, LongTime}, written' = Append(written, NewLine(t, time))
        PROVE  Fresh'
    BY <1>7, <2>2, NewLineTyped, FreshWritten DEF Insert
  <2>. QED BY <1>7, <2>1, <2>2, Inserts
<1>8. ASSUME NEW t \in Threads, OpenStream(t)
      PROVE  Fresh'
  <2>1. pc[t] = "reopening" /\ UNCHANGED <<written, sent, destroy_, recopied>>
    BY <1>8 DEF OpenStream, record
  <2>2. CASE life = "opening"
    <3>1. EndWrite(t) /\ destroy_[t] = <<>>
      BY <1>8, <2>2 DEF OpenStream, Flags, OneFlag
    <3>2. pc'[t] = "idle" /\ \A u \in Threads \ {t} : pc'[u] = pc[u]
      <4>1. pc'[t] = "idle"
        BY <3>1 DEF EndWrite, Leave, Goto, ThreadsOK
      <4>. QED BY <3>1, <4>1, Leaving DEF EndWrite
    <3>3. \A u \in Threads \ {t} : pc[u] = "idle"
      BY <2>1, <2>2 DEF Stages, Within, Renaming
    <3>. QED BY <1>1, <2>1, <3>2, <3>3 DEF Busy
  <2>3. CASE life # "opening"
    <3>1. Goto(t, "inserting") /\ UNCHANGED <<life, message>>
      BY <1>8, <2>3 DEF OpenStream
    <3>. QED BY <1>2, <2>1, <3>1, Going DEF Places, Within, Renaming
  <2>. QED BY <2>2, <2>3
<1>9. ASSUME Forget, UNCHANGED <<written, recopied>>
      PROVE  Fresh'
  BY <1>1, <1>9 DEF Forget, Busy
<1>10. ASSUME NEW t \in Threads, FileSystemFails(t) \/ NothingToRename(t)
       PROVE  Fresh'
  <2>1. pc[t] \in Within /\ Throw(t) /\ UNCHANGED <<written, recopied>>
    BY <1>10 DEF FileSystemFails, NothingToRename, Throw, Within, Renaming
  <2>. QED BY <1>6, <1>9, <2>1 DEF Throw, Die, memory
<1>11. ASSUME NEW t \in Threads, Start(t)
       PROVE  Fresh'
  <2>1. UNCHANGED <<written, sent, destroy_, recopied>> /\ \A u \in Threads : pc[u] = "idle"
    BY <1>11 DEF Start, Stages, hist, record
  <2>. QED BY <1>1, <1>11, <2>1 DEF Start, Busy
<1>12. CASE Crash \/ Exit
  BY <1>9, <1>12 DEF Crash, Exit, Die, hist, record
<1>13. CASE Spill \/ UNCHANGED vars
  <2>1. UNCHANGED <<written, sent, life, pc, destroy_, message, recopied>>
    BY <1>13 DEF Spill, vars, memory, callers, hist, record
  <2>. QED BY <2>1, FreshKept DEF InFlight, Busy
<1>. QED BY <1>3, <1>4, <1>5, <1>7, <1>8, <1>10, <1>11, <1>12, <1>13, FreshLogged DEF Next

(* The stream is open between two renamings.                               *)
LEMMA FailuresStep == LogInv /\ [Next]_vars => Failures'
<1> SUFFICES ASSUME LogInv, [Next]_vars
             PROVE  Failures'
  OBVIOUS
<1>0. LinesOK /\ ThreadsOK /\ RestOK /\ Stages /\ Failures
  BY TypeParts DEF LogInv
<1> USE <1>0
<1>1. ASSUME UNCHANGED <<failed, life, open>>,
             \A u \in Threads : \/ pc'[u] = pc[u]
                                \/ pc[u] \notin {"removing", "renaming", "reopening"}
                                \/ pc'[u] \in {"removing", "renaming", "reopening"}
      PROVE  Failures'
  BY <1>1 DEF Failures, Renaming
<1>2. ASSUME NEW t \in Threads, Log(t) \/ Copy(t) \/ Drop(t) \/ Measure(t) \/ Insert(t)
      PROVE  Failures'
  <2>1. UNCHANGED <<failed, life, open>> /\ pc[t] \in {"idle", "streaming", "locking", "inserting"}
    BY <1>2 DEF Log, Copy, Drop, Measure, Insert, memory, hist, record
  <2>2. \A u \in Threads \ {t} : pc'[u] = pc[u]
    <3>1. CASE Log(t)
      BY <3>1 DEF Log, Goto, ThreadsOK
    <3>2. CASE Copy(t)
      BY <3>2 DEF Copy
    <3>3. CASE Drop(t)
      BY <3>3, Going, Leaving DEF Drop, Places
    <3>4. CASE Measure(t)
      BY <3>4 DEF Measure, Goto, ThreadsOK
    <3>5. CASE Insert(t)
      BY <3>5, Leaving DEF Insert, EndWrite
    <3>. QED BY <1>2, <3>1, <3>2, <3>3, <3>4, <3>5
  <2>. QED BY <1>1, <2>1, <2>2
<1>3. ASSUME NEW t \in Threads, CloseStream(t) \/ RemoveOld(t) \/ RenameToOld(t)
      PROVE  Failures'
  <2>1. pc'[t] \in {"removing", "renaming", "reopening"}
    BY <1>3 DEF CloseStream, RemoveOld, RenameToOld, Goto, ThreadsOK
  <2>. QED BY <2>1 DEF Failures, Renaming
<1>4. ASSUME NEW t \in Threads, OpenStream(t) \/ Start(t)
      PROVE  Failures'
  BY <1>4 DEF OpenStream, Start, Failures
<1>5. ASSUME NEW t \in Threads, FileSystemFails(t) \/ NothingToRename(t)
      PROVE  Failures'
  BY <1>5 DEF FileSystemFails, NothingToRename, Throw, Failures
<1>6. CASE Crash \/ Exit
  BY <1>6 DEF Crash, Exit, Die, Forget, Failures
<1>7. CASE Spill \/ UNCHANGED vars
  BY <1>7 DEF Spill, vars, memory, callers, hist, record, Failures
<1>. QED BY <1>2, <1>3, <1>4, <1>5, <1>6, <1>7 DEF Next

(* The invariant holds at the start ...                                    *)
LEMMA LogInvInit == Init => LogInv
<1> SUFFICES ASSUME Init
             PROVE  LogInv
  OBVIOUS
<1>1. <<>> \in Seq(Line) /\ <<>> \in Seq(BOOLEAN) /\ NoMessage \in [id : Nat, text : Nat]
  BY DEF NoMessage
<1>2. LinesOK
  BY <1>1 DEF Init, LinesOK
<1>3. ThreadsOK
  BY <1>1 DEF Init, ThreadsOK, Places
<1>4. RestOK
  <2>1. /\ open \in BOOLEAN /\ cut \in BOOLEAN /\ failed \in BOOLEAN /\ flush_stream \in BOOLEAN
        /\ life \in {"down", "opening", "up"} /\ protect_write_ \in Threads \cup {NULL}
        /\ current_time_size \in {0, ShortTime, LongTime}
    BY DEF Init
  <2>2. /\ current_file_size_ \in Nat /\ sent \in Nat /\ begun \in Nat /\ swallowed \in Nat
        /\ recopies \in 0 .. MaxRecopies /\ faults \in 0 .. MaxFaults
    BY LogAssumption DEF Init
  <2>3. returned \subseteq 1 .. sent /\ recopied \subseteq 1 .. sent
    BY DEF Init
  <2>. QED BY <2>1, <2>2, <2>3 DEF RestOK
<1>5. Stages
  BY LogAssumption DEF Init, Stages, Within, Renaming
<1>6. Flags
  BY DEF Init, Flags, OneFlag
<1>7. Fresh
  BY DEF Init, Fresh, InFlight, Busy
<1>8. Failures
  BY DEF Init, Failures
<1>. QED BY <1>2, <1>3, <1>4, <1>5, <1>6, <1>7, <1>8, TypeParts DEF LogInv

(* ... and every step keeps it.                                            *)
LEMMA LogInvStep == LogInv /\ [Next]_vars => LogInv'
BY TypeStep, StagesStep, FlagsStep, FreshStep, FailuresStep DEF LogInv

(* TypeOK, and what the stages of a write say of the stream and of the two *)
(* files.                                                                  *)
THEOREM LogInvariant == Spec => []LogInv
BY LogInvInit, LogInvStep, PTL DEF Spec

-----------------------------------------------------------------------------
(* What the steps do to the lines.                                         *)
LEMMA KeptIs ==
    ASSUME LinesOK
    PROVE  Kept = Lines(old) \o Current
BY LinesTyped, ConcatAssociative DEF Kept, Current, LinesOK

(* The same after a step.                                                  *)
LEMMA KeptIsNext ==
    ASSUME LinesOK'
    PROVE  Kept' = Lines(old)' \o Current'
<1>1. /\ Lines(old)' \in Seq(Line) /\ Lines(file)' \in Seq(Line) /\ buffer' \in Seq(Line)
  BY DEF Lines, LinesOK
<1>. QED BY <1>1, ConcatAssociative DEF Kept, Current

(* A line at the end of the second of two sequences, and one that moves    *)
(* from the second to the first.                                           *)
LEMMA AppendConcat ==
    ASSUME NEW s \in Seq(Line), NEW t \in Seq(Line), NEW x \in Line
    PROVE  s \o Append(t, x) = Append(s \o t, x)
<1>1. Append(t, x) = t \o <<x>> /\ Append(s \o t, x) = (s \o t) \o <<x>>
  BY AppendIsConcat, ConcatProperties
<1>2. <<x>> \in Seq(Line)
  OBVIOUS
<1>. QED BY <1>1, <1>2, ConcatAssociative

(* A line that goes from the buffer to the file keeps its place.           *)
LEMMA MoveHead ==
    ASSUME NEW s \in Seq(Line), NEW t \in Seq(Line), t # <<>>
    PROVE  Append(s, Head(t)) \o Tail(t) = s \o t
<1>1. Head(t) \in Line /\ Tail(t) \in Seq(Line) /\ <<Head(t)>> \in Seq(Line)
  OBVIOUS
<1>2. t = <<Head(t)>> \o Tail(t)
  <2>1. /\ Len(t) \in Nat \ {0} /\ Len(Tail(t)) = Len(t) - 1 /\ Head(t) = t[1]
        /\ \A i \in 1 .. Len(t) - 1 : Tail(t)[i] = t[i + 1]
    BY HeadTailProperties
  <2>2. /\ <<Head(t)>> \o Tail(t) \in Seq(Line) /\ Len(<<Head(t)>> \o Tail(t)) = 1 + Len(Tail(t))
        /\ \A i \in 1 .. 1 + Len(Tail(t)) :
             (<<Head(t)>> \o Tail(t))[i] = IF i <= 1 THEN <<Head(t)>>[i] ELSE Tail(t)[i - 1]
    BY <1>1, ConcatProperties
  <2>3. \A i \in 1 .. Len(t) : t[i] = (<<Head(t)>> \o Tail(t))[i]
    <3> SUFFICES ASSUME NEW i \in 1 .. Len(t)
                 PROVE  t[i] = (<<Head(t)>> \o Tail(t))[i]
      OBVIOUS
    <3>1. CASE i = 1
      BY <2>1, <2>2, <3>1
    <3>2. CASE i # 1
      <4>1. i - 1 \in 1 .. Len(t) - 1 /\ i - 1 + 1 = i /\ i \in 1 .. 1 + Len(Tail(t))
        BY <2>1, <3>2
      <4>2. (<<Head(t)>> \o Tail(t))[i] = Tail(t)[i - 1]
        BY <2>2, <3>2, <4>1
      <4>. QED BY <2>1, <4>1, <4>2
    <3>. QED BY <3>1, <3>2
  <2>4. Len(t) = Len(<<Head(t)>> \o Tail(t))
    BY <2>1, <2>2
  <2>. QED BY <2>2, <2>3, <2>4, SeqEqual
<1>3. Append(s, Head(t)) = s \o <<Head(t)>>
  BY <1>1, AppendIsConcat
<1>. QED BY <1>1, <1>2, <1>3, ConcatAssociative

(* What is kept stays when the current file and the old one do.            *)
LEMMA CurrentSame ==
    ASSUME LogInv, LinesOK', Current' = Current, UNCHANGED old
    PROVE  Kept' = Kept
<1>1. Lines(old)' = Lines(old)
  BY DEF Lines
<1>. QED BY <1>1, KeptIs, KeptIsNext, TypeParts DEF LogInv

(* Most steps leave the lines where they are ...                           *)
LEMMA QuietSteps ==
    ASSUME LogInv, LinesOK',
           \/ UNCHANGED <<file, buffer, old>>
           \/ \E t \in Threads : CloseStream(t) \/ OpenStream(t) \/ Start(t)
           \/ Exit \/ Spill
           \/ Forget /\ UNCHANGED disk /\ buffer = <<>>
    PROVE  Current' = Current /\ Kept' = Kept
<1>0. LinesOK /\ Stages
  BY TypeParts DEF LogInv
<1>1. /\ Lines(file) \in Seq(Line) /\ buffer \in Seq(Line) /\ <<>> \in Seq(Line)
      /\ \A s \in Seq(Line) : s \o <<>> = s /\ <<>> \o s = s
  BY <1>0, LinesTyped, ConcatEmptySeq DEF LinesOK
<1>2. Lines(<<>>) = <<>> /\ Lines(Absent) = <<>> /\ Lines(Lines(file)) = Lines(file)
  BY DEF Lines
<1>3. Lines(Lines(file) \o buffer) = Lines(file) \o buffer
  BY <1>0, LinesTyped, Exists DEF Current
<1>4. CASE UNCHANGED <<file, buffer, old>>
  BY <1>4, CurrentSame DEF Current, Lines
<1>5. ASSUME NEW t \in Threads, CloseStream(t)
      PROVE  Current' = Current /\ Kept' = Kept
  <2>1. Current' = Current
    <3>1. CASE open
      <4>1. file' = Lines(file) \o buffer /\ buffer' = <<>> /\ Lines(file) \o buffer \in Seq(Line)
        BY <1>1, <1>5, <3>1 DEF CloseStream
      <4>2. Lines(file)' = Lines(file) \o buffer
        BY <4>1, Exists DEF Lines
      <4>. QED BY <1>1, <4>1, <4>2 DEF Current
    <3>2. CASE ~open
      BY <1>0, <1>5, <3>2 DEF Current, CloseStream, Stages, Lines
    <3>. QED BY <3>1, <3>2
  <2>. QED BY <1>5, <2>1, CurrentSame DEF CloseStream
<1>6. ASSUME NEW t \in Threads, OpenStream(t)
      PROVE  Current' = Current /\ Kept' = Kept
  <2>1. file = Absent /\ file' = <<>> /\ buffer' = buffer
    BY <1>0, <1>6 DEF OpenStream, Stages
  <2>. QED BY <1>2, <1>6, <2>1, CurrentSame DEF OpenStream, Current, Lines
<1>7. ASSUME NEW t \in Threads, Start(t)
      PROVE  Current' = Current /\ Kept' = Kept
  <2>1. Lines(file)' = Lines(file)
    BY <1>2, <1>7 DEF Start, Lines
  <2>. QED BY <1>7, <2>1, CurrentSame DEF Start, Current
<1>8. CASE Exit
  <2>1. Current' = Current
    <3>1. CASE open
      <4>1. file' = Lines(file) \o buffer /\ buffer' = <<>> /\ Lines(file) \o buffer \in Seq(Line)
        BY <1>1, <1>8, <3>1 DEF Exit, Forget
      <4>2. Lines(file)' = Lines(file) \o buffer
        BY <4>1, Exists DEF Lines
      <4>. QED BY <1>1, <4>1, <4>2 DEF Current
    <3>2. CASE ~open
      BY <1>0, <1>8, <3>2 DEF Current, Exit, Forget, Stages, Lines
    <3>. QED BY <3>1, <3>2
  <2>. QED BY <1>8, <2>1, CurrentSame DEF Exit
<1>9. CASE Spill
  <2>1. file \in Seq(Line) /\ buffer # <<>> /\ buffer \in Seq(Line) /\ Head(buffer) \in Line
        /\ file' = Append(file, Head(buffer)) /\ buffer' = Tail(buffer)
    BY <1>0, <1>9 DEF Spill, Stages, LinesOK
  <2>2. Lines(file) = file /\ Lines(file)' = file'
    BY <2>1, Exists, AppendProperties DEF Lines
  <2>3. Current' = Current
    BY <2>1, <2>2, MoveHead DEF Current
  <2>. QED BY <1>9, <2>3, CurrentSame DEF Spill
<1>10. CASE Forget /\ UNCHANGED disk /\ buffer = <<>>
  <2>1. UNCHANGED <<file, buffer, old>>
    BY <1>10 DEF Forget, disk
  <2>. QED BY <2>1, CurrentSame DEF Current, Lines
<1>. QED BY <1>4, <1>5, <1>6, <1>7, <1>8, <1>9, <1>10

(* ... Insert adds one at the end ...                                      *)
LEMMA InsertStep ==
    ASSUME LogInv, LinesOK', NEW t \in Threads, Insert(t)
    PROVE  \/ /\ ~open /\ UNCHANGED written /\ Current' = Current /\ Kept' = Kept
           \/ /\ open
              /\ \E time \in {ShortTime, LongTime} :
                   /\ written' = Append(written, NewLine(t, time))
                   /\ Current' = Append(Current, NewLine(t, time))
                   /\ Kept' = Append(Kept, NewLine(t, time))
<1>0. LinesOK /\ Stages
  BY TypeParts DEF LogInv
<1>1. CASE ~open
  BY <1>1, Inserts, QuietSteps DEF Insert
<1>2. CASE open
  <2>1. PICK time \in {ShortTime, LongTime} :
             /\ written' = Append(written, NewLine(t, time))
             /\ \/ flush_stream /\ file' = Append(file, NewLine(t, time)) /\ buffer' = buffer
                \/ buffer' = Append(buffer, NewLine(t, time)) /\ file' = file
    BY <1>2, Inserts
  <2>2. NewLine(t, time) \in Line /\ file \in Seq(Line) /\ buffer \in Seq(Line) /\ UNCHANGED old
    BY <1>0, <1>2, NewLineTyped DEF Insert, Stages, LinesOK
  <2>3. Current' = Append(Current, NewLine(t, time))
    <3>1. CASE flush_stream /\ file' = Append(file, NewLine(t, time)) /\ buffer' = buffer
      <4>1. buffer = <<>> /\ buffer' = <<>>
        BY <1>0, <3>1 DEF Stages
      <4>2. Lines(file) = file /\ Lines(file)' = Append(file, NewLine(t, time))
        BY <2>2, <3>1, Exists, AppendProperties DEF Lines
      <4>3. Current = file /\ Current' = Append(file, NewLine(t, time))
        BY <2>2, <4>1, <4>2, ConcatEmptySeq, AppendProperties DEF Current
      <4>. QED BY <4>3
    <3>2. CASE buffer' = Append(buffer, NewLine(t, time)) /\ file' = file
      <4>1. Lines(file)' = Lines(file) /\ Lines(file) \in Seq(Line)
        BY <1>0, <3>2, LinesTyped DEF Lines
      <4>. QED BY <2>2, <3>2, <4>1, AppendConcat DEF Current
    <3>. QED BY <2>1, <3>1, <3>2
  <2>4. Kept' = Append(Kept, NewLine(t, time))
    <3>1. Lines(old)' = Lines(old) /\ Lines(old) \in Seq(Line) /\ Current \in Seq(Line)
      BY <1>0, <2>2, LinesTyped DEF Lines
    <3>2. Kept = Lines(old) \o Current /\ Kept' = Lines(old) \o Append(Current, NewLine(t, time))
      BY <1>0, <2>3, <3>1, KeptIs, KeptIsNext
    <3>. QED BY <2>2, <3>1, <3>2, AppendConcat
  <2>. QED BY <1>2, <2>1, <2>3, <2>4
<1>. QED BY <1>1, <1>2

(* ... and the others forget the oldest or the newest.                     *)
LEMMA RemoveStep ==
    ASSUME LogInv, LinesOK', NEW t \in Threads, RemoveOld(t)
    PROVE  Current' = Current /\ Kept' = Current
<1>0. LinesOK
  BY TypeParts DEF LogInv
<1>1. Current' = Current /\ Lines(old)' = <<>>
  BY DEF RemoveOld, Current, memory, Lines
<1>. QED BY <1>0, <1>1, KeptIsNext, LinesTyped, ConcatEmptySeq

(* The rename makes the current file the old one.                          *)
LEMMA RenameStep ==
    ASSUME LogInv, LinesOK', NEW t \in Threads, RenameToOld(t)
    PROVE  Current' = <<>> /\ Kept = Current /\ Kept' = Kept
<1>0. LinesOK /\ Stages
  BY TypeParts DEF LogInv
<1>1. old = Absent /\ buffer = <<>> /\ buffer' = <<>> /\ file' = Absent /\ old' = file /\ file # Absent
  BY <1>0 DEF Stages, RenameToOld, memory
<1>2. file \in Seq(Line) /\ <<>> \in Seq(Line)
  BY <1>0, <1>1 DEF LinesOK
<1>3. /\ Lines(old) = <<>> /\ Lines(file) = file /\ Lines(old)' = file /\ Lines(file)' = <<>>
  BY <1>1 DEF Lines
<1>. QED BY <1>1, <1>2, <1>3, ConcatEmptySeq DEF Kept, Current

(* What dies with the process is the buffer.                               *)
LEMMA DieStep ==
    ASSUME LogInv, LinesOK', Forget, UNCHANGED disk
    PROVE  /\ Kept = Kept' \o buffer /\ Kept' \in Seq(Line)
           /\ buffer = <<>> => Kept' = Kept
<1>0. LinesOK
  BY TypeParts DEF LogInv
<1>1. Lines(file)' = Lines(file) /\ Lines(old)' = Lines(old) /\ buffer' = <<>>
  BY DEF Forget, disk, Lines
<1>2. Lines(old) \o Lines(file) \in Seq(Line) /\ Kept' = Lines(old) \o Lines(file)
  <2>1. Lines(old) \o Lines(file) \in Seq(Line)
    BY <1>0, LinesTyped
  <2>. QED BY <1>1, <2>1, ConcatEmptySeq DEF Kept
<1>3. Kept = Kept' \o buffer
  BY <1>2 DEF Kept
<1>. QED BY <1>0, <1>2, <1>3, QuietSteps

(* What a step can do to the lines that are kept.                          *)
Lose == Forget /\ UNCHANGED disk /\ cut' = (cut \/ buffer # <<>>)

LEMMA KeptSteps ==
    ASSUME LogInv, LinesOK', [Next]_vars
    PROVE  \/ \E t \in Threads : Insert(t)
           \/ /\ written' = written /\ recopied \subseteq recopied' /\ (cut => cut')
              /\ Kept' = Kept \/ (\E t \in Threads : RemoveOld(t)) \/ Lose
<1> DEFINE Rest == written' = written /\ recopied \subseteq recopied' /\ (cut => cut')
           Goal == Kept' = Kept \/ (\E t \in Threads : RemoveOld(t)) \/ Lose
<1>1. ASSUME NEW t \in Threads, Log(t) \/ Copy(t) \/ Drop(t) \/ Measure(t)
      PROVE  Rest /\ Goal
  <2>1. UNCHANGED <<file, old, buffer, written, cut>>
    BY <1>1 DEF Log, Copy, Drop, Measure, disk, memory, hist, record
  <2>2. recopied \subseteq recopied'
    <3>1. CASE Copy(t)
      BY <3>1 DEF Copy, Recopied
    <3>2. CASE Log(t) \/ Drop(t) \/ Measure(t)
      BY <3>2 DEF Log, Drop, Measure, hist, record
    <3>. QED BY <1>1, <3>1, <3>2
  <2>. QED BY <2>1, <2>2, QuietSteps
<1>2. ASSUME NEW t \in Threads, CloseStream(t) \/ OpenStream(t) \/ Start(t)
      PROVE  Rest /\ Goal
  <2>1. Rest
    BY <1>2 DEF CloseStream, OpenStream, Start, hist, record
  <2>2. Kept' = Kept
    BY <1>2, QuietSteps
  <2>. QED BY <2>1, <2>2
<1>3. ASSUME NEW t \in Threads, RemoveOld(t) \/ RenameToOld(t)
      PROVE  Rest /\ Goal
  <2>1. Rest
    BY <1>3 DEF RemoveOld, RenameToOld, hist, record
  <2>. QED BY <1>3, <2>1, RenameStep
<1>4. ASSUME NEW t \in Threads, FileSystemFails(t) \/ NothingToRename(t)
      PROVE  Rest /\ Goal
  <2>1. pc[t] \in {"removing", "renaming", "reopening"} /\ Throw(t)
    BY <1>4 DEF FileSystemFails, NothingToRename
  <2>2. buffer = <<>> /\ UNCHANGED disk /\ UNCHANGED <<written, recopied>>
    BY <2>1 DEF Throw, LogInv, Stages
  <2>3. CASE Forget /\ UNCHANGED cut
    BY <2>2, <2>3, QuietSteps
  <2>4. CASE UNCHANGED <<memory, cut>>
    <3>1. UNCHANGED <<file, buffer, old>>
      BY <2>2, <2>4 DEF memory, disk
    <3>. QED BY <2>2, <2>4, <3>1, QuietSteps
  <2>5. CASE Die
    BY <2>2, <2>5 DEF Die, Lose
  <2>. QED BY <2>1, <2>3, <2>4, <2>5 DEF Throw
<1>5. CASE Crash
  BY <1>5 DEF Crash, Die, Lose
<1>6. CASE Exit \/ Spill
  <2>1. Rest
    BY <1>6 DEF Exit, Spill, hist, record
  <2>. QED BY <1>6, <2>1, QuietSteps
<1>7. CASE UNCHANGED vars
  <2>1. UNCHANGED <<file, old, buffer>> /\ Rest
    BY <1>7 DEF vars, disk, memory, hist, record
  <2>. QED BY <2>1, QuietSteps
<1>. QED BY <1>1, <1>2, <1>3, <1>4, <1>5, <1>6, <1>7 DEF Next

(* Nobody's line is kept twice or out of order.                            *)
LEMMA OrderedStep == LogInv /\ Ordered /\ [Next]_vars => Ordered'
<1> SUFFICES ASSUME LogInv, Ordered, [Next]_vars
             PROVE  Ordered'
  OBVIOUS
<1>0. LinesOK /\ LinesOK' /\ Kept \in Seq(Line) /\ Current \in Seq(Line) /\ Lines(old) \in Seq(Line)
  BY LinesStep, LinesTyped, TypeParts DEF LogInv
<1>1. ASSUME NEW c \in Nat, UNCHANGED written, recopied \subseteq recopied',
             \A i \in DOMAIN Kept' : i \in Nat /\ i + c \in DOMAIN Kept /\ Kept'[i] = Kept[i + c]
      PROVE  Ordered'
  <2>1. \A i \in DOMAIN Kept' : \E k \in DOMAIN written : written[k] = Kept'[i]
    BY <1>1 DEF Ordered
  <2>2. ASSUME NEW i \in DOMAIN Kept', NEW j \in DOMAIN Kept', i < j
        PROVE  \E k, l \in DOMAIN written : k < l /\ written[k] = Kept'[i] /\ written[l] = Kept'[j]
    <3>1. i + c \in DOMAIN Kept /\ j + c \in DOMAIN Kept /\ i + c < j + c
      BY <1>1, <2>2
    <3>. QED BY <1>1, <3>1 DEF Ordered
  <2>. QED BY <1>1, <2>1, <2>2 DEF Ordered
<1>2. ASSUME NEW t \in Threads, RemoveOld(t), UNCHANGED written, recopied \subseteq recopied'
      PROVE  Ordered'
  <2>1. Kept' = Current /\ Kept = Lines(old) \o Current
    BY <1>0, <1>2, RemoveStep, KeptIs
  <2>2. \A i \in DOMAIN Current : /\ i \in Nat /\ i + Len(Lines(old)) \in DOMAIN Kept
                                  /\ Current[i] = Kept[i + Len(Lines(old))]
    BY <1>0, <2>1
  <2>3. Len(Lines(old)) \in Nat
    BY <1>0
  <2>. QED BY <1>1, <1>2, <2>1, <2>2, <2>3
<1>3. ASSUME Forget, UNCHANGED disk, UNCHANGED written, recopied \subseteq recopied'
      PROVE  Ordered'
  <2>1. Kept = Kept' \o buffer /\ Kept' \in Seq(Line) /\ buffer \in Seq(Line)
    BY <1>0, <1>3, DieStep DEF LinesOK
  <2>2. \A i \in DOMAIN Kept' : i \in Nat /\ i + 0 \in DOMAIN Kept /\ Kept'[i] = Kept[i + 0]
    BY <2>1
  <2>. QED BY <1>1, <1>3, <2>2
<1>4. CASE UNCHANGED written /\ recopied \subseteq recopied' /\ Kept' = Kept
  BY <1>4 DEF Ordered
<1>5. ASSUME NEW t \in Threads, Insert(t), open, NEW time \in {ShortTime, LongTime},
             written' = Append(written, NewLine(t, time)), Kept' = Append(Kept, NewLine(t, time))
      PROVE  Ordered'
  <2> DEFINE x == NewLine(t, time)
             n == Len(written)
             m == Len(Kept)
  <2>1. x \in Line /\ x.id = message[t].id
    BY <1>5, NewLineTyped DEF Insert
  <2>2. /\ recopied' = recopied
        /\ x.id \in recopied \/ \A i \in DOMAIN written : written[i].id # x.id
    BY <1>5, <2>1, Inserting DEF Insert, NotWritten
  <2>3. /\ n \in Nat /\ DOMAIN written = 1 .. n /\ DOMAIN written' = 1 .. n + 1
        /\ written'[n + 1] = x /\ \A i \in 1 .. n : written'[i] = written[i]
    BY <1>0, <1>5, <2>1, AppendProperties DEF LinesOK
  <2>4. /\ m \in Nat /\ DOMAIN Kept = 1 .. m /\ DOMAIN Kept' = 1 .. m + 1
        /\ Kept'[m + 1] = x /\ \A i \in 1 .. m : Kept'[i] = Kept[i]
    BY <1>0, <1>5, <2>1, AppendProperties
  <2> HIDE DEF x, n, m
  <2>5. ASSUME NEW i \in DOMAIN written', NEW j \in DOMAIN written', written'[i].id = written'[j].id
        PROVE  i = j \/ written'[i].id \in recopied'
    <3>1. CASE i \in 1 .. n /\ j \in 1 .. n
      BY <2>2, <2>3, <2>5, <3>1 DEF Ordered
    <3>2. CASE i = n + 1 \/ j = n + 1
      BY <2>2, <2>3, <2>5, <3>2
    <3>. QED BY <2>3, <3>1, <3>2
  <2>6. ASSUME NEW i \in 1 .. m
        PROVE  \E k \in 1 .. n : written'[k] = Kept'[i]
    <3>1. PICK k \in DOMAIN written : written[k] = Kept[i]
      BY <2>4 DEF Ordered
    <3>. QED BY <2>3, <2>4, <3>1
  <2>7. \A i \in DOMAIN Kept' : \E k \in DOMAIN written' : written'[k] = Kept'[i]
    <3> SUFFICES ASSUME NEW i \in 1 .. m + 1
                 PROVE  \E k \in 1 .. n + 1 : written'[k] = Kept'[i]
      BY <2>3, <2>4
    <3>1. CASE i = m + 1
      BY <2>3, <2>4, <3>1
    <3>2. CASE i # m + 1
      <4>1. PICK k \in 1 .. n : written'[k] = Kept'[i]
        BY <2>4, <2>6, <3>2
      <4>2. k \in 1 .. n + 1
        BY <2>3
      <4>. QED BY <4>1, <4>2
    <3>. QED BY <3>1, <3>2
  <2>8. ASSUME NEW i \in DOMAIN Kept', NEW j \in DOMAIN Kept', i < j
        PROVE  \E k, l \in DOMAIN written' :
                   k < l /\ written'[k] = Kept'[i] /\ written'[l] = Kept'[j]
    <3>1. i \in 1 .. m /\ j \in 1 .. m + 1
      BY <2>4, <2>8
    <3>2. CASE j = m + 1
      <4>1. PICK k \in 1 .. n : written'[k] = Kept'[i]
        BY <2>6, <3>1
      <4>2. k \in DOMAIN written' /\ n + 1 \in DOMAIN written' /\ k < n + 1
        BY <2>3
      <4>3. written'[n + 1] = Kept'[j]
        BY <2>3, <2>4, <3>2
      <4>. QED BY <4>1, <4>2, <4>3
    <3>3. CASE j # m + 1
      <4>1. j \in 1 .. m
        BY <2>4, <3>1, <3>3
      <4>2. PICK k \in DOMAIN written, l \in DOMAIN written : k < l /\ written[k] = Kept[i] /\ written[l] = Kept[j]
        BY <2>4, <2>8, <3>1, <4>1 DEF Ordered
      <4>3. k \in 1 .. n /\ l \in 1 .. n /\ k \in DOMAIN written' /\ l \in DOMAIN written'
        BY <2>3
      <4>. QED BY <2>3, <2>4, <3>1, <4>1, <4>2, <4>3
    <3>. QED BY <3>2, <3>3
  <2>. QED BY <2>5, <2>7, <2>8 DEF Ordered
<1>6. ASSUME NEW t \in Threads, Insert(t)
      PROVE  Ordered'
  <2>1. recopied' = recopied
    BY <1>6 DEF Insert
  <2>. QED BY <1>0, <1>4, <1>5, <1>6, <2>1, InsertStep
<1>7. \/ \E t \in Threads : Insert(t)
      \/ /\ written' = written /\ recopied \subseteq recopied'
         /\ Kept' = Kept \/ (\E t \in Threads : RemoveOld(t)) \/ Lose
  BY <1>0, KeptSteps
<1>. QED BY <1>2, <1>3, <1>4, <1>6, <1>7 DEF Lose

(* The lines that are kept are the last ones.                              *)
LEMMA CompleteStep == LogInv /\ Complete /\ [Next]_vars => Complete'
<1> SUFFICES ASSUME LogInv, Complete, [Next]_vars, ~cut'
             PROVE  IsEnd(Kept, written)'
  BY DEF Complete
<1>0. LinesOK /\ LinesOK' /\ RestOK /\ Kept \in Seq(Line) /\ Current \in Seq(Line) /\ Lines(old) \in Seq(Line)
      /\ written \in Seq(Line)
  BY LinesStep, LinesTyped, TypeParts DEF LogInv, LinesOK
<1>1. ASSUME ~cut
      PROVE  IsEnd(Kept, written)
  BY <1>1 DEF Complete
<1>2. ASSUME NEW t \in Threads, RemoveOld(t), ~cut, UNCHANGED written
      PROVE  IsEnd(Kept, written)'
  <2> DEFINE o == Len(Lines(old))
             c == Len(Current)
             n == Len(written)
  <2>1. Kept' = Current /\ Kept = Lines(old) \o Current /\ o \in Nat /\ c \in Nat /\ n \in Nat
    BY <1>0, <1>2, RemoveStep, KeptIs
  <2>2. Len(Kept) = o + c /\ DOMAIN Current = 1 .. c
        /\ \A i \in 1 .. c : i + o \in DOMAIN Kept /\ Current[i] = Kept[i + o]
    BY <1>0, <2>1
  <2>3. Len(Kept) <= n /\ \A i \in DOMAIN Kept : Kept[i] = written[n - Len(Kept) + i]
    BY <1>1, <1>2 DEF IsEnd
  <2> HIDE DEF o, c, n
  <2>4. \A i \in 1 .. c : Current[i] = written[n - c + i]
    <3> SUFFICES ASSUME NEW i \in 1 .. c
                 PROVE  Current[i] = written[n - c + i]
      OBVIOUS
    <3>1. Current[i] = written[n - Len(Kept) + (i + o)]
      BY <2>2, <2>3
    <3>2. n - Len(Kept) + (i + o) = n - c + i
      BY <2>1, <2>2
    <3>. QED BY <3>1, <3>2
  <2>5. c <= n
    BY <2>1, <2>2, <2>3
  <2>. QED BY <1>2, <2>1, <2>2, <2>4, <2>5 DEF IsEnd, c, n
<1>3. ASSUME NEW t \in Threads, Insert(t), open
      PROVE  IsEnd(Kept, written)'
  <2>1. ~cut /\ pc[t] = "inserting"
    BY <1>3 DEF Insert
  <2>3. PICK time \in {ShortTime, LongTime} :
             written' = Append(written, NewLine(t, time)) /\ Kept' = Append(Kept, NewLine(t, time))
    BY <1>0, <1>3, InsertStep
  <2> DEFINE x == NewLine(t, time)
             n == Len(written)
             m == Len(Kept)
  <2>4. x \in Line /\ x.id = message[t].id
    BY <2>1, NewLineTyped
  <2>5. /\ n \in Nat /\ DOMAIN written = 1 .. n /\ DOMAIN written' = 1 .. n + 1 /\ Len(written') = n + 1
        /\ written'[n + 1] = x /\ \A i \in 1 .. n : written'[i] = written[i]
    BY <1>0, <2>3, <2>4, AppendProperties
  <2>6. /\ m \in Nat /\ DOMAIN Kept = 1 .. m /\ DOMAIN Kept' = 1 .. m + 1 /\ Len(Kept') = m + 1
        /\ Kept'[m + 1] = x /\ \A i \in 1 .. m : Kept'[i] = Kept[i]
    BY <1>0, <2>3, <2>4, AppendProperties
  <2>7. m <= n /\ \A i \in 1 .. m : Kept[i] = written[n - m + i]
    BY <1>1, <2>1, <2>6 DEF IsEnd
  <2> HIDE DEF x, n, m
  <2>8. ASSUME NEW i \in 1 .. m + 1
        PROVE  Kept'[i] = written'[n + 1 - (m + 1) + i]
    <3>1. CASE i = m + 1
      <4>1. n + 1 - (m + 1) + i = n + 1
        BY <2>5, <2>6, <3>1
      <4>. QED BY <2>5, <2>6, <3>1, <4>1
    <3>2. CASE i # m + 1
      <4>1. i \in 1 .. m /\ n - m + i \in 1 .. n /\ n + 1 - (m + 1) + i = n - m + i
        BY <2>5, <2>6, <2>7, <3>2
      <4>. QED BY <2>5, <2>6, <2>7, <4>1
    <3>. QED BY <3>1, <3>2
  <2>9. m + 1 <= n + 1
    BY <2>5, <2>6, <2>7
  <2>. QED BY <2>5, <2>6, <2>8, <2>9 DEF IsEnd
<1>4. ASSUME NEW t \in Threads, Insert(t), ~open
      PROVE  IsEnd(Kept, written)'
  <2>1. ~cut /\ Kept' = Kept /\ written' = written
    BY <1>0, <1>4, InsertStep DEF Insert
  <2>. QED BY <1>1, <2>1 DEF IsEnd
<1>5. ASSUME written' = written, cut => cut',
             Kept' = Kept \/ (\E t \in Threads : RemoveOld(t)) \/ Lose
      PROVE  IsEnd(Kept, written)'
  <2>1. ~cut
    BY <1>5
  <2>2. CASE Kept' = Kept
    BY <1>1, <1>5, <2>1, <2>2 DEF IsEnd
  <2>3. ASSUME NEW t \in Threads, RemoveOld(t)
        PROVE  IsEnd(Kept, written)'
    BY <1>2, <1>5, <2>1, <2>3
  <2>4. CASE Lose
    <3>1. Kept' = Kept
      BY <1>0, <2>4, DieStep DEF Lose
    <3>. QED BY <1>1, <1>5, <2>1, <3>1 DEF IsEnd
  <2>. QED BY <1>5, <2>2, <2>3, <2>4
<1>6. \/ \E t \in Threads : Insert(t)
      \/ /\ written' = written /\ (cut => cut')
         /\ Kept' = Kept \/ (\E t \in Threads : RemoveOld(t)) \/ Lose
  BY <1>0, KeptSteps
<1>. QED BY <1>3, <1>4, <1>5, <1>6

(* A call returns when its message is written, by whichever copy.          *)
LEMMA AllWrittenStep == LogInv /\ AllWritten /\ [Next]_vars => AllWritten'
<1> SUFFICES ASSUME LogInv, AllWritten, [Next]_vars, ~failed', NEW d \in returned'
             PROVE  \E i \in DOMAIN written' : d = written'[i].id
  BY DEF AllWritten
<1>0. LinesOK /\ LinesOK' /\ ThreadsOK /\ RestOK /\ written \in Seq(Line)
  BY LinesStep, TypeParts DEF LogInv, LinesOK
<1>1. ASSUME ~failed, d \in returned, UNCHANGED written
      PROVE  \E i \in DOMAIN written' : d = written'[i].id
  BY <1>1 DEF AllWritten
<1>2. ASSUME NEW t \in Threads, Insert(t)
      PROVE  \E i \in DOMAIN written' : d = written'[i].id
  <2>1. ~failed /\ returned' = returned \cup {message[t].id} /\ pc[t] = "inserting"
    BY <1>2 DEF Insert
  <2>2. open
    <3>1. life = "up" /\ protect_write_ = t
      BY <1>2, <2>1, Inserting DEF LogInv, Stages, Within
    <3>2. \A u \in Threads : pc[u] \in Within => u = t
      BY <3>1 DEF LogInv, Stages
    <3>3. \A u \in Threads : pc[u] \notin Renaming
      BY <2>1, <3>2 DEF Within, Renaming
    <3>. QED BY <2>1, <3>1, <3>3 DEF LogInv, Failures
  <2>3. PICK time \in {ShortTime, LongTime} : written' = Append(written, NewLine(t, time))
    BY <1>0, <1>2, <2>2, InsertStep
  <2> DEFINE x == NewLine(t, time)
             n == Len(written)
  <2>4. x \in Line /\ x.id = message[t].id
    BY <2>1, NewLineTyped
  <2>5. /\ n \in Nat /\ DOMAIN written = 1 .. n /\ DOMAIN written' = 1 .. n + 1
        /\ written'[n + 1] = x /\ \A i \in 1 .. n : written'[i] = written[i]
    BY <1>0, <2>3, <2>4, AppendProperties
  <2> HIDE DEF x, n
  <2>6. n + 1 \in DOMAIN written' /\ \A i \in DOMAIN written : i \in DOMAIN written'
    BY <2>5
  <2>7. CASE d = message[t].id
    BY <2>4, <2>5, <2>6, <2>7
  <2>8. CASE d \in returned
    <3>1. PICK i \in DOMAIN written : d = written[i].id
      BY <2>1, <2>8 DEF AllWritten
    <3>. QED BY <2>5, <2>6, <3>1
  <2>. QED BY <2>1, <2>7, <2>8
<1>3. ASSUME NEW t \in Threads, Drop(t)
      PROVE  \E i \in DOMAIN written' : d = written'[i].id
  <2>1. PICK i \in DOMAIN destroy_[t] :
             \/ destroy_[t][i] /\ returned' = returned
             \/ /\ ~destroy_[t][i]
                /\ returned' = returned \cup (IF RemoveAt(destroy_[t], i) = <<>> THEN {message[t].id} ELSE {})
    BY <1>3 DEF Drop
  <2>2. pc[t] = "streaming" /\ UNCHANGED <<written, failed>>
    BY <1>3 DEF Drop
  <2>3. message[t].id \in returned \/ \E j \in DOMAIN destroy_[t] : destroy_[t][j]
    BY <2>2 DEF LogInv, Flags, OneFlag
  <2>4. (~destroy_[t][i] /\ RemoveAt(destroy_[t], i) = <<>>) => message[t].id \in returned
    BY <2>2, <2>3, FlagsDropped
  <2>. QED BY <1>1, <2>1, <2>2, <2>4
<1>4. ASSUME NEW t \in Threads, FileSystemFails(t) \/ NothingToRename(t)
      PROVE  FALSE
  BY <1>4 DEF FileSystemFails, NothingToRename, Throw
<1>5. ASSUME UNCHANGED <<written, returned, failed>>
      PROVE  \E i \in DOMAIN written' : d = written'[i].id
  BY <1>1, <1>5
<1>6. ASSUME NEW t \in Threads, Log(t) \/ Copy(t) \/ Measure(t) \/ CloseStream(t)
                 \/ RemoveOld(t) \/ RenameToOld(t) \/ OpenStream(t) \/ Start(t)
      PROVE  UNCHANGED <<written, returned, failed>>
  BY <1>6 DEF Log, Copy, Measure, CloseStream, RemoveOld, RenameToOld, OpenStream, Start, hist, record
<1>7. CASE Crash \/ Exit \/ Spill \/ UNCHANGED vars
  BY <1>5, <1>7 DEF Crash, Exit, Spill, vars, hist, record
<1>. QED BY <1>2, <1>3, <1>4, <1>5, <1>6, <1>7 DEF Next

(* The end of a sequence is what SequencesExt calls a suffix.              *)
LEMMA EndIsSuffix ==
    ASSUME NEW s \in Seq(Line), NEW t \in Seq(Line), IsEnd(s, t)
    PROVE  IsSuffix(s, t)
<1> DEFINE m == Len(s)
           n == Len(t)
           a == Reverse(s)
           b == Reverse(t)
<1>1. m \in Nat /\ n \in Nat /\ m <= n /\ DOMAIN s = 1 .. m /\ DOMAIN t = 1 .. n
  BY DEF IsEnd
<1>2. a = [i \in 1 .. m |-> s[(m - i) + 1]] /\ b = [i \in 1 .. n |-> t[(n - i) + 1]]
  BY DEF Reverse
<1>3. /\ \A i \in 1 .. m : (m - i) + 1 \in 1 .. m
      /\ \A i \in 1 .. n : (n - i) + 1 \in 1 .. n
  BY <1>1
<1>4. a \in Seq(Line) /\ Len(a) = m /\ b \in Seq(Line) /\ Len(b) = n
  BY <1>1, <1>2, <1>3
<1>5. \A i \in 1 .. m : s[i] = t[n - m + i]
  BY <1>1 DEF IsEnd
<1>6. IsSuffix(s, t) <=> Len(a) <= Len(b) /\ SubSeq(a, 1, Len(a)) = SubSeq(b, 1, Len(a))
  BY DEF IsSuffix, IsPrefix
<1> HIDE DEF m, n, a, b
<1>7. ASSUME NEW i \in 1 .. m
      PROVE  a[i] = b[i]
  <2>1. i \in 1 .. n /\ n - m + ((m - i) + 1) = (n - i) + 1
    BY <1>1
  <2>. QED BY <1>2, <1>3, <1>5, <2>1
<1>8. SubSeq(a, 1, m) = SubSeq(b, 1, m)
  <2>1. /\ SubSeq(a, 1, m) = [i \in 1 .. m |-> a[i]]
        /\ SubSeq(b, 1, m) = [i \in 1 .. m |-> b[i]]
    BY <1>1, <1>4
  <2>. QED BY <1>7, <2>1
<1>. QED BY <1>1, <1>4, <1>6, <1>8

(* NewestKept: the files hold lines that were written, in order and each   *)
(* once but for what was copied again, through crashes, restarts and       *)
(* failures of the file system; the last of them, unless a crash took a    *)
(* buffer; and whatever was logged, unless a renaming failed.              *)
THEOREM NewestAreKept == Spec => []NewestKept
<1>1. Init => Ordered /\ Complete /\ AllWritten
  <2> SUFFICES ASSUME Init
               PROVE  Ordered /\ Complete /\ AllWritten
    OBVIOUS
  <2>1. <<>> \in Seq(Line) /\ Lines(old) = <<>> /\ Lines(file) = <<>> /\ buffer = <<>> /\ written = <<>>
        /\ returned = {}
    BY DEF Init, Lines
  <2>2. Kept = <<>>
    BY <2>1, ConcatEmptySeq DEF Kept
  <2>. QED BY <2>1, <2>2 DEF Ordered, Complete, AllWritten, IsEnd
<1>2. LogInv /\ Ordered /\ Complete /\ AllWritten => NewestKept
  <2> SUFFICES ASSUME LogInv, Ordered, Complete, AllWritten
               PROVE  NewestKept
    OBVIOUS
  <2>1. Kept \in Seq(Line) /\ written \in Seq(Line)
    BY TypeParts, LinesTyped DEF LogInv, LinesOK
  <2>2. ~cut => IsSuffix(Kept, written)
    BY <2>1, EndIsSuffix DEF Complete
  <2>. QED BY <2>2 DEF NewestKept, LogInv, Ordered, AllWritten
<1>. QED BY <1>1, <1>2, LogInvInit, LogInvStep, OrderedStep, CompleteStep, AllWrittenStep, PTL
         DEF Spec

-----------------------------------------------------------------------------
(* What the steps do to the counter.  Most of them nothing, and they leave *)
(* a write under the mutex where it is or between two places that say      *)
(* nothing of it.                                                          *)
Quiet ==
    /\ UNCHANGED <<life, open, current_file_size_, current_time_size, begun, swallowed>>
    /\ Current' = Current /\ (file' = Absent <=> file = Absent)
    /\ \A u \in Threads : pc'[u] \in Within =>
         /\ pc[u] \in Within /\ Due' = Due
         /\ pc'[u] = pc[u] \/ pc'[u] = "renaming"

(* The steps of a streamer ...                                             *)
LEMMA StreamerQuiet ==
    ASSUME LogInv, LinesOK', NEW t \in Threads, Log(t) \/ Copy(t) \/ Drop(t)
    PROVE  Quiet
<1>0. ThreadsOK /\ Stages
  BY TypeParts DEF LogInv
<1>1. /\ UNCHANGED <<life, open, current_file_size_, current_time_size, begun, swallowed>>
      /\ UNCHANGED <<file, old, buffer, protect_write_>>
  BY DEF Log, Copy, Drop, disk, memory, hist
<1>2. Current' = Current
  BY <1>1, QuietSteps
<1>3. /\ pc'[t] \notin Within
      /\ \A u \in Threads \ {t} : pc'[u] = pc[u] /\ message'[u] = message[u]
  <2>1. CASE Log(t)
    BY <1>0, <2>1 DEF Log, Goto, ThreadsOK, Within, Renaming
  <2>2. CASE Copy(t)
    BY <2>2 DEF Copy, Within, Renaming
  <2>3. CASE Drop(t)
    <3>1. PICK i \in DOMAIN destroy_[t] : \/ Goto(t, "locking") /\ UNCHANGED message
                                          \/ Leave(t, RemoveAt(destroy_[t], i))
      BY <2>3 DEF Drop
    <3>2. CASE Goto(t, "locking") /\ UNCHANGED message
      BY <1>0, <3>2, Going DEF Places, Within, Renaming
    <3>3. CASE Leave(t, RemoveAt(destroy_[t], i))
      BY <1>0, <3>3, Leaving DEF Within, Renaming
    <3>. QED BY <3>1, <3>2, <3>3
  <2>. QED BY <2>1, <2>2, <2>3
<1>4. ASSUME NEW u \in Threads, pc'[u] \in Within
      PROVE  pc[u] \in Within /\ Due' = Due /\ pc'[u] = pc[u]
  <2>1. u # t /\ pc'[u] = pc[u] /\ message'[u] = message[u]
    BY <1>3, <1>4
  <2>2. protect_write_ = u /\ protect_write_' = u
    BY <1>0, <1>1, <1>4, <2>1 DEF Stages
  <2>3. Due' = Due
    BY <1>1, <2>1, <2>2 DEF Due, message_size
  <2>. QED BY <1>4, <2>1, <2>3
<1>. QED BY <1>1, <1>2, <1>4 DEF Quiet

(* ... and those that change no line of the current file.                  *)
LEMMA OtherQuiet ==
    ASSUME LogInv, LinesOK', Spill \/ UNCHANGED vars \/ \E t \in Threads : RemoveOld(t)
    PROVE  Quiet
<1>0. LinesOK /\ ThreadsOK /\ Stages
  BY TypeParts DEF LogInv
<1>1. CASE Spill
  <2>1. /\ UNCHANGED <<life, open, current_file_size_, current_time_size, begun, swallowed>>
        /\ UNCHANGED <<pc, message, protect_write_>>
    BY <1>1 DEF Spill, callers, hist
  <2>2. file \in Seq(Line) /\ file' = Append(file, Head(buffer)) /\ Head(buffer) \in Line
    BY <1>0, <1>1 DEF Spill, Stages, LinesOK
  <2>3. file' # Absent /\ file # Absent
    BY <2>2, Exists, AppendProperties
  <2>4. Due' = Due
    BY <2>1 DEF Due, message_size
  <2>. QED BY <1>1, <2>1, <2>3, <2>4, QuietSteps DEF Quiet
<1>2. CASE UNCHANGED vars
  <2>1. /\ UNCHANGED <<life, open, current_file_size_, current_time_size, begun, swallowed>>
        /\ UNCHANGED <<pc, message, protect_write_>> /\ UNCHANGED <<file, buffer, old>>
    BY <1>2 DEF vars, callers, hist, memory, disk
  <2>2. Due' = Due
    BY <2>1 DEF Due, message_size
  <2>. QED BY <2>1, <2>2, QuietSteps DEF Quiet
<1>3. ASSUME NEW t \in Threads, RemoveOld(t)
      PROVE  Quiet
  <2>1. /\ UNCHANGED <<life, open, current_file_size_, current_time_size, begun, swallowed>>
        /\ UNCHANGED <<message, protect_write_, file>> /\ pc[t] = "removing"
    BY <1>3 DEF RemoveOld, memory, hist
  <2>2. pc'[t] = "renaming" /\ \A u \in Threads \ {t} : pc'[u] = pc[u]
    BY <1>0, <1>3 DEF RemoveOld, Goto, ThreadsOK
  <2>3. Due' = Due
    BY <2>1 DEF Due, message_size
  <2>4. Current' = Current
    BY <1>3, RemoveStep
  <2>. QED BY <2>1, <2>2, <2>3, <2>4 DEF Quiet, Within, Renaming
<1>. QED BY <1>1, <1>2, <1>3

(* When a write is over nobody holds the mutex.                            *)
LEMMA NobodyWithin ==
    ASSUME LogInv, NEW t \in Threads, pc[t] \in Within, EndWrite(t)
    PROVE  \A u \in Threads : pc'[u] \notin Within
<1>0. ThreadsOK /\ Stages
  BY TypeParts DEF LogInv
<1>1. pc'[t] \in {"idle", "streaming"} /\ \A u \in Threads \ {t} : pc'[u] = pc[u]
  BY <1>0, Leaving DEF EndWrite
<1>. QED BY <1>0, <1>1 DEF Stages, Within, Renaming

(* The measured message has room, or the file is renamed.                  *)
LEMMA MeasureStep ==
    ASSUME LogInv, LinesOK', NEW t \in Threads, Measure(t)
    PROVE  /\ UNCHANGED <<life, open, current_file_size_, begun, swallowed, file>>
           /\ life = "up" /\ Current' = Current
           /\ current_time_size' \in {ShortTime, LongTime}
           /\ current_time_size \in {0, current_time_size'}
           /\ Due' \in Nat
           /\ \A u \in Threads \ {t} : pc'[u] \notin Within
           /\ \/ pc'[t] = "closing" /\ current_file_size_ + Due' >= Limit
              \/ pc'[t] = "inserting" /\ current_file_size_ + Due' < Limit
<1>0. ThreadsOK /\ RestOK /\ Stages /\ Limit \in Nat /\ ShortTime \in Nat \ {0} /\ LongTime \in Nat
  BY TypeParts, LogAssumption DEF LogInv
<1>1. life = "up" /\ message[t].text \in Nat
  BY Holding DEF Measure
<1>2. /\ UNCHANGED <<life, open, current_file_size_, begun, swallowed, file, old, buffer, message>>
      /\ protect_write_ = NULL /\ protect_write_' = t
  BY DEF Measure, disk, hist
<1>3. Current' = Current
  BY <1>2, QuietSteps
<1>4. PICK time \in IF current_time_size = 0 THEN {ShortTime, LongTime} ELSE {current_time_size} :
           /\ current_time_size' = time
           /\ Goto(t, IF Full(message_size(time, message[t].text)) THEN "closing" ELSE "inserting")
  BY DEF Measure
<1>5. time \in {ShortTime, LongTime} /\ time \in Nat /\ current_time_size \in {0, time}
  BY <1>0, <1>4 DEF RestOK
<1>6. Due' = message_size(time, message[t].text)
  BY <1>1, <1>2, <1>4, LogAssumption DEF Due
<1>7. Due' \in Nat
  BY <1>1, <1>5, <1>6 DEF message_size
<1>8. \A u \in Threads \ {t} : pc'[u] \notin Within
  BY <1>0, <1>2, <1>4, LogAssumption DEF Stages, Goto, ThreadsOK
<1>9. \/ pc'[t] = "closing" /\ current_file_size_ + Due' >= Limit
      \/ pc'[t] = "inserting" /\ ~(current_file_size_ + Due' >= Limit)
  BY <1>0, <1>4, <1>6 DEF Full, Goto, ThreadsOK
<1>10. current_file_size_ \in Nat
  BY <1>0 DEF RestOK
<1>11. \/ pc'[t] = "closing" /\ current_file_size_ + Due' >= Limit
       \/ pc'[t] = "inserting" /\ current_file_size_ + Due' < Limit
  <2> DEFINE d == Due'
             c == current_file_size_
  <2>1. d \in Nat /\ c \in Nat /\ Limit \in Nat
    BY <1>0, <1>7, <1>10
  <2> HIDE DEF d, c
  <2>2. ~(c + d >= Limit) => c + d < Limit
    BY <2>1
  <2>. QED BY <1>9, <2>2 DEF d, c
<1>. QED BY <1>1, <1>2, <1>3, <1>4, <1>5, <1>7, <1>8, <1>11

(* The stream is closed for a message that had no room.                    *)
LEMMA CloseStep ==
    ASSUME LogInv, LinesOK', NEW t \in Threads, CloseStream(t)
    PROVE  /\ UNCHANGED <<life, current_file_size_, current_time_size, swallowed>>
           /\ Current' = Current /\ ~open' /\ Due' = Due /\ life # "down"
           /\ begun' = (IF open THEN Due ELSE begun)
           /\ file' # Absent => open \/ file # Absent
           /\ pc[t] = "closing" /\ pc'[t] = "removing"
           /\ \A u \in Threads \ {t} : pc'[u] \notin Within
<1>0. ThreadsOK /\ Stages
  BY TypeParts DEF LogInv
<1>1. pc[t] = "closing" /\ pc[t] \in Within /\ life # "down"
  BY <1>0 DEF CloseStream, Stages, Within, Renaming
<1>2. pc'[t] = "removing" /\ \A u \in Threads \ {t} : pc'[u] = pc[u]
  BY <1>0 DEF CloseStream, Goto, ThreadsOK
<1>3. \A u \in Threads \ {t} : pc'[u] \notin Within
  BY <1>0, <1>1, <1>2 DEF Stages
<1>4. /\ UNCHANGED <<life, current_file_size_, current_time_size, swallowed, message, protect_write_>>
      /\ ~open' /\ begun' = (IF open THEN Due ELSE begun)
      /\ file' # Absent => open \/ file # Absent
  BY DEF CloseStream
<1>5. Due' = Due
  BY <1>4 DEF Due, message_size
<1>6. Current' = Current
  BY QuietSteps
<1>. QED BY <1>1, <1>2, <1>3, <1>4, <1>5, <1>6

(* The renaming takes the lines away, the counter stays.                   *)
LEMMA RenamedStep ==
    ASSUME LogInv, LinesOK', NEW t \in Threads, RenameToOld(t)
    PROVE  /\ UNCHANGED <<life, open, current_file_size_, current_time_size, begun, swallowed>>
           /\ Current' = <<>> /\ file' = Absent /\ ~open
           /\ \A u \in Threads : pc'[u] \in Within => pc[u] \in Within /\ pc'[u] = "reopening"
<1>0. ThreadsOK /\ Stages
  BY TypeParts DEF LogInv
<1>1. pc[t] = "renaming" /\ pc[t] \in Within /\ ~open
  BY <1>0 DEF RenameToOld, Stages, Within, Renaming
<1>2. pc'[t] = "reopening" /\ \A u \in Threads \ {t} : pc'[u] = pc[u]
  BY <1>0 DEF RenameToOld, Goto, ThreadsOK
<1>3. \A u \in Threads \ {t} : pc'[u] \notin Within
  BY <1>0, <1>1, <1>2 DEF Stages
<1>4. UNCHANGED <<life, open, current_file_size_, current_time_size, begun, swallowed>> /\ file' = Absent
  BY DEF RenameToOld, memory, hist
<1>. QED BY <1>1, <1>2, <1>3, <1>4, RenameStep

(* A new file is empty and so is the counter.                              *)
LEMMA OpenStep ==
    ASSUME LogInv, LinesOK', NEW t \in Threads, OpenStream(t)
    PROVE  /\ Current' = <<>> /\ open' /\ life' = "up" /\ current_file_size_' = 0
           /\ begun' = 0 /\ swallowed' = 0 /\ current_time_size' = current_time_size
           /\ \A u \in Threads : pc'[u] \in Within =>
                life = "up" /\ pc[u] \in Within /\ pc'[u] = "inserting"
<1>0. ThreadsOK /\ RestOK /\ Stages
  BY TypeParts DEF LogInv
<1>1. pc[t] = "reopening" /\ pc[t] \in Within /\ life # "down" /\ buffer' = <<>> /\ file' = <<>>
  BY <1>0 DEF OpenStream, Stages, Within, Renaming
<1>2. Current' = <<>>
  BY <1>1, ConcatEmptySeq DEF Current, Lines
<1>3. /\ open' /\ current_file_size_' = 0 /\ begun' = 0 /\ swallowed' = 0
      /\ current_time_size' = current_time_size
  BY DEF OpenStream, NewSize
<1>4. CASE life = "opening"
  <2>1. life' = "up" /\ EndWrite(t)
    BY <1>4 DEF OpenStream
  <2>. QED BY <1>1, <1>2, <1>3, <2>1, NobodyWithin
<1>5. CASE life # "opening"
  <2>1. life = "up" /\ life' = "up" /\ Goto(t, "inserting")
    BY <1>0, <1>1, <1>5 DEF OpenStream, RestOK
  <2>2. pc'[t] = "inserting" /\ \A u \in Threads \ {t} : pc'[u] = pc[u]
    BY <1>0, <2>1 DEF Goto, ThreadsOK
  <2>3. \A u \in Threads \ {t} : pc'[u] \notin Within
    BY <1>0, <1>1, <2>2 DEF Stages
  <2>. QED BY <1>1, <1>2, <1>3, <2>1, <2>2, <2>3
<1>. QED BY <1>4, <1>5

(* A line is counted, whether the stream takes or swallows it.             *)
LEMMA CountStep ==
    ASSUME LogInv, LinesOK', NEW t \in Threads, Insert(t)
    PROVE  /\ UNCHANGED <<life, open, current_time_size, begun>>
           /\ life = "up" /\ pc[t] = "inserting" /\ message[t].text \in Nat
           /\ Due = 3 + current_time_size + message[t].text
           /\ current_file_size_' = current_file_size_ + Due
           /\ \A u \in Threads : pc'[u] \notin Within
           /\ \/ /\ ~open /\ Current' = Current /\ swallowed' = swallowed + Due
                 /\ UNCHANGED file
              \/ /\ open /\ swallowed' = swallowed /\ file # Absent
                 /\ \E line \in Line, time \in {ShortTime, LongTime} :
                      /\ Current' = Append(Current, line)
                      /\ line.size = 2 + time + message[t].text
<1>0. ThreadsOK /\ RestOK /\ Stages /\ TypeOK
  BY TypeParts DEF LogInv
<1>1. /\ UNCHANGED <<life, open, current_time_size, begun>> /\ EndWrite(t)
      /\ current_file_size_' = current_file_size_ + Due
      /\ pc[t] = "inserting" /\ pc[t] \in Within /\ life = "up"
      /\ message[t].text \in Nat
  BY Holding DEF Insert, Within
<1>2. Due = 3 + current_time_size + message[t].text
  <2>1. Due = message_size(current_time_size, message[t].text)
    BY <1>0, <1>1, DueIs
  <2>2. current_time_size \in Nat
    BY <1>0, LogAssumption DEF RestOK
  <2>. QED BY <1>1, <2>1, <2>2 DEF message_size
<1>3. CASE ~open
  <2>1. swallowed' = swallowed + Due /\ UNCHANGED file
    BY <1>3 DEF Insert
  <2>2. Current' = Current
    BY <1>3, InsertStep
  <2>. QED BY <1>1, <1>2, <1>3, <2>1, <2>2, NobodyWithin
<1>4. CASE open
  <2>1. swallowed' = swallowed /\ file # Absent
    BY <1>0, <1>4 DEF Insert, Stages
  <2>2. PICK time \in {ShortTime, LongTime} : Current' = Append(Current, NewLine(t, time))
    BY <1>4, InsertStep
  <2>3. NewLine(t, time) \in Line /\ NewLine(t, time).size = 2 + time + message[t].text
    BY <1>1, NewLineTyped
  <2>. QED BY <1>1, <1>2, <1>4, <2>1, <2>2, <2>3, NobodyWithin
<1>. QED BY <1>3, <1>4

(* The counter starts with the size of the file.                           *)
LEMMA StartStep ==
    ASSUME LogInv, LinesOK', NEW t \in Threads, Start(t)
    PROVE  /\ UNCHANGED <<current_time_size, begun, swallowed>>
           /\ life = "down" /\ Current' = Current /\ open'
           /\ current_file_size_' = Bytes(Current)
           /\ \/ /\ life' = "up" /\ ~(Bytes(Current) >= Limit)
                 /\ \A u \in Threads : pc'[u] \notin Within
              \/ /\ life' = "opening" /\ Bytes(Current) >= Limit /\ Due' = 0
                 /\ \A u \in Threads : pc'[u] \in Within => pc'[u] = "closing"
<1>0. LinesOK /\ ThreadsOK /\ RestOK /\ Stages
  BY TypeParts DEF LogInv
<1>1. /\ life = "down" /\ buffer = <<>> /\ \A u \in Threads : pc[u] = "idle"
      /\ current_file_size_' = Bytes(Lines(file)) /\ open'
      /\ UNCHANGED <<current_time_size, begun, swallowed>>
  BY <1>0 DEF Start, Stages, file_size, hist
<1>2. Current' = Current /\ Current = Lines(file)
  BY <1>0, <1>1, QuietSteps, LinesTyped, ConcatEmptySeq DEF Current
<1>3. CASE ~MustRename /\ life' = "up" /\ UNCHANGED pc
  BY <1>1, <1>2, <1>3 DEF MustRename, file_size, Within, Renaming
<1>4. CASE MustRename /\ life' = "opening" /\ Goto(t, "closing")
  <2>1. \A u \in Threads : pc'[u] \in Within => pc'[u] = "closing"
    BY <1>0, <1>1, <1>4 DEF Goto, ThreadsOK, Within, Renaming
  <2>2. Due' = 0
    BY <1>4 DEF Due
  <2>. QED BY <1>1, <1>2, <1>4, <2>1, <2>2 DEF MustRename, file_size
<1>. QED BY <1>3, <1>4 DEF Start

(* A renaming that fails ends the write, the logger or the process.        *)
LEMMA FailedStep ==
    ASSUME LogInv, LinesOK', NEW t \in Threads, FileSystemFails(t) \/ NothingToRename(t)
    PROVE  Quiet \/ Forget
<1>1. pc[t] \in Within /\ Throw(t)
  BY DEF FileSystemFails, NothingToRename, Within, Renaming
<1>2. CASE EndWrite(t) /\ UNCHANGED <<memory, begun, swallowed>>
  <2>1. /\ UNCHANGED <<life, open, current_file_size_, current_time_size, begun, swallowed>>
        /\ UNCHANGED <<file, buffer, old>>
    BY <1>1, <1>2 DEF memory, Throw, disk
  <2>2. Current' = Current
    BY <2>1, QuietSteps
  <2>. QED BY <1>1, <1>2, <2>1, <2>2, NobodyWithin DEF Quiet
<1>. QED BY <1>1, <1>2 DEF Throw, Die

(* The end of a process or of a logger.                                    *)
LEMMA ForgetStep ==
    ASSUME LogInv, Forget
    PROVE  /\ life' = "down" /\ ~open' /\ swallowed' = 0 /\ current_file_size_' = 0
           /\ \A u \in Threads : pc'[u] \notin Within
BY TypeParts, Forgetting DEF LogInv, Forget, Within, Renaming

(* These are all the steps.                                                *)
LEMMA CounterSteps ==
    ASSUME LogInv, LinesOK', [Next]_vars
    PROVE  \/ Quiet \/ Forget
           \/ \E t \in Threads : \/ Measure(t) \/ CloseStream(t) \/ RenameToOld(t)
                                 \/ OpenStream(t) \/ Insert(t) \/ Start(t)
<1>1. ASSUME NEW t \in Threads, Log(t) \/ Copy(t) \/ Drop(t)
      PROVE  Quiet
  BY <1>1, StreamerQuiet
<1>2. ASSUME NEW t \in Threads, FileSystemFails(t) \/ NothingToRename(t)
      PROVE  Quiet \/ Forget
  BY <1>2, FailedStep
<1>3. CASE Crash \/ Exit
  BY <1>3 DEF Crash, Exit, Die
<1>4. CASE Spill \/ UNCHANGED vars \/ \E t \in Threads : RemoveOld(t)
  BY <1>4, OtherQuiet
<1>. QED BY <1>1, <1>2, <1>3, <1>4 DEF Next


(* A line more of as much.                                                 *)
LEMMA ProductNext ==
    ASSUME NEW n \in Nat, NEW u \in Nat
    PROVE  Product(n, u) \in Nat /\ Product(n + 1, u) = Product(n, u) + u
BY DEF Product

(* Of more there is more.                                                  *)
LEMMA ProductOfMore ==
    ASSUME NEW n \in Nat, NEW u \in Nat, NEW v \in Nat, u = 0 \/ u = v
    PROVE  Product(n, u) <= Product(n, v)
<1>1. Product(n, 0) = 0 /\ Product(n, v) \in Nat
  BY ProductNext DEF Product
<1>2. CASE u = 0
  BY <1>1, <1>2
<1>3. CASE u = v
  BY <1>1, <1>3
<1>. QED BY <1>2, <1>3

(* What the counter misses of a line is the difference of two lengths ...  *)
LEMMA UndercountNat == RestOK => Undercount \in Nat
BY LogAssumption DEF RestOK, Undercount

(* ... after a step too.                                                   *)
LEMMA UndercountNext == RestOK' => Undercount' \in Nat
<1> SUFFICES ASSUME RestOK'
             PROVE  Undercount' \in Nat
  OBVIOUS
<1>1. ShortTime \in Nat /\ LongTime \in Nat /\ ShortTime <= LongTime
  BY LogAssumption
<1>2. current_time_size' \in {0, ShortTime, LongTime}
  BY DEF RestOK
<1>3. Undercount' = IF current_time_size' = 0 THEN 0 ELSE LongTime - current_time_size'
  BY DEF Undercount
<1>4. \A time \in {0, ShortTime, LongTime} : (IF time = 0 THEN 0 ELSE LongTime - time) \in Nat
  BY <1>1
<1>. QED BY <1>2, <1>3, <1>4

(* The counter is high enough.                                             *)
LEMMA CountedStep == LogInv /\ CountedEnough /\ [Next]_vars => CountedEnough'
<1> SUFFICES ASSUME LogInv, CountedEnough, [Next]_vars
             PROVE  CountedEnough'
  OBVIOUS
<1>0. /\ LinesOK /\ LinesOK' /\ RestOK /\ RestOK' /\ Stages
      /\ Current \in Seq(Line) /\ Bytes(Current) \in Nat /\ Len(Current) \in Nat
      /\ Limit \in Nat /\ ShortTime \in Nat \ {0} /\ LongTime \in Nat \ {0}
  <2>1. LinesOK /\ LinesOK' /\ RestOK /\ RestOK' /\ Stages
    BY LinesStep, RestStep, TypeParts DEF LogInv
  <2>2. Current \in Seq(Line) /\ Bytes(Current) \in Nat /\ Len(Current) \in Nat
    BY <2>1, LinesTyped, BytesNat
  <2>. QED BY <2>1, <2>2, LogAssumption
<1>1. Undercount \in Nat /\ Undercount' \in Nat
  BY <1>0, UndercountNat, UndercountNext
<1> DEFINE b == Bytes(Current)
           c == current_file_size_
           n == Len(Current)
           u == Undercount
           v == Undercount'
<1>2. c \in Nat /\ c' \in Nat /\ b \in Nat /\ n \in Nat /\ u \in Nat /\ v \in Nat
  BY <1>0, <1>1 DEF RestOK
<1>3. CASE Quiet
  <2>1. UNCHANGED <<life, current_file_size_, current_time_size>> /\ Current' = Current
    BY <1>3 DEF Quiet
  <2>2. Missed' = Missed
    BY <2>1 DEF Missed, Undercount
  <2>3. \A t \in Threads : pc'[t] \in Within => pc[t] \in Within
    BY <1>3 DEF Quiet
  <2>4. \A t \in Threads : pc'[t] = "inserting" => pc[t] = "inserting" /\ Due' = Due
    BY <1>3 DEF Quiet, Within
  <2>. QED BY <2>1, <2>2, <2>3, <2>4 DEF CountedEnough
<1>4. ASSUME Forget
      PROVE  CountedEnough'
  BY <1>4, ForgetStep DEF CountedEnough, Within
<1>5. ASSUME NEW t \in Threads, Measure(t)
      PROVE  CountedEnough'
  <2>1. /\ UNCHANGED <<life, current_file_size_>> /\ life = "up" /\ Current' = Current
        /\ current_time_size' \in {ShortTime, LongTime}
        /\ current_time_size \in {0, current_time_size'}
        /\ \A o \in Threads : pc'[o] = "inserting" => c' + Due' < Limit
    BY <1>0, <1>5, MeasureStep DEF Within
  <2>2. u = 0 \/ u = v
    BY <2>1 DEF Undercount
  <2>3. b <= c + Missed /\ (b < Limit + Missed \/ n <= 1)
    BY <2>1 DEF CountedEnough
  <2>4. Missed = Product(n, u) /\ Missed' = Product(n, v)
    BY <2>1 DEF Missed
  <2> HIDE DEF b, c, n, u, v
  <2>5. Product(n, u) \in Nat /\ Product(n, v) \in Nat /\ Product(n, u) <= Product(n, v)
    BY <1>2, <2>2, ProductNext, ProductOfMore
  <2>6. b <= c + Product(n, v) /\ (b < Limit + Product(n, v) \/ n <= 1)
    BY <1>0, <1>2, <2>3, <2>4, <2>5
  <2>7. /\ Bytes(Current)' <= current_file_size_' + Missed'
        /\ Bytes(Current)' < Limit + Missed' \/ Len(Current)' <= 1
    BY <2>1, <2>4, <2>6 DEF b, c, n
  <2>8. current_time_size' # 0
    BY <1>0, <2>1
  <2>. QED BY <2>1, <2>7, <2>8 DEF CountedEnough, c
<1>6. ASSUME NEW t \in Threads, CloseStream(t)
      PROVE  CountedEnough'
  <2>1. /\ UNCHANGED <<life, current_file_size_, current_time_size>> /\ Current' = Current
        /\ pc[t] \in Within /\ \A o \in Threads : pc'[o] \in Within => o = t
        /\ \A o \in Threads : pc'[o] # "inserting"
    BY <1>0, <1>6, CloseStep DEF Within, Renaming
  <2>2. Missed' = Missed
    BY <2>1 DEF Missed, Undercount
  <2>. QED BY <2>1, <2>2 DEF CountedEnough
<1>7. ASSUME NEW t \in Threads, Insert(t), ~open
      PROVE  CountedEnough'
  <2>1. /\ UNCHANGED <<life, current_time_size>> /\ Current' = Current /\ life = "up"
        /\ c' = c + Due /\ Due \in Nat /\ \A o \in Threads : pc'[o] \notin Within
    BY <1>0, <1>7, CountStep, DueIs, TypeParts DEF LogInv
  <2>2. Missed' = Missed
    BY <2>1 DEF Missed, Undercount
  <2>3. Missed = Product(n, u) /\ Product(n, u) \in Nat
    BY <1>2, ProductNext DEF Missed
  <2>4. b <= c + Missed /\ (b < Limit + Missed \/ n <= 1)
    BY <2>1 DEF CountedEnough
  <2> DEFINE m == Missed
             d == Due
  <2>5. m \in Nat /\ d \in Nat /\ b <= c + m
    BY <2>1, <2>3, <2>4
  <2> HIDE DEF m, d
  <2>6. b <= (c + d) + m
    BY <1>2, <2>5
  <2>7. Bytes(Current)' <= current_file_size_' + Missed'
    BY <2>1, <2>2, <2>6 DEF m, d
  <2>. QED BY <2>1, <2>2, <2>4, <2>7 DEF CountedEnough, Within
<1>8. ASSUME NEW t \in Threads, Insert(t), open
      PROVE  CountedEnough'
  <2>1. /\ UNCHANGED <<life, current_time_size>> /\ life = "up" /\ pc[t] = "inserting"
        /\ message[t].text \in Nat /\ Due = 3 + current_time_size + message[t].text
        /\ c' = c + Due /\ \A o \in Threads : pc'[o] \notin Within
    BY <1>0, <1>8, CountStep
  <2>2. PICK line \in Line, time \in {ShortTime, LongTime} :
             Current' = Append(Current, line) /\ line.size = 2 + time + message[t].text
    BY <1>0, <1>8, CountStep
  <2>3. Bytes(Current)' = b + line.size /\ Len(Current)' = n + 1
    <3>1. Bytes(Append(Current, line)) = b + line.size /\ Len(Append(Current, line)) = n + 1
      BY <1>0, BytesAppend, AppendProperties
    <3>. QED BY <2>2, <3>1
  <2>4. v = u /\ Missed' = Product(n + 1, u) /\ Missed = Product(n, u)
    BY <2>1, <2>3 DEF Missed, Undercount
  <2>5. current_time_size # 0 /\ current_time_size \in Nat
    BY <1>0, <2>1 DEF CountedEnough, RestOK, Within
  <2>6. b <= c + Missed /\ (c + Due < Limit \/ Current = <<>>)
    BY <2>1 DEF CountedEnough
  <2>7. line.size + 1 <= Due + Undercount
    <3>1. Undercount = LongTime - current_time_size
      BY <2>5 DEF Undercount
    <3>2. time \in Nat /\ time <= LongTime
      BY LogAssumption
    <3> DEFINE x == message[t].text
    <3>3. x \in Nat /\ line.size = 2 + time + x /\ Due = 3 + current_time_size + x
      BY <2>1, <2>2
    <3> HIDE DEF x
    <3>. QED BY <1>0, <2>5, <3>1, <3>2, <3>3
  <2>8. line.size \in Nat /\ Due \in Nat
    BY <1>0, DueIs, TypeParts DEF Line, LogInv
  <2>9. Current = <<>> => n + 1 <= 1
    OBVIOUS
  <2> DEFINE s == line.size
             d == Due
  <2>10. s \in Nat /\ d \in Nat /\ s + 1 <= d + u /\ c' = c + d
    BY <2>1, <2>7, <2>8
  <2>11. b <= c + Product(n, u) /\ (c + d < Limit \/ n + 1 <= 1)
    BY <2>4, <2>6, <2>9
  <2> HIDE DEF s, d, b, n, u, v
  <2> DEFINE m == Product(n, u)
  <2>12. m \in Nat /\ Product(n + 1, u) = m + u
    BY <1>2, ProductNext
  <2>13. b <= c + m
    BY <2>11
  <2> HIDE DEF m, c
  <2>14. b + s <= (c + d) + (m + u) /\ (c + d < Limit => b + s < Limit + (m + u))
    BY <1>0, <1>2, <2>10, <2>12, <2>13
  <2>15. Bytes(Current)' = b + s /\ Len(Current)' = n + 1 /\ Missed' = m + u
    BY <2>3, <2>4, <2>12 DEF b, s, n
  <2>16. /\ Bytes(Current)' <= current_file_size_' + Missed'
         /\ Bytes(Current)' < Limit + Missed' \/ Len(Current)' <= 1
    BY <2>10, <2>11, <2>14, <2>15 DEF c
  <2>. QED BY <2>1, <2>16 DEF CountedEnough, Within
<1>9. ASSUME Current' = <<>>,
             \A o \in Threads : life' = "up" /\ pc'[o] \in Within => current_time_size' # 0
      PROVE  CountedEnough'
  <2>1. Bytes(Current)' = 0 /\ Len(Current)' = 0
    BY <1>9, BytesEmpty
  <2>2. Missed' = Product(0, v) /\ Product(0, v) \in Nat
    BY <1>2, <2>1, ProductNext DEF Missed
  <2>3. Bytes(Current)' <= current_file_size_' + Missed' /\ Len(Current)' <= 1
    BY <1>2, <2>1, <2>2
  <2>. QED BY <1>9, <2>3 DEF CountedEnough
<1>10. ASSUME NEW t \in Threads, RenameToOld(t) \/ OpenStream(t)
       PROVE  CountedEnough'
  <2>1. Current' = <<>> /\ current_time_size' = current_time_size
    BY <1>0, <1>10, RenamedStep, OpenStep
  <2>2. \A o \in Threads : life' = "up" /\ pc'[o] \in Within => life = "up" /\ pc[o] \in Within
    BY <1>0, <1>10, RenamedStep, OpenStep
  <2>. QED BY <1>9, <2>1, <2>2 DEF CountedEnough
<1>11. ASSUME NEW t \in Threads, Start(t)
       PROVE  CountedEnough'
  <2>1. /\ Current' = Current /\ c' = b /\ current_time_size' = current_time_size
        /\ life' = "up" => ~(b >= Limit) /\ \A o \in Threads : pc'[o] \notin Within
        /\ \A o \in Threads : pc'[o] # "inserting"
    BY <1>0, <1>11, StartStep DEF Within
  <2>2. Missed' = Product(n, u) /\ Product(n, u) \in Nat
    BY <1>2, <2>1, ProductNext DEF Missed, Undercount
  <2> DEFINE m == Product(n, u)
  <2>3. m \in Nat
    BY <2>2
  <2> HIDE DEF m, b
  <2>4. b <= b + m /\ (~(b >= Limit) => b < Limit + m)
    BY <1>0, <1>2, <2>3
  <2>5. /\ Bytes(Current)' <= current_file_size_' + Missed'
        /\ life' = "up" => Bytes(Current)' < Limit + Missed'
    BY <2>1, <2>2, <2>4 DEF b, m
  <2>6. \A o \in Threads : life' = "up" /\ pc'[o] \in Within => current_time_size' # 0
    BY <2>1
  <2>. QED BY <2>1, <2>5, <2>6 DEF CountedEnough
<1>. QED BY <1>0, <1>3, <1>4, <1>5, <1>6, <1>7, <1>8, <1>10, <1>11, CounterSteps

(* WithinLimit: the file passes its limit by no more than what the counter *)
(* misses of its lines, but with a single line.                            *)
THEOREM LimitIsKept == Spec => []WithinLimit
<1>1. Init => CountedEnough
  <2> SUFFICES ASSUME Init
               PROVE  CountedEnough
    OBVIOUS
  <2>1. life = "down" /\ \A t \in Threads : pc[t] = "idle"
    BY DEF Init
  <2>. QED BY <2>1 DEF CountedEnough
<1>2. CountedEnough => WithinLimit
  BY DEF CountedEnough, WithinLimit, Missed, Product
<1>. QED BY <1>1, <1>2, LogInvInit, LogInvStep, CountedStep, PTL DEF Spec


-----------------------------------------------------------------------------
(* A line is counted for no more than Counted says.                        *)
LEMMA CountedForMore ==
    ASSUME NEW text \in Nat, NEW time \in {ShortTime, LongTime}, NEW first \in {0, ShortTime, LongTime}
    PROVE  3 + first + text <= (2 + time + text) + (LongTime - ShortTime + 1)
<1>1. ShortTime \in Nat /\ LongTime \in Nat /\ ShortTime <= LongTime
  BY LogAssumption
<1>2. time \in Nat /\ first \in Nat /\ ShortTime <= time /\ first <= LongTime
  BY <1>1
<1>. QED BY <1>1, <1>2

(* The counter is not too high, and a renaming begins when it is full.     *)
LEMMA AtMostStep == LogInv /\ CountedAtMost /\ [Next]_vars => CountedAtMost'
<1> SUFFICES ASSUME LogInv, CountedAtMost, [Next]_vars
             PROVE  CountedAtMost'
  OBVIOUS
<1>0. LinesOK /\ LinesOK' /\ RestOK /\ RestOK' /\ Stages /\ Current \in Seq(Line)
  BY LinesStep, RestStep, LinesTyped, TypeParts DEF LogInv
<1> DEFINE c == current_file_size_
           k == Counted(Current)
           s == swallowed
           b == Bytes(Current)
           Above(u) == pc'[u] \in {"closing", "removing"} => c' + Due' >= Limit
<1>1. c \in Nat /\ s \in Nat /\ c' \in Nat
  BY <1>0 DEF RestOK
<1>2. b \in Nat /\ k \in Nat /\ b <= k
  <2>1. [id |-> 1, size |-> 0] \in Line
    BY DEF Line
  <2>. QED BY <1>0, <2>1, CountedAppend, BytesNat
<1>3. CASE Quiet
  <2>1. /\ UNCHANGED <<life, current_file_size_, swallowed>> /\ Current' = Current
        /\ file' = Absent <=> file = Absent
    BY <1>3 DEF Quiet
  <2>2. \A u \in Threads : pc'[u] \in {"closing", "removing"} => pc'[u] = pc[u] /\ Due' = Due
    BY <1>3 DEF Quiet, Within, Renaming
  <2>. QED BY <2>1, <2>2 DEF CountedAtMost
<1>4. ASSUME Forget
      PROVE  CountedAtMost'
  BY <1>4, ForgetStep DEF CountedAtMost, Within, Renaming
<1>5. ASSUME NEW t \in Threads, Measure(t)
      PROVE  CountedAtMost'
  <2>1. /\ UNCHANGED <<life, current_file_size_, swallowed, file>> /\ Current' = Current
        /\ \A u \in Threads : Above(u)
    BY <1>0, <1>5, MeasureStep DEF Within, Renaming
  <2>. QED BY <2>1 DEF CountedAtMost
<1>6. ASSUME NEW t \in Threads, CloseStream(t)
      PROVE  CountedAtMost'
  <2>1. /\ UNCHANGED <<life, current_file_size_, swallowed>> /\ Current' = Current /\ Due' = Due
        /\ pc[t] = "closing" /\ (file' # Absent => open \/ file # Absent)
        /\ \A u \in Threads \ {t} : pc'[u] \notin Within
    BY <1>0, <1>6, CloseStep
  <2>2. file' # Absent => file # Absent
    BY <1>0, <2>1 DEF Stages
  <2>3. c + Due >= Limit
    BY <2>1 DEF CountedAtMost
  <2>4. \A u \in Threads : Above(u)
    BY <2>1, <2>3 DEF Within, Renaming
  <2>. QED BY <2>1, <2>2, <2>4 DEF CountedAtMost
<1>7. ASSUME NEW t \in Threads, RenameToOld(t)
      PROVE  CountedAtMost'
  <2>1. file' = Absent /\ \A u \in Threads : pc'[u] \in Within => pc'[u] = "reopening"
    BY <1>0, <1>7, RenamedStep
  <2>. QED BY <2>1 DEF CountedAtMost, Within, Renaming
<1>8. ASSUME NEW t \in Threads, OpenStream(t)
      PROVE  CountedAtMost'
  <2>1. /\ current_file_size_' = 0 /\ swallowed' = 0 /\ Current' = <<>>
        /\ \A u \in Threads : pc'[u] \in Within => pc'[u] = "inserting"
    BY <1>0, <1>8, OpenStep
  <2>2. Counted(<<>>) \in Nat
    <3>1. [id |-> 1, size |-> 0] \in Line /\ <<>> \in Seq(Line)
      BY DEF Line
    <3>. QED BY <3>1, CountedAppend
  <2>3. current_file_size_' <= Counted(Current)' + swallowed'
    BY <2>1, <2>2
  <2>. QED BY <2>1, <2>3 DEF CountedAtMost, Within, Renaming
<1>9. ASSUME NEW t \in Threads, Insert(t)
      PROVE  CountedAtMost'
  <2>1. /\ UNCHANGED life /\ life = "up" /\ message[t].text \in Nat
        /\ Due = 3 + current_time_size + message[t].text /\ c' = c + Due
        /\ \A u \in Threads : pc'[u] \notin Within
    BY <1>0, <1>9, CountStep
  <2>2. Due \in Nat
    BY <1>0, DueIs, TypeParts DEF LogInv
  <2> DEFINE d == Due
  <2>3. d \in Nat /\ c' = c + d
    BY <2>1, <2>2
  <2>4. file # Absent => c <= k + s
    BY <2>1 DEF CountedAtMost
  <2>5. CASE ~open /\ Current' = Current /\ s' = s + d /\ UNCHANGED file
    <3>1. k' = k
      BY <2>5
    <3> HIDE DEF c, d, k, s
    <3>2. file # Absent => c' <= k + (s + d)
      BY <1>1, <1>2, <2>3, <2>4
    <3>. QED BY <2>1, <2>5, <3>1, <3>2 DEF CountedAtMost, Within, Renaming, c, k, s
  <2>6. ASSUME s' = s, file # Absent, NEW line \in Line, NEW time \in {ShortTime, LongTime},
               Current' = Append(Current, line), line.size = 2 + time + message[t].text
        PROVE  CountedAtMost'
    <3> DEFINE z == line.size
               e == LongTime - ShortTime + 1
    <3>1. k' = k + z + e
      BY <1>0, <2>6, CountedAppend
    <3>2. d <= z + e
      BY <1>0, <2>1, <2>6, CountedForMore DEF RestOK
    <3>3. z \in Nat /\ e \in Nat
      BY LogAssumption DEF Line
    <3> HIDE DEF c, d, k, s, z, e
    <3>4. c' <= (k + z + e) + s
      BY <1>1, <1>2, <2>3, <2>4, <2>6, <3>2, <3>3
    <3>5. current_file_size_' <= Counted(Current)' + swallowed'
      BY <2>6, <3>1, <3>4 DEF c, k, s
    <3>. QED BY <2>1, <3>5 DEF CountedAtMost, Within, Renaming
  <2>. QED BY <1>0, <1>9, <2>5, <2>6, CountStep
<1>10. ASSUME NEW t \in Threads, Start(t)
       PROVE  CountedAtMost'
  <2>1. /\ Current' = Current /\ s' = s /\ c' = b
        /\ \/ \A u \in Threads : pc'[u] \notin Within
           \/ Due' = 0 /\ b >= Limit
    BY <1>0, <1>10, StartStep
  <2> HIDE DEF b, k, s
  <2>2. b <= k + s /\ b + 0 = b
    BY <1>1, <1>2
  <2>3. current_file_size_' <= Counted(Current)' + swallowed'
    BY <2>1, <2>2 DEF k, s
  <2>4. \A u \in Threads : Above(u)
    BY <2>1, <2>2 DEF Within, Renaming
  <2>. QED BY <2>3, <2>4 DEF CountedAtMost
<1>. QED BY <1>0, <1>3, <1>4, <1>5, <1>6, <1>7, <1>8, <1>9, <1>10, CounterSteps

(* A closed stream swallows what would have had room.                      *)
LEMMA SwallowsStep == LogInv /\ CountedAtMost /\ Swallows /\ [Next]_vars => Swallows'
<1> SUFFICES ASSUME LogInv, CountedAtMost, Swallows, [Next]_vars
             PROVE  Swallows'
  OBVIOUS
<1>0. LinesOK' /\ RestOK /\ RestOK' /\ Stages /\ Limit \in Nat
  BY LinesStep, RestStep, TypeParts, LogAssumption DEF LogInv
<1> DEFINE c == current_file_size_
           s == swallowed
           g == begun
<1>1. c \in Nat /\ s \in Nat /\ g \in Nat
  BY <1>0 DEF RestOK
<1>2. CASE Quiet
  <2>1. UNCHANGED <<life, open, current_file_size_, begun, swallowed>>
    BY <1>2 DEF Quiet
  <2>2. \A u \in Threads : pc'[u] = "inserting" => pc[u] = "inserting" /\ Due' = Due
    BY <1>2 DEF Quiet, Within
  <2>. QED BY <2>1, <2>2 DEF Swallows
<1>3. ASSUME Forget
      PROVE  Swallows'
  BY <1>3, ForgetStep DEF Swallows, Within
<1>4. ASSUME NEW t \in Threads, Measure(t)
      PROVE  Swallows'
  <2>1. UNCHANGED <<life, open, current_file_size_, begun, swallowed>>
    BY <1>0, <1>4, MeasureStep
  <2>2. \A u \in Threads : pc'[u] = "inserting" => c' + Due' < Limit
    BY <1>0, <1>4, <2>1, MeasureStep DEF Within
  <2>. QED BY <2>1, <2>2 DEF Swallows
<1>5. ASSUME NEW t \in Threads, CloseStream(t)
      PROVE  Swallows'
  <2>1. /\ UNCHANGED <<life, current_file_size_, swallowed>> /\ ~open' /\ pc[t] = "closing"
        /\ begun' = (IF open THEN Due ELSE begun)
        /\ \A u \in Threads : pc'[u] # "inserting"
    BY <1>0, <1>5, CloseStep DEF Within
  <2>2. life = "up" => c + begun' >= Limit + s
    <3>1. CASE open
      <4>1. c + Due >= Limit /\ s = 0 /\ begun' = Due
        BY <2>1, <3>1 DEF CountedAtMost, Swallows
      <4>. QED BY <1>0, <4>1
    <3>2. CASE ~open
      BY <2>1, <3>2 DEF Swallows
    <3>. QED BY <3>1, <3>2
  <2>. QED BY <2>1, <2>2 DEF Swallows
<1>6. ASSUME NEW t \in Threads, RenameToOld(t)
      PROVE  Swallows'
  <2>1. UNCHANGED <<life, open, current_file_size_, begun, swallowed>>
    BY <1>0, <1>6, RenamedStep
  <2>2. \A u \in Threads : pc'[u] # "inserting"
    BY <1>0, <1>6, RenamedStep DEF Within
  <2>. QED BY <2>1, <2>2 DEF Swallows
<1>7. ASSUME NEW t \in Threads, OpenStream(t) \/ Start(t)
      PROVE  Swallows'
  <2>1. open' /\ s' = 0
    BY <1>0, <1>7, OpenStep, StartStep DEF Swallows
  <2>. QED BY <2>1 DEF Swallows
<1>8. ASSUME NEW t \in Threads, Insert(t)
      PROVE  Swallows'
  <2>1. /\ UNCHANGED <<life, open, begun>> /\ life = "up" /\ pc[t] = "inserting"
        /\ c' = c + Due /\ \A u \in Threads : pc'[u] # "inserting"
    BY <1>0, <1>8, CountStep DEF Within
  <2>2. CASE open /\ s' = s
    BY <2>1, <2>2 DEF Swallows
  <2>3. CASE ~open /\ s' = s + Due
    <3>1. c + Due < Limit /\ c + g >= Limit + s
      BY <2>1, <2>3 DEF Swallows
    <3> DEFINE d == Due
    <3>2. d \in Nat /\ c' = c + d /\ s' = s + d /\ c + d < Limit
      BY <1>0, <2>1, <2>3, <3>1, DueIs, TypeParts DEF LogInv
    <3> HIDE DEF c, s, g, d
    <3>3. c' + g >= Limit + s' /\ c' < Limit
      BY <1>0, <1>1, <3>1, <3>2
    <3>. QED BY <2>1, <2>3, <3>3 DEF Swallows, c, s, g
  <2>. QED BY <1>0, <1>8, <2>2, <2>3, CountStep
<1>. QED BY <1>0, <1>2, <1>3, <1>4, <1>5, <1>6, <1>7, <1>8, CounterSteps

(* At the start there is nothing to count.                                 *)
LEMMA AtMostInit == Init => CountedAtMost /\ Swallows
<1> SUFFICES ASSUME Init
             PROVE  CountedAtMost /\ Swallows
  OBVIOUS
<1>1. /\ life = "down" /\ swallowed = 0 /\ \A t \in Threads : pc[t] = "idle"
  BY DEF Init
<1>. QED BY <1>1 DEF CountedAtMost, Swallows

(* A sequence is a prefix of itself and of what continues it ...           *)
LEMMA PrefixOfMore ==
    ASSUME NEW s \in Seq(Line), NEW t \in Seq(Line)
    PROVE  IsPrefix(s, s \o t)
<1>1. /\ s \o t \in Seq(Line) /\ Len(s) \in Nat /\ Len(s) <= Len(s \o t)
      /\ \A i \in 1 .. Len(s) : (s \o t)[i] = s[i]
  BY ConcatProperties
<1>2. /\ SubSeq(s, 1, Len(s)) = [i \in 1 .. Len(s) |-> s[i]]
      /\ SubSeq(s \o t, 1, Len(s)) = [i \in 1 .. Len(s) |-> (s \o t)[i]]
  BY <1>1
<1>. QED BY <1>1, <1>2 DEF IsPrefix

(* ... and the end of one that something precedes.                         *)
LEMMA SuffixOfMore ==
    ASSUME NEW s \in Seq(Line), NEW t \in Seq(Line)
    PROVE  IsSuffix(t, s \o t)
<1>1. s \o t \in Seq(Line) /\ IsEnd(t, s \o t)
  BY ConcatProperties DEF IsEnd
<1>. QED BY <1>1, EndIsSuffix

(* DroppedForNewer: a step drops the oldest lines, for newer ones that     *)
(* fill a file, or what a buffer held when the process ended, or what a    *)
(* renaming without a current file removes.                                *)
THEOREM DropsAreForNewer == Spec => DroppedForNewer
<1>1. LogInv /\ CountedAtMost /\ [Next]_vars => [DropsForNewer]_vars
  <2> SUFFICES ASSUME LogInv, CountedAtMost, [Next]_vars
               PROVE  DropsForNewer
    OBVIOUS
  <2>0. /\ LinesOK /\ LinesOK' /\ <<>> \in Seq(Line) /\ Kept \in Seq(Line)
        /\ Current \in Seq(Line) /\ Lines(old) \in Seq(Line) /\ buffer \in Seq(Line)
    BY LinesStep, LinesTyped, TypeParts DEF LogInv, LinesOK
  <2>1. ASSUME Kept' = Kept
        PROVE  DropsForNewer
    <3>1. Kept \o <<>> = Kept
      BY <2>0, ConcatEmptySeq
    <3>2. IsPrefix(Kept, Kept \o <<>>)
      BY <2>0, PrefixOfMore
    <3>. QED BY <2>1, <3>1, <3>2 DEF DropsForNewer
  <2>2. ASSUME NEW t \in Threads, Insert(t)
        PROVE  DropsForNewer
    <3>1. CASE Kept' = Kept
      BY <2>1, <3>1
    <3>2. ASSUME NEW time \in {ShortTime, LongTime}, Kept' = Append(Kept, NewLine(t, time))
          PROVE  DropsForNewer
      <4>1. NewLine(t, time) \in Line
        BY <2>2, NewLineTyped DEF Insert
      <4>2. Kept' = Kept \o <<NewLine(t, time)>> /\ <<NewLine(t, time)>> \in Seq(Line)
        BY <2>0, <3>2, <4>1, AppendIsConcat
      <4>3. IsPrefix(Kept, Kept')
        BY <2>0, <4>2, PrefixOfMore
      <4>. QED BY <4>3 DEF DropsForNewer
    <3>. QED BY <2>0, <2>2, <3>1, <3>2, InsertStep
  <2>3. ASSUME NEW t \in Threads, RemoveOld(t)
        PROVE  DropsForNewer
    <3>1. Kept' = Current /\ Kept = Lines(old) \o Current
      BY <2>0, <2>3, RemoveStep, KeptIs
    <3>2. IsSuffix(Kept', Kept)
      BY <2>0, <3>1, SuffixOfMore
    <3>3. ASSUME file # Absent
          PROVE  Counted(Kept') + swallowed + Due >= Limit
      <4> DEFINE c == current_file_size_
                 k == Counted(Current)
                 s == swallowed
                 d == Due
      <4>1. c + d >= Limit /\ c <= k + s
        <5>1. pc[t] = "removing" /\ life # "down"
          BY <2>3 DEF RemoveOld, LogInv, Stages
        <5>. QED BY <3>3, <5>1 DEF CountedAtMost
      <4>2. c \in Nat /\ s \in Nat /\ d \in Nat /\ Limit \in Nat
        BY DueIs, TypeParts, LogAssumption DEF LogInv, RestOK
      <4>3. k \in Nat
        <5>1. [id |-> 1, size |-> 0] \in Line
          BY DEF Line
        <5>. QED BY <2>0, <5>1, CountedAppend
      <4> HIDE DEF c, k, s, d
      <4>4. k + s + d >= Limit
        BY <4>1, <4>2, <4>3
      <4>. QED BY <3>1, <4>4 DEF k, s, d
    <3>. QED BY <3>2, <3>3 DEF DropsForNewer
  <2>4. CASE Lose
    <3>1. Kept = Kept' \o buffer /\ Kept' \in Seq(Line) /\ (buffer = <<>> => Kept' = Kept)
          /\ life' = "down"
      BY <2>0, <2>4, DieStep DEF Lose, Forget
    <3>2. IsPrefix(Kept', Kept)
      BY <2>0, <3>1, PrefixOfMore
    <3>. QED BY <2>1, <3>1, <3>2 DEF DropsForNewer
  <2>. QED BY <2>0, <2>1, <2>2, <2>3, <2>4, KeptSteps
<1>. QED BY <1>1, LogInvInit, LogInvStep, AtMostInit, AtMostStep, PTL DEF Spec, DroppedForNewer

(* SwallowedLess: a stream that a failed renaming left closed swallows     *)
(* less than the message that renaming was for.                            *)
THEOREM LittleIsSwallowed == Spec => []SwallowedLess
<1>1. LogInv /\ Swallows => SwallowedLess
  <2> SUFFICES ASSUME LogInv, Swallows, swallowed > 0
               PROVE  swallowed < begun
    BY DEF SwallowedLess
  <2>1. swallowed \in Nat /\ begun \in Nat /\ current_file_size_ \in Nat /\ Limit \in Nat
    BY TypeParts, LogAssumption DEF LogInv, RestOK
  <2>2. life = "up" /\ ~open
    BY <2>1 DEF Swallows
  <2>3. current_file_size_ + begun >= Limit + swallowed /\ current_file_size_ < Limit
    BY <2>2 DEF Swallows
  <2>. QED BY <2>1, <2>3
<1>. QED BY <1>1, LogInvInit, LogInvStep, AtMostInit, AtMostStep, SwallowsStep, PTL DEF Spec
=============================================================================

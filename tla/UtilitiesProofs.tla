-------------------------- MODULE UtilitiesProofs --------------------------
(***************************************************************************)
(* What four components without a thread of their own promise: shared      *)
(* names, the times of a tracker, the settings of a property reader and    *)
(* the reports of a service.  For any number of names, addresses, clients, *)
(* threads, files, lines and commands.                                     *)
(***************************************************************************)
EXTENDS SharedNames, TimeTracker, PropertyReader, WindowsService,
        SequenceTheorems, WellFoundedInduction, TLAPS

(* OneIdPerName, an address at a time.                                     *)
OneEach ==
    /\ NamesTypeOK
    /\ ~tampered =>
         /\ \A i \in Ids : i \in shared_set_ <=> \E n \in Names : str2shared_[n] = i
         /\ \A n \in Names : str2shared_[n] # NoId => text[str2shared_[n]] = n

LEMMA InitNames == NamesInit => OneEach
BY NamesAssumption DEF NamesInit, OneEach, NamesTypeOK

(* A new string is at an address nobody points to.                         *)
LEMMA NewAddress ==
    ASSUME OneEach, NEW i \in Ids, NEW s, MakeShared(i, s)
    PROVE  /\ text' = [text EXCEPT ![i] = s] /\ i \notin shared_set_
           /\ \A n \in Names : str2shared_[n] # i
           /\ \A h \in Handles : handle[h] # i
BY DEF OneEach, NamesTypeOK, MakeShared, Used, Range

(* Every operation of the storage and of its clients keeps it.             *)
LEMMA NamesKeep == OneEach /\ [NamesNext]_namesvars => OneEach'
<1> SUFFICES ASSUME OneEach, [NamesNext]_namesvars
             PROVE  OneEach'
  OBVIOUS
<1> USE NamesAssumption DEF NamesTypeOK, OneEach
<1>1. ASSUME NEW n \in Names, add_name(n)
      PROVE  OneEach'
  <2>1. PICK i \in Ids : /\ MakeShared(i, n)
                         /\ str2shared_' = [str2shared_ EXCEPT ![n] = i]
                         /\ shared_set_' = shared_set_ \cup {i}
    BY <1>1 DEF add_name
  <2>2. str2shared_[n] = NoId /\ UNCHANGED <<handle, tampered, asked>>
    BY <1>1 DEF add_name
  <2>3. /\ text' = [text EXCEPT ![i] = n]
        /\ \A m \in Names : str2shared_[m] # i
    BY <2>1, NewAddress
  <2>4. \A m \in Names : str2shared_'[m] = IF m = n THEN i ELSE str2shared_[m]
    BY <2>1
  <2>5. NamesTypeOK'
    BY <2>1, <2>2, <2>3
  <2>6. ASSUME ~tampered', NEW j \in Ids
        PROVE  j \in shared_set_' <=> \E m \in Names : str2shared_'[m] = j
    <3>1. ~tampered /\ j # NoId
      BY <2>2, <2>6
    <3>2. CASE j = i
      BY <2>1, <2>4, <3>2
    <3>3. CASE j # i
      BY <2>1, <2>2, <2>4, <3>1, <3>3
    <3>. QED BY <3>2, <3>3
  <2>7. ASSUME ~tampered', NEW m \in Names, str2shared_'[m] # NoId
        PROVE  text'[str2shared_'[m]] = m
    <3>1. ~tampered
      BY <2>2, <2>7
    <3>2. CASE m = n
      <4>1. text'[i] = n
        BY <2>3
      <4>2. str2shared_'[m] = i
        BY <2>4, <3>2
      <4>. QED BY <3>2, <4>1, <4>2
    <3>3. CASE m # n
      <4>1. str2shared_'[m] = str2shared_[m] /\ str2shared_[m] \in Ids /\ str2shared_[m] # i
        BY <2>3, <2>4, <2>7, <3>3
      <4>. QED BY <2>3, <3>1, <4>1
    <3>. QED BY <3>2, <3>3
  <2>. QED BY <2>5, <2>6, <2>7
<1>2. ASSUME NEW h \in Handles, NEW n \in Names, get_shared(h, n)
      PROVE  OneEach'
  <2>1. UNCHANGED <<str2shared_, shared_set_, tampered>>
    BY <1>2 DEF get_shared
  <2>2. CASE str2shared_[n] # NoId
    <3>1. /\ handle' = [handle EXCEPT ![h] = str2shared_[n]] /\ UNCHANGED text
          /\ asked' = [asked EXCEPT ![h] = n]
      BY <1>2, <2>2 DEF get_shared
    <3>. QED BY <2>1, <3>1
  <2>3. CASE str2shared_[n] = NoId
    <3>1. PICK i \in Ids : MakeShared(i, "") /\ handle' = [handle EXCEPT ![h] = i]
      BY <1>2, <2>3 DEF get_shared
    <3>2. /\ text' = [text EXCEPT ![i] = ""]
          /\ \A m \in Names : str2shared_[m] # i
      BY <3>1, NewAddress
    <3>3. asked' = [asked EXCEPT ![h] = ""]
      BY <1>2, <2>3 DEF get_shared
    <3>. QED BY <2>1, <3>1, <3>2, <3>3
  <2>. QED BY <2>2, <2>3
<1>3. ASSUME NEW n \in Names, del_name(n)
      PROVE  OneEach'
  <2>1. /\ str2shared_[n] # NoId
        /\ shared_set_' = shared_set_ \ {str2shared_[n]}
        /\ str2shared_' = [str2shared_ EXCEPT ![n] = NoId]
        /\ UNCHANGED <<text, handle, tampered>>
        /\ asked' \in [Handles -> Names \cup {""}]
    BY <1>3 DEF del_name, Deleted
  <2>2. \A m \in Names : str2shared_'[m] = IF m = n THEN NoId ELSE str2shared_[m]
    BY <2>1
  <2>3. NamesTypeOK'
    BY <2>1
  <2>4. ASSUME ~tampered', NEW j \in Ids
        PROVE  j \in shared_set_' <=> \E m \in Names : str2shared_'[m] = j
    <3>1. ~tampered /\ j # NoId
      BY <2>1, <2>4
    <3>2. /\ text[str2shared_[n]] = n
          /\ \A m \in Names : str2shared_[m] # NoId => text[str2shared_[m]] = m
      BY <2>1, <3>1
    <3>3. \A m \in Names : str2shared_[m] = str2shared_[n] => m = n
      BY <2>1, <3>2
    <3>4. j \in shared_set_ <=> \E m \in Names : str2shared_[m] = j
      BY <3>1
    <3>. QED BY <2>1, <2>2, <3>1, <3>3, <3>4
  <2>. QED BY <2>1, <2>2, <2>3, <2>4
<1>4. ASSUME NEW h \in Handles, del_shared(h)
      PROVE  OneEach'
  <2>1. /\ handle[h] \in shared_set_
        /\ str2shared_' = [m \in Names |-> IF m = text[handle[h]] THEN NoId ELSE str2shared_[m]]
        /\ shared_set_' = shared_set_ \ {handle[h]}
        /\ UNCHANGED <<text, handle, tampered>>
        /\ asked' \in [Handles -> Names \cup {""}]
    BY <1>4 DEF del_shared, check_shared, Deleted
  <2>2. NamesTypeOK'
    BY <2>1
  <2>3. ASSUME ~tampered', NEW j \in Ids
        PROVE  j \in shared_set_' <=> \E m \in Names : str2shared_'[m] = j
    <3>1. ~tampered
      BY <2>1, <2>3
    <3>2. PICK n \in Names : str2shared_[n] = handle[h]
      BY <2>1, <3>1
    <3>3. text[handle[h]] = n
      BY <2>1, <3>1, <3>2
    <3>4. \A m \in Names : str2shared_'[m] = IF m = n THEN NoId ELSE str2shared_[m]
      BY <2>1, <3>3
    <3>5. handle[h] \in Ids
      BY <2>1
    <3>6. CASE j = handle[h]
      BY <2>1, <3>1, <3>2, <3>4, <3>5, <3>6
    <3>7. CASE j # handle[h]
      <4>1. j \in shared_set_' <=> j \in shared_set_
        BY <2>1, <3>7
      <4>2. j # NoId
        OBVIOUS
      <4>. QED BY <3>1, <3>2, <3>4, <3>7, <4>1, <4>2
    <3>. QED BY <3>6, <3>7
  <2>. QED BY <2>1, <2>2, <2>3
<1>5. CASE clear
  BY <1>5 DEF clear
<1>6. ASSUME NEW h \in Handles, NEW s \in Names \cup {""}, Write(h, s)
      PROVE  OneEach'
  <2>1. /\ handle[h] \in Ids /\ text' = [text EXCEPT ![handle[h]] = s]
        /\ tampered' = (tampered \/ handle[h] \in shared_set_)
        /\ UNCHANGED <<str2shared_, shared_set_, handle, asked>>
    BY <1>6 DEF Write, check_shared
  <2>2. CASE tampered \/ handle[h] \in shared_set_
    BY <2>1, <2>2
  <2>3. CASE ~tampered /\ handle[h] \notin shared_set_
    BY <2>1, <2>3
  <2>. QED BY <2>2, <2>3
<1>7. ASSUME NEW h \in Handles, Forget(h)
      PROVE  OneEach'
  BY <1>7 DEF Forget
<1>8. CASE UNCHANGED namesvars
  BY <1>8 DEF namesvars
<1>. QED BY <1>1, <1>2, <1>3, <1>4, <1>5, <1>6, <1>7, <1>8 DEF NamesNext

(* Map and set hold the same pointers, one for each name, whatever is      *)
(* added, deleted, asked for and forgotten, until a client writes over a   *)
(* name (shared_name_storage.cpp:45-96).                                   *)
THEOREM NamesAgree == NamesSpec => []OneIdPerName
<1>1. ASSUME OneEach
      PROVE  OneIdPerName
  <2> USE NamesAssumption DEF OneEach, NamesTypeOK
  <2>1. ASSUME ~tampered
        PROVE  shared_set_ = Range(str2shared_) \ {NoId}
    <3>1. \A i : i \in Range(str2shared_) <=> \E n \in Names : str2shared_[n] = i
      <4>1. DOMAIN str2shared_ = Names
        BY <1>1
      <4>. QED BY <4>1, Zenon DEF Range
    <3>. QED BY <1>1, <2>1, <3>1
  <2>. QED BY <1>1, <2>1 DEF OneIdPerName
<1>. QED BY <1>1, InitNames, NamesKeep, PTL DEF NamesSpec

(* AcceptedWhileNamed, with the pointer: one that was got for a name that  *)
(* is still there is the one the map has for it.                           *)
GotRight(h) == IF asked[h] = "" THEN handle[h] \notin shared_set_
               ELSE handle[h] # NoId /\ str2shared_[asked[h]] = handle[h]

AskedInv == ~tampered => \A h \in Handles : GotRight(h)

LEMMA AskedKeep == OneEach /\ AskedInv /\ [NamesNext]_namesvars => AskedInv'
<1> SUFFICES ASSUME OneEach, AskedInv, [NamesNext]_namesvars, ~tampered',
                    NEW x \in Handles
             PROVE  GotRight(x)'
  BY DEF AskedInv
<1> USE NamesAssumption DEF NamesTypeOK, OneEach, GotRight
<1>1. ASSUME NEW n \in Names, add_name(n)
      PROVE  GotRight(x)'
  <2>1. PICK i \in Ids : /\ MakeShared(i, n)
                         /\ str2shared_' = [str2shared_ EXCEPT ![n] = i]
                         /\ shared_set_' = shared_set_ \cup {i}
    BY <1>1 DEF add_name
  <2>2. str2shared_[n] = NoId /\ UNCHANGED <<handle, tampered, asked>>
    BY <1>1 DEF add_name
  <2>3. handle[x] # i
    BY <2>1, NewAddress
  <2>4. GotRight(x)
    BY <2>2 DEF AskedInv
  <2>. QED BY <2>1, <2>2, <2>3, <2>4
<1>2. ASSUME NEW h \in Handles, NEW n \in Names, get_shared(h, n)
      PROVE  GotRight(x)'
  <2>1. UNCHANGED <<str2shared_, shared_set_, tampered>>
    BY <1>2 DEF get_shared
  <2>2. GotRight(x)
    BY <2>1 DEF AskedInv
  <2>3. CASE str2shared_[n] # NoId
    <3>1. /\ handle' = [handle EXCEPT ![h] = str2shared_[n]]
          /\ asked' = [asked EXCEPT ![h] = n]
      BY <1>2, <2>3 DEF get_shared
    <3>. QED BY <2>1, <2>2, <2>3, <3>1
  <2>4. CASE str2shared_[n] = NoId
    <3>1. PICK i \in Ids : MakeShared(i, "") /\ handle' = [handle EXCEPT ![h] = i]
      BY <1>2, <2>4 DEF get_shared
    <3>2. asked' = [asked EXCEPT ![h] = ""]
      BY <1>2, <2>4 DEF get_shared
    <3>3. i \notin shared_set_
      BY <3>1, NewAddress
    <3>. QED BY <2>1, <2>2, <3>1, <3>2, <3>3
  <2>. QED BY <2>3, <2>4
<1>3. ASSUME NEW n \in Names, del_name(n)
      PROVE  GotRight(x)'
  <2>1. /\ str2shared_[n] # NoId
        /\ shared_set_' = shared_set_ \ {str2shared_[n]}
        /\ str2shared_' = [str2shared_ EXCEPT ![n] = NoId]
        /\ asked'[x] = IF asked[x] = n THEN "" ELSE asked[x]
        /\ UNCHANGED <<handle, tampered>>
    BY <1>3 DEF del_name, Deleted
  <2>2. GotRight(x)
    BY <2>1 DEF AskedInv
  <2>. QED BY <2>1, <2>2
<1>4. ASSUME NEW h \in Handles, del_shared(h)
      PROVE  GotRight(x)'
  <2>1. /\ handle[h] \in shared_set_
        /\ str2shared_' = [m \in Names |-> IF m = text[handle[h]] THEN NoId ELSE str2shared_[m]]
        /\ shared_set_' = shared_set_ \ {handle[h]}
        /\ asked'[x] = IF asked[x] = asked[h] THEN "" ELSE asked[x]
        /\ UNCHANGED <<handle, tampered>>
    BY <1>4 DEF del_shared, check_shared, Deleted
  <2>2. GotRight(x) /\ GotRight(h)
    BY <2>1 DEF AskedInv
  <2>3. /\ asked[h] \in Names /\ str2shared_[asked[h]] = handle[h]
        /\ text[handle[h]] = asked[h]
    BY <2>1, <2>2
  <2>4. \A m \in Names : str2shared_'[m] = IF m = asked[h] THEN NoId ELSE str2shared_[m]
    BY <2>1, <2>3
  <2>5. asked[x] # "" => asked[x] \in Names
    OBVIOUS
  <2>. QED BY <2>1, <2>2, <2>3, <2>4, <2>5
<1>5. CASE clear
  BY <1>5 DEF clear
<1>6. ASSUME NEW h \in Handles, NEW s \in Names \cup {""}, Write(h, s)
      PROVE  GotRight(x)'
  BY <1>6 DEF Write, AskedInv
<1>7. ASSUME NEW h \in Handles, Forget(h)
      PROVE  GotRight(x)'
  BY <1>7 DEF Forget, AskedInv
<1>8. CASE UNCHANGED namesvars
  BY <1>8 DEF namesvars, AskedInv
<1>. QED BY <1>1, <1>2, <1>3, <1>4, <1>5, <1>6, <1>7, <1>8 DEF NamesNext

(* check_shared() accepts a pointer from the time it is got for a name     *)
(* that is there to the deletion of that name, by whichever of the         *)
(* deletions, and at no other time: the address of a new string is one     *)
(* nobody points to, and what leaves the map leaves the set                *)
(* (shared_name_storage.cpp:45-96).                                        *)
THEOREM AcceptedUntilDeleted == NamesSpec => []AcceptedWhileNamed
<1>1. NamesInit => AskedInv
  BY NamesAssumption DEF NamesInit, AskedInv, GotRight
<1>2. ASSUME OneEach, AskedInv
      PROVE  AcceptedWhileNamed
  <2> SUFFICES ASSUME ~tampered, NEW h \in Handles
               PROVE  check_shared(h) <=> asked[h] # ""
    BY DEF AcceptedWhileNamed
  <2> USE NamesAssumption DEF OneEach, NamesTypeOK, check_shared
  <2>1. GotRight(h)
    BY <1>2 DEF AskedInv
  <2>2. CASE asked[h] = ""
    BY <2>1, <2>2 DEF GotRight
  <2>3. CASE asked[h] # ""
    <3>1. asked[h] \in Names /\ handle[h] \in Ids
      BY <1>2, <2>1, <2>3 DEF GotRight
    <3>. QED BY <1>2, <2>1, <2>3, <3>1 DEF GotRight
  <2>. QED BY <2>2, <2>3
<1>. QED BY <1>1, <1>2, InitNames, NamesKeep, AskedKeep, PTL DEF NamesSpec

-----------------------------------------------------------------------------
(* A thread between the clock and the store of reset().                    *)
Resetting(t) == tracking[t] = "resetting"

(* While the clock is not set back, what was read of it is not later than  *)
(* it; without two reset() at once, one that is under way has read a later *)
(* time than those that returned; and nothing is later than the time an    *)
(* elapsed() read that no reset() overlaps.                                *)
TrackInv ==
    /\ TrackTypeOK
    /\ start_ <= latest /\ 0 <= start_
    /\ ~setBack => /\ latest <= clock
                   /\ \A t \in Trackers : now[t] <= clock
    /\ (~setBack /\ ~clashed) =>
         /\ start_ = latest
         /\ \A t \in Trackers : Resetting(t) =>
              /\ latest <= now[t]
              /\ \A u \in Trackers : Resetting(u) => u = t
    /\ \A t \in Trackers : (tracking[t] = "reading" /\ ~crossed[t]) =>
         /\ ~setBack => latest <= now[t]
         /\ \A u \in Trackers : ~Resetting(u)

LEMMA InitTrack == TrackInit => TrackInv
<1> SUFFICES ASSUME TrackInit
             PROVE  TrackInv
  OBVIOUS
<1>1. TrackTypeOK
  <2>1. clock \in 0 .. MaxClock /\ start_ \in Int /\ latest \in Nat
    BY TrackerAssumption DEF TrackInit
  <2>2. /\ crossed \in [Trackers -> BOOLEAN] /\ clashed \in BOOLEAN /\ setBack \in BOOLEAN
        /\ tracking \in [Trackers -> {"no", "resetting", "reading"}]
    BY DEF TrackInit
  <2>3. now \in [Trackers -> Nat] /\ elapsed_ \in [Trackers -> Int]
    BY DEF TrackInit
  <2>. QED BY <2>1, <2>2, <2>3 DEF TrackTypeOK
<1>. QED BY <1>1 DEF TrackInit, TrackInv, Resetting

(* Both halves of reset() and elapsed(), and the clock, keep it.           *)
LEMMA TrackKeeps == TrackInv /\ [TrackNext]_trackvars => TrackInv'
<1> SUFFICES ASSUME TrackInv, [TrackNext]_trackvars
             PROVE  TrackInv'
  OBVIOUS
<1> USE TrackerAssumption DEF TrackTypeOK, Resetting
<1>1. ASSUME NEW t \in Trackers, NEW call \in {"resetting", "reading"}, ReadClock(t, call)
      PROVE  TrackInv'
  <2> USE DEF TrackInv
  <2>1. /\ tracking[t] = "no" /\ tracking' = [tracking EXCEPT ![t] = call]
        /\ now' = [now EXCEPT ![t] = clock]
        /\ UNCHANGED <<clock, start_, elapsed_, latest, setBack>>
    BY <1>1 DEF ReadClock
  <2>2. crossed' \in [Trackers -> BOOLEAN] /\ clashed' \in BOOLEAN
    BY <1>1, Zenon DEF ReadClock
  <2>3. TrackTypeOK'
    <3>1. tracking' \in [Trackers -> {"no", "resetting", "reading"}]
      BY <2>1
    <3>2. now' \in [Trackers -> Nat]
      BY <2>1
    <3>. QED BY <2>1, <2>2, <3>1, <3>2
  <2>4. CASE call = "resetting"
    <3>1. /\ \A x \in Trackers : ~crossed'[x] => ~crossed[x] /\ tracking[x] # "reading"
          /\ ~clashed' => ~clashed /\ \A y \in Trackers : tracking[y] # "resetting"
      BY <1>1, <2>4, Zenon DEF ReadClock
    <3>. QED BY <2>1, <2>3, <2>4, <3>1
  <2>5. CASE call = "reading"
    <3>1. /\ \A x \in Trackers : x # t => crossed'[x] = crossed[x]
          /\ ~crossed'[t] => \A y \in Trackers : tracking[y] # "resetting"
      BY <1>1, <2>5, Zenon DEF ReadClock
    <3>2. ~clashed' => ~clashed
      BY <1>1, <2>5, Zenon DEF ReadClock
    <3>. QED BY <2>1, <2>3, <2>5, <3>1, <3>2
  <2>. QED BY <2>4, <2>5
<1>2. ASSUME NEW t \in Trackers, Exchange(t)
      PROVE  TrackInv'
  <2>1. TrackTypeOK'
    BY <1>2 DEF Exchange, Exchanged, TrackInv
  <2>. QED BY <1>2, <2>1 DEF Exchange, Exchanged, TrackInv
<1>3. ASSUME NEW t \in Trackers, Load(t)
      PROVE  TrackInv'
  <2>1. TrackTypeOK'
    BY <1>3 DEF Load, TrackInv
  <2>. QED BY <1>3, <2>1 DEF Load, TrackInv
<1>4. CASE Tick
  BY <1>4 DEF Tick, TrackInv
<1>5. CASE SetBack
  BY <1>5 DEF SetBack, TrackInv
<1>6. CASE UNCHANGED trackvars
  BY <1>6 DEF trackvars, TrackInv
<1>. QED BY <1>1, <1>2, <1>3, <1>4, <1>5, <1>6 DEF TrackNext

(* elapsed() gives the time since the latest reset(), for any number of    *)
(* threads; what overlapping calls may make of it is said in the property  *)
(* (time_tracker.h:34-44: the clock is read before start_).                *)
THEOREM ElapsedTrue == TrackSpec => ElapsedSinceReset
<1>1. ASSUME TrackInv
      PROVE  /\ TrackTypeOK
             /\ [\A t \in Trackers :
                   (Load(t) /\ ~setBack) =>
                       /\ IF clashed THEN elapsed_'[t] >= now[t] - latest
                                     ELSE elapsed_'[t] = now[t] - latest
                       /\ ~crossed[t] => elapsed_'[t] >= 0]_trackvars
  BY <1>1 DEF TrackInv, TrackTypeOK, Load
<1>. QED BY <1>1, InitTrack, TrackKeeps, PTL DEF TrackSpec, ElapsedSinceReset

-----------------------------------------------------------------------------
(* What the process does in each state it reported.  The two threads are   *)
(* never at work together because the control manager starts what is       *)
(* stopped and passes a stop on to what runs; that says nothing about the  *)
(* states in between, in which one of the threads is on its way.  A        *)
(* shutdown that finds start_() at work is the end of this.                *)
ReportShape ==
    /\ dwCurrentState = "stopped" =>
         service_main = "none" /\ handler = "none" /\ application # "started"
    /\ dwCurrentState = "start_pending" =>
         /\ service_main \in {"pending", "starting", "started"} /\ handler = "idle"
         /\ service_main = "started" <=> application = "started"
    /\ dwCurrentState = "running" =>
         service_main = "none" /\ handler \in {"idle", "called"} /\ application = "started"
    /\ dwCurrentState = "stop_pending" => service_main = "none"
    /\ handler = "stopped" => application = "told"

StopShape == dwCurrentState = "stop_pending" => handler \in {"stopping", "stopped"}

ServiceInv == TypeOK /\ StopShape /\ (shutdown # "early" => ReportShape)

LEMMA InitService == Init => ServiceInv
<1> SUFFICES ASSUME Init
             PROVE  ServiceInv
  OBVIOUS
<1>1. runs \in 0 .. MaxRuns /\ handles \in [Commands -> SUBSET {"manager", "service"}]
  BY ServiceAssumption DEF Init
<1>2. TypeOK
  BY <1>1 DEF Init, TypeOK, Kinds
<1>. QED BY <1>2 DEF Init, ServiceInv, StopShape, ReportShape

(* The steps of the process move along the states in their order.          *)
LEMMA ProcessKeepsService ==
    ASSUME ServiceInv, ServiceStep
    PROVE  ServiceInv'
<1> USE DEF ServiceInv, TypeOK, StopShape, ReportShape, set_service_status
<1>1. CASE StartPending \/ start_thread \/ Running
  BY <1>1 DEF StartPending, start_thread, Running, command, manager
<1>2. CASE StopPending \/ stop_thread \/ Stopped \/ ProcessEnds
  BY <1>2 DEF StopPending, stop_thread, Stopped, ProcessEnds, command, manager
<1>. QED BY <1>1, <1>2 DEF ServiceStep

(* A command changes the reported state or the threads of the process only *)
(* when it starts a service that is stopped or asks one that runs.         *)
LEMMA CommandKeepsService ==
    ASSUME ServiceInv, NEW c \in Commands,
           Run(c) \/ CommandGoesOn(c) \/ Fails(c) \/ QueryFails(c)
    PROVE  ServiceInv'
<1> USE ServiceAssumption DEF ServiceInv, TypeOK, StopShape, Goto, Gain
<1>1. CASE Fails(c) \/ QueryFails(c) \/ Polled(c) \/ Answered(c)
  BY <1>1 DEF Fails, QueryFails, Polled, Answered, AfterControl, ReportShape,
              manager, process
<1>2. CASE OpenSCManager(c) \/ CreateService(c) \/ OpenService(c)
  <2>1. handles' \in [Commands -> SUBSET {"manager", "service"}]
    BY <1>2 DEF OpenSCManager, CreateService, OpenService
  <2>2. UNCHANGED <<dwCurrentState, service_main, handler, application, shutdown>>
    BY <1>2 DEF OpenSCManager, CreateService, OpenService, manager, process
  <2>3. UNCHANGED <<marked, caller, kind, runs>> /\ installed' \in BOOLEAN
    BY <1>2 DEF OpenSCManager, CreateService, OpenService, manager, process
  <2>4. pc' \in [Commands -> {"idle", "opening", "finding", "starting", "asking",
                             "asked", "polling", "deleting", "closing"}]
    BY <1>2 DEF OpenSCManager, CreateService, OpenService
  <2>5. TypeOK'
    BY <2>1, <2>2, <2>3, <2>4
  <2>. QED BY <2>2, <2>5 DEF ReportShape
<1>3. CASE StartService(c)
  BY <1>3 DEF StartService, ReportShape
<1>4. CASE ControlService(c)
  BY <1>4 DEF ControlService, AfterControl, ReportShape, manager
<1>5. CASE DeleteService(c) \/ Cleanup(c)
  <2>1. UNCHANGED <<dwCurrentState, service_main, handler, application, shutdown>>
    BY <1>5 DEF DeleteService, Cleanup, manager, process
  <2>2. CASE DeleteService(c)
    BY <2>1, <2>2 DEF DeleteService, ReportShape, process
  <2>3. CASE Cleanup(c)
    <3>1. kind' \in [Commands -> Kinds \cup {"none"}]
      BY <2>3 DEF Cleanup
    <3>2. handles' \in [Commands -> SUBSET {"manager", "service"}]
      BY <2>3 DEF Cleanup
    <3>. QED BY <2>1, <2>3, <3>1, <3>2 DEF Cleanup, ReportShape, manager, process
  <2>. QED BY <1>5, <2>2, <2>3
<1>6. CASE Run(c)
  BY <1>6 DEF Run, ReportShape, manager, process
<1>. QED BY <1>1, <1>2, <1>3, <1>4, <1>5, <1>6 DEF CommandGoesOn

(* The state that was reported last is the true one, and start_() and      *)
(* stop_() are not at work together, however many processes give commands, *)
(* whichever of their steps fail, and whenever Windows shuts down, but for *)
(* a shutdown that finds start_() at work (windows_service.cpp:82-145).    *)
THEOREM StatusTrue == Spec => []StatusHonest
<1>1. ServiceInv /\ [Next]_vars => ServiceInv'
  <2> SUFFICES ASSUME ServiceInv, [Next]_vars
               PROVE  ServiceInv'
    OBVIOUS
  <2> USE DEF ServiceInv, TypeOK, StopShape
  <2>1. CASE RemoveEntry
    BY <2>1 DEF RemoveEntry, ReportShape, process, command
  <2>2. CASE Shutdown
    BY <2>2 DEF Shutdown, AcceptsShutdown, ReportShape, manager, command
  <2>3. CASE UNCHANGED vars
    BY <2>3 DEF vars, manager, process, command, ReportShape
  <2>. QED BY <2>1, <2>2, <2>3, ProcessKeepsService, CommandKeepsService DEF Next
<1>2. ServiceInv => StatusHonest
  BY DEF ServiceInv, TypeOK, StopShape, ReportShape, StatusHonest
<1>. QED BY <1>1, <1>2, InitService, PTL DEF Spec

-----------------------------------------------------------------------------
(* A set of numbers has a least one.                                       *)
LEMMA Least ==
    ASSUME NEW T \in SUBSET Nat, T # {}
    PROVE  \E n \in T : \A m \in T : n <= m
<1>1. IsWellFoundedOn(OpToRel(<, Nat), Nat)
  BY NatLessThanWellFounded
<1>2. PICK n \in T : \A m \in T : <<m, n>> \notin OpToRel(<, Nat)
  BY <1>1, WFMin
<1>3. ASSUME NEW m \in T
      PROVE  n <= m
  <2>1. <<m, n>> \in Nat \X Nat /\ ~(m < n)
    BY <1>2 DEF OpToRel
  <2>. QED BY <2>1
<1>. QED BY <1>3

(* A function of the first numbers that is given by its value at 0 and by  *)
(* what each value makes of the one before.                                *)
Grown(f, n, start, step) ==
    f = [k \in 0 .. n |-> IF k = 0 THEN start ELSE step[k][f[k - 1]]]

(* ... exists.                                                             *)
LEMMA GrownExists ==
    ASSUME NEW V, NEW n \in Nat, NEW start \in V, NEW step \in [1 .. n -> [V -> V]]
    PROVE  \E f \in [0 .. n -> V] : Grown(f, n, start, step)
<1> DEFINE Bad == {m \in 0 .. n : ~ \E f \in [0 .. m -> V] : Grown(f, m, start, step)}
<1>1. Bad \in SUBSET Nat
  OBVIOUS
<1>2. ASSUME Bad # {}
      PROVE  FALSE
  <2>1. PICK m \in Bad : \A x \in Bad : m <= x
    BY <1>1, <1>2, Least
  <2>2. m # 0
    <3>1. Grown([k \in 0 .. 0 |-> start], 0, start, step)
      BY DEF Grown
    <3>2. [k \in 0 .. 0 |-> start] \in [0 .. 0 -> V]
      OBVIOUS
    <3>. QED BY <2>1, <3>1, <3>2
  <2>3. m \in 1 .. n /\ m - 1 \in 0 .. n /\ m - 1 < m
    BY <2>1, <2>2
  <2>4. m - 1 \notin Bad
    <3> HIDE DEF Bad
    <3>. QED BY <2>1, <2>3
  <2>5. PICK f \in [0 .. m - 1 -> V] : Grown(f, m - 1, start, step)
    BY <2>3, <2>4
  <2> DEFINE g == [k \in 0 .. m |-> IF k = m THEN step[m][f[m - 1]] ELSE f[k]]
  <2>6. step[m][f[m - 1]] \in V
    <3>1. f[m - 1] \in V
      BY <2>3, <2>5
    <3>2. step[m] \in [V -> V]
      BY <2>3
    <3>. QED BY <3>1, <3>2
  <2>7. g \in [0 .. m -> V]
    BY <2>3, <2>5, <2>6
  <2>8. ASSUME NEW k \in 0 .. m
        PROVE  g[k] = IF k = 0 THEN start ELSE step[k][g[k - 1]]
    <3>1. CASE k = m
      BY <2>3, <3>1
    <3>2. CASE k # m
      <4>1. k \in 0 .. m - 1 /\ g[k] = f[k] /\ (k # 0 => g[k - 1] = f[k - 1])
        BY <2>3, <3>2
      <4>2. f[k] = IF k = 0 THEN start ELSE step[k][f[k - 1]]
        BY <2>5, <4>1 DEF Grown
      <4>. QED BY <4>1, <4>2
    <3>. QED BY <3>1, <3>2
  <2>9. Grown(g, m, start, step)
    BY <2>8 DEF Grown
  <2>. QED BY <2>1, <2>7, <2>9
<1>. QED BY <1>2

(* Two such functions are the same when each value follows from the one    *)
(* before in the same way.                                                 *)
Follows(f, g, n) == \A k \in 1 .. n : f[k - 1] = g[k - 1] => f[k] = g[k]

LEMMA SameGrowth ==
    ASSUME NEW n \in Nat, NEW f, NEW g, f[0] = g[0], Follows(f, g, n)
    PROVE  \A k \in 0 .. n : f[k] = g[k]
<1> DEFINE Bad == {k \in 0 .. n : f[k] # g[k]}
<1>1. Bad \in SUBSET Nat
  OBVIOUS
<1>2. ASSUME Bad # {}
      PROVE  FALSE
  <2>1. PICK k \in Bad : \A x \in Bad : k <= x
    BY <1>1, <1>2, Least
  <2>2. k \in 1 .. n /\ k - 1 \in 0 .. n /\ k - 1 < k /\ f[k] # g[k]
    BY <2>1
  <2>3. f[k - 1] = g[k - 1]
    BY <2>1, <2>2
  <2>. QED BY <2>2, <2>3 DEF Follows
<1>. QED BY <1>2

-----------------------------------------------------------------------------
(* The lines of a file with its includes replaced.                         *)
Item     == Line \cup [kind : {"stuck"}]
Included == [Files -> Seq(Item)]

(* The lines that stand for what reading cannot do.                        *)
LEMMA StopTyped == Stop("bad") \in Seq(Item) /\ Stop("stuck") \in Seq(Item)
<1>1. [kind |-> "bad"] \in Item /\ [kind |-> "stuck"] \in Item
  BY DEF Item, Line
<1>. QED BY <1>1 DEF Stop

(* What a line stands for.                                                 *)
LEMMA PieceTyped ==
    ASSUME NEW line \in Line, NEW included \in Included
    PROVE  Piece(line, included) \in Seq(Item)
<1>1. CASE line.kind = "include"
  <2>1. line.file \in Files
    BY <1>1 DEF Line
  <2>. QED BY <1>1, <2>1 DEF Piece, Included
<1>2. CASE line.kind # "include"
  <2>1. line \in Item
    BY DEF Item
  <2>. QED BY <1>2, <2>1 DEF Piece
<1>. QED BY <1>1, <1>2

(* What the last n lines stand for, of each n: the function Inlined chooses.*)
IsLast(h, lines, included) ==
    h = [n \in 0 .. Len(lines) |->
           IF n = 0 THEN <<>> ELSE Piece(lines[Len(lines) + 1 - n], included) \o h[n - 1]]

(* Inlined chooses one that exists.                                        *)
LEMMA InlinedIs ==
    ASSUME NEW lines \in Seq(Line), NEW included \in Included
    PROVE  \E h \in [0 .. Len(lines) -> Seq(Item)] :
               IsLast(h, lines, included) /\ Inlined(lines, included) = h[Len(lines)]
<1> DEFINE n == Len(lines)
           step == [k \in 1 .. n |-> [s \in Seq(Item) |-> Piece(lines[n + 1 - k], included) \o s]]
           last == CHOOSE h : IsLast(h, lines, included)
<1>1. n \in Nat /\ <<>> \in Seq(Item)
  OBVIOUS
<1>2. ASSUME NEW k \in 1 .. n
      PROVE  Piece(lines[n + 1 - k], included) \in Seq(Item)
  <2>1. lines[n + 1 - k] \in Line
    BY <1>1
  <2>. QED BY <2>1, PieceTyped
<1>3. step \in [1 .. n -> [Seq(Item) -> Seq(Item)]]
  <2>1. ASSUME NEW k \in 1 .. n, NEW s \in Seq(Item)
        PROVE  Piece(lines[n + 1 - k], included) \o s \in Seq(Item)
    BY <1>2, ConcatProperties
  <2>. QED BY <2>1
<1>4. PICK f \in [0 .. n -> Seq(Item)] : Grown(f, n, <<>>, step)
  <2> HIDE DEF n, step
  <2>. QED BY <1>1, <1>3, GrownExists
<1>5. ASSUME NEW k \in 0 .. n
      PROVE  f[k] = IF k = 0 THEN <<>> ELSE Piece(lines[n + 1 - k], included) \o f[k - 1]
  <2>1. f[k] = IF k = 0 THEN <<>> ELSE step[k][f[k - 1]]
    BY <1>4 DEF Grown
  <2>2. CASE k = 0
    BY <2>1, <2>2
  <2>3. CASE k # 0
    <3>1. k \in 1 .. n /\ k - 1 \in 0 .. n
      BY <1>1, <2>3
    <3>2. f[k - 1] \in Seq(Item)
      BY <1>4, <3>1
    <3>. QED BY <2>1, <2>3, <3>1, <3>2
  <2>. QED BY <2>2, <2>3
<1>6. IsLast(f, lines, included)
  BY <1>4, <1>5 DEF IsLast
<1>7. IsLast(last, lines, included)
  BY <1>6
<1>8. Inlined(lines, included) = last[n]
  BY DEF Inlined, IsLast
<1>. QED
  <2> HIDE DEF last, step
  <2>1. last[0] = f[0] /\ Follows(last, f, n)
    <3>1. \A k \in 0 .. n : last[k] = IF k = 0 THEN <<>> ELSE Piece(lines[n + 1 - k], included) \o last[k - 1]
      BY <1>7 DEF IsLast
    <3> HIDE DEF n
    <3>2. 0 \in 0 .. n /\ \A k \in 1 .. n : k \in 0 .. n /\ k # 0
      BY <1>1
    <3>3. last[0] = f[0]
      BY <1>5, <3>1, <3>2
    <3>4. ASSUME NEW k \in 1 .. n, last[k - 1] = f[k - 1]
          PROVE  last[k] = f[k]
      BY <1>5, <3>1, <3>2, <3>4
    <3>. QED BY <3>3, <3>4 DEF Follows
  <2>2. last[n] = f[n]
    BY <1>1, <2>1, SameGrowth
  <2>. QED BY <1>6, <1>8, <2>2

(* No lines stand for none.                                                *)
LEMMA InlinedEmpty == ASSUME NEW included \in Included
                      PROVE  Inlined(<<>>, included) = <<>>
<1>1. <<>> \in Seq(Line) /\ Len(<<>>) = 0
  OBVIOUS
<1>2. PICK h \in [0 .. 0 -> Seq(Item)] : IsLast(h, <<>>, included) /\ Inlined(<<>>, included) = h[0]
  BY <1>1, InlinedIs
<1>. QED BY <1>1, <1>2 DEF IsLast

(* Lines stand for lines.                                                  *)
LEMMA InlinedTyped ==
    ASSUME NEW lines \in Seq(Line), NEW included \in Included
    PROVE  Inlined(lines, included) \in Seq(Item)
<1>1. PICK h \in [0 .. Len(lines) -> Seq(Item)] : Inlined(lines, included) = h[Len(lines)]
  BY InlinedIs
<1>2. Len(lines) \in 0 .. Len(lines)
  OBVIOUS
<1>. QED BY <1>1, <1>2

(* The first line of a file comes first in what the file stands for.       *)
LEMMA InlinedHead ==
    ASSUME NEW lines \in Seq(Line), lines # <<>>, NEW included \in Included
    PROVE  Inlined(lines, included) = Piece(Head(lines), included) \o Inlined(Tail(lines), included)
<1> DEFINE rest == Tail(lines)
           n == Len(lines)
<1>1. /\ rest \in Seq(Line) /\ Len(rest) = n - 1 /\ n \in Nat \ {0} /\ Head(lines) = lines[1]
      /\ \A k \in 1 .. n - 1 : rest[k] = lines[k + 1]
  BY HeadTailProperties
<1> HIDE DEF rest
<1>2. PICK h \in [0 .. n -> Seq(Item)] :
           IsLast(h, lines, included) /\ Inlined(lines, included) = h[n]
  BY InlinedIs
<1>3. PICK g \in [0 .. n - 1 -> Seq(Item)] :
           IsLast(g, rest, included) /\ Inlined(rest, included) = g[n - 1]
  BY <1>1, InlinedIs
<1> HIDE DEF n
<1>4. \A k \in 0 .. n : h[k] = IF k = 0 THEN <<>> ELSE Piece(lines[n + 1 - k], included) \o h[k - 1]
  BY <1>2 DEF IsLast, n
<1>5. \A k \in 0 .. n - 1 : g[k] = IF k = 0 THEN <<>> ELSE Piece(rest[n - k], included) \o g[k - 1]
  <2>1. \A k \in 0 .. n - 1 : Len(rest) + 1 - k = n - k
    BY <1>1
  <2>. QED BY <1>1, <1>3, <2>1 DEF IsLast
<1>6. h[0] = g[0] /\ Follows(h, g, n - 1)
  <2>1. h[0] = g[0]
    <3>1. 0 \in 0 .. n /\ 0 \in 0 .. n - 1
      BY <1>1
    <3>. QED BY <1>4, <1>5, <3>1
  <2>2. ASSUME NEW k \in 1 .. n - 1, h[k - 1] = g[k - 1]
        PROVE  h[k] = g[k]
    <3>1. rest[n - k] = lines[n + 1 - k]
      <4>1. n - k \in 1 .. n - 1 /\ (n - k) + 1 = n + 1 - k
        BY <1>1
      <4>. QED BY <1>1, <4>1
    <3>2. k \in 0 .. n /\ k \in 0 .. n - 1 /\ k # 0
      BY <1>1
    <3>. QED BY <1>4, <1>5, <2>2, <3>1, <3>2
  <2>. QED BY <2>1, <2>2 DEF Follows
<1>7. h[n - 1] = g[n - 1]
  <2>1. n - 1 \in Nat /\ n - 1 \in 0 .. n - 1
    BY <1>1
  <2>2. \A k \in 0 .. n - 1 : h[k] = g[k]
    BY <1>6, <2>1, SameGrowth
  <2>. QED BY <2>1, <2>2
<1>8. h[n] = Piece(lines[1], included) \o h[n - 1]
  <2>1. n \in 0 .. n /\ n # 0 /\ n + 1 - n = 1
    BY <1>1
  <2>. QED BY <1>4, <2>1
<1>. QED BY <1>1, <1>2, <1>3, <1>7, <1>8 DEF rest

(* What each file stands for when one more may be open.                    *)
Deeper(contents, included) ==
    [f \in Files |-> IF contents[f] = NoFile THEN Stop("bad") ELSE InFull(contents[f], included)]

(* What the names of files may be found to be.                             *)
Contents == [Files -> Seq(Line) \cup {NoFile, Directory}]

(* What the files stand for are lines.                                     *)
LEMMA DeeperTyped ==
    ASSUME NEW contents \in Contents, NEW included \in Included
    PROVE  Deeper(contents, included) \in Included
<1>1. ASSUME NEW f \in Files, contents[f] # NoFile
      PROVE  InFull(contents[f], included) \in Seq(Item)
  <2>1. CASE contents[f] = Directory
    BY <2>1, StopTyped DEF InFull
  <2>2. CASE contents[f] # Directory
    <3>1. contents[f] \in Seq(Line)
      BY <1>1, <2>2 DEF Contents
    <3>. QED BY <2>2, <3>1, InlinedTyped DEF InFull
  <2>. QED BY <2>1, <2>2
<1>. QED BY <1>1, StopTyped DEF Deeper, Included

(* What the files stand for, for each number of files that may be open.    *)
IsFlat(h, contents) ==
    h = [d \in 0 .. MaxOpen |-> IF d = 0 THEN [f \in Files |-> Stop("bad")]
                                ELSE Deeper(contents, h[d - 1])]

(* Flat chooses one that exists.                                           *)
LEMMA FlatIs ==
    ASSUME NEW contents \in Contents
    PROVE  /\ Flat(contents)[0] = [f \in Files |-> Stop("bad")]
           /\ \A d \in 0 .. MaxOpen : Flat(contents)[d] \in Included
           /\ \A d \in 1 .. MaxOpen : Flat(contents)[d] = Deeper(contents, Flat(contents)[d - 1])
<1> DEFINE bad == [f \in Files |-> Stop("bad")]
           step == [d \in 1 .. MaxOpen |-> [g \in Included |-> Deeper(contents, g)]]
           flat == CHOOSE h : IsFlat(h, contents)
<1>1. MaxOpen \in Nat /\ bad \in Included
  BY StopTyped, ReaderAssumption DEF Included
<1>2. step \in [1 .. MaxOpen -> [Included -> Included]]
  BY DeeperTyped
<1>3. PICK g \in [0 .. MaxOpen -> Included] : Grown(g, MaxOpen, bad, step)
  <2> HIDE DEF bad, step
  <2>. QED BY <1>1, <1>2, GrownExists
<1>4. ASSUME NEW d \in 0 .. MaxOpen
      PROVE  g[d] = IF d = 0 THEN bad ELSE Deeper(contents, g[d - 1])
  <2>1. g[d] = IF d = 0 THEN bad ELSE step[d][g[d - 1]]
    BY <1>3 DEF Grown
  <2>2. CASE d = 0
    BY <2>1, <2>2
  <2>3. CASE d # 0
    <3>1. d \in 1 .. MaxOpen /\ d - 1 \in 0 .. MaxOpen
      BY <1>1, <2>3
    <3>2. g[d - 1] \in Included
      BY <1>3, <3>1
    <3>. QED BY <2>1, <2>3, <3>1, <3>2
  <2>. QED BY <2>2, <2>3
<1>5. IsFlat(g, contents)
  BY <1>3, <1>4 DEF IsFlat
<1>6. IsFlat(flat, contents)
  BY <1>5
<1>7. Flat(contents) = flat
  BY DEF Flat, IsFlat, Deeper
<1> HIDE DEF flat, step, bad
<1>8. \A d \in 0 .. MaxOpen : flat[d] = IF d = 0 THEN bad ELSE Deeper(contents, flat[d - 1])
  BY <1>6 DEF IsFlat, bad
<1>9. 0 \in 0 .. MaxOpen /\ \A d \in 1 .. MaxOpen : d \in 0 .. MaxOpen /\ d # 0
  BY <1>1
<1>10. flat[0] = g[0] /\ Follows(flat, g, MaxOpen)
  <2>1. flat[0] = g[0]
    BY <1>4, <1>8, <1>9
  <2>2. ASSUME NEW d \in 1 .. MaxOpen, flat[d - 1] = g[d - 1]
        PROVE  flat[d] = g[d]
    BY <1>4, <1>8, <1>9, <2>2
  <2>. QED BY <2>1, <2>2 DEF Follows
<1>11. \A d \in 0 .. MaxOpen : flat[d] = g[d]
  BY <1>1, <1>10, SameGrowth
<1>. QED BY <1>3, <1>7, <1>8, <1>9, <1>11 DEF bad

-----------------------------------------------------------------------------
(* What lines make of a map.                                               *)
Maps == [Params -> Seq(Values \cup {""}) \cup {Unset}]

(* A value is a sequence of one word.                                      *)
LEMMA Single == ASSUME NEW S, NEW w \in S
                PROVE  <<w>> \in Seq(S)
OBVIOUS

(* A line makes settings of settings.                                      *)
LEMMA ChangedTyped ==
    ASSUME NEW map \in Maps, NEW line \in Item
    PROVE  Changed(map, line) \in Maps
<1>1. ASSUME line.kind \in {"set", "add"}
      PROVE  line.name \in Params /\ line.value \in Values
  BY <1>1 DEF Item, Line
<1>0. \A w \in Values \cup {""} : <<w>> \in Seq(Values \cup {""})
  BY Single
<1>2. CASE line.kind = "set"
  <2>1. <<line.value>> \in Seq(Values \cup {""})
    BY <1>0, <1>1, <1>2
  <2>. QED BY <1>1, <1>2, <2>1 DEF Changed, Maps
<1>3. CASE line.kind = "add"
  <2> DEFINE words == IF map[line.name] = Unset THEN <<"">> ELSE map[line.name]
  <2>1. words \in Seq(Values \cup {""}) /\ <<line.value>> \in Seq(Values \cup {""})
    <3>1. <<line.value>> \in Seq(Values \cup {""}) /\ <<"">> \in Seq(Values \cup {""})
      BY <1>0, <1>1, <1>3
    <3>2. map[line.name] \in Seq(Values \cup {""}) \cup {Unset}
      BY <1>1, <1>3 DEF Maps
    <3>. QED BY <3>1, <3>2
  <2> HIDE DEF words
  <2>2. words \o <<line.value>> \in Seq(Values \cup {""})
    BY <2>1, ConcatProperties
  <2>3. Changed(map, line) = [map EXCEPT ![line.name] = words \o <<line.value>>]
    BY <1>3 DEF Changed, words
  <2>. QED BY <2>2, <2>3 DEF Maps
<1>4. CASE line.kind \notin {"set", "add"}
  BY <1>4 DEF Changed
<1>. QED BY <1>2, <1>3, <1>4

(* What the first n lines make of a map, for each n.                       *)
IsMeaning(h, map, lines) ==
    h = [n \in 0 .. Len(lines) |-> IF n = 0 THEN map ELSE Changed(h[n - 1], lines[n])]

(* Meaning chooses one that exists.                                        *)
LEMMA MeaningIs ==
    ASSUME NEW map \in Maps, NEW lines \in Seq(Item)
    PROVE  /\ Meaning(map, lines)[0] = map
           /\ \A n \in 1 .. Len(lines) :
                Meaning(map, lines)[n] = Changed(Meaning(map, lines)[n - 1], lines[n])
<1> DEFINE l == Len(lines)
           step == [n \in 1 .. l |-> [m \in Maps |-> Changed(m, lines[n])]]
           after == CHOOSE h : IsMeaning(h, map, lines)
<1>1. l \in Nat
  OBVIOUS
<1>2. step \in [1 .. l -> [Maps -> Maps]]
  <2>1. \A n \in 1 .. l : lines[n] \in Item
    OBVIOUS
  <2>. QED BY <2>1, ChangedTyped
<1>3. PICK g \in [0 .. l -> Maps] : Grown(g, l, map, step)
  <2> HIDE DEF l, step
  <2>. QED BY <1>1, <1>2, GrownExists
<1>4. ASSUME NEW n \in 0 .. l
      PROVE  g[n] = IF n = 0 THEN map ELSE Changed(g[n - 1], lines[n])
  <2>1. g[n] = IF n = 0 THEN map ELSE step[n][g[n - 1]]
    BY <1>3 DEF Grown
  <2>2. CASE n = 0
    BY <2>1, <2>2
  <2>3. CASE n # 0
    <3>1. n \in 1 .. l /\ n - 1 \in 0 .. l
      BY <1>1, <2>3
    <3>2. g[n - 1] \in Maps
      BY <1>3, <3>1
    <3>. QED BY <2>1, <2>3, <3>1, <3>2
  <2>. QED BY <2>2, <2>3
<1>5. IsMeaning(g, map, lines)
  BY <1>3, <1>4 DEF IsMeaning
<1>6. IsMeaning(after, map, lines)
  BY <1>5
<1>7. Meaning(map, lines) = after
  BY DEF Meaning, IsMeaning
<1> HIDE DEF after, step
<1>8. \A n \in 0 .. l : after[n] = IF n = 0 THEN map ELSE Changed(after[n - 1], lines[n])
  BY <1>6 DEF IsMeaning
<1> HIDE DEF l
<1>9. 0 \in 0 .. l /\ \A n \in 1 .. l : n \in 0 .. l /\ n # 0
  BY <1>1
<1>. QED BY <1>7, <1>8, <1>9 DEF l

-----------------------------------------------------------------------------
(* The lines that are left to read: from the k-th open file down, of each  *)
(* what is left of it, its includes replaced.                              *)
IsRest(rest, files, flat) ==
    /\ rest \in [0 .. Len(files) -> Seq(Item)]
    /\ rest[0] = <<>>
    /\ \A k \in 1 .. Len(files) : rest[k] = InFull(files[k], flat[MaxOpen - k]) \o rest[k - 1]

(* What may be left of the open files.                                     *)
Frames == Seq(Seq(Line) \cup {Directory})

(* A line is taken from the file that was opened last.                     *)
LEMMA RestReplaced ==
    ASSUME NEW files \in Frames, files # <<>>, NEW flat, NEW rest, IsRest(rest, files, flat),
           NEW top \in Seq(Line) \cup {Directory},
           InFull(top, flat[MaxOpen - Len(files)]) \in Seq(Item)
    PROVE  /\ [files EXCEPT ![Len(files)] = top] \in Frames
           /\ Len([files EXCEPT ![Len(files)] = top]) = Len(files)
           /\ \E r : /\ IsRest(r, [files EXCEPT ![Len(files)] = top], flat)
                     /\ r[Len(files)] = InFull(top, flat[MaxOpen - Len(files)]) \o rest[Len(files) - 1]
<1> DEFINE n == Len(files)
           new == [files EXCEPT ![n] = top]
           full == InFull(top, flat[MaxOpen - n])
           r == [rest EXCEPT ![n] = full \o rest[n - 1]]
<1>1. n \in Nat \ {0} /\ n \in 1 .. n /\ n - 1 \in 0 .. n /\ n \in 0 .. n
  BY DEF Frames
<1>2. /\ new \in Frames /\ Len(new) = n /\ new[n] = top
      /\ \A k \in 1 .. n : k # n => new[k] = files[k]
  BY <1>1 DEF Frames
<1>3. rest \in [0 .. n -> Seq(Item)] /\ rest[n - 1] \in Seq(Item)
  BY <1>1 DEF IsRest
<1>4. full \o rest[n - 1] \in Seq(Item)
  BY <1>3, ConcatProperties
<1> HIDE DEF full, new
<1>5. r \in [0 .. n -> Seq(Item)] /\ r[n] = full \o rest[n - 1] /\ \A k \in 0 .. n : k # n => r[k] = rest[k]
  <2> HIDE DEF n
  <2>. QED BY <1>1, <1>3, <1>4
<1> HIDE DEF r
<1>6. r[0] = <<>>
  BY <1>1, <1>5 DEF IsRest
<1>7. ASSUME NEW k \in 1 .. n
      PROVE  r[k] = InFull(new[k], flat[MaxOpen - k]) \o r[k - 1]
  <2>1. k - 1 \in 0 .. n /\ k - 1 # n /\ k \in 0 .. n
    BY <1>1
  <2>2. CASE k = n
    BY <1>2, <1>5, <2>1, <2>2 DEF full
  <2>3. CASE k # n
    <3>1. rest[k] = InFull(files[k], flat[MaxOpen - k]) \o rest[k - 1]
      BY DEF IsRest
    <3>. QED BY <1>2, <1>5, <2>1, <2>3, <3>1
  <2>. QED BY <2>2, <2>3
<1>8. IsRest(r, new, flat)
  BY <1>2, <1>5, <1>6, <1>7 DEF IsRest
<1>. QED BY <1>2, <1>5, <1>8 DEF full, new

(* A file is opened on top of the others.                                  *)
LEMMA RestPushed ==
    ASSUME NEW files \in Frames, NEW flat, NEW rest, IsRest(rest, files, flat),
           NEW top \in Seq(Line) \cup {Directory},
           InFull(top, flat[MaxOpen - (Len(files) + 1)]) \in Seq(Item)
    PROVE  /\ Append(files, top) \in Frames /\ Len(Append(files, top)) = Len(files) + 1
           /\ \E r : /\ IsRest(r, Append(files, top), flat)
                     /\ r[Len(files) + 1] =
                          InFull(top, flat[MaxOpen - (Len(files) + 1)]) \o rest[Len(files)]
<1> DEFINE n == Len(files)
           new == Append(files, top)
           full == InFull(top, flat[MaxOpen - (n + 1)])
           r == [k \in 0 .. n + 1 |-> IF k = n + 1 THEN full \o rest[n] ELSE rest[k]]
<1>1. n \in Nat /\ n \in 0 .. n /\ n + 1 \in 0 .. n + 1
  BY DEF Frames
<1>2. /\ new \in Frames /\ Len(new) = n + 1 /\ new[n + 1] = top
      /\ \A k \in 1 .. n : new[k] = files[k]
  BY AppendProperties DEF Frames
<1>3. rest \in [0 .. n -> Seq(Item)] /\ rest[n] \in Seq(Item)
  BY <1>1 DEF IsRest
<1>4. full \o rest[n] \in Seq(Item)
  BY <1>3, ConcatProperties
<1> HIDE DEF full, new
<1>5. /\ r \in [0 .. n + 1 -> Seq(Item)] /\ r[n + 1] = full \o rest[n]
      /\ \A k \in 0 .. n : r[k] = rest[k]
  <2> HIDE DEF n
  <2>1. \A k \in 0 .. n + 1 : k # n + 1 => k \in 0 .. n
    BY <1>1
  <2>2. \A k \in 0 .. n : k \in 0 .. n + 1 /\ k # n + 1
    BY <1>1
  <2>. QED BY <1>1, <1>3, <1>4, <2>1, <2>2
<1> HIDE DEF r
<1>6. r[0] = <<>>
  BY <1>1, <1>5 DEF IsRest
<1>7. ASSUME NEW k \in 1 .. n + 1
      PROVE  r[k] = InFull(new[k], flat[MaxOpen - k]) \o r[k - 1]
  <2>1. CASE k = n + 1
    <3>1. k - 1 = n
      BY <1>1, <2>1
    <3>2. new[k] = top /\ r[k - 1] = rest[n]
      BY <1>1, <1>2, <1>5, <2>1, <3>1
    <3>. QED BY <1>5, <2>1, <3>2 DEF full
  <2>2. CASE k # n + 1
    <3>1. k \in 1 .. n /\ k \in 0 .. n /\ k - 1 \in 0 .. n
      BY <1>1, <2>2
    <3>2. rest[k] = InFull(files[k], flat[MaxOpen - k]) \o rest[k - 1]
      BY <3>1 DEF IsRest
    <3>. QED BY <1>2, <1>5, <3>1, <3>2
  <2>. QED BY <2>1, <2>2
<1>8. IsRest(r, new, flat)
  BY <1>2, <1>5, <1>6, <1>7 DEF IsRest
<1>. QED BY <1>2, <1>5, <1>8 DEF full, new

(* The file that was opened last is closed at its end.                     *)
LEMMA RestPopped ==
    ASSUME NEW files \in Frames, files # <<>>, NEW flat, NEW rest, IsRest(rest, files, flat)
    PROVE  /\ Front(files) \in Frames /\ Len(Front(files)) = Len(files) - 1
           /\ \E r : IsRest(r, Front(files), flat) /\ r[Len(files) - 1] = rest[Len(files) - 1]
<1> DEFINE n == Len(files)
           new == Front(files)
           r == [k \in 0 .. n - 1 |-> rest[k]]
<1>1. n \in Nat \ {0} /\ n - 1 \in 0 .. n - 1 /\ n - 1 \in 0 .. n
  BY DEF Frames
<1>2. /\ new \in Frames /\ Len(new) = n - 1
      /\ \A k \in 1 .. n - 1 : new[k] = files[k]
  <2>1. files \in Seq(Seq(Line) \cup {Directory}) /\ new = SubSeq(files, 1, n - 1)
    BY DEF Frames, Front
  <2>2. 1 \in Nat /\ n - 1 \in Nat /\ n - 1 <= Len(files)
    BY <1>1
  <2>3. /\ SubSeq(files, 1, n - 1) \in Frames /\ Len(SubSeq(files, 1, n - 1)) = n - 1
        /\ \A k \in 1 .. n - 1 : SubSeq(files, 1, n - 1)[k] = files[k]
    <3>1. \A k \in 1 .. n - 1 : files[k] \in Seq(Line) \cup {Directory}
      BY <2>1
    <3>2. \A k \in 1 .. (n - 1) - 1 + 1 : k \in 1 .. n - 1 /\ 1 + k - 1 = k
      BY <2>2
    <3>3. /\ SubSeq(files, 1, n - 1) \in Seq(Seq(Line) \cup {Directory})
          /\ Len(SubSeq(files, 1, n - 1)) = IF 1 <= n - 1 THEN (n - 1) - 1 + 1 ELSE 0
          /\ \A k \in 1 .. (n - 1) - 1 + 1 : SubSeq(files, 1, n - 1)[k] = files[1 + k - 1]
      BY <2>2, <3>1, SubSeqProperties
    <3>4. \A k \in 1 .. n - 1 : k \in 1 .. (n - 1) - 1 + 1 /\ 1 + k - 1 = k
      BY <2>2
    <3> HIDE DEF n
    <3>5. Len(SubSeq(files, 1, n - 1)) = n - 1
      BY <1>1, <3>3
    <3>6. \A k \in 1 .. n - 1 : SubSeq(files, 1, n - 1)[k] = files[k]
      BY <3>3, <3>4
    <3>. QED BY <3>3, <3>5, <3>6 DEF Frames
  <2>. QED BY <2>1, <2>3
<1>3. rest \in [0 .. n -> Seq(Item)]
  BY <1>1 DEF IsRest
<1> HIDE DEF new
<1>5. r \in [0 .. n - 1 -> Seq(Item)] /\ \A k \in 0 .. n - 1 : r[k] = rest[k]
  <2> HIDE DEF n
  <2>1. \A k \in 0 .. n - 1 : k \in 0 .. n
    BY <1>1
  <2>. QED BY <1>1, <1>3, <2>1
<1> HIDE DEF r
<1>6. r[0] = <<>>
  BY <1>1, <1>5 DEF IsRest
<1>7. ASSUME NEW k \in 1 .. n - 1
      PROVE  r[k] = InFull(new[k], flat[MaxOpen - k]) \o r[k - 1]
  <2>1. k \in 1 .. n /\ k \in 0 .. n - 1 /\ k - 1 \in 0 .. n - 1
    BY <1>1
  <2>2. rest[k] = InFull(files[k], flat[MaxOpen - k]) \o rest[k - 1]
    BY <2>1 DEF IsRest
  <2>. QED BY <1>2, <1>5, <2>1, <2>2
<1>8. IsRest(r, new, flat)
  BY <1>2, <1>5, <1>6, <1>7 DEF IsRest
<1>. QED BY <1>1, <1>2, <1>5, <1>8 DEF new

(* A line that is read is the next of all.                                 *)
LEMMA NextItem ==
    ASSUME NEW lines \in Seq(Item), NEW n \in 0 .. Len(lines), NEW x \in Item, NEW s \in Seq(Item),
           <<x>> \o s = SubSeq(lines, n + 1, Len(lines))
    PROVE  /\ n + 1 \in 1 .. Len(lines) /\ lines[n + 1] = x
           /\ s = SubSeq(lines, (n + 1) + 1, Len(lines))
<1> DEFINE l == Len(lines)
           t == SubSeq(lines, n + 1, l)
           u == SubSeq(lines, (n + 1) + 1, l)
<1>1. l \in Nat /\ n \in Nat /\ n <= l /\ Len(s) \in Nat
  OBVIOUS
<1>2. <<x>> \in Seq(Item) /\ Len(<<x>>) = 1 /\ <<x>>[1] = x
  OBVIOUS
<1>3. /\ Len(<<x>> \o s) = 1 + Len(s) /\ (<<x>> \o s)[1] = x
      /\ \A k \in 1 .. Len(s) : (<<x>> \o s)[k + 1] = s[k]
  BY <1>1, <1>2, ConcatProperties
<1>4. Len(t) = l - n /\ \A k \in 1 .. l - n : t[k] = lines[n + k]
  BY <1>1, SubSeqProperties
<1>5. Len(s) = l - n - 1 /\ n + 1 \in 1 .. l
  BY <1>1, <1>3, <1>4
<1>6. u \in Seq(Item) /\ Len(u) = l - n - 1 /\ \A k \in 1 .. l - n - 1 : u[k] = lines[n + 1 + k]
  BY <1>1, <1>5, SubSeqProperties
<1>7. lines[n + 1] = x
  BY <1>1, <1>3, <1>4, <1>5
<1>8. ASSUME NEW k \in 1 .. Len(s)
      PROVE  s[k] = u[k]
  <2>1. k + 1 \in 1 .. l - n /\ n + (k + 1) = n + 1 + k /\ k \in 1 .. l - n - 1
    BY <1>1, <1>5
  <2>2. s[k] = t[k + 1]
    BY <1>3
  <2>. QED BY <1>4, <1>6, <2>1, <2>2
<1> HIDE DEF u
<1>9. s = u
  BY <1>5, <1>6, <1>8, SeqEqual
<1>. QED BY <1>5, <1>7, <1>9 DEF u

-----------------------------------------------------------------------------
(* As far as the file was read, its first n lines are in the settings, and *)
(* what is left of the open files is what is left of its lines.            *)
Unended(lines, n) == \A i \in 1 .. n : lines[i].kind \notin {"bad", "stuck"}

ReadAsFar(files, map, flat, lines, after) ==
    \E n \in 0 .. Len(lines) :
        /\ \E rest : IsRest(rest, files, flat) /\ rest[Len(files)] = SubSeq(lines, n + 1, Len(lines))
        /\ map = after[n]
        /\ Unended(lines, n)

(* This while files are open; else none is.                                *)
InPlace ==
    /\ phase # "reading" => frames = <<>>
    /\ phase = "reading" =>
         /\ frames # <<>>
         /\ ReadAsFar(frames, properties_, Flat(Found), Flattened, Meaning(base, Flattened))

(* The invariant: with the places where files are looked for.              *)
ReaderInv == /\ here \in HereContents /\ default_binary_path_ \in DefaultContents
             /\ InPlace /\ ReadsInPlace

(* The types of what the invariant speaks of.                              *)
LEMMA ReaderTypes ==
    ASSUME ReaderInv
    PROVE  /\ Found \in Contents /\ Flattened \in Seq(Item)
           /\ \A d \in 0 .. MaxOpen : Flat(Found)[d] \in Included
           /\ properties_ \in Maps /\ base \in Maps /\ frames \in Frames
           /\ Len(frames) \in 0 .. MaxOpen /\ MaxOpen \in Nat \ {0} /\ Main \in Files
<1>1. Found \in Contents
  <2>1. \A f \in Files : Resolve(f) \in Seq(Line) \cup {NoFile, Directory}
    BY ReaderAssumption DEF ReaderInv, Resolve
  <2>. QED BY <2>1 DEF Found, Contents
<1>2. \A d \in 0 .. MaxOpen : Flat(Found)[d] \in Included
  BY <1>1, FlatIs
<1>3. MaxOpen \in Nat \ {0} /\ Main \in Files
  BY ReaderAssumption
<1>4. Flattened \in Seq(Item)
  <2>1. Flat(Found)[MaxOpen] \in Included
    BY <1>2, <1>3
  <2>. QED BY <1>3, <2>1 DEF Flattened, Included
<1>5. properties_ \in Maps /\ base \in Maps /\ frames \in Frames /\ Len(frames) \in 0 .. MaxOpen
  <2>1. ReaderTypeOK
    BY DEF ReaderInv, ReadsInPlace
  <2>2. properties_ \in Maps /\ base \in Maps
    BY <2>1 DEF ReaderTypeOK, Maps
  <2>3. frames \in Frames /\ Len(frames) <= MaxOpen
    BY <2>1 DEF ReaderTypeOK, Frames
  <2>4. Len(frames) \in Nat
    BY <2>3 DEF Frames
  <2>. QED BY <1>3, <2>2, <2>3, <2>4
<1>. QED BY <1>1, <1>2, <1>3, <1>4, <1>5

(* The files stay as they are.                                             *)
LEMMA FilesStay ==
    ASSUME [ReaderNext]_readervars
    PROVE  /\ UNCHANGED <<here, default_binary_path_>>
           /\ Found' = Found /\ Flattened' = Flattened
<1>1. UNCHANGED <<here, default_binary_path_>>
  BY DEF ReaderNext, readervars, set_value, delete_value, rename_parameter, Edit, Begin,
         Reading, Assign, Include, BadFormat, EndOfFile
<1>2. Found' = Found
  BY <1>1 DEF Found, Resolve
<1>. QED BY <1>1, <1>2 DEF Flattened

(* The next line of the open file, and what is left behind it.             *)
LEMMA NextLine ==
    ASSUME ReaderInv, phase = "reading", ~InDirectory, Top # <<>>
    PROVE  /\ Top \in Seq(Line) /\ Head(Top) \in Line
           /\ Rest \in Frames /\ Len(Rest) = Len(frames) /\ Len(frames) \in 1 .. MaxOpen
           /\ \E n \in 0 .. Len(Flattened) : \E rest :
                /\ IsRest(rest, Rest, Flat(Found))
                /\ Piece(Head(Top), Flat(Found)[MaxOpen - Len(frames)]) \o rest[Len(frames)]
                     = SubSeq(Flattened, n + 1, Len(Flattened))
                /\ rest[Len(frames)] \in Seq(Item)
                /\ properties_ = Meaning(base, Flattened)[n]
                /\ Unended(Flattened, n)
<1> DEFINE l == Len(frames)
           g == Flat(Found)[MaxOpen - l]
<1>1. frames \in Frames /\ frames # <<>> /\ l \in 1 .. MaxOpen /\ MaxOpen - l \in 0 .. MaxOpen
      /\ l - 1 \in 0 .. l /\ l \in 0 .. l /\ l \in 1 .. l
  BY ReaderTypes DEF ReaderInv, InPlace, Frames
<1>2. Top \in Seq(Line) /\ Top # Directory /\ Top = frames[l]
  <2>1. Top \in Seq(Line) \cup {Directory}
    BY <1>1 DEF Top, Frames
  <2>. QED BY <2>1 DEF InDirectory, Top
<1>3. Head(Top) \in Line /\ Tail(Top) \in Seq(Line) /\ Tail(Top) # Directory
  BY <1>2, HeadTailProperties, ReaderAssumption
<1>4. g \in Included
  BY <1>1, ReaderTypes
<1>0. PICK n \in 0 .. Len(Flattened) :
           /\ \E rest : IsRest(rest, frames, Flat(Found))
                        /\ rest[l] = SubSeq(Flattened, n + 1, Len(Flattened))
           /\ properties_ = Meaning(base, Flattened)[n]
           /\ Unended(Flattened, n)
  BY DEF ReaderInv, InPlace, ReadAsFar
<1>5. PICK rest : IsRest(rest, frames, Flat(Found))
                  /\ rest[l] = SubSeq(Flattened, n + 1, Len(Flattened))
  BY <1>0
<1> DEFINE p == Piece(Head(Top), g)
           i == Inlined(Tail(Top), g)
<1>6. p \in Seq(Item) /\ i \in Seq(Item) /\ Inlined(Top, g) = p \o i
  BY <1>2, <1>3, <1>4, PieceTyped, InlinedTyped, InlinedHead
<1>7. InFull(Top, g) = Inlined(Top, g) /\ InFull(Tail(Top), g) = i
  BY <1>2, <1>3 DEF InFull
<1>8. rest[l] = InFull(frames[l], g) \o rest[l - 1] /\ rest[l - 1] \in Seq(Item)
  BY <1>1, <1>5 DEF IsRest
<1>9. /\ Rest \in Frames /\ Len(Rest) = l
      /\ \E r : IsRest(r, Rest, Flat(Found)) /\ r[l] = InFull(Tail(Top), g) \o rest[l - 1]
  <2>1. Tail(Top) \in Seq(Line) \cup {Directory} /\ InFull(Tail(Top), Flat(Found)[MaxOpen - Len(frames)]) \in Seq(Item)
    BY <1>3, <1>6, <1>7
  <2>2. Rest = [frames EXCEPT ![Len(frames)] = Tail(Top)]
    BY DEF Rest
  <2> DEFINE flat == Flat(Found)
             top == Tail(Top)
  <2>3. /\ frames \in Frames /\ frames # <<>> /\ IsRest(rest, frames, flat)
        /\ top \in Seq(Line) \cup {Directory} /\ InFull(top, flat[MaxOpen - Len(frames)]) \in Seq(Item)
    BY <1>1, <1>5, <2>1
  <2> HIDE DEF flat, top
  <2>4. /\ [frames EXCEPT ![Len(frames)] = top] \in Frames
        /\ Len([frames EXCEPT ![Len(frames)] = top]) = Len(frames)
        /\ \E r : /\ IsRest(r, [frames EXCEPT ![Len(frames)] = top], flat)
                  /\ r[Len(frames)] = InFull(top, flat[MaxOpen - Len(frames)]) \o rest[Len(frames) - 1]
    BY <2>3, RestReplaced
  <2>. QED BY <2>2, <2>4 DEF flat, top
<1>10. PICK r : IsRest(r, Rest, Flat(Found)) /\ r[l] = InFull(Tail(Top), g) \o rest[l - 1]
  BY <1>9
<1> HIDE DEF p, i, g
<1>11. p \o r[l] = SubSeq(Flattened, n + 1, Len(Flattened))
  <2>1. r[l] = i \o rest[l - 1]
    BY <1>7, <1>10
  <2>2. rest[l] = (p \o i) \o rest[l - 1]
    BY <1>2, <1>6, <1>7, <1>8
  <2>3. (p \o i) \o rest[l - 1] = p \o (i \o rest[l - 1])
    <3>1. \A a, b, c \in Seq(Item) : (a \o b) \o c = a \o (b \o c)
      BY ConcatAssociative
    <3>. QED BY <1>6, <1>8, <3>1
  <2>. QED BY <1>5, <2>1, <2>2, <2>3
<1>12. r[l] \in Seq(Item)
  BY <1>6, <1>7, <1>8, <1>10, ConcatProperties
<1>. QED BY <1>0, <1>1, <1>2, <1>3, <1>9, <1>10, <1>11, <1>12 DEF p, g

(* The meaning of one line more.                                           *)
LEMMA OneMore ==
    ASSUME ReaderInv, NEW n \in Nat, n + 1 \in 1 .. Len(Flattened)
    PROVE  Meaning(base, Flattened)[n + 1] = Changed(Meaning(base, Flattened)[n], Flattened[n + 1])
<1>1. base \in Maps /\ Flattened \in Seq(Item) /\ (n + 1) - 1 = n
  BY ReaderTypes
<1>. QED BY <1>1, MeaningIs

(* A line that ends the reading is the first that does.                    *)
LEMMA Thrown ==
    ASSUME ReaderInv, NEW n \in Nat, n + 1 \in 1 .. Len(Flattened), Unended(Flattened, n),
           Flattened[n + 1].kind = "bad", properties_ = Meaning(base, Flattened)[n]
    PROVE  \E i \in Ends(Flattened) :
               /\ \A j \in Ends(Flattened) : i <= j
               /\ Flattened[i].kind = "bad"
               /\ properties_ = Meaning(base, Flattened)[i]
<1>1. n + 1 \in Ends(Flattened)
  BY ReaderTypes DEF Ends
<1>2. ASSUME NEW j \in Ends(Flattened)
      PROVE  n + 1 <= j
  <2>1. j \in 1 .. Len(Flattened) /\ Flattened[j].kind \in {"bad", "stuck"}
    BY ReaderTypes DEF Ends
  <2>2. j \notin 1 .. n
    BY <2>1 DEF Unended
  <2>. QED BY <2>1, <2>2
<1>3. Meaning(base, Flattened)[n + 1] = properties_
  BY OneMore DEF Changed
<1>. QED BY <1>1, <1>2, <1>3

(* The types after a step follow from those of what it changes.            *)
LEMMA Typed ==
    ASSUME properties_' \in Maps, base' \in Maps, phase' \in {"edit", "reading", "read", "thrown"},
           frames' \in Frames, Len(frames') <= MaxOpen, edits' \in 0 .. MaxEdits
    PROVE  ReaderTypeOK'
BY DEF ReaderTypeOK, Maps, Frames

(* A call that edits the settings ends what was said of reading.           *)
LEMMA EditKeeps ==
    ASSUME ReaderInv, Edit, properties_' \in Maps
    PROVE  ReaderInv'
<1>1. /\ phase' = "edit" /\ edits' \in 0 .. MaxEdits
      /\ UNCHANGED <<here, default_binary_path_, frames, base>> /\ frames = <<>>
  <2>1. edits \in 0 .. MaxEdits
    BY DEF ReaderInv, ReadsInPlace, ReaderTypeOK
  <2>. QED BY <2>1, ReaderAssumption DEF Edit, ReaderInv, InPlace
<1>2. ReaderTypeOK'
  BY <1>1, ReaderTypes, Typed
<1>. QED BY <1>1, <1>2 DEF ReaderInv, InPlace, ReadsInPlace

(* set_value(), delete_value() and rename_parameter() are such calls.      *)
LEMMA EditsKeep ==
    ASSUME ReaderInv, NEW n \in Params,
           \/ \E v \in Values : set_value(n, v)
           \/ delete_value(n)
           \/ \E m \in Params : rename_parameter(m, n)
    PROVE  ReaderInv'
<1>0. properties_ \in Maps
  BY ReaderTypes
<1>1. ASSUME NEW v \in Values, set_value(n, v)
      PROVE  ReaderInv'
  <2>1. <<v>> \in Seq(Values \cup {""})
    BY Single
  <2>2. properties_' \in Maps
    BY <1>0, <1>1, <2>1 DEF set_value, Maps
  <2>. QED BY <1>1, <2>2, EditKeeps DEF set_value
<1>2. CASE delete_value(n)
  <2>1. properties_' \in Maps
    BY <1>0, <1>2 DEF delete_value, Maps
  <2>. QED BY <1>2, <2>1, EditKeeps DEF delete_value
<1>3. ASSUME NEW m \in Params, rename_parameter(m, n)
      PROVE  ReaderInv'
  <2>1. properties_' \in Maps
    BY <1>0, <1>3 DEF rename_parameter, Maps
  <2>. QED BY <1>3, <2>1, EditKeeps DEF rename_parameter
<1>. QED BY <1>1, <1>2, <1>3

(* What a name stands for when it is opened from below d open files.       *)
LEMMA Resolves ==
    ASSUME ReaderInv, NEW f \in Files, NEW d \in 1 .. MaxOpen
    PROVE  /\ Resolve(f) \in Seq(Line) \cup {NoFile, Directory}
           /\ Resolve(f) = NoFile => Flat(Found)[d][f] = Stop("bad")
           /\ Resolve(f) # NoFile => Flat(Found)[d][f] = InFull(Resolve(f), Flat(Found)[d - 1])
<1>1. Found \in Contents /\ Found[f] = Resolve(f)
  BY ReaderTypes DEF Found
<1>2. Flat(Found)[d] = Deeper(Found, Flat(Found)[d - 1])
  BY <1>1, FlatIs
<1>. QED BY <1>1, <1>2 DEF Deeper, Contents

(* Reading begins with all lines of the main file left.                    *)
LEMMA BeginKeeps ==
    ASSUME ReaderInv, Begin, [ReaderNext]_readervars
    PROVE  ReaderInv'
<1>0. /\ Found' = Found /\ Flattened' = Flattened /\ UNCHANGED <<here, default_binary_path_>>
      /\ properties_' = properties_ /\ base' = properties_ /\ edits' = edits
      /\ frames = <<>> /\ MaxOpen \in Nat \ {0} /\ properties_ \in Maps /\ Main \in Files
      /\ edits \in 0 .. MaxEdits /\ Flattened \in Seq(Item) /\ MaxOpen \in 1 .. MaxOpen
  <2>1. edits \in 0 .. MaxEdits
    BY DEF ReaderInv, ReadsInPlace, ReaderTypeOK
  <2>2. frames = <<>>
    BY DEF Begin, ReaderInv, InPlace
  <2>. QED BY <2>1, <2>2, FilesStay, ReaderTypes DEF Begin
<1>1. /\ Meaning(base', Flattened)[0] = base'
      /\ \A n \in 1 .. Len(Flattened) :
           Meaning(base', Flattened)[n] = Changed(Meaning(base', Flattened)[n - 1], Flattened[n])
  BY <1>0, MeaningIs
<1>2. Len(frames) # MaxOpen
  BY <1>0
<1>3. CASE Resolve(Main) = NoFile
  <2>1. phase' = "thrown" /\ frames' = <<>>
    BY <1>3 DEF Begin, Open
  <2>2. Flattened = Stop("bad")
    BY <1>0, <1>3, Resolves DEF Flattened
  <2>3. Len(Flattened) = 1 /\ DOMAIN Flattened = 1 .. 1 /\ Flattened[1].kind = "bad"
    BY <2>2 DEF Stop
  <2>4. Ends(Flattened) = {1}
    BY <2>3 DEF Ends
  <2>5. properties_' = Meaning(base', Flattened)[1]
    <3>1. Meaning(base', Flattened)[1] = Changed(Meaning(base', Flattened)[1 - 1], Flattened[1])
      BY <1>1, <2>3
    <3>2. \A map : Changed(map, Flattened[1]) = map
      BY <2>3 DEF Changed
    <3>. QED BY <1>0, <1>1, <3>1, <3>2
  <2>6. ReaderTypeOK'
    BY <1>0, <2>1, Typed DEF Frames
  <2>7. ReadsInPlace'
    BY <1>0, <2>1, <2>3, <2>4, <2>5, <2>6 DEF ReadsInPlace
  <2>. QED BY <1>0, <2>1, <2>7 DEF ReaderInv, InPlace
<1>4. CASE Resolve(Main) # NoFile
  <2> DEFINE flat == Flat(Found)
             content == Resolve(Main)
  <2>1. phase' = "reading" /\ frames' = Append(<<>>, content)
    BY <1>2, <1>4 DEF Begin, Open
  <2>2. content \in Seq(Line) \cup {Directory} /\ Flattened = InFull(content, flat[MaxOpen - 1])
    BY <1>0, <1>4, Resolves DEF Flattened
  <2>3. <<>> \in Frames /\ Len(<<>>) = 0
    BY DEF Frames
  <2>4. IsRest([k \in 0 .. 0 |-> <<>>], <<>>, flat)
    <3>1. <<>> \in Seq(Item)
      OBVIOUS
    <3>2. [k \in 0 .. 0 |-> <<>>] \in [0 .. 0 -> Seq(Item)]
      BY <3>1
    <3>. QED BY <2>3, <3>2 DEF IsRest
  <2>5. PICK rest : IsRest(rest, <<>>, flat) /\ rest[0] = <<>>
    BY <2>4
  <2> HIDE DEF flat, content
  <2>6. /\ Append(<<>>, content) \in Frames /\ Len(Append(<<>>, content)) = 1
        /\ \E r : /\ IsRest(r, Append(<<>>, content), flat)
                  /\ r[1] = InFull(content, flat[MaxOpen - 1]) \o rest[0]
    <3>1. InFull(content, flat[MaxOpen - (Len(<<>>) + 1)]) \in Seq(Item) /\ Len(<<>>) + 1 = 1
      BY <1>0, <2>2, <2>3
    <3>2. /\ Append(<<>>, content) \in Frames /\ Len(Append(<<>>, content)) = Len(<<>>) + 1
          /\ \E r : /\ IsRest(r, Append(<<>>, content), flat)
                    /\ r[Len(<<>>) + 1] =
                         InFull(content, flat[MaxOpen - (Len(<<>>) + 1)]) \o rest[Len(<<>>)]
      <4> DEFINE none == <<>>
      <4>1. /\ none \in Frames /\ IsRest(rest, none, flat) /\ content \in Seq(Line) \cup {Directory}
            /\ InFull(content, flat[MaxOpen - (Len(none) + 1)]) \in Seq(Item)
        BY <2>2, <2>3, <2>5, <3>1
      <4> HIDE DEF none
      <4>2. /\ Append(none, content) \in Frames /\ Len(Append(none, content)) = Len(none) + 1
            /\ \E r : /\ IsRest(r, Append(none, content), flat)
                      /\ r[Len(none) + 1] =
                           InFull(content, flat[MaxOpen - (Len(none) + 1)]) \o rest[Len(none)]
        BY <4>1, RestPushed
      <4>. QED BY <4>2 DEF none
    <3>. QED BY <2>3, <3>1, <3>2
  <2>7. Flattened \o rest[0] = SubSeq(Flattened, 0 + 1, Len(Flattened))
    <3>1. Flattened \o <<>> = Flattened
      BY <1>0, ConcatEmptySeq
    <3>2. SubSeq(Flattened, 1, Len(Flattened)) = Flattened
      BY <1>0, SubSeqFull
    <3>. QED BY <2>5, <3>1, <3>2
  <2>8. ReadAsFar(frames', properties_', flat, Flattened, Meaning(base', Flattened))
    <3>1. \E r : IsRest(r, frames', flat) /\ r[Len(frames')] = SubSeq(Flattened, 0 + 1, Len(Flattened))
      BY <2>1, <2>2, <2>6, <2>7
    <3>2. 0 \in 0 .. Len(Flattened) /\ Unended(Flattened, 0)
      BY <1>0 DEF Unended
    <3>3. properties_' = Meaning(base', Flattened)[0]
      BY <1>0, <1>1
    <3>. QED BY <3>1, <3>2, <3>3 DEF ReadAsFar
  <2>9. ReaderTypeOK'
    BY <1>0, <2>1, <2>6, Typed
  <2>10. frames' # <<>>
    BY <2>1, <2>6
  <2>11. InPlace'
    BY <1>0, <2>1, <2>8, <2>10 DEF InPlace, flat
  <2>. QED BY <1>0, <2>1, <2>9, <2>11 DEF ReaderInv, ReadsInPlace
<1>. QED BY <1>3, <1>4

(* A line that reading stops at throws the exception where lines do.       *)
LEMMA ThrowKeeps ==
    ASSUME ReaderInv, [ReaderNext]_readervars, phase = "reading", ~InDirectory, Top # <<>>,
           Piece(Head(Top), Flat(Found)[MaxOpen - Len(frames)]) = Stop("bad"),
           phase' = "thrown", frames' = <<>>, UNCHANGED <<properties_, base, edits>>
    PROVE  ReaderInv'
<1>0. /\ Found' = Found /\ Flattened' = Flattened /\ UNCHANGED <<here, default_binary_path_>>
      /\ properties_ \in Maps /\ base \in Maps /\ edits \in 0 .. MaxEdits
      /\ Flattened \in Seq(Item) /\ MaxOpen \in Nat
  <2>1. edits \in 0 .. MaxEdits
    BY DEF ReaderInv, ReadsInPlace, ReaderTypeOK
  <2>. QED BY <2>1, FilesStay, ReaderTypes
<1>1. PICK n \in 0 .. Len(Flattened) : \E rest :
           /\ Piece(Head(Top), Flat(Found)[MaxOpen - Len(frames)]) \o rest[Len(frames)]
                = SubSeq(Flattened, n + 1, Len(Flattened))
           /\ rest[Len(frames)] \in Seq(Item)
           /\ properties_ = Meaning(base, Flattened)[n]
           /\ Unended(Flattened, n)
  BY NextLine
<1>2. PICK s \in Seq(Item) : <<[kind |-> "bad"]>> \o s = SubSeq(Flattened, n + 1, Len(Flattened))
  BY <1>1 DEF Stop
<1>3. [kind |-> "bad"] \in Item
  BY DEF Item, Line
<1>4. n + 1 \in 1 .. Len(Flattened) /\ Flattened[n + 1] = [kind |-> "bad"]
  BY <1>0, <1>2, <1>3, NextItem
<1>5. \E i \in Ends(Flattened) :
          /\ \A j \in Ends(Flattened) : i <= j
          /\ Flattened[i].kind = "bad"
          /\ properties_ = Meaning(base, Flattened)[i]
  BY <1>1, <1>4, Thrown
<1>6. ReaderTypeOK'
  BY <1>0, Typed DEF Frames
<1>7. ReadsInPlace'
  BY <1>0, <1>5, <1>6 DEF ReadsInPlace
<1>. QED BY <1>0, <1>7 DEF ReaderInv, InPlace

(* A line of a wrong format stops the reading.                             *)
LEMMA BadFormatKeeps ==
    ASSUME ReaderInv, [ReaderNext]_readervars, BadFormat
    PROVE  ReaderInv'
<1>1. Head(Top) = [kind |-> "bad"]
  <2>1. Head(Top) \in Line /\ Head(Top).kind = "bad"
    BY NextLine DEF BadFormat
  <2>. QED BY <2>1 DEF Line
<1>2. Piece(Head(Top), Flat(Found)[MaxOpen - Len(frames)]) = Stop("bad")
  BY <1>1 DEF Piece, Stop
<1>. QED BY <1>2, ThrowKeeps DEF BadFormat

(* A line with a setting changes the settings as its meaning says.         *)
LEMMA AssignKeeps ==
    ASSUME ReaderInv, [ReaderNext]_readervars, Assign
    PROVE  ReaderInv'
<1> DEFINE line == Head(Top)
           l == Len(frames)
<1>0. /\ Found' = Found /\ Flattened' = Flattened /\ UNCHANGED <<here, default_binary_path_>>
      /\ properties_ \in Maps /\ base \in Maps /\ edits \in 0 .. MaxEdits
      /\ Flattened \in Seq(Item) /\ MaxOpen \in Nat /\ l \in Nat
  <2>1. edits \in 0 .. MaxEdits
    BY DEF ReaderInv, ReadsInPlace, ReaderTypeOK
  <2>. QED BY <2>1, FilesStay, ReaderTypes
<1>1. /\ phase = "reading" /\ ~InDirectory /\ Top # <<>> /\ line.kind \in {"set", "add", "blank"}
      /\ frames' = Rest /\ UNCHANGED <<phase, base, edits>>
  BY DEF Assign
<1>2. /\ line \in Line /\ Rest \in Frames /\ Len(Rest) = l /\ l \in 1 .. MaxOpen
      /\ \E n \in 0 .. Len(Flattened) : \E rest :
                /\ IsRest(rest, Rest, Flat(Found))
                /\ Piece(line, Flat(Found)[MaxOpen - l]) \o rest[l]
                     = SubSeq(Flattened, n + 1, Len(Flattened))
                /\ rest[l] \in Seq(Item)
                /\ properties_ = Meaning(base, Flattened)[n]
                /\ Unended(Flattened, n)
  BY <1>1, NextLine
<1>3. PICK n \in 0 .. Len(Flattened) : \E rest :
                /\ IsRest(rest, Rest, Flat(Found))
                /\ Piece(line, Flat(Found)[MaxOpen - l]) \o rest[l]
                     = SubSeq(Flattened, n + 1, Len(Flattened))
                /\ rest[l] \in Seq(Item)
                /\ properties_ = Meaning(base, Flattened)[n]
                /\ Unended(Flattened, n)
  BY <1>2
<1>4. PICK rest :
                /\ IsRest(rest, Rest, Flat(Found))
                /\ Piece(line, Flat(Found)[MaxOpen - l]) \o rest[l]
                     = SubSeq(Flattened, n + 1, Len(Flattened))
                /\ rest[l] \in Seq(Item)
  BY <1>3
<1>5. Piece(line, Flat(Found)[MaxOpen - l]) = <<line>> /\ line \in Item
  BY <1>1, <1>2 DEF Piece, Item
<1>6. properties_' = Changed(properties_, line)
  <2>1. CASE line.kind = "set"
    BY <2>1 DEF Assign, Changed
  <2>2. CASE line.kind = "add"
    <3>1. line.name \in Params /\ line.value \in Values
      BY <1>2, <2>2 DEF Line
    <3> DEFINE words == IF properties_[line.name] = Unset THEN <<"">> ELSE properties_[line.name]
    <3>2. words \in Seq(Values \cup {""})
      <4>1. <<"">> \in Seq(Values \cup {""})
        BY Single
      <4>2. properties_[line.name] \in Seq(Values \cup {""}) \cup {Unset}
        BY <1>0, <3>1 DEF Maps
      <4>. QED BY <4>1, <4>2
    <3>3. properties_' = [properties_ EXCEPT ![line.name] = Append(words, line.value)]
      BY <2>2 DEF Assign, Added
    <3>4. Changed(properties_, line) = [properties_ EXCEPT ![line.name] = words \o <<line.value>>]
      BY <2>2 DEF Changed
    <3> HIDE DEF words
    <3>5. Append(words, line.value) = words \o <<line.value>>
      <4>1. line.value \in Values \cup {""}
        BY <3>1
      <4>. QED BY <3>2, <4>1, AppendIsConcat
    <3>. QED BY <3>3, <3>4, <3>5
  <2>3. CASE line.kind = "blank"
    BY <2>3 DEF Assign, Changed
  <2>. QED BY <1>1, <2>1, <2>2, <2>3
<1> HIDE DEF line
<1>7. /\ n + 1 \in 1 .. Len(Flattened) /\ Flattened[n + 1] = line
      /\ rest[l] = SubSeq(Flattened, (n + 1) + 1, Len(Flattened))
  BY <1>0, <1>4, <1>5, NextItem
<1>8. properties_' = Meaning(base, Flattened)[n + 1]
  BY <1>3, <1>6, <1>7, OneMore
<1>9. Unended(Flattened, n + 1)
  <2>1. ASSUME NEW i \in 1 .. n + 1
        PROVE  Flattened[i].kind \notin {"bad", "stuck"}
    <3>1. i \in 1 .. n \/ i = n + 1
      OBVIOUS
    <3>. QED BY <1>1, <1>3, <1>7, <3>1 DEF Unended
  <2>. QED BY <2>1 DEF Unended
<1>10. ReadAsFar(Rest, properties_', Flat(Found), Flattened, Meaning(base, Flattened))
  <2>1. n + 1 \in 0 .. Len(Flattened)
    BY <1>7
  <2>. QED BY <1>2, <1>4, <1>7, <1>8, <1>9, <2>1 DEF ReadAsFar
<1>11. ReaderTypeOK'
  <2>1. properties_' \in Maps
    BY <1>0, <1>5, <1>6, ChangedTyped
  <2>2. Len(frames') <= MaxOpen
    BY <1>1, <1>2
  <2>. QED BY <1>0, <1>1, <1>2, <2>1, <2>2, Typed
<1>12. Rest # <<>>
  BY <1>2
<1>13. InPlace'
  BY <1>0, <1>1, <1>10, <1>12 DEF InPlace
<1>. QED BY <1>0, <1>1, <1>11, <1>13 DEF ReaderInv, ReadsInPlace

(* An include puts the lines of its file before the rest, or throws.       *)
LEMMA IncludeKeeps ==
    ASSUME ReaderInv, [ReaderNext]_readervars, Include
    PROVE  ReaderInv'
<1> DEFINE file == Head(Top).file
           l == Len(frames)
           flat == Flat(Found)
<1>0. /\ Found' = Found /\ Flattened' = Flattened /\ UNCHANGED <<here, default_binary_path_>>
      /\ properties_ \in Maps /\ base \in Maps /\ edits \in 0 .. MaxEdits
      /\ Flattened \in Seq(Item) /\ MaxOpen \in Nat \ {0} /\ l \in Nat
  <2>1. edits \in 0 .. MaxEdits
    BY DEF ReaderInv, ReadsInPlace, ReaderTypeOK
  <2>. QED BY <2>1, FilesStay, ReaderTypes
<1>1. /\ phase = "reading" /\ ~InDirectory /\ Top # <<>> /\ Head(Top).kind = "include"
      /\ Open(file, Rest) /\ UNCHANGED <<properties_, base, edits>>
  BY DEF Include
<1>2. /\ Head(Top) \in Line /\ Rest \in Frames /\ Len(Rest) = l /\ l \in 1 .. MaxOpen
      /\ \E n \in 0 .. Len(Flattened) : \E rest :
                /\ IsRest(rest, Rest, flat)
                /\ Piece(Head(Top), flat[MaxOpen - l]) \o rest[l]
                     = SubSeq(Flattened, n + 1, Len(Flattened))
                /\ rest[l] \in Seq(Item)
                /\ properties_ = Meaning(base, Flattened)[n]
                /\ Unended(Flattened, n)
  BY <1>1, NextLine
<1>3. file \in Files /\ Piece(Head(Top), flat[MaxOpen - l]) = flat[MaxOpen - l][file]
  BY <1>1, <1>2 DEF Line, Piece
<1>4. CASE l = MaxOpen
  <2>1. phase' = "thrown" /\ frames' = <<>>
    BY <1>1, <1>4 DEF Open
  <2>2. flat[MaxOpen - l][file] = Stop("bad")
    <3>1. MaxOpen - l = 0
      BY <1>0, <1>4
    <3>2. flat[0] = [f \in Files |-> Stop("bad")]
      BY ReaderTypes, FlatIs
    <3>. QED BY <1>3, <3>1, <3>2
  <2>. QED BY <1>1, <1>3, <2>1, <2>2, ThrowKeeps
<1>5. CASE l # MaxOpen
  <2>0. MaxOpen - l \in 1 .. MaxOpen
    BY <1>0, <1>2, <1>5
  <2>1. CASE Resolve(file) = NoFile
    <3>1. phase' = "thrown" /\ frames' = <<>>
      BY <1>1, <2>1 DEF Open
    <3>2. flat[MaxOpen - l][file] = Stop("bad")
      BY <1>3, <2>0, <2>1, Resolves
    <3>. QED BY <1>1, <1>3, <3>1, <3>2, ThrowKeeps
  <2>2. CASE Resolve(file) # NoFile
    <3> DEFINE content == Resolve(file)
    <3>1. phase' = "reading" /\ frames' = Append(Rest, content)
      BY <1>1, <1>5, <2>2 DEF Open
    <3>2. content \in Seq(Line) \cup {Directory}
          /\ flat[MaxOpen - l][file] = InFull(content, flat[(MaxOpen - l) - 1])
      BY <1>3, <2>0, <2>2, Resolves
    <3>3. PICK n \in 0 .. Len(Flattened) : \E rest :
                /\ IsRest(rest, Rest, flat)
                /\ Piece(Head(Top), flat[MaxOpen - l]) \o rest[l]
                     = SubSeq(Flattened, n + 1, Len(Flattened))
                /\ properties_ = Meaning(base, Flattened)[n]
                /\ Unended(Flattened, n)
      BY <1>2
    <3>4. PICK rest :
                /\ IsRest(rest, Rest, flat)
                /\ Piece(Head(Top), flat[MaxOpen - l]) \o rest[l]
                     = SubSeq(Flattened, n + 1, Len(Flattened))
      BY <3>3
    <3>5. (MaxOpen - l) - 1 = MaxOpen - (l + 1)
      BY <1>0
    <3>6. InFull(content, flat[MaxOpen - (l + 1)]) \in Seq(Item)
      <4>1. flat[MaxOpen - l] \in Included
        BY <2>0, ReaderTypes
      <4>. QED BY <1>3, <3>2, <3>5, <4>1 DEF Included
    <3> HIDE DEF content, flat
    <3>7. /\ Append(Rest, content) \in Frames /\ Len(Append(Rest, content)) = l + 1
          /\ \E r : /\ IsRest(r, Append(Rest, content), flat)
                    /\ r[l + 1] = InFull(content, flat[MaxOpen - (l + 1)]) \o rest[l]
      <4> DEFINE files == Rest
      <4>0. Len(files) = l
        BY <1>2
      <4>1. /\ files \in Frames /\ IsRest(rest, files, flat) /\ content \in Seq(Line) \cup {Directory}
            /\ InFull(content, flat[MaxOpen - (Len(files) + 1)]) \in Seq(Item)
        BY <1>2, <3>2, <3>4, <3>6
      <4> HIDE DEF files
      <4>2. /\ Append(files, content) \in Frames /\ Len(Append(files, content)) = Len(files) + 1
            /\ \E r : /\ IsRest(r, Append(files, content), flat)
                      /\ r[Len(files) + 1] =
                           InFull(content, flat[MaxOpen - (Len(files) + 1)]) \o rest[Len(files)]
        BY <4>1, RestPushed
      <4>. QED BY <4>0, <4>2 DEF files
    <3>8. \E r : IsRest(r, frames', flat) /\ r[Len(frames')] = SubSeq(Flattened, n + 1, Len(Flattened))
      BY <1>3, <3>1, <3>2, <3>4, <3>5, <3>7
    <3>9. ReadAsFar(frames', properties_', flat, Flattened, Meaning(base, Flattened))
      BY <1>1, <3>3, <3>8 DEF ReadAsFar
    <3>10. ReaderTypeOK'
      <4>1. Len(frames') <= MaxOpen
        BY <1>0, <1>2, <1>5, <3>1, <3>7
      <4>. QED BY <1>0, <1>1, <3>1, <3>7, <4>1, Typed
    <3>11. frames' # <<>>
      BY <1>0, <3>1, <3>7
    <3>12. InPlace'
      BY <1>0, <1>1, <3>1, <3>9, <3>11 DEF InPlace, flat
    <3>. QED BY <1>0, <3>1, <3>10, <3>12 DEF ReaderInv, ReadsInPlace
  <2>. QED BY <2>1, <2>2
<1>. QED BY <1>4, <1>5

(* At the end of a file the rest of the one that includes it is left; at   *)
(* the end of the first nothing is.                                        *)
LEMMA EndOfFileKeeps ==
    ASSUME ReaderInv, [ReaderNext]_readervars, EndOfFile
    PROVE  ReaderInv'
<1> DEFINE l == Len(frames)
           flat == Flat(Found)
<1>0. /\ Found' = Found /\ Flattened' = Flattened /\ UNCHANGED <<here, default_binary_path_>>
      /\ properties_ \in Maps /\ base \in Maps /\ edits \in 0 .. MaxEdits
      /\ Flattened \in Seq(Item) /\ MaxOpen \in Nat \ {0} /\ l \in 0 .. MaxOpen /\ frames \in Frames
  <2>1. edits \in 0 .. MaxEdits
    BY DEF ReaderInv, ReadsInPlace, ReaderTypeOK
  <2>. QED BY <2>1, FilesStay, ReaderTypes
<1>1. /\ phase = "reading" /\ Top = <<>> /\ frames' = Front(frames)
      /\ phase' = (IF l = 1 THEN "read" ELSE "reading")
      /\ UNCHANGED <<properties_, base, edits>>
  BY DEF EndOfFile
<1>2. frames # <<>> /\ l \in 1 .. MaxOpen /\ l \in 1 .. l /\ l - 1 \in 0 .. l
  BY <1>0, <1>1 DEF ReaderInv, InPlace, Frames
<1>3. PICK n \in 0 .. Len(Flattened) :
           /\ \E rest : IsRest(rest, frames, flat) /\ rest[l] = SubSeq(Flattened, n + 1, Len(Flattened))
           /\ properties_ = Meaning(base, Flattened)[n]
           /\ Unended(Flattened, n)
  BY <1>1 DEF ReaderInv, InPlace, ReadAsFar
<1>4. PICK rest : IsRest(rest, frames, flat) /\ rest[l] = SubSeq(Flattened, n + 1, Len(Flattened))
  BY <1>3
<1>5. rest[l - 1] = rest[l]
  <2>1. rest[l] = InFull(frames[l], flat[MaxOpen - l]) \o rest[l - 1] /\ rest[l - 1] \in Seq(Item)
    BY <1>2, <1>4 DEF IsRest
  <2>2. InFull(frames[l], flat[MaxOpen - l]) = <<>>
    <3>1. <<>> \in Seq(Line) /\ frames[l] = <<>>
      BY <1>1 DEF Top
    <3>2. <<>> # Directory
      BY <3>1, ReaderAssumption
    <3>3. flat[MaxOpen - l] \in Included
      <4>1. MaxOpen - l \in 0 .. MaxOpen
        BY <1>0, <1>2
      <4>. QED BY <4>1, ReaderTypes
    <3>. QED BY <3>1, <3>2, <3>3, InlinedEmpty DEF InFull
  <2>. QED BY <2>1, <2>2, ConcatEmptySeq
<1>6. /\ Front(frames) \in Frames /\ Len(Front(frames)) = l - 1
      /\ \E r : IsRest(r, Front(frames), flat) /\ r[l - 1] = rest[l - 1]
  <2> HIDE DEF flat
  <2>. QED BY <1>0, <1>2, <1>4, RestPopped
<1>7. ReaderTypeOK'
  <2>1. Len(frames') <= MaxOpen /\ frames' \in Frames
    BY <1>0, <1>1, <1>6
  <2>. QED BY <1>0, <1>1, <2>1, Typed
<1>8. CASE l = 1
  <2>1. phase' = "read" /\ frames' = <<>>
    <3>1. Front(frames) = <<>>
      BY <1>6, <1>8 DEF Frames
    <3>. QED BY <1>1, <1>8, <3>1
  <2>2. SubSeq(Flattened, n + 1, Len(Flattened)) = <<>>
    BY <1>4, <1>5, <1>8 DEF IsRest
  <2>3. n = Len(Flattened)
    <3> DEFINE len == Len(Flattened)
    <3>1. \A k \in n + 1 .. len : Flattened[k] \in Item
      BY <1>0
    <3>2. n + 1 \in Int /\ len \in Int /\ n \in 0 .. len
      BY <1>0
    <3>3. Len(SubSeq(Flattened, n + 1, len)) = IF n + 1 <= len THEN len - (n + 1) + 1 ELSE 0
      BY <3>1, <3>2, SubSeqProperties
    <3>4. Len(SubSeq(Flattened, n + 1, len)) = 0
      <4>1. Len(<<>>) = 0
        OBVIOUS
      <4>. QED BY <2>2, <4>1, Zenon
    <3> HIDE DEF len
    <3>. QED BY <3>2, <3>3, <3>4 DEF len
  <2>4. Ends(Flattened) = {}
    BY <1>0, <1>3, <2>3 DEF Ends, Unended
  <2>5. ReadsInPlace'
    BY <1>0, <1>1, <1>3, <1>7, <2>1, <2>3, <2>4 DEF ReadsInPlace
  <2>. QED BY <1>0, <2>1, <2>5 DEF ReaderInv, InPlace
<1>9. CASE l # 1
  <2>1. phase' = "reading"
    BY <1>1, <1>9
  <2>2. frames' # <<>>
    BY <1>1, <1>2, <1>6, <1>9
  <2>3. \E r : IsRest(r, frames', flat) /\ r[Len(frames')] = SubSeq(Flattened, n + 1, Len(Flattened))
    BY <1>1, <1>4, <1>5, <1>6
  <2>4. ReadAsFar(frames', properties_', flat, Flattened, Meaning(base, Flattened))
    BY <1>1, <1>3, <2>3 DEF ReadAsFar
  <2>5. InPlace'
    BY <1>0, <1>1, <2>1, <2>2, <2>4 DEF InPlace
  <2>. QED BY <1>0, <1>7, <2>1, <2>5 DEF ReaderInv, ReadsInPlace
<1>. QED BY <1>8, <1>9

(* ReadsInPlace: what was read from a file that includes others is what    *)
(* the lines it stands for make of the settings.                           *)
THEOREM IncludesReadInPlace == ReaderSpec => []ReadsInPlace
<1>1. ReaderInit => ReaderInv
  <2> SUFFICES ASSUME ReaderInit
               PROVE  ReaderInv
    OBVIOUS
  <2>1. /\ frames = <<>> /\ phase = "edit" /\ edits = 0 /\ base = properties_
        /\ properties_ = [n \in Params |-> Unset]
        /\ here \in HereContents /\ default_binary_path_ \in DefaultContents
    BY DEF ReaderInit
  <2>2. MaxOpen \in Nat /\ MaxEdits \in Nat /\ <<>> \in Seq(Seq(Line) \cup {Directory}) /\ Len(<<>>) = 0
    BY ReaderAssumption
  <2>3. frames \in Seq(Seq(Line) \cup {Directory}) /\ Len(frames) <= MaxOpen /\ edits \in 0 .. MaxEdits
    BY <2>1, <2>2
  <2>4. ReaderTypeOK
    BY <2>1, <2>3 DEF ReaderTypeOK
  <2>. QED BY <2>1, <2>4 DEF ReaderInv, InPlace, ReadsInPlace
<1>2. ReaderInv /\ [ReaderNext]_readervars => ReaderInv'
  <2> SUFFICES ASSUME ReaderInv, [ReaderNext]_readervars
               PROVE  ReaderInv'
    OBVIOUS
  <2>1. CASE UNCHANGED readervars
    <3>1. Found' = Found /\ Flattened' = Flattened
      BY FilesStay
    <3>2. ReaderTypeOK'
      BY <2>1 DEF readervars, ReaderInv, ReadsInPlace, ReaderTypeOK
    <3>3. ReadsInPlace'
      BY <2>1, <3>1, <3>2 DEF readervars, ReaderInv, ReadsInPlace
    <3>4. InPlace'
      BY <2>1, <3>1 DEF readervars, ReaderInv, InPlace
    <3>. QED BY <2>1, <3>3, <3>4 DEF readervars, ReaderInv
  <2>. QED BY <2>1, EditsKeep, BeginKeeps, AssignKeeps, IncludeKeeps, BadFormatKeeps,
              EndOfFileKeeps DEF ReaderNext, Reading
<1>3. ReaderInv => ReadsInPlace
  BY DEF ReaderInv
<1>. QED BY <1>1, <1>2, <1>3, PTL DEF ReaderSpec
=============================================================================

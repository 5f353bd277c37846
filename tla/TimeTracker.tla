---------------------------- MODULE TimeTracker ----------------------------
(***************************************************************************)
(* time_tracker (src/sources/time_tracker/time_tracker.h): an atomic start *)
(* time that threads set with reset() and read with elapsed().  Each call  *)
(* reads the clock first and the start time after it.  The clock is        *)
(* high_resolution_clock, which may be set back.                           *)
(***************************************************************************)
EXTENDS Integers

CONSTANTS Trackers,           \* the threads that share the tracker
          MaxClock            \* bound

ASSUME TrackerAssumption == MaxClock \in Nat

VARIABLES clock,
          start_,
          tracking,           \* of each thread: "no", "resetting", "reading"
          now,                \* of each thread: the clock its call has read
          elapsed_,           \* of each thread: the last result of elapsed()
          crossed,            \* history: a reset() overlapped that elapsed()
          latest,             \* history: the latest time a reset() that
                              \* returned has read
          clashed,            \* history: two reset() overlapped
          setBack             \* history: the clock was set back
trackvars == <<clock, start_, tracking, now, elapsed_, crossed, latest, clashed, setBack>>

TrackInit == /\ clock = 0 /\ start_ = 0
             /\ tracking = [t \in Trackers |-> "no"]
             /\ now = [t \in Trackers |-> 0]
             /\ elapsed_ = [t \in Trackers |-> 0]
             /\ crossed = [t \in Trackers |-> FALSE]
             /\ latest = 0
             /\ clashed = FALSE /\ setBack = FALSE

ReadClock(t, call) ==
    /\ tracking[t] = "no"
    /\ tracking' = [tracking EXCEPT ![t] = call]
    /\ now' = [now EXCEPT ![t] = clock]
    /\ crossed' = [x \in Trackers |->
                     IF call = "resetting" THEN crossed[x] \/ tracking[x] = "reading"
                     ELSE IF x = t THEN \E y \in Trackers : tracking[y] = "resetting"
                     ELSE crossed[x]]
    /\ clashed' = (clashed \/ /\ call = "resetting"
                              /\ \E y \in Trackers : tracking[y] = "resetting")
    /\ UNCHANGED <<clock, start_, elapsed_, latest, setBack>>

(* reset() exchanges the start time.                                       *)
FetchAdded(t) == start_ + now[t]              \* mutant: fetch_add
Exchanged(t) == now[t]

Exchange(t) ==
    /\ tracking[t] = "resetting"
    /\ start_' = Exchanged(t)
    /\ latest' = IF now[t] > latest THEN now[t] ELSE latest
    /\ tracking' = [tracking EXCEPT ![t] = "no"]
    /\ UNCHANGED <<clock, now, elapsed_, crossed, clashed, setBack>>

Load(t) ==
    /\ tracking[t] = "reading"
    /\ elapsed_' = [elapsed_ EXCEPT ![t] = now[t] - start_]
    /\ tracking' = [tracking EXCEPT ![t] = "no"]
    /\ UNCHANGED <<clock, start_, now, crossed, latest, clashed, setBack>>

Tick == /\ clock < MaxClock
        /\ clock' = clock + 1
        /\ UNCHANGED <<start_, tracking, now, elapsed_, crossed, latest, clashed, setBack>>

SetBack == /\ ~setBack /\ setBack' = TRUE
           /\ clock' \in 0 .. clock - 1
           /\ UNCHANGED <<start_, tracking, now, elapsed_, crossed, latest, clashed>>

TrackNext == \/ \E t \in Trackers : \/ \E call \in {"resetting", "reading"} : ReadClock(t, call)
                                    \/ Exchange(t) \/ Load(t)
             \/ Tick \/ SetBack

TrackSpec == TrackInit /\ [][TrackNext]_trackvars

-----------------------------------------------------------------------------
TrackTypeOK == /\ clock \in 0 .. MaxClock /\ start_ \in Int /\ latest \in Nat
               /\ tracking \in [Trackers -> {"no", "resetting", "reading"}]
               /\ now \in [Trackers -> Nat] /\ elapsed_ \in [Trackers -> Int]
               /\ crossed \in [Trackers -> BOOLEAN]
               /\ clashed \in BOOLEAN /\ setBack \in BOOLEAN

(* elapsed() is never less than the time from the latest reset() to its    *)
(* reading of the clock, and no more unless two reset() overlapped: they   *)
(* may store their times in the other order than they read the clock.  It  *)
(* is negative only when a reset() overlapped it or the clock was set back.*)
ElapsedSinceReset ==
    /\ []TrackTypeOK
    /\ [][\A t \in Trackers :
            (Load(t) /\ ~setBack) =>
                /\ IF clashed THEN elapsed_'[t] >= now[t] - latest
                              ELSE elapsed_'[t] = now[t] - latest
                /\ ~crossed[t] => elapsed_'[t] >= 0]_trackvars
=============================================================================

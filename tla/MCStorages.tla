----------------------------- MODULE MCStorages -----------------------------
(* Small instances of SharedNames, PropertyReader and TimeTracker: three   *)
(* components without connection, of which a behaviour picks one.          *)
EXTENDS SharedNames, PropertyReader, TimeTracker, TLC

VARIABLE subject
allvars == <<namesvars, readervars, trackvars, subject>>

ALine(k) == {[kind |-> k, name |-> n, value |-> v] : n \in Params, v \in Values}

LineSet == ALine("set") \cup ALine("add")
           \cup {[kind |-> "include", file |-> f] : f \in Files} \cup {[kind |-> "bad"]}

(* The main file has up to two lines, the other up to one in each place.   *)
OneLine  == {<<>>, <<[kind |-> "blank"]>>} \cup {<<l>> : l \in LineSet}
TwoLines == {<<l, m>> : l, m \in LineSet}

Short == {"main" :> c @@ "sub" :> d :
            c \in OneLine \cup TwoLines, d \in OneLine \cup {NoFile, Directory}}
Tiny  == {"main" :> NoFile @@ "sub" :> d : d \in OneLine \cup {NoFile}}

NothingToRead == /\ here = "main" :> <<>> @@ "sub" :> NoFile
                 /\ default_binary_path_ = [f \in Files |-> NoFile]

Init == /\ subject \in {"names", "reader", "tracker"}
        /\ NamesInit /\ ReaderInit /\ TrackInit
        /\ subject # "reader" => NothingToRead

Next == /\ \/ subject = "names" /\ NamesNext /\ UNCHANGED <<readervars, trackvars>>
           \/ subject = "reader" /\ ReaderNext /\ UNCHANGED <<namesvars, trackvars>>
           \/ subject = "tracker" /\ TrackNext /\ UNCHANGED <<namesvars, readervars>>
        /\ UNCHANGED subject

Spec == Init /\ [][Next]_allvars

Symmetry == Permutations(Ids) \cup Permutations(Handles) \cup Permutations(Trackers)
=============================================================================

--------------------------- MODULE PropertyReader ---------------------------
(***************************************************************************)
(* property_reader (src/sources/property_reader): a map of settings, read  *)
(* from a file line by line; an include reads another file on the spot.  A *)
(* file is looked for in the working directory and then under the default  *)
(* path.  Files are sequences of lines that went through delete_comment(), *)
(* an empty one is "blank"; a value is the sequence of the words joined by *)
(* blanks.                                                                 *)
(***************************************************************************)
EXTENDS Naturals, SequencesExt

CONSTANTS Files,              \* names of files
          Main,               \* the file the constructor is given
          Params,             \* names of settings
          Values,
          HereContents,       \* what the files may be in the working
          DefaultContents,    \* directory and under the default path
          Unset, NoFile, Directory,
          MaxOpen,            \* how many files a process may have open
          MaxEdits            \* bound: calls that edit the map

Line == [kind : {"set", "add"}, name : Params, value : Values]
        \cup [kind : {"include"}, file : Files] \cup [kind : {"bad", "blank"}]

ASSUME ReaderAssumption ==
    /\ Main \in Files /\ MaxOpen \in Nat \ {0} /\ MaxEdits \in Nat
    /\ \A c \in HereContents \cup DefaultContents :
         \A f \in Files : c[f] \in Seq(Line) \cup {NoFile, Directory}
    /\ Directory \notin Seq(Line)

VARIABLES here, default_binary_path_,   \* what each name is in the two places
          properties_,        \* of each name its value, or Unset
          frames,             \* the open files: what is left of each to read
          phase,              \* "edit", "reading", "read", "thrown"
          base,               \* history: properties_ when reading began
          edits
readervars == <<here, default_binary_path_, properties_, frames, phase, base, edits>>

ReaderInit == /\ here \in HereContents
              /\ default_binary_path_ \in DefaultContents
              /\ properties_ = [n \in Params |-> Unset]
              /\ frames = <<>>
              /\ phase = "edit"
              /\ base = properties_
              /\ edits = 0

-----------------------------------------------------------------------------
(* set_value() and reset_value(), delete_value(), rename_parameter().      *)
Edit == /\ phase # "reading" /\ edits < MaxEdits
        /\ edits' = edits + 1
        /\ phase' = "edit"
        /\ UNCHANGED <<here, default_binary_path_, frames, base>>

set_value(n, v) == Edit /\ properties_' = [properties_ EXCEPT ![n] = <<v>>]

delete_value(n) == Edit /\ properties_' = [properties_ EXCEPT ![n] = Unset]

rename_parameter(m, n) ==
    /\ Edit
    /\ properties_[m] # Unset
    /\ properties_' = [properties_ EXCEPT ![n] = properties_[m], ![m] = Unset]

-----------------------------------------------------------------------------
(* read_sub_property_file(): where a name is found.                        *)
Resolve(f) == IF here[f] # NoFile THEN here[f] ELSE default_binary_path_[f]

(* The file is opened and read from its start; below are the files that    *)
(* include it.                                                             *)
Open(f, rest) ==
    IF Resolve(f) = NoFile \/ Len(frames) = MaxOpen
    THEN /\ phase' = "thrown"
         /\ frames' = <<>>
    ELSE /\ phase' = "reading"
         /\ frames' = Append(rest, Resolve(f))

(* The constructor, when there were no edits; after edits a call of        *)
(* parse_istream() with a stream of that file.                             *)
Begin == /\ phase = "edit"
         /\ base' = properties_
         /\ Open(Main, <<>>)
         /\ UNCHANGED <<here, default_binary_path_, properties_, edits>>

Top  == frames[Len(frames)]
Rest == [frames EXCEPT ![Len(frames)] = Tail(Top)]

(* getline() of a directory fails without an end of file.                  *)
InDirectory == phase = "reading" /\ Top = Directory

(* "+=" gives a setting that is not there an empty first word.             *)
AddedAlone(n, v) == IF properties_[n] = Unset THEN <<v>> ELSE Append(properties_[n], v)  \* mutant
Added(n, v) == Append(IF properties_[n] = Unset THEN <<"">> ELSE properties_[n], v)

(* parse_line() of the next line of the file that was opened last.         *)
Assign == /\ phase = "reading" /\ ~InDirectory /\ Top # <<>>
          /\ Head(Top).kind \in {"set", "add", "blank"}
          /\ properties_' =
               CASE Head(Top).kind = "set" ->
                      [properties_ EXCEPT ![Head(Top).name] = <<Head(Top).value>>]
                 [] Head(Top).kind = "add" ->
                      [properties_ EXCEPT ![Head(Top).name] = Added(Head(Top).name, Head(Top).value)]
                 [] OTHER -> properties_
          /\ frames' = Rest
          /\ UNCHANGED <<here, default_binary_path_, phase, base, edits>>

Include == /\ phase = "reading" /\ ~InDirectory /\ Top # <<>>
           /\ Head(Top).kind = "include"
           /\ Open(Head(Top).file, Rest)
           /\ UNCHANGED <<here, default_binary_path_, properties_, base, edits>>

(* The exception leaves every open file; the settings stay.                *)
BadFormat == /\ phase = "reading" /\ ~InDirectory /\ Top # <<>>
             /\ Head(Top).kind = "bad"
             /\ phase' = "thrown"
             /\ frames' = <<>>
             /\ UNCHANGED <<here, default_binary_path_, properties_, base, edits>>

EndOfFile == /\ phase = "reading" /\ Top = <<>>
             /\ frames' = Front(frames)
             /\ phase' = IF Len(frames) = 1 THEN "read" ELSE "reading"
             /\ UNCHANGED <<here, default_binary_path_, properties_, base, edits>>

Reading == Assign \/ Include \/ BadFormat \/ EndOfFile

ReaderNext == \/ \E n \in Params :
                   \/ \E v \in Values : set_value(n, v)
                   \/ delete_value(n)
                   \/ \E m \in Params : rename_parameter(m, n)
              \/ Begin \/ Reading

ReaderSpec == ReaderInit /\ [][ReaderNext]_readervars

-----------------------------------------------------------------------------
ReaderTypeOK ==
    /\ properties_ \in [Params -> Seq(Values \cup {""}) \cup {Unset}]
    /\ base \in [Params -> Seq(Values \cup {""}) \cup {Unset}]
    /\ phase \in {"edit", "reading", "read", "thrown"}
    /\ frames \in Seq(Seq(Line) \cup {Directory}) /\ Len(frames) <= MaxOpen
    /\ edits \in 0 .. MaxEdits

(* Lines in which each include is replaced by what it is in included.      *)
Stop(kind) == <<[kind |-> kind]>>

Piece(line, included) == IF line.kind = "include" THEN included[line.file] ELSE <<line>>

Inlined(lines, included) ==
    LET last[n \in 0 .. Len(lines)] ==
          IF n = 0 THEN <<>>
          ELSE Piece(lines[Len(lines) + 1 - n], included) \o last[n - 1]
    IN  last[Len(lines)]

(* The lines that each file stands for, when d more may be open; "bad"     *)
(* where reading throws, "stuck" where it does not end.                    *)
InFull(content, included) == IF content = Directory THEN Stop("stuck")
                             ELSE Inlined(content, included)

Flat(contents) ==
    LET flat[d \in 0 .. MaxOpen] ==
          IF d = 0 THEN [f \in Files |-> Stop("bad")]
          ELSE [f \in Files |-> IF contents[f] = NoFile THEN Stop("bad")
                                ELSE InFull(contents[f], flat[d - 1])]
    IN  flat

Found == [f \in Files |-> Resolve(f)]

Flattened == Flat(Found)[MaxOpen][Main]

(* What the first lines make of a map: each name has its last value that   *)
(* was set, and the values added after that.                               *)
Changed(map, line) ==
    CASE line.kind = "set" -> [map EXCEPT ![line.name] = <<line.value>>]
      [] line.kind = "add" ->
           [map EXCEPT ![line.name] =
                (IF map[line.name] = Unset THEN <<"">> ELSE map[line.name]) \o <<line.value>>]
      [] OTHER -> map

Meaning(map, lines) ==
    LET after[n \in 0 .. Len(lines)] ==
          IF n = 0 THEN map ELSE Changed(after[n - 1], lines[n])
    IN  after

Ends(lines) == {i \in DOMAIN lines : lines[i].kind \in {"bad", "stuck"}}

(* Includes are read in place: a file that was read, or threw, left the    *)
(* settings of the lines it stands for, up to the first that throws, over  *)
(* those that were there; and it throws only where one of them does.       *)
ReadsInPlace ==
    /\ ReaderTypeOK
    /\ phase = "read" => /\ Ends(Flattened) = {}
                         /\ properties_ = Meaning(base, Flattened)[Len(Flattened)]
    /\ phase = "thrown" =>
         \E i \in Ends(Flattened) :
             /\ \A j \in Ends(Flattened) : i <= j
             /\ Flattened[i].kind = "bad"
             /\ properties_ = Meaning(base, Flattened)[i]
=============================================================================

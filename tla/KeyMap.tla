------------------------------- MODULE KeyMap -------------------------------
(***************************************************************************)
(* What a multikey_tree promises: a map from keys to values in which a key *)
(* comes into being, with the default value, only after the key one symbol *)
(* shorter, and goes only when all of them go.                             *)
(***************************************************************************)
EXTENDS Naturals, Sequences

CONSTANT Paths              \* the keys and all their prefixes

VARIABLES known,            \* the keys that have a value
          value             \* of each key; 0 is the default
mapvars == <<known, value>>

Init == known = {<<>>} /\ value = [p \in Paths |-> 0]

Extend(p) == /\ p \notin known
             /\ SubSeq(p, 1, Len(p) - 1) \in known
             /\ known' = known \cup {p}
             /\ UNCHANGED value

Change(p) == /\ p \in known
             /\ value' = [value EXCEPT ![p] = @ + 1]
             /\ UNCHANGED known

(* The value of the empty key is not in any child and survives.            *)
Clear == /\ known' = {<<>>}
         /\ value' = [p \in Paths |-> IF p = <<>> THEN value[p] ELSE 0]

Next == (\E p \in Paths : Extend(p) \/ Change(p)) \/ Clear

Spec == Init /\ [][Next]_mapvars
=============================================================================

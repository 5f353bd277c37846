--------------------------- MODULE MCMultikeyTree ---------------------------
(* Small instances of MultikeyTree.                                        *)
EXTENDS MultikeyTree, TLC

(* Keys that share a prefix, one with a symbol outside of the range.       *)
SharedPrefix == {<<"a">>, <<"a", "b">>, <<"b">>, <<"a", "!">>}

Symmetry == Permutations(Threads) \cup Permutations(Nodes \ {Root})
=============================================================================

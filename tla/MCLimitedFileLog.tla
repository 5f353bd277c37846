-------------------------- MODULE MCLimitedFileLog --------------------------
(* Small instances of LimitedFileLog.                                      *)
EXTENDS LimitedFileLog, TLC

Symmetry == Permutations(Threads)
=============================================================================

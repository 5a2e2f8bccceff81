------------------------------ MODULE MCJournal ------------------------------
(* Three runs over one project, two of them at once: the third finds what   *)
(* the others left.                                                         *)
EXTENDS Journal, TLC

RunSymmetry == Permutations(Runs)
=============================================================================

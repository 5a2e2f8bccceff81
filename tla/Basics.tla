------------------------------ MODULE Basics ------------------------------
(***************************************************************************)
(* Python's sum() over what a dict holds for some of its keys, and what a  *)
(* list is.                                                                *)
(***************************************************************************)
EXTENDS Integers, FiniteSets, FiniteSetsExt, Sequences, SequencesExt

\* What f comes to over the members of S.
Sum(f, S) == MapThenSumSet(LAMBDA m : f[m], S)

\* Finitely many values in their places from 1 on.
IsList(s) == s \in Seq(ToSet(s))
=============================================================================

---------------------------- MODULE MCScheduler ----------------------------
(* Six modules with signals and one without: probe batches of two, and a   *)
(* full batch of three once two reads have cost something.  The floors and *)
(* the costs are chosen so that the budget may or may not stop the review, *)
(* and a read may cost several times what it was expected to.              *)
EXTENDS Scheduler, TLC

MCModules == 1..7
MCSignalled == 1..6
MCUnmapped == {8}
MCFloor == <<1, 1, 2, 1, 1, 2, 1>>
MCBase == <<5, 4, 3, 1, 1, 1, 1>>
MCImports == [m \in 1..7 |-> IF m = 4 THEN {2, 3} ELSE {}]
=============================================================================

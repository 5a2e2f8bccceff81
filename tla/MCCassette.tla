----------------------------- MODULE MCCassette -----------------------------
(* Three callers, two of whom ask the same question, and two runs of the    *)
(* process: two race for one lock while a third works beside them, and the  *)
(* second run finds what the first left.                                    *)
EXTENDS Cassette, TLC
CONSTANTS a, b, c, p, q

MCQuestion == a :> p @@ b :> p @@ c :> q
=============================================================================

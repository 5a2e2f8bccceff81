----------------------------- MODULE MCReviewer -----------------------------
(* Three modules, two of them in the first batch, and a specialist none of *)
(* them is offered.  Modules 1 and 3 are routed, module 2 is not; the      *)
(* memo may hold an answer about module 1, with a finding or with none.    *)
EXTENDS Reviewer, TLC

MCModules == 1..3
MCUnmapped == {}
MCFloor == <<2, 2, 2>>
MCBase == <<3, 2, 1>>
MCImports == [m \in 1..3 |-> {}]
MCCosts == 0..6
MCAllowed == <<{"data", "network"}, {"data"}, {"data", "network"}>>
MCWarm == {<<>>, <<1, "data">> :> {"save"}, <<1, "data">> :> {}}
=============================================================================

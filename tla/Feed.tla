------------------------------- MODULE Feed -------------------------------
(***************************************************************************)
(* What server/live.py promises a viewer, without its queues: a run says   *)
(* numbered steps, each attached viewer has a cursor into that one         *)
(* sequence, hears the step after its cursor, and is moved forward -- never *)
(* back -- only when it would otherwise be more than Depth steps behind.   *)
(* Watchers.tla is shown to implement this module.                         *)
(***************************************************************************)
EXTENDS Naturals

CONSTANTS Viewers,    \* whoever may open the event stream of the run
          Depth,      \* how far behind a viewer may fall
          Remembers,  \* how much of the run a late viewer is caught up on
          MaxSteps    \* bound on the steps one run says

VARIABLES said,      \* how many steps the run has said
          attached,  \* the viewers currently watching
          cursor,    \* the last step this viewer heard or was moved past
          heard      \* the last step handed to this viewer, 0 before the first

vars == <<said, attached, cursor, heard>>

Least(a, b) == IF a < b THEN a ELSE b

TypeOK ==
    /\ said \in 0..MaxSteps
    /\ attached \subseteq Viewers
    /\ cursor \in [Viewers -> 0..MaxSteps]
    /\ heard \in [Viewers -> 0..MaxSteps]

Init ==
    /\ said = 0
    /\ attached = {}
    /\ cursor = [v \in Viewers |-> 0]
    /\ heard = [v \in Viewers |-> 0]

\* A step is said to everyone at once; whoever is Depth behind loses one.
Say ==
    /\ said < MaxSteps
    /\ said' = said + 1
    /\ cursor' = [v \in Viewers |->
                    IF v \in attached /\ said - cursor[v] = Depth
                    THEN cursor[v] + 1 ELSE cursor[v]]
    /\ UNCHANGED <<attached, heard>>

\* A viewer joins at the newest steps the run still remembers.
Join(v) ==
    /\ v \notin attached
    /\ attached' = attached \cup {v}
    /\ cursor' = [cursor EXCEPT ![v] = said - Least(said, Least(Depth, Remembers))]
    /\ heard' = [heard EXCEPT ![v] = 0]
    /\ UNCHANGED said

Leave(v) ==
    /\ v \in attached
    /\ attached' = attached \ {v}
    /\ cursor' = [cursor EXCEPT ![v] = 0]
    /\ UNCHANGED <<said, heard>>

\* The next step, whichever it is: no viewer hears a step twice or backwards.
Hear(v) ==
    /\ v \in attached
    /\ cursor[v] < said
    /\ cursor' = [cursor EXCEPT ![v] = @ + 1]
    /\ heard' = [heard EXCEPT ![v] = cursor[v] + 1]
    /\ UNCHANGED <<said, attached>>

Next == Say \/ \E v \in Viewers : Join(v) \/ Leave(v) \/ Hear(v)

Spec == Init /\ [][Next]_vars
=============================================================================

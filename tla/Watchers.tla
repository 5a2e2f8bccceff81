----------------------------- MODULE Watchers -----------------------------
(***************************************************************************)
(* server/live.py: one run's record fanned out to whoever is watching.     *)
(* Steps are numbered in the order they are published.  Every method runs  *)
(* on the event loop without awaiting, so each is one action.              *)
(***************************************************************************)
EXTENDS Naturals, Sequences

CONSTANTS Viewers,    \* whoever may open the event stream of the run
          Depth,      \* DEPTH: the size of one viewer's queue
          Remembers,  \* REMEMBERS: how many steps the run keeps for replay
          MaxSteps    \* bound on the steps one run publishes

\* asyncio.Queue(maxsize=0) is unbounded; the server uses 512 and 400.
ASSUME WatchersAssumption ==
    /\ Depth \in Nat \ {0}
    /\ Remembers \in Nat
    /\ MaxSteps \in Nat

VARIABLES said,      \* steps published so far; the next one is said + 1
          soFar,     \* _so_far: the steps kept for a viewer that arrives late
          attached,  \* which viewers have a queue in _queues
          queue,     \* each attached viewer's asyncio.Queue
          heard      \* history: the last step a viewer took, 0 before the first

vars == <<said, soFar, attached, queue, heard>>

Steps == 1..MaxSteps

\* A slice from the end, s[-n:]: the newest n, or all of a shorter sequence.
Newest(s, n) ==
    SubSeq(s, IF Len(s) > n THEN Len(s) - n + 1 ELSE 1, Len(s))

\* A full queue loses its oldest step, so the put that follows always fits.
Offer(q, step) ==
    Append(IF Len(q) >= Depth THEN Tail(q) ELSE q, step)

\* Slips: the replay starts from the oldest steps kept; there is no replay.
ReplayOldest == SubSeq(soFar, 1, IF Len(soFar) > Depth THEN Depth ELSE Len(soFar))
ReplayNothing == <<>>

\* The steps a viewer finds in its queue on arrival.
Replay == Newest(soFar, Depth)

TypeOK ==
    /\ said \in 0..MaxSteps
    /\ soFar \in Seq(Steps) /\ Len(soFar) <= Remembers
    /\ attached \subseteq Viewers
    /\ queue \in [Viewers -> Seq(Steps)]
    /\ \A v \in Viewers : Len(queue[v]) <= Depth
    /\ heard \in [Viewers -> 0..MaxSteps]

Init ==
    /\ said = 0
    /\ soFar = <<>>
    /\ attached = {}
    /\ queue = [v \in Viewers |-> <<>>]
    /\ heard = [v \in Viewers |-> 0]

Subscribe(v) ==
    /\ v \notin attached
    /\ attached' = attached \cup {v}
    /\ queue' = [queue EXCEPT ![v] = Replay]
    /\ heard' = [heard EXCEPT ![v] = 0]
    /\ UNCHANGED <<said, soFar>>

\* The queue is garbage once nothing refers to it.
Unsubscribe(v) ==
    /\ v \in attached
    /\ attached' = attached \ {v}
    /\ queue' = [queue EXCEPT ![v] = <<>>]
    /\ UNCHANGED <<said, soFar, heard>>

Publish ==
    /\ said < MaxSteps
    /\ said' = said + 1
    /\ soFar' = Newest(Append(soFar, said + 1), Remembers)
    /\ queue' = [v \in Viewers |->
                   IF v \in attached THEN Offer(queue[v], said + 1) ELSE queue[v]]
    /\ UNCHANGED <<attached, heard>>

\* queue.get() by the generator that serves this viewer.
Take(v) ==
    /\ v \in attached
    /\ queue[v] # <<>>
    /\ heard' = [heard EXCEPT ![v] = Head(queue[v])]
    /\ queue' = [queue EXCEPT ![v] = Tail(queue[v])]
    /\ UNCHANGED <<said, soFar, attached>>

Next == Publish \/ \E v \in Viewers : Subscribe(v) \/ Unsubscribe(v) \/ Take(v)

Spec == Init /\ [][Next]_vars

-----------------------------------------------------------------------------
\* s holds consecutive steps and ends at the newest one said.
EndsNow(s) == \A i \in 1..Len(s) : s[i] = said - Len(s) + i

\* Safety.  What waits for a viewer is always an unbroken run of the newest
\* steps: overflow may cost it old steps, never one in the middle or the last.
\* (live.py publish and subscribe: the replay, the drop and the put agree.)
QueueIsNewest ==
    \A v \in attached : Len(queue[v]) <= said /\ EndsNow(queue[v])

\* Safety.  What is kept for a late viewer is exactly the newest min(said,
\* Remembers) steps.  (live.py publish: the front is trimmed on every step.)
KeptIsNewest ==
    /\ Len(soFar) = IF said < Remembers THEN said ELSE Remembers
    /\ EndsNow(soFar)

\* Action property.  While a viewer stays attached it is handed later and later
\* steps: nothing is delivered twice or out of order, although publishing
\* evicts from the front of the queue the generator is reading.
InOrder ==
    [][\A v \in attached \cap attached' : heard'[v] # heard[v] => heard'[v] > heard[v]]_vars

\* Refinement.  The queues implement a cursor into one shared sequence: a
\* viewer's cursor is wherever its queue begins.
TheFeed == INSTANCE Feed WITH
    cursor <- [v \in Viewers |-> IF v \in attached THEN said - Len(queue[v]) ELSE 0]

ImplementsFeed == TheFeed!Spec
=============================================================================

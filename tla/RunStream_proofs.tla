-------------------------- MODULE RunStream_proofs --------------------------
(***************************************************************************)
(* Proofs about one run and its viewers, for any number of them.  Every    *)
(* step of RunStream is a step of Watchers or leaves its variables alone,  *)
(* so what is proved of Watchers holds of a run.                           *)
(***************************************************************************)
EXTENDS RunStream, SequenceTheorems, TLAPS

(* The broadcast: Watchers *)

\* A slice s[-n:] is the last min(Len(s), n) elements of s.
LEMMA NewestProperties ==
    ASSUME NEW S, NEW s \in Seq(S), NEW n \in Nat
    PROVE  /\ Newest(s, n) \in Seq(S)
           /\ Len(Newest(s, n)) = IF Len(s) > n THEN n ELSE Len(s)
           /\ \A i \in 1..Len(Newest(s, n)) :
                 Newest(s, n)[i] = s[Len(s) - Len(Newest(s, n)) + i]
<1> DEFINE first == IF Len(s) > n THEN Len(s) - n + 1 ELSE 1
<1>1. Len(s) \in Nat
  OBVIOUS
<1>2. first \in 1..(Len(s) + 1) /\ Len(s) - first + 1 = IF Len(s) > n THEN n ELSE Len(s)
  BY <1>1
<1>3. Newest(s, n) = SubSeq(s, first, Len(s))
  BY DEF Newest
<1> HIDE DEF first
<1>4. SubSeq(s, first, Len(s)) \in Seq(S)
  BY <1>2
<1>5. /\ Len(SubSeq(s, first, Len(s))) = Len(s) - first + 1
      /\ \A i \in 1..(Len(s) - first + 1) : SubSeq(s, first, Len(s))[i] = s[first + i - 1]
  BY <1>2
<1>6. Len(Newest(s, n)) = Len(s) - first + 1
  BY <1>1, <1>2, <1>3, <1>5
<1>7. \A i \in 1..Len(Newest(s, n)) :
         Newest(s, n)[i] = s[Len(s) - Len(Newest(s, n)) + i]
  <2> SUFFICES ASSUME NEW i \in 1..Len(Newest(s, n))
               PROVE  Newest(s, n)[i] = s[Len(s) - Len(Newest(s, n)) + i]
    OBVIOUS
  <2>1. first + i - 1 = Len(s) - Len(Newest(s, n)) + i
    BY <1>1, <1>2, <1>6
  <2>2. QED
    BY <1>3, <1>5, <1>6, <2>1
<1>8. QED
  BY <1>2, <1>3, <1>4, <1>6, <1>7

\* Publishing into a queue keeps it within Depth and keeps its newest steps.
LEMMA OfferProperties ==
    ASSUME NEW S, NEW q \in Seq(S), Len(q) <= Depth, NEW e \in S
    PROVE  /\ Offer(q, e) \in Seq(S)
           /\ Len(Offer(q, e)) = IF Len(q) = Depth THEN Depth ELSE Len(q) + 1
           /\ Offer(q, e)[Len(Offer(q, e))] = e
           /\ \A i \in 1..(Len(Offer(q, e)) - 1) :
                 Offer(q, e)[i] = q[Len(q) - Len(Offer(q, e)) + 1 + i]
<1>1. CASE Len(q) = Depth
  <2>1. q # <<>> /\ Depth \in Nat \ {0}
    BY <1>1, WatchersAssumption
  <2>2. /\ Tail(q) \in Seq(S)
        /\ Len(Tail(q)) = Len(q) - 1
        /\ \A i \in 1..Len(Tail(q)) : Tail(q)[i] = q[i + 1]
    BY <2>1, HeadTailProperties
  <2>3. Offer(q, e) = Append(Tail(q), e)
    BY <1>1, <2>1 DEF Offer
  <2>4. QED
    BY <1>1, <2>1, <2>2, <2>3, AppendProperties
<1>2. CASE Len(q) < Depth
  <2>1. Offer(q, e) = Append(q, e)
    BY <1>2, WatchersAssumption DEF Offer
  <2>2. QED
    BY <1>2, <2>1, AppendProperties, WatchersAssumption
<1>3. QED
  BY <1>1, <1>2, WatchersAssumption

-----------------------------------------------------------------------------
\* What a viewer has already taken lies before everything that waits for it.
HeardIsPast == \A v \in attached : heard[v] <= said - Len(queue[v])

\* The inductive invariant: the types, the two contents invariants (each is
\* needed for the other: subscribe copies one into the other) and HeardIsPast.
IInv == TypeOK /\ QueueIsNewest /\ KeptIsNewest /\ HeardIsPast

\* The sequence a publication leaves behind, for the queue and for the memory:
\* consecutive steps ending at said stay so when said + 1 is appended.
LEMMA AppendEndsNow ==
    ASSUME TypeOK, NEW q \in Seq(Steps), Len(q) <= said, EndsNow(q), said < MaxSteps
    PROVE  /\ Append(q, said + 1) \in Seq(Steps)
           /\ Len(Append(q, said + 1)) = Len(q) + 1
           /\ \A i \in 1..(Len(q) + 1) :
                 Append(q, said + 1)[i] = said - Len(q) + i
<1>1. said \in Nat /\ said + 1 \in Steps /\ Len(q) \in Nat
  BY WatchersAssumption DEF TypeOK, Steps
<1>2. /\ Append(q, said + 1) \in Seq(Steps)
      /\ Len(Append(q, said + 1)) = Len(q) + 1
      /\ \A i \in 1..Len(q) : Append(q, said + 1)[i] = q[i]
      /\ Append(q, said + 1)[Len(q) + 1] = said + 1
  BY <1>1, AppendProperties
<1>3. \A i \in 1..Len(q) : q[i] = said - Len(q) + i
  BY DEF EndsNow
<1>4. QED
  BY <1>1, <1>2, <1>3

\* Publishing into a viewer's queue.
LEMMA OfferEndsNow ==
    ASSUME TypeOK, NEW q \in Seq(Steps), Len(q) <= Depth,
           Len(q) <= said, EndsNow(q), said < MaxSteps
    PROVE  /\ Offer(q, said + 1) \in Seq(Steps)
           /\ Len(Offer(q, said + 1)) = IF Len(q) = Depth THEN Depth ELSE Len(q) + 1
           /\ \A i \in 1..Len(Offer(q, said + 1)) :
                 Offer(q, said + 1)[i] = said + 1 - Len(Offer(q, said + 1)) + i
<1>1. said \in Nat /\ said + 1 \in Steps
  BY WatchersAssumption DEF TypeOK, Steps
<1> DEFINE o == Offer(q, said + 1)
<1>2. /\ o \in Seq(Steps)
      /\ Len(o) = IF Len(q) = Depth THEN Depth ELSE Len(q) + 1
      /\ o[Len(o)] = said + 1
      /\ \A i \in 1..(Len(o) - 1) : o[i] = q[Len(q) - Len(o) + 1 + i]
  BY <1>1, OfferProperties
<1> HIDE DEF o
<1>3. ASSUME NEW i \in 1..Len(o)
      PROVE  o[i] = said + 1 - Len(o) + i
  <2>1. CASE i = Len(o)
    BY <1>1, <1>2, <2>1
  <2>2. CASE i # Len(o)
    <3>1. i \in 1..(Len(o) - 1) /\ Len(q) - Len(o) + 1 + i \in 1..Len(q)
      BY <1>2, <2>2, WatchersAssumption
    <3>2. o[i] = said - Len(q) + (Len(q) - Len(o) + 1 + i)
      BY <1>2, <3>1 DEF EndsNow
    <3>3. QED
      BY <1>1, <1>2, <3>1, <3>2
  <2>3. QED
    BY <2>1, <2>2
<1>4. QED
  BY <1>2, <1>3 DEF o

\* Taking the oldest step leaves the rest in place.
LEMMA TailEndsNow ==
    ASSUME NEW q \in Seq(Steps), q # <<>>, EndsNow(q), said \in Nat
    PROVE  EndsNow(Tail(q))
<1> DEFINE t == Tail(q)
<1>1. /\ Len(t) = Len(q) - 1 /\ Len(q) \in Nat
      /\ \A i \in 1..Len(t) : t[i] = q[i + 1]
  OBVIOUS
<1> HIDE DEF t
<1>2. \A i \in 1..Len(t) : i + 1 \in 1..Len(q)
  BY <1>1
<1>3. \A i \in 1..Len(t) : t[i] = said - Len(q) + (i + 1)
  BY <1>1, <1>2 DEF EndsNow
<1>4. \A i \in 1..Len(t) : t[i] = said - Len(t) + i
  BY <1>1, <1>3
<1>5. QED
  BY <1>4 DEF EndsNow, t

\* The invariant holds of a broadcast nothing was published to.
LEMMA InitIInv == Init => IInv
  BY WatchersAssumption
     DEF Init, IInv, TypeOK, QueueIsNewest, KeptIsNewest, HeardIsPast, EndsNow, Steps

\* Publish keeps the invariant: one queue at a time, then the memory.
LEMMA PublishIInv == ASSUME IInv, Publish PROVE IInv'
<1> USE DEF IInv
<1>1. said \in Nat /\ said' = said + 1 /\ said' \in 0..MaxSteps
  BY WatchersAssumption DEF Publish, TypeOK
<1>2. ASSUME NEW v \in attached
      PROVE  /\ queue'[v] \in Seq(Steps)
             /\ Len(queue'[v]) = IF Len(queue[v]) = Depth THEN Depth ELSE Len(queue[v]) + 1
             /\ \A i \in 1..Len(queue'[v]) : queue'[v][i] = said' - Len(queue'[v]) + i
  <2>1. v \in Viewers /\ queue[v] \in Seq(Steps) /\ Len(queue[v]) <= Depth
    BY DEF TypeOK
  <2>2. Len(queue[v]) <= said /\ EndsNow(queue[v]) /\ said < MaxSteps
    BY DEF QueueIsNewest, Publish
  <2>3. queue'[v] = Offer(queue[v], said + 1)
    BY <2>1 DEF Publish
  <2>4. QED
    BY <1>1, <2>1, <2>2, <2>3, OfferEndsNow
<1>3. \A v \in Viewers \ attached : queue'[v] = queue[v]
  BY DEF Publish
<1>4. \A v \in Viewers : queue'[v] \in Seq(Steps) /\ Len(queue'[v]) <= Depth
  BY <1>2, <1>3, WatchersAssumption DEF TypeOK
<1>5. queue' \in [Viewers -> Seq(Steps)]
  BY <1>4 DEF Publish
<1>6. /\ soFar' \in Seq(Steps) /\ Len(soFar') <= Remembers
      /\ Len(soFar') = IF said' < Remembers THEN said' ELSE Remembers
      /\ \A i \in 1..Len(soFar') : soFar'[i] = said' - Len(soFar') + i
  <2> DEFINE grown == Append(soFar, said + 1)
  <2>1. /\ soFar \in Seq(Steps) /\ Len(soFar) <= said /\ EndsNow(soFar) /\ said < MaxSteps
        /\ Len(soFar) = IF said < Remembers THEN said ELSE Remembers
    BY <1>1, WatchersAssumption DEF KeptIsNewest, TypeOK, Publish
  <2>2. /\ grown \in Seq(Steps) /\ Len(grown) = Len(soFar) + 1
        /\ \A i \in 1..(Len(soFar) + 1) : grown[i] = said - Len(soFar) + i
    BY <2>1, AppendEndsNow
  <2>3. soFar' = Newest(grown, Remembers)
    BY DEF Publish
  <2> HIDE DEF grown
  <2>4. /\ soFar' \in Seq(Steps)
        /\ Len(soFar') = IF Len(grown) > Remembers THEN Remembers ELSE Len(grown)
        /\ \A i \in 1..Len(soFar') : soFar'[i] = grown[Len(grown) - Len(soFar') + i]
    BY <2>2, <2>3, NewestProperties, WatchersAssumption
  <2>5. Len(soFar') = IF said' < Remembers THEN said' ELSE Remembers
    BY <1>1, <2>1, <2>2, <2>4, WatchersAssumption
  <2>6. ASSUME NEW i \in 1..Len(soFar')
        PROVE  soFar'[i] = said' - Len(soFar') + i
    <3>1. Len(soFar) \in Nat /\ Len(soFar') \in Nat /\ Len(soFar') <= Len(soFar) + 1
      BY <2>1, <2>2, <2>4, WatchersAssumption
    <3>2. Len(grown) - Len(soFar') + i \in 1..(Len(soFar) + 1)
      BY <2>2, <3>1
    <3>3. soFar'[i] = said - Len(soFar) + (Len(grown) - Len(soFar') + i)
      BY <2>2, <2>4, <3>2
    <3>4. QED
      BY <1>1, <2>2, <3>1, <3>3
  <2>7. QED
    BY <2>4, <2>5, <2>6, WatchersAssumption
<1>7. TypeOK'
  BY <1>1, <1>4, <1>5, <1>6 DEF TypeOK, Publish
<1>8. ASSUME NEW v \in attached
      PROVE  Len(queue'[v]) <= said' /\ EndsNow(queue[v])'
  <2>1. Len(queue[v]) \in Nat /\ Len(queue[v]) <= said
    BY DEF QueueIsNewest, TypeOK
  <2>2. Len(queue'[v]) <= Len(queue[v]) + 1 /\ Len(queue'[v]) \in Nat
    <3>1. Len(queue'[v]) = IF Len(queue[v]) = Depth THEN Depth ELSE Len(queue[v]) + 1
      BY <1>2
    <3>2. QED
      BY <2>1, <3>1, WatchersAssumption
  <2>3. QED
    <3>1. Len(queue'[v]) <= said'
      BY <1>1, <2>1, <2>2
    <3>2. \A i \in 1..Len(queue'[v]) : queue'[v][i] = said' - Len(queue'[v]) + i
      BY <1>2
    <3>3. QED
      BY <3>1, <3>2 DEF EndsNow
<1>9. KeptIsNewest'
  BY <1>6 DEF KeptIsNewest, EndsNow
<1>10. ASSUME NEW v \in attached PROVE heard'[v] <= said' - Len(queue'[v])
  <2>1. /\ Len(queue[v]) \in Nat /\ heard[v] \in Nat
        /\ heard[v] <= said - Len(queue[v]) /\ heard' = heard
    BY WatchersAssumption DEF HeardIsPast, TypeOK, Publish
  <2>2. Len(queue'[v]) = IF Len(queue[v]) = Depth THEN Depth ELSE Len(queue[v]) + 1
    BY <1>2
  <2>3. heard'[v] = heard[v] /\ said' = said + 1 /\ said \in Nat /\ Depth \in Nat
    BY <1>1, <2>1, WatchersAssumption
  <2>4. CASE Len(queue[v]) = Depth
    BY <2>1, <2>2, <2>3, <2>4
  <2>5. CASE Len(queue[v]) # Depth
    <3>1. Len(queue'[v]) = Len(queue[v]) + 1
      BY <2>2, <2>5
    <3>2. said' - Len(queue'[v]) = said - Len(queue[v])
      BY <2>1, <2>3, <3>1
    <3>3. QED
      BY <2>1, <2>3, <3>2
  <2>6. QED
    BY <2>4, <2>5
<1>11. QED
  BY <1>7, <1>8, <1>9, <1>10 DEF QueueIsNewest, HeardIsPast, Publish

\* What Replay puts in a new queue.
LEMMA ReplayEndsNow ==
    ASSUME IInv
    PROVE  /\ Replay \in Seq(Steps)
           /\ Len(Replay) <= Depth /\ Len(Replay) <= said
           /\ Len(Replay) = IF Len(soFar) > Depth THEN Depth ELSE Len(soFar)
           /\ EndsNow(Replay)
<1>1. /\ soFar \in Seq(Steps) /\ said \in Nat /\ Len(soFar) <= said /\ EndsNow(soFar)
  BY WatchersAssumption DEF IInv, TypeOK, KeptIsNewest
<1>2. /\ Replay \in Seq(Steps)
      /\ Len(Replay) = IF Len(soFar) > Depth THEN Depth ELSE Len(soFar)
      /\ \A i \in 1..Len(Replay) : Replay[i] = soFar[Len(soFar) - Len(Replay) + i]
  BY <1>1, NewestProperties, WatchersAssumption DEF Replay
<1>2a. Len(Replay) \in Nat /\ Len(soFar) \in Nat
  BY <1>1, <1>2
<1> DEFINE r == Replay
<1>3. /\ r \in Seq(Steps) /\ Len(r) \in Nat /\ Len(soFar) \in Nat
      /\ Len(r) = IF Len(soFar) > Depth THEN Depth ELSE Len(soFar)
      /\ \A i \in 1..Len(r) : r[i] = soFar[Len(soFar) - Len(r) + i]
  BY <1>2, <1>2a, Zenon
<1> HIDE DEF r
<1>4. Len(r) <= Depth /\ Len(r) <= Len(soFar)
  BY <1>3, WatchersAssumption
<1>5. \A i \in 1..Len(r) : Len(soFar) - Len(r) + i \in 1..Len(soFar)
  BY <1>3, <1>4
<1>6. \A i \in 1..Len(r) : r[i] = said - Len(soFar) + (Len(soFar) - Len(r) + i)
  BY <1>1, <1>3, <1>5 DEF EndsNow
<1>7. EndsNow(r)
  <2>1. \A i \in 1..Len(r) : r[i] = said - Len(r) + i
    BY <1>1, <1>3, <1>6, SMTT(30)
  <2>2. QED
    BY <2>1 DEF EndsNow
<1>8. Len(r) <= said
  BY <1>1, <1>3, <1>4
<1>9. QED
  BY <1>3, <1>4, <1>7, <1>8 DEF r

\* A viewer whose queue is filled from the replay is promised just that.
LEMMA SubscribeIInv == ASSUME IInv, NEW v \in Viewers, Subscribe(v) PROVE IInv'
<1>1. /\ Replay \in Seq(Steps) /\ Len(Replay) <= Depth /\ Len(Replay) <= said
      /\ EndsNow(Replay)
  BY ReplayEndsNow
<1>2. /\ queue' = [queue EXCEPT ![v] = Replay]
      /\ queue'[v] = Replay
      /\ \A w \in Viewers \ {v} : queue'[w] = queue[w]
  BY DEF Subscribe, IInv, TypeOK
<1>3. TypeOK'
  BY <1>1, <1>2, WatchersAssumption DEF IInv, TypeOK, Subscribe
<1>4. ASSUME NEW w \in attached' PROVE Len(queue'[w]) <= said' /\ EndsNow(queue[w])'
  <2>1. CASE w = v
    BY <1>1, <1>2, <2>1 DEF EndsNow, Subscribe
  <2>2. CASE w # v
    <3>1. w \in attached /\ queue'[w] = queue[w] /\ said' = said
      BY <1>2, <2>2 DEF Subscribe, IInv, TypeOK
    <3>2. QED
      BY <3>1 DEF IInv, QueueIsNewest, EndsNow
  <2>3. QED
    BY <2>1, <2>2
<1>5. KeptIsNewest'
  BY DEF IInv, KeptIsNewest, EndsNow, Subscribe
<1>6. HeardIsPast'
  BY <1>1, <1>2, WatchersAssumption DEF IInv, TypeOK, HeardIsPast, Subscribe
<1>7. QED
  BY <1>3, <1>4, <1>5, <1>6 DEF IInv, QueueIsNewest

\* A viewer that leaves takes only its own queue with it.
LEMMA UnsubscribeIInv == ASSUME IInv, NEW v \in Viewers, Unsubscribe(v) PROVE IInv'
<1>1. /\ queue' = [queue EXCEPT ![v] = <<>>] /\ said' = said
      /\ \A w \in attached' : w \in attached /\ queue'[w] = queue[w]
  BY DEF Unsubscribe, IInv, TypeOK
<1>2. TypeOK'
  BY <1>1, WatchersAssumption DEF IInv, TypeOK, Unsubscribe
<1>3. QueueIsNewest'
  BY <1>1 DEF IInv, QueueIsNewest, EndsNow
<1>4. KeptIsNewest'
  BY DEF IInv, KeptIsNewest, EndsNow, Unsubscribe
<1>5. HeardIsPast'
  BY <1>1 DEF IInv, HeardIsPast, Unsubscribe
<1>6. QED
  BY <1>2, <1>3, <1>4, <1>5 DEF IInv

\* Taking the oldest message leaves the newest ones queued.
LEMMA TakeIInv == ASSUME IInv, NEW v \in Viewers, Take(v) PROVE IInv'
<1>1. /\ queue[v] \in Seq(Steps) /\ queue[v] # <<>> /\ v \in attached
      /\ Len(queue[v]) <= said /\ EndsNow(queue[v]) /\ said \in 0..MaxSteps
  BY DEF IInv, TypeOK, QueueIsNewest, Take
<1>2. /\ Head(queue[v]) = said - Len(queue[v]) + 1 /\ Head(queue[v]) \in Steps
      /\ Tail(queue[v]) \in Seq(Steps) /\ Len(Tail(queue[v])) = Len(queue[v]) - 1
      /\ \A i \in 1..Len(Tail(queue[v])) : Tail(queue[v])[i] = queue[v][i + 1]
  BY <1>1 DEF EndsNow
<1>3. EndsNow(Tail(queue[v]))
  BY <1>1, TailEndsNow, WatchersAssumption
<1>4. /\ queue' = [queue EXCEPT ![v] = Tail(queue[v])]
      /\ queue'[v] = Tail(queue[v])
      /\ \A w \in Viewers \ {v} : queue'[w] = queue[w]
  BY DEF Take, IInv, TypeOK
<1>5. TypeOK'
  BY <1>1, <1>2, <1>4, WatchersAssumption DEF IInv, TypeOK, Take, Steps
<1>6. ASSUME NEW w \in attached' PROVE Len(queue'[w]) <= said' /\ EndsNow(queue[w])'
  <2>1. CASE w = v
    <3>1. queue'[w] = Tail(queue[v]) /\ said' = said
      BY <1>4, <2>1 DEF Take
    <3>2. Len(Tail(queue[v])) <= said
      BY <1>1, <1>2
    <3>3. QED
      BY <1>3, <3>1, <3>2 DEF EndsNow
  <2>2. CASE w # v
    <3>1. w \in attached /\ queue'[w] = queue[w] /\ said' = said
      BY <1>4, <2>2 DEF Take, IInv, TypeOK
    <3>2. QED
      BY <3>1 DEF IInv, QueueIsNewest, EndsNow
  <2>3. QED
    BY <2>1, <2>2
<1>7. KeptIsNewest'
  BY DEF IInv, KeptIsNewest, EndsNow, Take
<1>8. HeardIsPast'
  BY <1>1, <1>2, <1>4 DEF IInv, TypeOK, HeardIsPast, Take
<1>9. QED
  BY <1>5, <1>6, <1>7, <1>8 DEF IInv, QueueIsNewest

\* Every step of publisher and viewers keeps the invariant.
LEMMA NextIInv == IInv /\ [Next]_vars => IInv'
<1> SUFFICES ASSUME IInv, [Next]_vars PROVE IInv'
  OBVIOUS
<1>1. CASE Publish
  BY <1>1, PublishIInv
<1>2. ASSUME NEW v \in Viewers, Subscribe(v) PROVE IInv'
  BY <1>2, SubscribeIInv
<1>3. ASSUME NEW v \in Viewers, Unsubscribe(v) PROVE IInv'
  BY <1>3, UnsubscribeIInv
<1>4. ASSUME NEW v \in Viewers, Take(v) PROVE IInv'
  BY <1>4, TakeIInv
<1>5. CASE UNCHANGED vars
  BY <1>5 DEF vars, IInv, TypeOK, QueueIsNewest, KeptIsNewest, HeardIsPast, EndsNow
<1>6. QED
  BY <1>1, <1>2, <1>3, <1>4, <1>5 DEF Next

\* The inductive invariant holds in every behaviour of the broadcast.
THEOREM Invariance == Spec => []IInv
<1>1. Init => IInv
  BY InitIInv
<1>2. IInv /\ [Next]_vars => IInv'
  BY NextIInv
<1>3. QED
  BY <1>1, <1>2, PTL DEF Spec

\* Every state has its types: live.py's queues and its memory stay bounded.
THEOREM TypeCorrect == Spec => []TypeOK
  BY Invariance, PTL DEF IInv

\* What waits for a viewer is an unbroken run of the newest steps.
THEOREM QueueAlwaysNewest == Spec => []QueueIsNewest
  BY Invariance, PTL DEF IInv

\* What a late viewer is caught up on is the newest min(said, Remembers) steps.
THEOREM KeptAlwaysNewest == Spec => []KeptIsNewest
  BY Invariance, PTL DEF IInv

\* No viewer is handed a step twice or out of order while it stays attached.
THEOREM DeliveredInOrder == Spec => InOrder
<1>1. IInv /\ [Next]_vars =>
        [\A v \in attached \cap attached' : heard'[v] # heard[v] => heard'[v] > heard[v]]_vars
  <2> SUFFICES ASSUME IInv, Next, NEW v \in attached \cap attached', heard'[v] # heard[v]
               PROVE  heard'[v] > heard[v]
    OBVIOUS
  <2>1. v \in Viewers /\ heard[v] \in Nat /\ heard[v] <= said - Len(queue[v]) /\ said \in Nat
    BY WatchersAssumption DEF IInv, TypeOK, HeardIsPast
  <2>2. PICK w \in Viewers : Take(w)
    BY DEF Next, Publish, Subscribe, Unsubscribe, IInv, TypeOK
  <2>3. w = v
    BY <2>1, <2>2 DEF Take, IInv, TypeOK
  <2>4. queue[v] \in Seq(Steps) /\ queue[v] # <<>> /\ heard'[v] = Head(queue[v])
    BY <2>1, <2>2, <2>3 DEF Take, IInv, TypeOK
  <2>5. Head(queue[v]) = said - Len(queue[v]) + 1
    <3>1. Len(queue[v]) \in Nat /\ 1 \in 1..Len(queue[v]) /\ Head(queue[v]) = queue[v][1]
      BY <2>4
    <3>2. \A i \in 1..Len(queue[v]) : queue[v][i] = said - Len(queue[v]) + i
      BY DEF IInv, QueueIsNewest, EndsNow
    <3>. QED  BY <3>1, <3>2
  <2>6. Len(queue[v]) \in Nat
    BY <2>4
  <2>7. heard'[v] = said - Len(queue[v]) + 1
    BY <2>4, <2>5, Zenon
  <2> DEFINE before == heard[v]
             after == heard'[v]
             waiting == Len(queue[v])
  <2>8. /\ before \in Nat /\ said \in Nat /\ waiting \in Nat
        /\ before <= said - waiting /\ after = said - waiting + 1
    BY <2>1, <2>6, <2>7, Zenon
  <2> HIDE DEF before, after, waiting
  <2>9. after > before
    BY <2>8
  <2>10. QED
    BY <2>9 DEF before, after
<1>2. QED
  BY <1>1, Invariance, PTL DEF Spec, InOrder

-----------------------------------------------------------------------------
\* Where a viewer's queue begins in the one sequence of steps.
Bar == [v \in Viewers |-> IF v \in attached THEN said - Len(queue[v]) ELSE 0]

\* The abstract state this one stands for is of the abstract types.
LEMMA BarTyped == IInv => /\ said \in Nat
                          /\ \A v \in Viewers : Len(queue[v]) \in Nat /\ Len(queue[v]) <= Depth
                          /\ \A v \in attached : v \in Viewers /\ Len(queue[v]) <= said
  BY WatchersAssumption DEF IInv, TypeOK, QueueIsNewest

\* A publish, with whatever it drops, is one thing said in the abstract feed.
LEMMA PublishIsSay == ASSUME IInv, Publish PROVE TheFeed!Say
<1>1. /\ said \in Nat /\ said' = said + 1 /\ attached' = attached /\ heard' = heard
      /\ said < MaxSteps
  BY BarTyped DEF Publish
<1>2. ASSUME NEW v \in Viewers
      PROVE  Bar'[v] = IF v \in attached /\ said - Bar[v] = Depth THEN Bar[v] + 1 ELSE Bar[v]
  <2>1. CASE v \notin attached
    BY <1>1, <2>1 DEF Bar
  <2>2. CASE v \in attached
    <3>1. /\ queue[v] \in Seq(Steps) /\ Len(queue[v]) <= Depth /\ Len(queue[v]) \in Nat
          /\ Len(queue[v]) <= said /\ EndsNow(queue[v])
      BY <2>2, BarTyped DEF IInv, TypeOK, QueueIsNewest
    <3>2. queue'[v] = Offer(queue[v], said + 1)
      BY <2>2 DEF Publish
    <3>3. Len(queue'[v]) = IF Len(queue[v]) = Depth THEN Depth ELSE Len(queue[v]) + 1
      BY <1>1, <3>1, <3>2, OfferEndsNow DEF IInv
    <3>4. Bar[v] = said - Len(queue[v]) /\ Bar'[v] = said + 1 - Len(queue'[v])
      BY <1>1, <2>2 DEF Bar
    <3>5. CASE Len(queue[v]) = Depth
      BY <1>1, <2>2, <3>1, <3>3, <3>4, <3>5, WatchersAssumption
    <3>6. CASE Len(queue[v]) # Depth
      <4>1. Len(queue'[v]) = Len(queue[v]) + 1
        BY <3>3, <3>6
      <4>2. said - Bar[v] # Depth
        BY <1>1, <3>1, <3>4, <3>6, WatchersAssumption
      <4>3. Bar'[v] = Bar[v]
        BY <1>1, <3>1, <3>4, <4>1
      <4>4. QED
        BY <4>2, <4>3
    <3>7. QED
      BY <3>5, <3>6
  <2>3. QED
    BY <2>1, <2>2
<1>3. Bar' = [v \in Viewers |->
                IF v \in attached /\ said - Bar[v] = Depth THEN Bar[v] + 1 ELSE Bar[v]]
  BY <1>2 DEF Bar
<1>4. QED
  BY <1>1, <1>3 DEF TheFeed!Say, Bar

\* Subscribing with a replay is joining the feed at some earlier point.
LEMMA SubscribeIsJoin == ASSUME IInv, NEW v \in Viewers, Subscribe(v) PROVE TheFeed!Join(v)
<1>1. /\ said \in Nat /\ said' = said /\ attached' = attached \cup {v} /\ v \notin attached
      /\ heard' = [heard EXCEPT ![v] = 0]
  BY BarTyped DEF Subscribe
<1>2. queue'[v] = Replay /\ \A w \in Viewers \ {v} : queue'[w] = queue[w]
  BY DEF Subscribe, IInv, TypeOK
<1>3. Len(Replay) = TheFeed!Least(said, TheFeed!Least(Depth, Remembers))
  <2>1. /\ Len(Replay) = IF Len(soFar) > Depth THEN Depth ELSE Len(soFar)
        /\ Len(soFar) = IF said < Remembers THEN said ELSE Remembers
    BY ReplayEndsNow DEF IInv, KeptIsNewest
  <2>2. QED
    BY <1>1, <2>1, WatchersAssumption DEF TheFeed!Least
<1>4. Bar' = [Bar EXCEPT ![v] = said - TheFeed!Least(said, TheFeed!Least(Depth, Remembers))]
  BY <1>1, <1>2, <1>3 DEF Bar
<1>5. QED
  BY <1>1, <1>4 DEF TheFeed!Join, Bar

\* Unsubscribing is leaving the feed.
LEMMA UnsubscribeIsLeave ==
    ASSUME IInv, NEW v \in Viewers, Unsubscribe(v) PROVE TheFeed!Leave(v)
<1>1. /\ said' = said /\ heard' = heard /\ v \in attached /\ attached' = attached \ {v}
      /\ \A w \in Viewers \ {v} : queue'[w] = queue[w]
  BY DEF Unsubscribe, IInv, TypeOK
<1>2. Bar' = [Bar EXCEPT ![v] = 0]
  BY <1>1 DEF Bar
<1>3. QED
  BY <1>1, <1>2 DEF TheFeed!Leave, Bar

\* Taking a message is hearing one that is newer than the last heard.
LEMMA TakeIsHear == ASSUME IInv, NEW v \in Viewers, Take(v) PROVE TheFeed!Hear(v)
<1>1. /\ said' = said /\ attached' = attached /\ v \in attached
      /\ heard' = [heard EXCEPT ![v] = Head(queue[v])]
      /\ queue'[v] = Tail(queue[v])
      /\ \A w \in Viewers \ {v} : queue'[w] = queue[w]
  BY DEF Take, IInv, TypeOK
<1>2. /\ queue[v] \in Seq(Steps) /\ queue[v] # <<>> /\ EndsNow(queue[v])
      /\ Len(queue[v]) <= said /\ said \in Nat
  BY <1>1, BarTyped DEF Take, IInv, TypeOK, QueueIsNewest
<1>3. Len(queue[v]) \in Nat \ {0} /\ Head(queue[v]) = said - Len(queue[v]) + 1
  <2>1. Len(queue[v]) \in Nat /\ 1 \in 1..Len(queue[v]) /\ Head(queue[v]) = queue[v][1]
    BY <1>2
  <2>2. queue[v][1] = said - Len(queue[v]) + 1
    BY <1>2, <2>1 DEF EndsNow
  <2>3. QED
    BY <2>1, <2>2
<1>4. Len(queue'[v]) = Len(queue[v]) - 1
  BY <1>1, <1>2
<1>5. Bar[v] = said - Len(queue[v]) /\ Bar'[v] = Bar[v] + 1
  <2>1. Bar[v] = said - Len(queue[v]) /\ Bar'[v] = said - Len(queue'[v])
    BY <1>1 DEF Bar
  <2>2. QED
    BY <1>2, <1>3, <1>4, <2>1
<1>6. Bar' = [Bar EXCEPT ![v] = Bar[v] + 1]
  BY <1>1, <1>5 DEF Bar
<1>7. Bar[v] < said /\ heard' = [heard EXCEPT ![v] = Bar[v] + 1]
  <2>1. Bar[v] < said
    BY <1>2, <1>3, <1>5
  <2>2. Head(queue[v]) = Bar[v] + 1
    BY <1>3, <1>5
  <2>3. QED
    BY <1>1, <2>1, <2>2
<1>8. QED
  BY <1>1, <1>6, <1>7 DEF TheFeed!Hear, Bar

\* The queues of live.py implement a cursor into one shared sequence of steps:
\* every behaviour of Watchers is, seen through Bar, a behaviour of Feed.
THEOREM Refinement == Spec => ImplementsFeed
<1>1. Init => TheFeed!Init
  BY DEF Init, TheFeed!Init
<1>2. IInv /\ [Next]_vars => [TheFeed!Next]_(TheFeed!vars)
  <2> SUFFICES ASSUME IInv, [Next]_vars PROVE [TheFeed!Next]_(TheFeed!vars)
    OBVIOUS
  <2>1. CASE Publish
    BY <2>1, PublishIsSay DEF TheFeed!Next
  <2>2. ASSUME NEW v \in Viewers, Subscribe(v) PROVE TheFeed!Next
    BY <2>2, SubscribeIsJoin DEF TheFeed!Next
  <2>3. ASSUME NEW v \in Viewers, Unsubscribe(v) PROVE TheFeed!Next
    BY <2>3, UnsubscribeIsLeave DEF TheFeed!Next
  <2>4. ASSUME NEW v \in Viewers, Take(v) PROVE TheFeed!Next
    BY <2>4, TakeIsHear DEF TheFeed!Next
  <2>5. CASE UNCHANGED vars
    BY <2>5 DEF vars, TheFeed!vars
  <2>6. QED
    BY <2>1, <2>2, <2>3, <2>4, <2>5 DEF Next
<1>3. QED
  BY <1>1, <1>2, Invariance, PTL DEF Spec, ImplementsFeed, TheFeed!Spec

-----------------------------------------------------------------------------
(* One run and its viewers: RunStream *)

\* What ties the generators to the queues, and the report to the outcome.
StreamIInv ==
    /\ stream \in [Viewers -> {"off", "closed"} \cup Live]
    /\ client \in [Viewers -> {"none", "open", "settled", "cutoff", "dropped", "left"}]
    /\ outcome \in {"running", "completed", "failed", "cancelled"}
    /\ report \in BOOLEAN
    /\ failed \in Texts
    /\ outcome \in {"running", "completed"} => failed = ""
    /\ outcome = "completed" => report
    /\ NoLeakedQueue

-----------------------------------------------------------------------------
\* Each step of a run does to the queues what an action of Watchers does.
LEMMA StreamStep == [StreamNext]_allVars => [Next]_vars
<1>1. SUFFICES ASSUME StreamNext PROVE [Next]_vars
  BY DEF allVars
<1>2. CASE SayStep \/ Complete \/ Fail
  BY <1>2 DEF SayStep, Complete, Fail, Next
<1>3. CASE Cancel
  BY <1>3 DEF Cancel
<1>4. ASSUME NEW v \in Viewers,
             Open(v) \/ Block(v) \/ Deliver(v) \/ Sent(v)
             \/ Timeout(v) \/ Resume(v) \/ Hangup(v) \/ Disconnect(v)
      PROVE  [Next]_vars
  <2>1. CASE Open(v)
    BY <2>1 DEF Open, Next
  <2>2. CASE Deliver(v)
    BY <2>2 DEF Deliver, Next
  <2>3. CASE Block(v) \/ Timeout(v) \/ Hangup(v)
    BY <2>3 DEF Block, Timeout, Hangup
  <2>4. CASE Sent(v) \/ Resume(v) \/ Disconnect(v)
    BY <2>4 DEF Sent, Resume, Disconnect, Close, Next
  <2>5. QED
    BY <1>4, <2>1, <2>2, <2>3, <2>4
<1>5. QED
  BY <1>1, <1>2, <1>3, <1>4 DEF StreamNext

\* A run is a behaviour of Watchers.
LEMMA StreamIsWatchers == StreamSpec => Spec
<1>1. StreamInit => Init
  BY DEF StreamInit
<1>2. QED
  BY <1>1, StreamStep, PTL DEF StreamSpec, Spec

-----------------------------------------------------------------------------
\* A run begins with the invariant.
LEMMA StreamInitial == StreamInit => StreamIInv
BY DEF StreamInit, Init, StreamIInv, NoLeakedQueue, Live, Texts

\* The end of a review, with or without a step that says so, moves no queue's
\* owner and assigns the report before it completes.
LEMMA ReviewStep ==
    ASSUME StreamIInv, SayStep \/ Complete \/ Fail \/ Cancel
    PROVE  StreamIInv'
<1>1. attached' = attached /\ stream' = stream /\ client' = client
  BY DEF SayStep, Complete, Fail, Cancel, Publish, vars
<1>2. NoLeakedQueue'
  BY <1>1 DEF StreamIInv, NoLeakedQueue
<1>3. CASE SayStep
  BY <1>1, <1>2, <1>3 DEF SayStep, runVars, StreamIInv
<1>4. CASE Complete
  BY <1>1, <1>2, <1>4 DEF Complete, Done, StreamIInv
<1>5. CASE Fail
  BY <1>1, <1>2, <1>5 DEF Fail, StreamIInv
<1>6. CASE Cancel
  BY <1>1, <1>2, <1>6 DEF Cancel, StreamIInv
<1>7. QED
  BY <1>3, <1>4, <1>5, <1>6

\* A step of one viewer's generator or browser moves that viewer's queue with
\* its generator, and no other's.
LEMMA ViewerStep ==
    ASSUME StreamIInv, NEW v \in Viewers,
           Open(v) \/ Block(v) \/ Deliver(v) \/ Sent(v)
           \/ Timeout(v) \/ Resume(v) \/ Hangup(v) \/ Disconnect(v)
    PROVE  StreamIInv'
<1>1. UNCHANGED runVars
  BY DEF Open, Block, Deliver, Sent, Timeout, Resume, Hangup, Disconnect
<1>2. ASSUME NEW place \in {"off", "closed"} \cup Live, To(v, place),
             attached' = IF place \in Live THEN attached \cup {v} ELSE attached \ {v}
      PROVE  NoLeakedQueue' /\ stream' \in [Viewers -> {"off", "closed"} \cup Live]
  BY <1>2 DEF To, StreamIInv, NoLeakedQueue
<1>3. ASSUME NEW what \in {"open", "settled", "cutoff", "dropped", "left"},
             client' = [client EXCEPT ![v] = what] \/ Becomes(v, what) \/ UNCHANGED client
      PROVE  client' \in [Viewers -> {"none", "open", "settled", "cutoff", "dropped", "left"}]
  BY <1>3 DEF Becomes, StreamIInv
<1>4. ASSUME NoLeakedQueue', stream' \in [Viewers -> {"off", "closed"} \cup Live],
             client' \in [Viewers -> {"none", "open", "settled", "cutoff", "dropped", "left"}]
      PROVE  StreamIInv'
  BY <1>1, <1>4 DEF runVars, StreamIInv
<1>5. ASSUME Close(v) PROVE NoLeakedQueue' /\ stream' \in [Viewers -> {"off", "closed"} \cup Live]
  <2>1. To(v, "closed") /\ attached' = attached \ {v}
    BY <1>5 DEF Close, Unsubscribe
  <2>2. "closed" \notin Live
    BY DEF Live
  <2>3. QED
    BY <1>2, <2>1, <2>2
<1>6. ASSUME NEW place \in Live, To(v, place), stream[v] \in Live, UNCHANGED attached
      PROVE  NoLeakedQueue' /\ stream' \in [Viewers -> {"off", "closed"} \cup Live]
  <2>1. attached' = attached \cup {v}
    BY <1>6 DEF StreamIInv, NoLeakedQueue
  <2>2. QED
    BY <1>2, <1>6, <2>1
<1>7. {"ready", "waiting", "sending", "idle"} = Live
  BY DEF Live
<1>8. CASE Open(v)
  <2>1. To(v, "ready") /\ attached' = attached \cup {v}
    BY <1>8 DEF Open, Subscribe
  <2>2. NoLeakedQueue' /\ stream' \in [Viewers -> {"off", "closed"} \cup Live]
    BY <1>2, <1>7, <2>1
  <2>3. client' = [client EXCEPT ![v] = "open"]
    BY <1>8 DEF Open
  <2>4. QED
    BY <1>3, <1>4, <2>2, <2>3
<1>9. CASE Block(v) \/ Timeout(v)
  <2>1. /\ stream[v] \in Live
        /\ To(v, "waiting") \/ To(v, "idle")
        /\ UNCHANGED <<attached, client>>
    BY <1>7, <1>9 DEF Block, Timeout, vars
  <2>2. NoLeakedQueue' /\ stream' \in [Viewers -> {"off", "closed"} \cup Live]
    BY <1>6, <1>7, <2>1
  <2>3. QED
    BY <1>3, <1>4, <2>1, <2>2
<1>10. CASE Deliver(v)
  <2>1. stream[v] \in Live /\ To(v, "sending") /\ UNCHANGED <<attached, client>>
    BY <1>7, <1>10 DEF Deliver, Take
  <2>2. NoLeakedQueue' /\ stream' \in [Viewers -> {"off", "closed"} \cup Live]
    BY <1>6, <1>7, <2>1
  <2>3. QED
    BY <1>3, <1>4, <2>1, <2>2
<1>11. CASE Sent(v) \/ Resume(v)
  <2>1. CASE Close(v) /\ (Becomes(v, "settled") \/ Becomes(v, "cutoff"))
    BY <1>3, <1>4, <1>5, <2>1
  <2>2. CASE To(v, "ready") /\ UNCHANGED <<vars, client>>
    <3>1. stream[v] \in Live /\ UNCHANGED <<attached, client>>
      BY <1>7, <1>11, <2>2 DEF Sent, Resume, vars
    <3>2. NoLeakedQueue' /\ stream' \in [Viewers -> {"off", "closed"} \cup Live]
      BY <1>6, <1>7, <2>2, <3>1
    <3>3. QED
      BY <1>3, <1>4, <3>1, <3>2
  <2>3. QED
    BY <1>11, <2>1, <2>2 DEF Sent, Resume
<1>12. CASE Hangup(v)
  <2>1. /\ UNCHANGED <<attached, stream>>
        /\ client' = [client EXCEPT ![v] = "dropped"] \/ client' = [client EXCEPT ![v] = "left"]
    BY <1>12 DEF Hangup, vars
  <2>2. NoLeakedQueue' /\ stream' \in [Viewers -> {"off", "closed"} \cup Live]
    BY <2>1 DEF StreamIInv, NoLeakedQueue
  <2>3. QED
    BY <1>3, <1>4, <2>1, <2>2
<1>13. CASE Disconnect(v)
  BY <1>3, <1>4, <1>5, <1>13 DEF Disconnect
<1>14. QED
  BY <1>8, <1>9, <1>10, <1>11, <1>12, <1>13

\* Every step of a run keeps the invariant.
LEMMA StreamStable == StreamIInv /\ [StreamNext]_allVars => StreamIInv'
<1>1. SUFFICES ASSUME StreamIInv, [StreamNext]_allVars PROVE StreamIInv'
  OBVIOUS
<1>2. CASE UNCHANGED allVars
  BY <1>1, <1>2 DEF allVars, vars, runVars, StreamIInv, NoLeakedQueue
<1>3. CASE StreamNext
  BY <1>1, <1>3, ReviewStep, ViewerStep DEF StreamNext
<1>4. QED
  BY <1>1, <1>2, <1>3

\* The tie between generators, queues, report and outcome always holds.
THEOREM StreamInvariance == StreamSpec => []StreamIInv
BY StreamInitial, StreamStable, PTL DEF StreamSpec

\* Every variable of a run keeps its type.
THEOREM StreamTypeCorrect == StreamSpec => []StreamTypeOK
<1>1. StreamIInv /\ TypeOK => StreamTypeOK
  BY DEF StreamIInv, StreamTypeOK
<1>2. QED
  BY <1>1, StreamInvariance, StreamIsWatchers, TypeCorrect, PTL

\* A run holds a queue for exactly the generators that still run, for any
\* number of viewers and whichever way each was left.
THEOREM NoQueueLeaks == StreamSpec => []NoLeakedQueue
<1>1. StreamIInv => NoLeakedQueue
  BY DEF StreamIInv
<1>2. QED
  BY <1>1, StreamInvariance, PTL

\* A viewer told that the review completed can fetch report and document.
THEOREM CompletionIsServed == StreamSpec => []CompletedIsServed
<1>1. StreamIInv => CompletedIsServed
  BY DEF StreamIInv, CompletedIsServed, ReportStatus, DocumentStatus
<1>2. QED
  BY <1>1, StreamInvariance, PTL

\* The queues of a run, under its task, its generators, their timeouts and their
\* readers, implement the cursors of Feed.
THEOREM RunImplementsFeed == StreamSpec => ImplementsFeed
BY StreamIsWatchers, Refinement, PTL
=============================================================================

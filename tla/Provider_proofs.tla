-------------------------- MODULE Provider_proofs ---------------------------
(***************************************************************************)
(* What one call promises, and what the adapter's totals come to, for      *)
(* every number of attempts, waits and concurrent calls.                   *)
(***************************************************************************)
EXTENDS Provider, Basics_proofs

\* What a call has sent, by where it is: one request for every attempt that
\* failed and every rate limit slept off, and one more unless it never began
\* or has given up.
Ledger(c) ==
    /\ state[c] = "new" => requests[c] = 0 /\ attempt[c] = 0 /\ waited[c] = 0
    /\ state[c] \in {"asking", "sleeping", "done", "cancelled"} =>
          /\ attempt[c] < MaxAttempts
          /\ requests[c] = attempt[c] + waited[c] + 1
    /\ state[c] = "sleeping" => waited[c] < MaxWaits
    /\ state[c] = "raised" =>
          /\ attempt[c] = MaxAttempts
          /\ requests[c] = attempt[c] + waited[c]

\* The inductive invariant.
IInv == TypeOK /\ \A c \in Calls : Ledger(c)

-----------------------------------------------------------------------------
\* More room is at least the room there was, or what the provider allows.
LEMMA MoreRoomEases ==
    ASSUME NEW had \in 0..Headroom, NEW has, has = MoreRoom(RoomOf(had))
    PROVE  has \in 0..Headroom /\ Eased(had, has)
<1>. USE ProviderAssumption
<1>1. PICK room \in Nat \ {0} : room = RoomOf(had)
  BY DEF RoomOf
<1>2. /\ has \in 1..Headroom
      /\ has < room => has = Headroom
  BY <1>1 DEF MoreRoom, Least
<1>3. RoomOf(has) = has
  BY <1>2 DEF RoomOf
<1>4. room > Headroom => room = MaxTokens
  BY <1>1 DEF RoomOf
<1>. QED  BY <1>1, <1>2, <1>3, <1>4 DEF Eased

\* A budget that stays is no smaller.
LEMMA SameRoomEases ==
    ASSUME NEW had \in 0..Headroom
    PROVE  Eased(had, had)
PROOF BY ProviderAssumption DEF Eased, RoomOf

\* What a failure that counts does to the call it happens to, and to the
\* adapter (the except branch of `call`).
LEMMA FailKeeps ==
    ASSUME IInv, NEW c \in Calls, state[c] = "asking",
           NEW why, NEW charge \in Nat, Fail(c, why, charge)
    PROVE  /\ state' \in [Calls -> States] /\ attempt' \in [Calls -> 0..MaxAttempts]
           /\ waited' = waited /\ ceiling' \in [Calls -> 0..Headroom]
           /\ spent' \in [Calls -> Nat] /\ requests' \in [Calls -> Nat]
           /\ billed' \in Nat /\ retries' \in Nat /\ limited' = limited
           /\ Ledger(c)' /\ Eased(ceiling[c], ceiling'[c])
           /\ \A d \in Calls \ {c} :
                 /\ state'[d] = state[d] /\ attempt'[d] = attempt[d]
                 /\ requests'[d] = requests[d] /\ ceiling'[d] = ceiling[d]
<1>. USE ProviderAssumption DEF IInv
<1>1. /\ attempt[c] \in Nat /\ attempt[c] < MaxAttempts /\ waited[c] \in Nat
      /\ requests[c] = attempt[c] + waited[c] + 1 /\ requests[c] \in Nat
      /\ ceiling[c] \in 0..Headroom
  BY DEF TypeOK, Ledger
<1>2. /\ attempt' = [attempt EXCEPT ![c] = @ + 1] /\ waited' = waited
      /\ limited' = limited /\ spent' = [spent EXCEPT ![c] = @ + charge]
  BY DEF Fail
<1>3. attempt' \in [Calls -> 0..MaxAttempts]
  <2>1. attempt[c] + 1 \in 0..MaxAttempts
    BY <1>1
  <2>. QED  BY <1>2, <2>1 DEF TypeOK
<1>4. spent' \in [Calls -> Nat]
  BY <1>2 DEF TypeOK
<1>5. /\ ceiling' \in [Calls -> 0..Headroom] /\ Eased(ceiling[c], ceiling'[c])
      /\ \A d \in Calls \ {c} : ceiling'[d] = ceiling[d]
  <2>1. PICK had \in 0..Headroom : had = ceiling[c]
    BY <1>1
  <2>2. PICK has : has = IF why = "cut off" THEN MoreRoom(RoomOf(had)) ELSE had
    OBVIOUS
  <2>3. has \in 0..Headroom /\ Eased(had, has)
    BY <2>2, MoreRoomEases, SameRoomEases
  <2>4. ceiling' = [ceiling EXCEPT ![c] = has]
    BY <2>1, <2>2 DEF Fail
  <2>. QED  BY <2>1, <2>3, <2>4 DEF TypeOK
<1>6. CASE attempt[c] + 1 < MaxAttempts
  <2>1. /\ retries' = retries + 1 /\ state' = state /\ billed' = 0
        /\ requests' = [requests EXCEPT ![c] = @ + 1]
    BY <1>6 DEF Fail, Send
  <2>2. retries' \in Nat /\ requests' \in [Calls -> Nat] /\ state' \in [Calls -> States]
    BY <2>1 DEF TypeOK
  <2>3. /\ attempt'[c] = attempt[c] + 1 /\ requests'[c] = requests[c] + 1
        /\ state'[c] = "asking" /\ waited'[c] = waited[c]
    BY <1>2, <2>1 DEF TypeOK
  <2>4. Ledger(c)'
    BY <1>1, <1>6, <2>3 DEF Ledger
  <2>. QED  BY <1>2, <1>3, <1>4, <1>5, <2>1, <2>2, <2>4 DEF TypeOK
<1>7. CASE ~(attempt[c] + 1 < MaxAttempts)
  <2>1. /\ state' = [state EXCEPT ![c] = "raised"] /\ billed' = charge
        /\ retries' = retries /\ requests' = requests
    BY <1>7 DEF Fail
  <2>2. state' \in [Calls -> States]
    BY <2>1 DEF TypeOK, States
  <2>3. /\ attempt'[c] = attempt[c] + 1 /\ requests'[c] = requests[c]
        /\ state'[c] = "raised" /\ waited'[c] = waited[c]
    BY <1>2, <2>1 DEF TypeOK
  <2>4. attempt[c] + 1 = MaxAttempts
    BY <1>1, <1>7
  <2>5. Ledger(c)'
    BY <1>1, <2>3, <2>4 DEF Ledger
  <2>. QED  BY <1>2, <1>3, <1>4, <1>5, <2>1, <2>2, <2>5 DEF TypeOK
<1>. QED  BY <1>6, <1>7

\* What beginning to sleep does (_wait_out).
LEMMA SleepKeeps ==
    ASSUME IInv, NEW c \in Calls, state[c] = "asking",
           NEW why, WaitsOut(c, why), Sleep(c)
    PROVE  /\ state' \in [Calls -> States] /\ limited' \in Nat
           /\ UNCHANGED <<attempt, waited, ceiling, spent, retries, requests>>
           /\ Ledger(c)' /\ \A d \in Calls \ {c} : state'[d] = state[d]
<1>. USE ProviderAssumption DEF IInv
<1>1. /\ state' = [state EXCEPT ![c] = "sleeping"] /\ limited' = limited + 1
      /\ UNCHANGED <<attempt, waited, ceiling, spent, retries, requests>>
  BY DEF Sleep
<1>2. state' \in [Calls -> States] /\ state'[c] = "sleeping"
  BY <1>1 DEF TypeOK, States
<1>3. Ledger(c)'
  BY <1>1, <1>2 DEF Ledger, WaitsOut
<1>. QED  BY <1>1, <1>2, <1>3 DEF TypeOK

\* A new adapter satisfies the invariant.
LEMMA InitIInv == Init => IInv
<1>. SUFFICES ASSUME Init PROVE IInv
  OBVIOUS
<1>1. TypeOK
  BY ProviderAssumption DEF Init, TypeOK, States
<1>2. ASSUME NEW c \in Calls PROVE Ledger(c)
  BY DEF Init, Ledger
<1>. QED  BY <1>1, <1>2 DEF IInv

\* A call that is not touched keeps its ledger.
LEMMA OthersKeep ==
    ASSUME NEW d, Ledger(d), state'[d] = state[d], attempt'[d] = attempt[d],
           waited'[d] = waited[d], requests'[d] = requests[d]
    PROVE  Ledger(d)'
PROOF BY DEF Ledger

\* The first request of a call.
LEMMA StartIInv ==
    ASSUME IInv, NEW c \in Calls, Start(c)
    PROVE  IInv'
<1>. USE ProviderAssumption DEF IInv
<1>1. /\ state[c] = "new" /\ state' = [state EXCEPT ![c] = "asking"] /\ billed' = 0
      /\ requests' = [requests EXCEPT ![c] = @ + 1]
      /\ UNCHANGED <<attempt, waited, ceiling, spent, usage, retries, limited, paid>>
  BY DEF Start, Send
<1>2. TypeOK'
  BY <1>1 DEF TypeOK, States
<1>3. Ledger(c)'
  <2>1. requests'[c] = 1 /\ state'[c] = "asking" /\ attempt'[c] = 0 /\ waited'[c] = 0
    BY <1>1 DEF Ledger, TypeOK
  <2>. QED  BY <2>1 DEF Ledger
<1>4. ASSUME NEW d \in Calls \ {c} PROVE Ledger(d)'
  BY <1>1, OthersKeep DEF TypeOK
<1>. QED  BY <1>2, <1>3, <1>4

\* An answer that validates.
LEMMA AcceptIInv ==
    ASSUME IInv, NEW c \in Calls, NEW cost \in Costs, Accept(c, cost)
    PROVE  IInv'
<1>. USE ProviderAssumption DEF IInv
<1>1. /\ state[c] = "asking" /\ state' = [state EXCEPT ![c] = "done"]
      /\ billed' = cost /\ usage' = usage + cost
      /\ paid' = [paid EXCEPT ![c] = @ + cost]
      /\ spent' = [spent EXCEPT ![c] = @ + cost]
      /\ UNCHANGED <<attempt, waited, ceiling, retries, limited, requests>>
  BY DEF Accept, Bill
<1>2. cost \in Nat
  OBVIOUS
<1>3. TypeOK'
  BY <1>1, <1>2 DEF TypeOK, States
<1>4. Ledger(c)'
  <2>1. state'[c] = "done"
    BY <1>1 DEF TypeOK
  <2>. QED  BY <1>1, <2>1 DEF Ledger
<1>5. ASSUME NEW d \in Calls \ {c} PROVE Ledger(d)'
  BY <1>1, OthersKeep DEF TypeOK
<1>. QED  BY <1>3, <1>4, <1>5

\* An answer that was billed and will not do.
LEMMA RejectIInv ==
    ASSUME IInv, NEW c \in Calls, NEW cost \in Costs, NEW why \in Rejections,
           Reject(c, cost, why)
    PROVE  IInv'
<1>. USE ProviderAssumption DEF IInv
<1>1. state[c] = "asking" /\ cost \in Nat
  BY DEF Reject
<1>2. usage' \in Nat /\ paid' \in [Calls -> Nat]
  <2>1. usage' = usage + cost /\ paid' = [paid EXCEPT ![c] = @ + cost]
    BY DEF Reject, Bill
  <2>. QED  BY <1>1, <2>1 DEF TypeOK
<1>3. CASE WaitsOut(c, why)
  <2>1. Sleep(c) /\ billed' = cost
    BY <1>3 DEF Reject
  <2>2. /\ state' \in [Calls -> States] /\ limited' \in Nat
        /\ UNCHANGED <<attempt, waited, ceiling, spent, retries, requests>>
        /\ Ledger(c)' /\ \A d \in Calls \ {c} : state'[d] = state[d]
    BY <1>1, <1>3, <2>1, SleepKeeps
  <2>3. TypeOK'
    BY <1>1, <1>2, <2>1, <2>2 DEF TypeOK
  <2>4. ASSUME NEW d \in Calls \ {c} PROVE Ledger(d)'
    BY <2>2, OthersKeep
  <2>. QED  BY <2>2, <2>3, <2>4
<1>4. CASE ~WaitsOut(c, why)
  <2>1. Fail(c, why, cost)
    BY <1>4 DEF Reject
  <2>2. TypeOK'
    BY <1>1, <1>2, <2>1, FailKeeps DEF TypeOK
  <2>3. Ledger(c)'
    BY <1>1, <2>1, FailKeeps
  <2>4. ASSUME NEW d \in Calls \ {c} PROVE Ledger(d)'
    BY <1>1, <2>1, FailKeeps, OthersKeep
  <2>. QED  BY <2>2, <2>3, <2>4
<1>. QED  BY <1>3, <1>4

\* A request that raised before there was an answer.
LEMMA RefuseIInv ==
    ASSUME IInv, NEW c \in Calls, NEW why \in Refusals, Refuse(c, why)
    PROVE  IInv'
<1>. USE ProviderAssumption DEF IInv
<1>1. state[c] = "asking" /\ usage' = usage /\ paid' = paid /\ billed \in Nat
  BY DEF Refuse, TypeOK
<1>2. CASE WaitsOut(c, why)
  <2>1. Sleep(c) /\ billed' = billed
    BY <1>2 DEF Refuse
  <2>2. /\ state' \in [Calls -> States] /\ limited' \in Nat
        /\ UNCHANGED <<attempt, waited, ceiling, spent, retries, requests>>
        /\ Ledger(c)' /\ \A d \in Calls \ {c} : state'[d] = state[d]
    BY <1>1, <1>2, <2>1, SleepKeeps
  <2>3. TypeOK'
    BY <1>1, <2>1, <2>2 DEF TypeOK
  <2>4. ASSUME NEW d \in Calls \ {c} PROVE Ledger(d)'
    BY <2>2, OthersKeep
  <2>. QED  BY <2>2, <2>3, <2>4
<1>3. CASE ~WaitsOut(c, why)
  <2>1. Fail(c, why, billed)
    BY <1>3 DEF Refuse
  <2>2. TypeOK'
    BY <1>1, <2>1, FailKeeps DEF TypeOK
  <2>3. Ledger(c)'
    BY <1>1, <2>1, FailKeeps
  <2>4. ASSUME NEW d \in Calls \ {c} PROVE Ledger(d)'
    BY <1>1, <2>1, FailKeeps, OthersKeep
  <2>. QED  BY <2>2, <2>3, <2>4
<1>. QED  BY <1>2, <1>3

\* The end of a wait: the same attempt, sent again.
LEMMA WakeIInv ==
    ASSUME IInv, NEW c \in Calls, Wake(c)
    PROVE  IInv'
<1>. USE ProviderAssumption DEF IInv
<1>1. /\ state[c] = "sleeping" /\ state' = [state EXCEPT ![c] = "asking"] /\ billed' = 0
      /\ waited' = [waited EXCEPT ![c] = @ + 1]
      /\ requests' = [requests EXCEPT ![c] = @ + 1]
      /\ UNCHANGED <<attempt, ceiling, spent, usage, retries, limited, paid>>
  BY DEF Wake, Send
<1>2. waited[c] + 1 \in 0..MaxWaits
  BY <1>1 DEF Ledger, TypeOK
<1>3. TypeOK'
  BY <1>1, <1>2 DEF TypeOK, States
<1>4. Ledger(c)'
  <2>1. /\ state'[c] = "asking" /\ waited'[c] = waited[c] + 1
        /\ requests'[c] = requests[c] + 1 /\ attempt'[c] = attempt[c]
    BY <1>1 DEF TypeOK
  <2>2. /\ attempt[c] \in Nat /\ waited[c] \in Nat /\ attempt[c] < MaxAttempts
        /\ requests[c] = attempt[c] + waited[c] + 1
    BY <1>1 DEF Ledger, TypeOK
  <2>. QED  BY <2>1, <2>2 DEF Ledger
<1>5. ASSUME NEW d \in Calls \ {c} PROVE Ledger(d)'
  BY <1>1, OthersKeep DEF TypeOK
<1>. QED  BY <1>3, <1>4, <1>5

\* A call cancelled at an await.
LEMMA CancelIInv ==
    ASSUME IInv, NEW c \in Calls, Cancel(c)
    PROVE  IInv'
<1>. USE ProviderAssumption DEF IInv
<1>1. /\ state[c] \in {"asking", "sleeping"}
      /\ state' = [state EXCEPT ![c] = "cancelled"]
      /\ UNCHANGED <<attempt, waited, ceiling, spent, usage, billed, retries,
                     limited, paid, requests>>
  BY DEF Cancel
<1>2. TypeOK'
  BY <1>1 DEF TypeOK, States
<1>3. Ledger(c)'
  <2>1. state'[c] = "cancelled"
    BY <1>1 DEF TypeOK
  <2>. QED  BY <1>1, <2>1 DEF Ledger
<1>4. ASSUME NEW d \in Calls \ {c} PROVE Ledger(d)'
  BY <1>1, OthersKeep DEF TypeOK
<1>. QED  BY <1>2, <1>3, <1>4

\* Every step of every call, and every stutter, keeps the invariant.
LEMMA NextIInv == IInv /\ [Next]_vars => IInv'
<1>. SUFFICES ASSUME IInv, [Next]_vars PROVE IInv'
  OBVIOUS
<1>1. ASSUME NEW c \in Calls, Start(c) PROVE IInv'
  BY <1>1, StartIInv
<1>2. ASSUME NEW c \in Calls, Settle(c) PROVE IInv'
  BY <1>2, WakeIInv, AcceptIInv, RejectIInv, RefuseIInv DEF Settle
<1>3. ASSUME NEW c \in Calls, Cancel(c) PROVE IInv'
  BY <1>3, CancelIInv
<1>4. CASE UNCHANGED vars
  BY <1>4 DEF vars, IInv, TypeOK, Ledger
<1>. QED  BY <1>1, <1>2, <1>3, <1>4 DEF Next

\* The inductive invariant holds in every reachable state.
THEOREM Invariance == Spec => []IInv
PROOF BY InitIInv, NextIInv, PTL DEF Spec

-----------------------------------------------------------------------------
\* Every variable of the adapter and of its calls keeps its type.
THEOREM TypeCorrect == Spec => []TypeOK
<1>1. IInv => TypeOK
  BY DEF IInv
<1>. QED  BY <1>1, Invariance, PTL

\* One call sends at most MAX_ATTEMPTS + MAX_RATE_LIMIT_WAITS requests.
THEOREM RequestsAreBounded == Spec => []RequestsBounded
<1>1. ASSUME IInv PROVE RequestsBounded
  <2>. SUFFICES ASSUME NEW c \in Calls PROVE requests[c] <= MaxAttempts + MaxWaits
    BY DEF RequestsBounded
  <2>1. /\ Ledger(c) /\ state[c] \in States
        /\ attempt[c] \in 0..MaxAttempts /\ waited[c] \in 0..MaxWaits
    BY <1>1 DEF IInv, TypeOK
  <2>. QED  BY <2>1, ProviderAssumption DEF Ledger, States
<1>. QED  BY <1>1, Invariance, PTL

\* A call gives up only after MAX_ATTEMPTS requests that were not waited out.
THEOREM GivesUpOnlyLast == Spec => []GivesUpLast
<1>1. ASSUME IInv PROVE GivesUpLast
  BY <1>1 DEF IInv, Ledger, GivesUpLast
<1>. QED  BY <1>1, Invariance, PTL

\* No step of any call leaves a call with less room than it had, but for the
\* one that brings a budget configured above the headroom down to it.
THEOREM RoomGrows == Spec => RoomNeverShrinks
<1>1. ASSUME IInv, [Next]_vars, NEW d \in Calls
      PROVE  Eased(ceiling[d], ceiling'[d])
  <2>0. ceiling \in [Calls -> 0..Headroom] /\ Headroom \in Nat
    BY <1>1, ProviderAssumption DEF IInv, TypeOK
  <2>1. ASSUME ceiling'[d] = ceiling[d] PROVE Eased(ceiling[d], ceiling'[d])
    BY <2>0, <2>1, SameRoomEases
  <2>2. ASSUME NEW c \in Calls, NEW why, NEW charge \in Nat,
               state[c] = "asking", Fail(c, why, charge)
        PROVE  Eased(ceiling[d], ceiling'[d])
    <3>1. CASE c = d
      BY <1>1, <2>2, <3>1, FailKeeps
    <3>2. CASE c # d
      <4>1. ceiling'[d] = ceiling[d]
        BY <1>1, <2>2, <3>2, FailKeeps
      <4>. QED  BY <2>1, <4>1
    <3>. QED  BY <3>1, <3>2
  <2>3. ASSUME NEW c \in Calls, NEW cost \in Costs, NEW why \in Rejections,
               Reject(c, cost, why)
        PROVE  Eased(ceiling[d], ceiling'[d])
    BY <2>1, <2>2, <2>3, ProviderAssumption DEF Reject, Sleep
  <2>4. ASSUME NEW c \in Calls, NEW why \in Refusals, Refuse(c, why)
        PROVE  Eased(ceiling[d], ceiling'[d])
    <3>1. billed \in Nat
      BY <1>1 DEF IInv, TypeOK
    <3>. QED  BY <2>1, <2>2, <2>4, <3>1 DEF Refuse, Sleep
  <2>5. CASE UNCHANGED vars
    BY <2>1, <2>5 DEF vars
  <2>6. ASSUME NEW c \in Calls, Start(c) \/ Cancel(c) \/ Wake(c) PROVE ceiling' = ceiling
    BY <2>6 DEF Start, Cancel, Wake
  <2>7. ASSUME NEW c \in Calls, NEW cost \in Costs, Accept(c, cost) PROVE ceiling' = ceiling
    BY <2>7 DEF Accept
  <2>. QED  BY <1>1, <2>1, <2>3, <2>4, <2>5, <2>6, <2>7 DEF Next, Settle
<1>2. IInv /\ [Next]_vars => [\A c \in Calls : Eased(ceiling[c], ceiling'[c])]_vars
  BY <1>1
<1>. QED  BY <1>2, Invariance, PTL DEF Spec, RoomNeverShrinks

-----------------------------------------------------------------------------
(* The adapter's totals *)

\* Of a set, one member alone may have come or gone.
LEMMA CountOne ==
    ASSUME NEW S, NEW T, NEW c, IsFiniteSet(S), IsFiniteSet(T), S \ {c} = T \ {c}
    PROVE  /\ Cardinality(S) \in Nat /\ Cardinality(T) \in Nat
           /\ Cardinality(T) = Cardinality(S) - (IF c \in S THEN 1 ELSE 0)
                                             + (IF c \in T THEN 1 ELSE 0)
<1>1. /\ Cardinality(S \ {c}) = IF c \in S THEN Cardinality(S) - 1 ELSE Cardinality(S)
      /\ Cardinality(T \ {c}) = IF c \in T THEN Cardinality(T) - 1 ELSE Cardinality(T)
  BY FS_RemoveElement
<1>2. Cardinality(S) \in Nat /\ Cardinality(T) \in Nat
  BY FS_CardinalityType
<1>. QED  BY <1>1, <1>2

\* One if the call is where it is said to be.
At(s, where) == IF s = where THEN 1 ELSE 0

\* A step that touches one call keeps the totals if it adds to each of them
\* what it adds to that call; a call cancelled in its sleep may be counted.
LEMMA OneCallKeepsTotals ==
    ASSUME IInv, IInv', TotalsAgree, NEW c \in Calls,
           \A d \in Calls \ {c} : /\ state'[d] = state[d] /\ attempt'[d] = attempt[d]
                                 /\ waited'[d] = waited[d] /\ paid'[d] = paid[d],
           usage' = usage + paid'[c] - paid[c],
           retries' = retries + Retried'[c] - Retried[c],
           limited' - limited >=
              waited'[c] + At(state'[c], "sleeping") - waited[c] - At(state[c], "sleeping"),
           limited' - limited <=
              waited'[c] + At(state'[c], "sleeping") + At(state'[c], "cancelled")
              - waited[c] - At(state[c], "sleeping") - At(state[c], "cancelled")
    PROVE  TotalsAgree'
<1>. USE ProviderAssumption DEF IInv
<1>1. /\ \A d \in Calls : /\ paid[d] \in Nat /\ paid'[d] \in Nat
                           /\ waited[d] \in Nat /\ waited'[d] \in Nat
                           /\ attempt[d] \in Nat /\ attempt'[d] \in Nat
      /\ usage \in Nat /\ retries \in Nat /\ limited \in Nat /\ limited' \in Nat
  BY DEF TypeOK
<1>2. usage' = Sum(paid', Calls)
  <2>1. Sum(paid', Calls) = Sum(paid, Calls) - paid[c] + paid'[c]
    BY <1>1, SumChange
  <2>2. Sum(paid, Calls) \in Int /\ usage = Sum(paid, Calls)
    BY <1>1, SumType DEF TotalsAgree
  <2>. QED  BY <1>1, <2>1, <2>2
<1>3. retries' = Sum(Retried', Calls)
  <2>1. /\ \A d \in Calls : Retried[d] \in Int /\ Retried'[d] \in Int
        /\ \A d \in Calls \ {c} : Retried'[d] = Retried[d]
    BY <1>1 DEF Retried, Least
  <2>. DEFINE after == Retried'
  <2>2. /\ \A d \in Calls : Retried[d] \in Int /\ after[d] \in Int
        /\ \A d \in Calls \ {c} : after[d] = Retried[d]
    BY <2>1
  <2>3. retries' = retries + after[c] - Retried[c]
    OBVIOUS
  <2>. HIDE DEF after
  <2>4. Sum(after, Calls) = Sum(Retried, Calls) - Retried[c] + after[c]
    BY <2>2, SumChange
  <2>5. Sum(Retried, Calls) \in Int /\ retries = Sum(Retried, Calls)
    BY <2>2, SumType DEF TotalsAgree
  <2>6. retries' = Sum(after, Calls)
    BY <1>1, <2>2, <2>3, <2>4, <2>5
  <2>. QED  BY <2>6 DEF after
<1>4. /\ Cardinality(Asleep) \in Nat
      /\ Cardinality(Asleep') = Cardinality(Asleep) - At(state[c], "sleeping")
                                                    + At(state'[c], "sleeping")
  <2>1. Asleep \ {c} = Asleep' \ {c}
    BY DEF Asleep
  <2>2. IsFiniteSet(Asleep) /\ IsFiniteSet(Asleep')
    BY FS_Subset DEF Asleep
  <2>3. c \in Asleep <=> state[c] = "sleeping"
    BY DEF Asleep
  <2>4. c \in Asleep' <=> state'[c] = "sleeping"
    BY DEF Asleep
  <2>. HIDE DEF IInv
  <2>. QED  BY <2>1, <2>2, <2>3, <2>4, CountOne DEF At
<1>5. /\ Cardinality(Cancelled) \in Nat /\ Cardinality(Cancelled') \in Nat
      /\ Cardinality(Cancelled') = Cardinality(Cancelled) - At(state[c], "cancelled")
                                                          + At(state'[c], "cancelled")
  <2>1. Cancelled \ {c} = Cancelled' \ {c}
    BY DEF Cancelled
  <2>2. IsFiniteSet(Cancelled) /\ IsFiniteSet(Cancelled')
    BY FS_Subset DEF Cancelled
  <2>3. c \in Cancelled <=> state[c] = "cancelled"
    BY DEF Cancelled
  <2>4. c \in Cancelled' <=> state'[c] = "cancelled"
    BY DEF Cancelled
  <2>. HIDE DEF IInv
  <2>. QED  BY <2>1, <2>2, <2>3, <2>4, CountOne DEF At
<1>6. /\ Sum(waited', Calls) = Sum(waited, Calls) - waited[c] + waited'[c]
      /\ Sum(waited, Calls) \in Int
  BY <1>1, SumChange, SumType
<1>7. /\ limited >= Sum(waited, Calls) + Cardinality(Asleep)
      /\ limited <= Sum(waited, Calls) + Cardinality(Asleep) + Cardinality(Cancelled)
  BY <1>1, <1>4, <1>5, <1>6 DEF TotalsAgree
<1>8. /\ At(state[c], "sleeping") \in Int /\ At(state'[c], "sleeping") \in Int
      /\ At(state[c], "cancelled") \in Int /\ At(state'[c], "cancelled") \in Int
  BY DEF At
<1>9. /\ limited' >= Sum(waited', Calls) + Cardinality(Asleep')
      /\ limited' <= Sum(waited', Calls) + Cardinality(Asleep') + Cardinality(Cancelled')
      /\ Sum(waited', Calls) + Cardinality(Asleep') \in Int
  BY <1>1, <1>4, <1>5, <1>6, <1>7, <1>8
<1>. QED  BY <1>1, <1>2, <1>3, <1>5, <1>9 DEF TotalsAgree

\* A failure that counts leaves the waits alone; it is a retry exactly when
\* another attempt follows.
LEMMA FailTotals ==
    ASSUME IInv, NEW c \in Calls, state[c] = "asking",
           NEW why, NEW charge \in Nat, Fail(c, why, charge)
    PROVE  /\ waited' = waited /\ limited' = limited
           /\ retries' = retries + Retried'[c] - Retried[c]
           /\ At(state'[c], "sleeping") = 0 /\ At(state'[c], "cancelled") = 0
<1>. USE ProviderAssumption DEF IInv
<1>0. attempt' = [attempt EXCEPT ![c] = @ + 1] /\ waited' = waited /\ limited' = limited
  BY DEF Fail
<1>1. /\ attempt[c] \in Nat /\ attempt[c] < MaxAttempts /\ retries \in Nat
      /\ attempt'[c] = attempt[c] + 1
  BY <1>0 DEF TypeOK, Ledger
<1>2. Retried[c] = Least(attempt[c], MaxAttempts - 1)
  BY DEF Retried
<1>3. Retried'[c] = Least(attempt[c] + 1, MaxAttempts - 1)
  BY <1>1 DEF Retried
<1>4. CASE attempt[c] + 1 < MaxAttempts
  <2>1. retries' = retries + 1 /\ state' = state
    BY <1>4 DEF Fail
  <2>. HIDE DEF IInv
  <2>2. retries' = retries + Retried'[c] - Retried[c]
    BY <1>1, <1>2, <1>3, <1>4, <2>1 DEF Least
  <2>. QED  BY <1>0, <2>1, <2>2 DEF At
<1>5. CASE ~(attempt[c] + 1 < MaxAttempts)
  <2>1. retries' = retries /\ state'[c] = "raised"
    BY <1>5 DEF Fail, TypeOK
  <2>. HIDE DEF IInv
  <2>2. retries' = retries + Retried'[c] - Retried[c]
    BY <1>1, <1>2, <1>3, <1>5, <2>1 DEF Least
  <2>. QED  BY <1>0, <2>1, <2>2 DEF At
<1>. QED  BY <1>4, <1>5

\* Beginning to sleep is counted at once (_wait_out).
LEMMA SleepTotals ==
    ASSUME IInv, NEW c \in Calls, state[c] = "asking", Sleep(c)
    PROVE  /\ limited' = limited + 1
           /\ At(state'[c], "sleeping") = 1 /\ At(state'[c], "cancelled") = 0
           /\ UNCHANGED <<attempt, waited, retries, Retried>>
PROOF BY DEF IInv, TypeOK, Sleep, At, Retried

\* An answer or an error of a call is in the totals when the step is over.
LEMMA SettleTotals ==
    ASSUME IInv, IInv', TotalsAgree, NEW c \in Calls, Settle(c)
    PROVE  TotalsAgree'
<1>. USE ProviderAssumption DEF IInv
<1>1. /\ attempt[c] \in Nat /\ waited[c] \in Nat /\ paid[c] \in Nat
      /\ usage \in Nat /\ retries \in Nat /\ limited \in Nat
  BY DEF TypeOK
<1>2. Retried[c] \in Int
  BY <1>1 DEF Retried, Least
<1>3. CASE Wake(c)
  <2>1. /\ state[c] = "sleeping" /\ state'[c] = "asking" /\ waited'[c] = waited[c] + 1
        /\ \A d \in Calls \ {c} : state'[d] = state[d] /\ waited'[d] = waited[d]
        /\ UNCHANGED <<attempt, usage, retries, limited, paid>>
    BY <1>3 DEF Wake, TypeOK
  <2>2. Retried' = Retried
    BY <2>1 DEF Retried
  <2>. QED  BY <1>1, <1>2, <2>1, <2>2, OneCallKeepsTotals DEF At
<1>4. ASSUME NEW cost \in Costs, Accept(c, cost) PROVE TotalsAgree'
  <2>1. /\ state[c] = "asking" /\ state'[c] = "done"
        /\ usage' = usage + cost /\ paid'[c] = paid[c] + cost /\ cost \in Nat
        /\ \A d \in Calls \ {c} : state'[d] = state[d] /\ paid'[d] = paid[d]
        /\ UNCHANGED <<attempt, waited, retries, limited>>
    BY <1>4 DEF Accept, Bill, TypeOK
  <2>2. Retried' = Retried
    BY <2>1 DEF Retried
  <2>. QED  BY <1>1, <1>2, <2>1, <2>2, OneCallKeepsTotals DEF At
<1>5. ASSUME NEW cost \in Costs, NEW why \in Rejections, Reject(c, cost, why)
      PROVE  TotalsAgree'
  <2>1. /\ state[c] = "asking" /\ cost \in Nat
        /\ usage' = usage + cost /\ paid'[c] = paid[c] + cost
        /\ \A d \in Calls \ {c} : paid'[d] = paid[d]
    BY <1>5 DEF Reject, Bill, TypeOK
  <2>2. At(state[c], "sleeping") = 0 /\ At(state[c], "cancelled") = 0
    BY <2>1 DEF At
  <2>3. CASE WaitsOut(c, why)
    <3>1. Sleep(c)
      BY <1>5, <2>3 DEF Reject
    <3>2. \A d \in Calls \ {c} : state'[d] = state[d]
      BY <3>1 DEF Sleep, TypeOK
    <3>3. /\ limited' = limited + 1
          /\ At(state'[c], "sleeping") = 1 /\ At(state'[c], "cancelled") = 0
          /\ UNCHANGED <<attempt, waited, retries, Retried>>
      BY <2>1, <3>1, SleepTotals
    <3>. QED  BY <1>1, <1>2, <2>1, <2>2, <3>2, <3>3, OneCallKeepsTotals
  <2>4. CASE ~WaitsOut(c, why)
    <3>1. Fail(c, why, cost)
      BY <1>5, <2>4 DEF Reject
    <3>2. \A d \in Calls \ {c} : state'[d] = state[d] /\ attempt'[d] = attempt[d]
      BY <2>1, <3>1, FailKeeps
    <3>3. /\ waited' = waited /\ limited' = limited
          /\ retries' = retries + Retried'[c] - Retried[c]
          /\ At(state'[c], "sleeping") = 0 /\ At(state'[c], "cancelled") = 0
      BY <2>1, <3>1, FailTotals
    <3>. QED  BY <1>1, <1>2, <2>1, <2>2, <3>2, <3>3, OneCallKeepsTotals
  <2>. QED  BY <2>3, <2>4
<1>6. ASSUME NEW why \in Refusals, Refuse(c, why) PROVE TotalsAgree'
  <2>1. state[c] = "asking" /\ billed \in Nat /\ usage' = usage /\ paid' = paid
    BY <1>6 DEF Refuse, TypeOK
  <2>2. At(state[c], "sleeping") = 0 /\ At(state[c], "cancelled") = 0
    BY <2>1 DEF At
  <2>3. CASE WaitsOut(c, why)
    <3>1. Sleep(c)
      BY <1>6, <2>3 DEF Refuse
    <3>2. \A d \in Calls \ {c} : state'[d] = state[d]
      BY <3>1 DEF Sleep, TypeOK
    <3>3. /\ limited' = limited + 1
          /\ At(state'[c], "sleeping") = 1 /\ At(state'[c], "cancelled") = 0
          /\ UNCHANGED <<attempt, waited, retries, Retried>>
      BY <2>1, <3>1, SleepTotals
    <3>. QED  BY <1>1, <1>2, <2>1, <2>2, <3>2, <3>3, OneCallKeepsTotals
  <2>4. CASE ~WaitsOut(c, why)
    <3>1. Fail(c, why, billed)
      BY <1>6, <2>4 DEF Refuse
    <3>2. \A d \in Calls \ {c} : state'[d] = state[d] /\ attempt'[d] = attempt[d]
      BY <2>1, <3>1, FailKeeps
    <3>3. /\ waited' = waited /\ limited' = limited
          /\ retries' = retries + Retried'[c] - Retried[c]
          /\ At(state'[c], "sleeping") = 0 /\ At(state'[c], "cancelled") = 0
      BY <2>1, <3>1, FailTotals
    <3>. QED  BY <1>1, <1>2, <2>1, <2>2, <3>2, <3>3, OneCallKeepsTotals
  <2>. QED  BY <2>3, <2>4
<1>. QED  BY <1>3, <1>4, <1>5, <1>6 DEF Settle

\* Every step keeps the totals.
LEMMA NextTotals == IInv /\ IInv' /\ TotalsAgree /\ [Next]_vars => TotalsAgree'
<1>. SUFFICES ASSUME IInv, IInv', TotalsAgree, [Next]_vars PROVE TotalsAgree'
  OBVIOUS
<1>1. ASSUME NEW c \in Calls, Start(c) \/ Cancel(c) PROVE TotalsAgree'
  <2>1. /\ attempt[c] \in Nat /\ waited[c] \in Nat /\ paid[c] \in Nat
        /\ usage \in Nat /\ retries \in Nat /\ limited \in Nat
    BY DEF IInv, TypeOK
  <2>2. /\ \/ state[c] = "new" /\ state'[c] = "asking"
           \/ state[c] \in {"asking", "sleeping"} /\ state'[c] = "cancelled"
        /\ \A d \in Calls \ {c} : state'[d] = state[d]
        /\ UNCHANGED <<attempt, waited, usage, retries, limited, paid>>
    BY <1>1 DEF Start, Cancel, IInv, TypeOK
  <2>3. Retried' = Retried /\ Retried[c] \in Int
    BY <2>1, <2>2, ProviderAssumption DEF Retried, Least
  <2>. QED  BY <2>1, <2>2, <2>3, OneCallKeepsTotals DEF At
<1>2. ASSUME NEW c \in Calls, Settle(c) PROVE TotalsAgree'
  BY <1>2, SettleTotals
<1>3. CASE UNCHANGED vars
  BY <1>3 DEF vars, TotalsAgree, Retried, Asleep, Cancelled
<1>. QED  BY <1>1, <1>2, <1>3 DEF Next

\* However the calls interleave, the adapter's totals are the sums of what its
\* calls did (_record, _wait_out and the except branch of `call`).
THEOREM TotalsAlwaysAgree == Spec => []TotalsAgree
<1>1. ASSUME Init PROVE TotalsAgree
  <2>1. /\ Sum(paid, Calls) = 0 * Cardinality(Calls)
        /\ Sum(waited, Calls) = 0 * Cardinality(Calls)
    BY <1>1, ProviderAssumption, SumConstant DEF Init
  <2>2. \A c \in Calls : Retried[c] = 0
    BY <1>1, ProviderAssumption DEF Init, Retried, Least
  <2>3. Sum(Retried, Calls) = 0 * Cardinality(Calls)
    BY <2>2, ProviderAssumption, SumConstant
  <2>4. Cardinality(Calls) \in Nat
    BY ProviderAssumption, FS_CardinalityType
  <2>5. Cardinality(Asleep) = 0 /\ Cardinality(Cancelled) = 0
    BY <1>1, FS_EmptySet DEF Init, Asleep, Cancelled
  <2>. QED  BY <1>1, <2>1, <2>3, <2>4, <2>5 DEF TotalsAgree, Init
<1>2. IInv /\ IInv' /\ TotalsAgree /\ [Next]_vars => TotalsAgree'
  BY NextTotals
<1>. QED  BY <1>1, <1>2, Invariance, PTL DEF Spec
=============================================================================

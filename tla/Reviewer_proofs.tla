-------------------------- MODULE Reviewer_proofs --------------------------
(***************************************************************************)
(* What the scheduler promises for every repository, budget and cost: the  *)
(* types, the one fate of each module, the bound on the overspend, the     *)
(* probe batch, coverage between batches, and the accounting equation.     *)
(* Then the review that drives it, for every memo and mix of failures: a   *)
(* module's outcome says whether anybody read it, the findings of recorded *)
(* modules are exactly what the specialists that answered raised, the      *)
(* scheduler's ledger is the models' bill, and a review is a caller of the *)
(* kind the scheduler's promises are made to.                              *)
(***************************************************************************)
EXTENDS Reviewer, Basics_proofs

(* The scheduler *)

\* The reads that have measured something, and how many modules the next
\* batch may hold.
Paid == {m \in analysed : cost[m] > 0}
Width == IF Trusted THEN Concurrency ELSE Least(Concurrency, Probe)

\* Where the loop is, the batch agrees: nothing is out between batches, and
\* while the batch grows there is room for at least one more.
PhaseAgrees ==
    /\ phase \in {"idle", "ended"} => held = {}
    /\ phase = "choosing" => room \in 1..Width

\* The modules of the current batch -- recorded, out, and still to come --
\* are never more than one batch.
BatchFits ==
    /\ back <= Width
    /\ held # {} => back + Cardinality(held)
                      + (IF phase = "choosing" THEN room ELSE 0) <= Width

\* When a module is issued the charge is within the budget; each record since
\* may have added the most a module costs.
SpentBounded == spent <= Budget + back * MaxCost

\* The inductive invariant.
IInv ==
    /\ TypeOK
    /\ OneFate
    /\ SpentIsAccounted
    /\ PhaseAgrees
    /\ BatchFits
    /\ SpentBounded

-----------------------------------------------------------------------------
(* Arithmetic and finiteness *)

\* A larger count of modules has a larger bound on its cost.
LEMMA ProductGrows ==
    ASSUME NEW a \in Nat, NEW b \in Nat, NEW c \in Nat, a <= b
    PROVE  a * c <= b * c
PROOF BY SMT

\* One more module adds one more bound.
LEMMA ProductStep ==
    ASSUME NEW a \in Nat, NEW c \in Nat
    PROVE  (a + 1) * c = a * c + c /\ a * c \in Nat /\ (a + 1) * c \in Nat
PROOF BY SMT

\* Every review has a ceiling.
LEMMA BudgetNat == Budget \in Nat
PROOF BY SchedulerAssumption DEF Budget

\* An integer quotient of naturals is a natural (the measured rate).
LEMMA QuotientNat ==
    ASSUME NEW a \in Nat, NEW b \in Nat \ {0}
    PROVE  a \div b \in Nat
PROOF BY SMT

\* What a module is charged when it is handed out is a natural number of
\* micro-dollars (_estimate_micros).
LEMMA EstimateNat ==
    ASSUME TypeOK, NEW m \in Modules
    PROVE  Estimate(m) \in Nat
<1>1. Floor[m] \in Nat
  BY SchedulerAssumption
<1>2. Observed \in Nat
  <2>1. CASE Trusted
    <3>1. measured \in Nat \ {0} /\ total \in Nat
      BY <2>1, SchedulerAssumption DEF Trusted, TypeOK
    <3>2. total \div measured \in Nat
      BY <3>1, QuotientNat
    <3>. QED  BY <2>1, <3>2 DEF Observed
  <2>2. CASE ~Trusted
    BY <2>2 DEF Observed
  <2>. QED  BY <2>1, <2>2
<1>. QED  BY <1>1, <1>2 DEF Estimate, Greatest

\* The sets of modules the scheduler keeps are finite.
LEMMA KeptFinite ==
    ASSUME TypeOK
    PROVE  /\ IsFiniteSet(held) /\ IsFiniteSet(analysed) /\ IsFiniteSet(Paid)
           /\ IsFiniteSet(seen) /\ IsFiniteSet(seen \ held)
<1>1. Paid \subseteq analysed
  BY DEF Paid
<1>. QED  BY <1>1, SchedulerAssumption, FS_Subset DEF TypeOK

\* The width of a batch never shrinks: a rate once trusted stays trusted.
LEMMA WidthGrows ==
    ASSUME TypeOK, measured' \in Nat, measured <= measured'
    PROVE  Width \in Nat \ {0} /\ Width' \in Nat \ {0} /\ Width <= Width'
PROOF BY SchedulerAssumption DEF Width, Trusted, Least, TypeOK

-----------------------------------------------------------------------------
(* The inductive invariant: the initial states and each action *)

\* A new Scheduler satisfies the invariant.
LEMMA InitIInv == Init => IInv
<1>. SUFFICES ASSUME Init PROVE IInv
  OBVIOUS
<1>1. /\ phase = "idle" /\ room = 0 /\ spent = 0 /\ back = 0
      /\ measured = 0 /\ total = 0
      /\ seen = {} /\ held = {} /\ analysed = {} /\ failed = {}
  BY DEF Init
<1>2. TypeOK
  <2>1. room \in 0..Concurrency
    BY <1>1, SchedulerAssumption
  <2>2. estimate \in [Modules -> Nat] /\ suspect \in [Modules -> Nat]
    BY DEF Init
  <2>3. cost \in [Modules -> 0..MaxCost]
    <3>1. cost = [m \in Modules |-> 0]
      BY DEF Init
    <3>2. 0 \in 0..MaxCost
      BY SchedulerAssumption
    <3>. QED  BY <3>1, <3>2
  <2>4. stopped \in Reasons
    BY DEF Init, Reasons
  <2>. QED  BY <1>1, <2>1, <2>2, <2>3, <2>4 DEF TypeOK
<1>3. OneFate
  BY <1>1 DEF OneFate
<1>4. SpentIsAccounted
  <2>1. Paid = {} /\ seen \ held = {}
    BY <1>1 DEF Paid
  <2>. QED  BY <1>1, <2>1, FS_EmptySet, SumEmpty DEF SpentIsAccounted, Paid
<1>5. PhaseAgrees
  BY <1>1 DEF PhaseAgrees
<1>6. BatchFits
  BY <1>1, SchedulerAssumption DEF BatchFits, Width, Trusted, Least
<1>7. SpentBounded
  BY <1>1, SchedulerAssumption, BudgetNat DEF SpentBounded
<1>. QED  BY <1>2, <1>3, <1>4, <1>5, <1>6, <1>7 DEF IInv

\* next_batch starts with room for exactly one batch.
LEMMA AskIInv == IInv /\ Ask => IInv'
<1>. SUFFICES ASSUME IInv, Ask PROVE IInv'
  OBVIOUS
<1>. USE SchedulerAssumption DEF IInv, Ask
<1>1. TypeOK'
  BY DEF TypeOK, Trusted, Least
<1>2. OneFate'
  BY DEF OneFate
<1>3. SpentIsAccounted'
  BY DEF SpentIsAccounted, Paid
<1>4. held = {} /\ Width' = Width /\ room' = Width
  BY DEF PhaseAgrees, Width, Trusted, Least
<1>5. PhaseAgrees'
  BY <1>4 DEF PhaseAgrees, TypeOK, Width, Least
<1>6. BatchFits'
  BY <1>4 DEF BatchFits
<1>7. SpentBounded'
  BY DEF SpentBounded
<1>. QED  BY <1>1, <1>2, <1>3, <1>5, <1>6, <1>7 DEF IInv

\* A module is issued only into room that is left, and only if the budget
\* still covers its estimate.
LEMMA IssueIInv ==
    ASSUME IInv, NEW m \in Modules, Issue(m)
    PROVE  IInv'
<1>. USE SchedulerAssumption DEF IInv
<1>1. /\ phase = "choosing" /\ room \in 1..Width
      /\ m \in Candidates /\ spent + Estimate(m) <= Budget
  BY DEF Issue, Best, Affordable, PhaseAgrees
<1>2. Estimate(m) \in Nat
  BY EstimateNat
<1>3. m \in Signalled /\ m \notin seen /\ m \notin held
  BY <1>1 DEF Candidates, OneFate
<1>4. TypeOK'
  BY <1>1, <1>2 DEF TypeOK, Issue
<1>5. OneFate'
  BY <1>3 DEF OneFate, Issue
<1>6. SpentIsAccounted'
  <2>1. IsFiniteSet(held) /\ IsFiniteSet(seen)
    BY KeptFinite
  <2>2. /\ spent' = spent + Estimate(m) /\ seen' \ held' = seen \ held
        /\ held' = held \cup {m} /\ estimate' = [estimate EXCEPT ![m] = Estimate(m)]
        /\ UNCHANGED <<measured, total, analysed, cost>>
    BY <1>3 DEF Issue
  <2>3. /\ estimate'[m] = Estimate(m) /\ \A n \in held : estimate'[n] = estimate[n]
        /\ \A n \in held \cup {m} : estimate'[n] \in Int
        /\ \A n \in held : estimate[n] \in Int
    BY <1>2, <1>3, <2>2 DEF TypeOK
  <2>4. Sum(estimate', held') = Sum(estimate', held) + estimate'[m]
    BY <1>3, <2>1, <2>2, <2>3, SumAdd
  <2>5. Sum(estimate', held) = Sum(estimate, held) /\ Sum(estimate, held) \in Int
    BY <2>1, <2>3, SumSame, SumType
  <2>6. \A n \in seen \ held : cost[n] \in Int
    BY DEF TypeOK
  <2>7. Sum(cost, seen \ held) \in Int
    BY <2>6, KeptFinite, SumType
  <2>8. Sum(cost', seen' \ held') = Sum(cost, seen \ held)
    BY <2>2
  <2>9. spent' = Sum(cost', seen' \ held') + Sum(estimate', held')
    BY <1>2, <2>2, <2>3, <2>4, <2>5, <2>7, <2>8 DEF SpentIsAccounted
  <2>. QED  BY <2>2, <2>9 DEF SpentIsAccounted
<1>7. /\ Width' = Width /\ Width \in Nat \ {0}
      /\ room \in Nat /\ room' = room - 1 /\ back' = 0 /\ held' = held \cup {m}
  BY <1>1 DEF Width, Trusted, Least, Issue, TypeOK
<1>8. /\ Cardinality(held) \in Nat
      /\ Cardinality(held') = Cardinality(held) + 1
  BY <1>3, <1>7, KeptFinite, FS_AddElement, FS_CardinalityType
<1>9. Cardinality(held) + room <= Width
  <2>1. CASE held = {}
    BY <2>1, <1>1, <1>7, FS_EmptySet
  <2>2. CASE held # {}
    BY <2>2, <1>1, <1>7, <1>8 DEF BatchFits, TypeOK
  <2>. QED  BY <2>1, <2>2
<1>10. phase' = IF room = 1 THEN "reading" ELSE "choosing"
  BY DEF Issue
<1>11. PhaseAgrees'
  BY <1>1, <1>7, <1>10 DEF PhaseAgrees
<1>12. BatchFits'
  <2>1. Cardinality(held') + room' <= Width'
    BY <1>7, <1>8, <1>9
  <2>2. phase' = "choosing" \/ phase' = "reading"
    BY <1>10
  <2>3. Cardinality(held') \in Nat /\ room' \in Nat /\ Width' \in Nat
    BY <1>1, <1>7, <1>8
  <2>4. Cardinality(held') + (IF phase' = "choosing" THEN room' ELSE 0) <= Width'
    BY <2>1, <2>2, <2>3
  <2>. QED  BY <2>3, <2>4, <1>7 DEF BatchFits
<1>13. SpentBounded'
  <2>1. spent' <= Budget /\ spent' \in Int
    BY <1>1, <1>2, BudgetNat DEF Issue, TypeOK
  <2>2. Budget + back' * MaxCost = Budget
    BY <1>7, BudgetNat
  <2>. QED  BY <2>1, <2>2 DEF SpentBounded
<1>. QED  BY <1>4, <1>5, <1>6, <1>11, <1>12, <1>13 DEF IInv

\* A batch cut short, or empty, keeps the invariant.
LEMMA ExhaustIInv == IInv /\ Exhaust => IInv'
<1>. SUFFICES ASSUME IInv, Exhaust PROVE IInv'
  OBVIOUS
<1>. USE SchedulerAssumption DEF IInv
<1>1. phase = "choosing" /\ held' = held /\ room' = 0 /\ back' = back
  BY DEF Exhaust
<1>2. TypeOK'
  <2>1. stopped' \in Reasons
    BY DEF Exhaust, Reasons
  <2>2. phase' \in {"ended", "reading"} /\ room' = 0
    BY DEF Exhaust
  <2>3. UNCHANGED <<spent, seen, held, estimate, analysed, failed, measured,
                   total, suspect, cost, back>>
    BY DEF Exhaust
  <2>. QED  BY <2>1, <2>2, <2>3 DEF TypeOK
<1>3. OneFate'
  BY DEF OneFate, Exhaust
<1>4. SpentIsAccounted'
  BY DEF SpentIsAccounted, Paid, Exhaust
<1>5. PhaseAgrees'
  BY DEF PhaseAgrees, Exhaust
<1>6. BatchFits'
  <2>1. Width' = Width /\ Width \in Nat
    BY DEF Width, Trusted, Least, Exhaust
  <2>2. Cardinality(held) \in Nat /\ back \in Nat /\ room \in Nat
    BY KeptFinite, FS_CardinalityType DEF TypeOK
  <2>3. phase' # "choosing"
    BY DEF Exhaust
  <2>. QED  BY <1>1, <2>1, <2>2, <2>3 DEF BatchFits
<1>7. SpentBounded'
  BY DEF SpentBounded, Exhaust
<1>. QED  BY <1>2, <1>3, <1>4, <1>5, <1>6, <1>7 DEF IInv

\* What recording a module does to the batch and to the charge, whichever of
\* the two outcomes it has.
LEMMA ChargeKeeps ==
    ASSUME IInv, phase = "reading", NEW m \in held, NEW c \in Costs, Charge(m, c),
           measured' \in Nat, measured <= measured'
    PROVE  PhaseAgrees' /\ BatchFits' /\ SpentBounded'
<1>. USE SchedulerAssumption DEF IInv
<1>1. m \in Modules /\ estimate[m] \in Nat /\ c \in Nat /\ c <= MaxCost
  BY DEF TypeOK
<1>2. /\ held' = held \ {m} /\ back' = back + 1 /\ spent' = spent - estimate[m] + c
      /\ phase' = IF held = {m} THEN "idle" ELSE "reading"
  BY DEF Charge
<1>3. PhaseAgrees'
  BY <1>2 DEF PhaseAgrees
<1>4. BatchFits'
  <2>1. Width \in Nat /\ Width' \in Nat /\ Width <= Width'
    BY WidthGrows
  <2>2. /\ Cardinality(held) \in Nat
        /\ Cardinality(held') = Cardinality(held) - 1
    BY <1>2, KeptFinite, FS_RemoveElement, FS_CardinalityType
  <2>3. back \in Nat /\ back + Cardinality(held) <= Width
    BY <2>1, <2>2 DEF BatchFits, TypeOK
  <2>4. Cardinality(held') \in Nat
    BY <1>2, KeptFinite, FS_RemoveElement, FS_CardinalityType
  <2>5. back' + Cardinality(held') <= Width' /\ back' <= Width'
    BY <1>2, <2>1, <2>2, <2>3, <2>4
  <2>6. phase' # "choosing"
    BY <1>2
  <2>. QED  BY <1>2, <2>1, <2>3, <2>4, <2>5, <2>6 DEF BatchFits
<1>5. SpentBounded'
  <2>1. back \in Nat /\ spent \in Int /\ spent <= Budget + back * MaxCost
    BY DEF SpentBounded, TypeOK
  <2>2. /\ (back + 1) * MaxCost = back * MaxCost + MaxCost
        /\ back * MaxCost \in Nat /\ (back + 1) * MaxCost \in Nat
    BY <2>1, ProductStep
  <2>. DEFINE p == back * MaxCost
              q == (back + 1) * MaxCost
  <2>3. q = p + MaxCost /\ p \in Nat /\ q \in Nat /\ spent <= Budget + p
    BY <2>1, <2>2
  <2>4. back' * MaxCost = q
    BY <1>2
  <2>. HIDE DEF p, q
  <2>5. spent' <= Budget + q
    BY <1>1, <1>2, <2>1, <2>3, BudgetNat
  <2>. QED  BY <2>4, <2>5 DEF SpentBounded
<1>. QED  BY <1>3, <1>4, <1>5

\* Recording a module replaces its estimate by what it cost.
LEMMA ChargeAccounts ==
    ASSUME IInv, NEW m \in held, NEW c \in Costs, Charge(m, c)
    PROVE  spent' = Sum(cost', seen' \ held') + Sum(estimate', held')
<1>. USE SchedulerAssumption DEF IInv
<1>1. /\ held' = held \ {m} /\ spent' = spent - estimate[m] + c /\ estimate' = estimate
      /\ cost' = [cost EXCEPT ![m] = c]
  BY DEF Charge
<1>2. m \in Modules /\ m \in seen /\ c \in Int /\ estimate[m] \in Int
  BY DEF OneFate, TypeOK
<1>3. seen' \ held' = (seen \ held) \cup {m} /\ m \notin seen \ held
  BY <1>1, <1>2 DEF Charge
<1>4. /\ \A n \in (seen \ held) \cup {m} : cost'[n] \in Int
      /\ \A n \in seen \ held : cost'[n] = cost[n] /\ cost[n] \in Int
      /\ cost'[m] = c
  BY <1>1, <1>2 DEF TypeOK
<1>5. IsFiniteSet(held) /\ IsFiniteSet(seen \ held)
  BY KeptFinite
<1>6. Sum(cost', seen' \ held') = Sum(cost', seen \ held) + cost'[m]
  BY <1>3, <1>4, <1>5, SumAdd
<1>7. Sum(cost', seen \ held) = Sum(cost, seen \ held) /\ Sum(cost, seen \ held) \in Int
  BY <1>4, <1>5, SumSame, SumType
<1>8. \A n \in held : estimate[n] \in Int
  BY DEF TypeOK
<1>9. Sum(estimate, held) = estimate[m] + Sum(estimate, held \ {m})
  BY <1>5, <1>8, SumRemove
<1>10. Sum(estimate', held') \in Int /\ Sum(estimate', held') = Sum(estimate, held \ {m})
  <2>1. IsFiniteSet(held \ {m})
    BY <1>5, FS_RemoveElement
  <2>. QED  BY <1>1, <1>8, <2>1, SumType
<1>11. spent = Sum(cost, seen \ held) + Sum(estimate, held)
  BY DEF SpentIsAccounted
<1>. QED  BY <1>1, <1>2, <1>4, <1>6, <1>7, <1>9, <1>10, <1>11

\* A module that was read leaves the batch for coverage, and is counted as a
\* measurement exactly when it cost something.
LEMMA RecordReadIInv ==
    ASSUME IInv, NEW m \in Modules, NEW c \in Costs, NEW found \in Findings,
           RecordRead(m, c, found)
    PROVE  IInv'
<1>. USE SchedulerAssumption DEF IInv
<1>1. /\ phase = "reading" /\ m \in held /\ Charge(m, c) /\ c \in Nat
      /\ analysed' = analysed \cup {m} /\ failed' = failed
      /\ cost' = [cost EXCEPT ![m] = c]
  BY DEF RecordRead, Charge
<1>2. /\ c > 0 => measured' = measured + 1 /\ total' = total + c
      /\ c = 0 => measured' = measured /\ total' = total
  BY <1>1 DEF RecordRead
<1>3. measured' \in Nat /\ measured <= measured' /\ total' \in Nat
  BY <1>1, <1>2 DEF TypeOK
<1>4. TypeOK'
  <2>1. phase' \in {"idle", "reading"} /\ room' = room /\ stopped' = stopped
    BY <1>1 DEF Charge
  <2>2. spent' \in Int
    <3>1. estimate[m] \in Nat /\ spent \in Int /\ spent' = spent - estimate[m] + c
      BY <1>1 DEF Charge, TypeOK
    <3>. QED  BY <1>1, <3>1
  <2>3. /\ seen' \subseteq Modules /\ held' \subseteq Modules
        /\ analysed' \subseteq Modules /\ failed' \subseteq Modules
    BY <1>1 DEF Charge, TypeOK
  <2>4. estimate' \in [Modules -> Nat] /\ cost' \in [Modules -> 0..MaxCost]
    BY <1>1 DEF Charge, TypeOK
  <2>5. suspect' \in [Modules -> Nat]
    BY DEF RecordRead, TypeOK
  <2>6. back' \in Nat
    BY <1>1 DEF Charge, TypeOK
  <2>. QED  BY <1>3, <2>1, <2>2, <2>3, <2>4, <2>5, <2>6 DEF TypeOK
<1>5. OneFate'
  BY <1>1 DEF OneFate, Charge
<1>6. SpentIsAccounted'
  <2>1. m \notin analysed /\ m \notin Paid
    BY <1>1 DEF OneFate, Paid
  <2>2. cost'[m] = c /\ \A n \in analysed : cost'[n] = cost[n]
    BY <1>1, <2>1 DEF TypeOK
  <2>5. /\ Sum(cost', analysed') = Sum(cost', analysed) + c
        /\ Sum(cost', analysed) = Sum(cost, analysed) /\ Sum(cost, analysed) \in Int
    <3>1. /\ IsFiniteSet(analysed) /\ analysed' = analysed \cup {m} /\ cost'[m] = c
      BY <1>1, <2>2, KeptFinite
    <3>2. /\ \A n \in analysed \cup {m} : cost'[n] \in Int
          /\ \A n \in analysed : cost[n] \in Int
      BY <1>1, <2>2 DEF TypeOK
    <3>. QED  BY <2>1, <2>2, <3>1, <3>2, SumAdd, SumSame, SumType
  <2>6. total' = Sum(cost', analysed')
    BY <1>1, <1>2, <2>5 DEF SpentIsAccounted
  <2>7. spent' = Sum(cost', seen' \ held') + Sum(estimate', held')
    BY <1>1, ChargeAccounts
  <2>3. CASE c > 0
    <3>1. Paid' = Paid \cup {m}
      BY <1>1, <2>2, <2>3 DEF Paid
    <3>2. Cardinality(Paid') = Cardinality(Paid) + 1
      BY <2>1, <3>1, KeptFinite, FS_AddElement
    <3>. QED  BY <1>2, <2>3, <2>6, <3>2, <2>7 DEF SpentIsAccounted, Paid
  <2>4. CASE c = 0
    <3>1. Paid' = Paid
      BY <1>1, <2>2, <2>4 DEF Paid
    <3>. QED  BY <1>2, <2>4, <2>6, <3>1, <2>7 DEF SpentIsAccounted, Paid
  <2>. QED  BY <1>1, <2>3, <2>4
<1>7. PhaseAgrees' /\ BatchFits' /\ SpentBounded'
  BY <1>1, <1>3, ChargeKeeps
<1>. QED  BY <1>4, <1>5, <1>6, <1>7 DEF IInv

\* A module nobody could read leaves the batch as a failure and measures
\* nothing.
LEMMA RecordUnreadIInv ==
    ASSUME IInv, NEW m \in Modules, NEW c \in Costs, RecordUnread(m, c)
    PROVE  IInv'
<1>. USE SchedulerAssumption DEF IInv
<1>1. /\ phase = "reading" /\ m \in held /\ Charge(m, c) /\ c \in Nat
      /\ analysed' = analysed /\ failed' = failed \cup {m}
      /\ measured' = measured /\ total' = total /\ suspect' = suspect
      /\ cost' = [cost EXCEPT ![m] = c]
  BY DEF RecordUnread, Charge
<1>2. TypeOK'
  <2>1. phase' \in {"idle", "reading"} /\ room' = room /\ stopped' = stopped
    BY <1>1 DEF Charge
  <2>2. spent' \in Int
    <3>1. estimate[m] \in Nat /\ spent \in Int /\ spent' = spent - estimate[m] + c
      BY <1>1 DEF Charge, TypeOK
    <3>. QED  BY <1>1, <3>1
  <2>3. /\ seen' \subseteq Modules /\ held' \subseteq Modules
        /\ analysed' \subseteq Modules /\ failed' \subseteq Modules
    BY <1>1 DEF Charge, TypeOK
  <2>4. estimate' \in [Modules -> Nat] /\ cost' \in [Modules -> 0..MaxCost]
    BY <1>1 DEF Charge, TypeOK
  <2>5. back' \in Nat
    BY <1>1 DEF Charge, TypeOK
  <2>. QED  BY <1>1, <2>1, <2>2, <2>3, <2>4, <2>5 DEF TypeOK
<1>3. OneFate'
  BY <1>1 DEF OneFate, Charge
<1>4. SpentIsAccounted'
  <2>1. m \notin analysed
    BY <1>1 DEF OneFate
  <2>2. Paid' = Paid
    BY <1>1, <2>1 DEF Paid, TypeOK
  <2>3. \A n \in analysed : cost'[n] = cost[n]
    BY <1>1, <2>1 DEF TypeOK
  <2>4. Sum(cost', analysed) = Sum(cost, analysed)
    BY <2>3, KeptFinite, SumSame
  <2>5. spent' = Sum(cost', seen' \ held') + Sum(estimate', held')
    BY <1>1, ChargeAccounts
  <2>6. total' = Sum(cost', analysed')
    BY <1>1, <2>4 DEF SpentIsAccounted
  <2>. QED  BY <1>1, <2>2, <2>5, <2>6 DEF SpentIsAccounted, Paid
<1>5. measured' \in Nat /\ measured <= measured'
  BY <1>1 DEF TypeOK
<1>6. PhaseAgrees' /\ BatchFits' /\ SpentBounded'
  BY <1>1, <1>5, ChargeKeeps
<1>. QED  BY <1>2, <1>3, <1>4, <1>6 DEF IInv

\* Every step of the scheduler, and every stutter, keeps the invariant.
LEMMA NextIInv == IInv /\ [Next]_vars => IInv'
<1>. SUFFICES ASSUME IInv, [Next]_vars PROVE IInv'
  OBVIOUS
<1>1. CASE Ask
  BY <1>1, AskIInv
<1>2. CASE Exhaust
  BY <1>2, ExhaustIInv
<1>3. ASSUME NEW m \in Modules, Issue(m) PROVE IInv'
  BY <1>3, IssueIInv
<1>4. ASSUME NEW m \in Modules, NEW c \in Costs, RecordUnread(m, c) PROVE IInv'
  BY <1>4, RecordUnreadIInv
<1>5. ASSUME NEW m \in Modules, NEW c \in Costs, NEW found \in Findings,
             RecordRead(m, c, found)
      PROVE IInv'
  BY <1>5, RecordReadIInv
<1>6. CASE UNCHANGED vars
  BY <1>6 DEF vars, IInv, TypeOK, OneFate, SpentIsAccounted, Paid, PhaseAgrees,
     BatchFits, SpentBounded, Width, Trusted
<1>. QED  BY <1>1, <1>2, <1>3, <1>4, <1>5, <1>6 DEF Next

\* The inductive invariant holds in every reachable state.
THEOREM Invariance == Spec => []IInv
PROOF BY InitIInv, NextIInv, PTL DEF Spec

-----------------------------------------------------------------------------
(* What follows from it *)

\* What has been charged is the real cost of what has been recorded plus the
\* estimates of what is out, and the rate is measured on the reads that cost
\* something: an estimate is replaced, never added to (_reserve, record).
THEOREM SpentAlwaysAccounted == Spec => []SpentIsAccounted
<1>1. IInv => SpentIsAccounted
  BY DEF IInv
<1>. QED  BY <1>1, Invariance, PTL

\* Every variable of the scheduler keeps its type.
THEOREM TypeCorrect == Spec => []TypeOK
<1>1. IInv => TypeOK
  BY DEF IInv
<1>. QED  BY <1>1, Invariance, PTL

\* A module handed out is waiting, analysed or failed -- exactly one of them --
\* and has a signal.
THEOREM FateIsOne == Spec => []OneFate
<1>1. IInv => OneFate
  BY DEF IInv
<1>. QED  BY <1>1, Invariance, PTL

\* The invariant bounds the overspend: each record of the current batch has
\* added at most what the dearest module costs.
LEMMA OverspendFollows ==
    ASSUME IInv
    PROVE  OneBatchOver
<1>. USE SchedulerAssumption DEF IInv
<1>1. back \in Nat /\ spent \in Int /\ back <= Width /\ Width \in Nat
  BY DEF BatchFits, TypeOK, Width, Least
<1>2. Width <= Concurrency /\ (~Trusted => Width <= Probe)
  BY DEF Width, Least
<1>3. back <= Concurrency
  BY <1>1, <1>2
<1>4. back * MaxCost <= Concurrency * MaxCost
  BY <1>1, <1>3, ProductGrows
<1>5. ~Trusted => back * MaxCost <= Probe * MaxCost
  BY <1>1, <1>2, ProductGrows
<1>6. back * MaxCost \in Nat /\ Concurrency * MaxCost \in Nat /\ Probe * MaxCost \in Nat
  BY <1>1, ProductStep
<1>7. spent <= Budget + back * MaxCost
  BY DEF SpentBounded
<1>. DEFINE p == back * MaxCost
            q == Concurrency * MaxCost
            r == Probe * MaxCost
<1>8. /\ p <= q /\ (~Trusted => p <= r) /\ p \in Nat /\ q \in Nat /\ r \in Nat
      /\ spent <= Budget + p
  BY <1>4, <1>5, <1>6, <1>7
<1>. HIDE DEF p, q, r
<1>9. spent <= Budget + q /\ (~Trusted => spent <= Budget + r)
  BY <1>1, <1>8, BudgetNat
<1>. QED  BY <1>9 DEF OneBatchOver, p, q, r

\* The overspend is at most one batch, and one probe batch before the rate is
\* measured.
THEOREM OverspendBounded == Spec => []OneBatchOver
<1>1. IInv => OneBatchOver
  BY OverspendFollows
<1>. QED  BY <1>1, Invariance, PTL

\* Until enough reads have cost something, at most a probe batch is out.
THEOREM ProbesFirst == Spec => []ProbeFirst
<1>1. ASSUME IInv PROVE ProbeFirst
  <2>. SUFFICES ASSUME Cardinality(Paid) < Enough
                PROVE  Cardinality(held) <= Probe
    BY DEF ProbeFirst, Paid
  <2>. USE <1>1, SchedulerAssumption DEF IInv
  <2>1. ~Trusted
    BY DEF Trusted, SpentIsAccounted, Paid, TypeOK
  <2>2. Width \in Nat /\ Width <= Probe
    BY <2>1 DEF Width, Least
  <2>3. CASE held = {}
    BY <2>3, FS_EmptySet
  <2>4. CASE held # {}
    <3>1. Cardinality(held) \in Nat /\ back \in Nat /\ room \in Nat
      BY KeptFinite, FS_CardinalityType DEF TypeOK
    <3>. QED  BY <2>2, <2>4, <3>1 DEF BatchFits
  <2>. QED  BY <2>3, <2>4
<1>. QED  BY <1>1, Invariance, PTL

\* Between batches every path of the repository is analysed or skipped with a
\* reason, and never both.
THEOREM CoverageComplete == Spec => []CoverageBetweenBatches
<1>1. ASSUME IInv PROVE CoverageBetweenBatches
  <2>1. DOMAIN Skipped = Unmapped \cup Unread \cup failed
    BY DEF Skipped
  <2>2. seen = analysed \cup failed \cup held /\ analysed \cap failed = {}
    BY <1>1 DEF IInv, OneFate
  <2>3. analysed \subseteq Modules /\ failed \subseteq Modules /\ Modules \cap Unmapped = {}
    BY <1>1, SchedulerAssumption DEF IInv, TypeOK
  <2>4. seen \subseteq Modules
    BY <1>1 DEF IInv, TypeOK
  <2>. QED  BY <2>1, <2>2, <2>3, <2>4 DEF CoverageBetweenBatches, Unread
<1>. QED  BY <1>1, Invariance, PTL

-----------------------------------------------------------------------------
(* The review *)

\* What the proof needs of the types.
Shapes ==
    /\ stage \in [Modules -> {"unread", "sent", "routing", "asking", "back"}]
    /\ DOMAIN opinion = Modules
    /\ batch \subseteq Modules
    /\ \A m \in Modules : \A l \in Heard(m) : opinion[m][l] \subseteq Constructs
    /\ \A q \in DOMAIN memo : memo[q] \subseteq Constructs

\* A module is out, read or unread, and only once.
Fates ==
    /\ seen \subseteq Modules /\ held \subseteq seen
    /\ analysed \subseteq seen /\ failed \subseteq seen
    /\ held \cap analysed = {} /\ held \cap failed = {} /\ analysed \cap failed = {}

\* Nothing more is heard of a recorded module: its coroutine is back.
RecordedIsBack == \A m \in analysed \cup failed : stage[m] = "back"

ReviewIInv ==
    /\ Shapes
    /\ Fates
    /\ RecordedIsBack
    /\ AnalysedWasHeard
    /\ NothingHeardIsLost

-----------------------------------------------------------------------------
\* The scheduler's own steps change neither what was recorded nor any reading.
LEMMA ChooseKeeps == ASSUME ReviewIInv, Choose PROVE ReviewIInv'
<1>1. UNCHANGED <<analysed, failed, stage, opinion, batch, memo, drafts>>
  BY DEF Choose, Ask, Exhaust, Issue, reviewing, reading
<1>2. Fates'
  <2>1. CASE Ask \/ Exhaust
    BY <2>1 DEF Ask, Exhaust, ReviewIInv, Fates
  <2>2. ASSUME NEW m \in Modules, Issue(m) PROVE Fates'
    <3>1. m \notin seen /\ seen' = seen \cup {m} /\ held' = held \cup {m}
      BY <2>2 DEF Issue, Best, Affordable, Candidates
    <3>2. QED
      BY <1>1, <3>1 DEF ReviewIInv, Fates
  <2>3. QED
    BY <2>1, <2>2 DEF Choose
<1>3. QED
  BY <1>1, <1>2 DEF ReviewIInv, Shapes, RecordedIsBack, AnalysedWasHeard,
                    NothingHeardIsLost, Heard

\* Only modules that are out are sent, and those are not recorded yet.
LEMMA SendOutKeeps == ASSUME ReviewIInv, SendOut PROVE ReviewIInv'
<1>1. /\ UNCHANGED <<analysed, failed, held, seen, opinion, memo, drafts>>
      /\ batch' = held
      /\ stage' = [m \in Modules |-> IF m \in held THEN "sent" ELSE stage[m]]
  BY DEF SendOut, vars
<1>2. Shapes'
  BY <1>1 DEF ReviewIInv, Shapes, Fates, Heard
<1>3. RecordedIsBack'
  BY <1>1 DEF ReviewIInv, Fates, RecordedIsBack
<1>4. QED
  BY <1>1, <1>2, <1>3 DEF ReviewIInv, Fates, AnalysedWasHeard, NothingHeardIsLost, Heard

\* A coroutine of a module that is not back changes that module's stage alone,
\* and adds to its opinions at most.
LEMMA ReadingKeeps ==
    ASSUME ReviewIInv, Elsewhere, NEW m \in batch, stage[m] # "back",
           NEW s \in {"routing", "asking", "back"}, stage' = [stage EXCEPT ![m] = s],
           \A n \in Modules \ {m} : opinion'[n] = opinion[n],
           DOMAIN opinion' = Modules,
           \A l \in DOMAIN opinion'[m] : opinion'[m][l] \subseteq Constructs,
           \A q \in DOMAIN memo' : memo'[q] \subseteq Constructs
    PROVE  ReviewIInv'
<1>1. UNCHANGED <<analysed, failed, held, seen, batch, drafts>>
  BY DEF Elsewhere, vars
<1>2. m \in Modules /\ m \notin analysed \cup failed
  BY DEF ReviewIInv, Shapes, RecordedIsBack
<1>3. \A n \in analysed \cup failed : n \in Modules \ {m}
  BY <1>2 DEF ReviewIInv, Fates
<1>4. Shapes'
  <2>1. stage' \in [Modules -> {"unread", "sent", "routing", "asking", "back"}]
    BY <1>2 DEF ReviewIInv, Shapes
  <2>2. \A n \in Modules : \A l \in DOMAIN opinion'[n] : opinion'[n][l] \subseteq Constructs
    BY DEF ReviewIInv, Shapes, Heard
  <2>3. QED
    BY <1>1, <2>1, <2>2 DEF ReviewIInv, Shapes, Heard
<1>5. RecordedIsBack'
  BY <1>1, <1>3 DEF ReviewIInv, Shapes, RecordedIsBack
<1>6. \A n \in analysed \cup failed : Heard(n)' = Heard(n) /\ opinion'[n] = opinion[n]
  BY <1>3 DEF Heard
<1>7. AnalysedWasHeard' /\ NothingHeardIsLost'
  BY <1>1, <1>6 DEF ReviewIInv, AnalysedWasHeard, NothingHeardIsLost
<1>8. QED
  BY <1>1, <1>4, <1>5, <1>7 DEF ReviewIInv, Fates

\* A step that hears of nobody new.
LEMMA UnheardKeeps ==
    ASSUME ReviewIInv, Elsewhere, NEW m \in batch, stage[m] # "back",
           NEW s \in {"routing", "asking", "back"}, stage' = [stage EXCEPT ![m] = s],
           UNCHANGED <<opinion, memo>>
    PROVE  ReviewIInv'
  BY ReadingKeeps DEF ReviewIInv, Shapes, Heard

\* The step in which a specialist's opinion comes in, from the memo or not.
LEMMA HearingKeeps ==
    ASSUME ReviewIInv, Elsewhere, NEW m \in batch, NEW l, NEW said, Leaves(m, l),
           said \subseteq Constructs,
           opinion' = [opinion EXCEPT ![m] = With(@, l, said)],
           \A q \in DOMAIN memo' : memo'[q] \subseteq Constructs
    PROVE  ReviewIInv'
<1>1. m \in Modules /\ m \in DOMAIN opinion
  BY DEF ReviewIInv, Shapes
<1>2. opinion'[m] = With(opinion[m], l, said) /\ DOMAIN opinion' = Modules
  BY <1>1 DEF ReviewIInv, Shapes
<1>3. \A n \in Modules \ {m} : opinion'[n] = opinion[n]
  BY DEF ReviewIInv, Shapes
<1>4. \A k \in DOMAIN opinion'[m] : opinion'[m][k] \subseteq Constructs
  <2> SUFFICES ASSUME NEW k \in DOMAIN With(opinion[m], l, said)
               PROVE  With(opinion[m], l, said)[k] \subseteq Constructs
    BY <1>2
  <2>1. CASE k = l
    BY <2>1 DEF With
  <2>2. CASE k # l
    <3>1. k \in DOMAIN opinion[m] /\ With(opinion[m], l, said)[k] = opinion[m][k]
      BY <2>2 DEF With
    <3>2. QED
      BY <1>1, <3>1 DEF ReviewIInv, Shapes, Heard
  <2>3. QED
    BY <2>1, <2>2
<1>5. PICK s \in {"asking", "back"} : stage' = [stage EXCEPT ![m] = s]
  BY DEF Leaves
<1>6. stage[m] # "back" /\ s \in {"routing", "asking", "back"}
  BY DEF Leaves
<1>7. QED
  BY <1>2, <1>3, <1>4, <1>5, <1>6, ReadingKeeps

\* Whatever a specialist comes to, the invariant holds.
LEMMA SpecialistKeeps ==
    ASSUME ReviewIInv, NEW m \in batch, NEW l \in asked[m], Specialist(m, l)
    PROVE  ReviewIInv'
<1>1. CASE Recall(m, l)
  <2>1. /\ Elsewhere /\ Leaves(m, l) /\ <<m, l>> \in DOMAIN memo
        /\ opinion' = [opinion EXCEPT ![m] = With(@, l, memo[<<m, l>>])] /\ memo' = memo
    BY <1>1 DEF Recall
  <2>2. memo[<<m, l>>] \subseteq Constructs /\ \A q \in DOMAIN memo' : memo'[q] \subseteq Constructs
    BY <2>1 DEF ReviewIInv, Shapes
  <2>3. QED
    BY <2>1, <2>2, HearingKeeps
<1>2. ASSUME NEW said \in Drafts, NEW c \in Calls, Answer(m, l, said, c) PROVE ReviewIInv'
  <2>1. /\ Elsewhere /\ Leaves(m, l)
        /\ opinion' = [opinion EXCEPT ![m] = With(@, l, said)]
        /\ memo' = memo \/ memo' = With(memo, <<m, l>>, said)
        /\ said \subseteq Constructs
    BY <1>2 DEF Answer, Drafts
  <2>2. \A q \in DOMAIN memo' : memo'[q] \subseteq Constructs
    <3>1. CASE memo' = memo
      BY <3>1 DEF ReviewIInv, Shapes
    <3>2. CASE memo' = With(memo, <<m, l>>, said)
      BY <2>1, <3>2 DEF ReviewIInv, Shapes, With
    <3>3. QED
      BY <2>1, <3>1, <3>2
  <2>3. QED
    BY <2>1, <2>2, HearingKeeps
<1>3. ASSUME NEW c \in Calls, Fault(m, l, c) PROVE ReviewIInv'
  <2>1. Elsewhere /\ Leaves(m, l) /\ UNCHANGED <<opinion, memo>>
    BY <1>3 DEF Fault
  <2>2. PICK s \in {"asking", "back"} : stage' = [stage EXCEPT ![m] = s]
    BY <2>1 DEF Leaves
  <2>3. stage[m] # "back" /\ s \in {"routing", "asking", "back"}
    BY <2>1 DEF Leaves
  <2>4. QED
    BY <2>1, <2>2, <2>3, UnheardKeeps
<1>4. CASE Blocked(m, l)
  <2>1. Elsewhere /\ Leaves(m, l) /\ UNCHANGED <<opinion, memo>>
    BY <1>4 DEF Blocked
  <2>2. PICK s \in {"asking", "back"} : stage' = [stage EXCEPT ![m] = s]
    BY <2>1 DEF Leaves
  <2>3. stage[m] # "back" /\ s \in {"routing", "asking", "back"}
    BY <2>1 DEF Leaves
  <2>4. QED
    BY <2>1, <2>2, <2>3, UnheardKeeps
<1>5. QED
  BY <1>1, <1>2, <1>3, <1>4 DEF Specialist

\* Opening a module and routing it hear of nobody.
LEMMA OpenKeeps == ASSUME ReviewIInv, NEW m \in batch, Open(m) PROVE ReviewIInv'
<1>1. Elsewhere /\ stage[m] # "back" /\ UNCHANGED <<opinion, memo>>
  BY DEF Open
<1>2. PICK s \in {"routing", "asking", "back"} : stage' = [stage EXCEPT ![m] = s]
  BY DEF Open
<1>3. QED
  BY <1>1, <1>2, UnheardKeeps

\* So does triage, whoever it picks.
LEMMA RouteKeeps ==
    ASSUME ReviewIInv, NEW m \in batch, NEW picked, NEW c, Route(m, picked, c)
    PROVE  ReviewIInv'
<1>1. Elsewhere /\ stage[m] # "back" /\ UNCHANGED <<opinion, memo>>
  BY DEF Route
<1>2. PICK s \in {"routing", "asking", "back"} : stage' = [stage EXCEPT ![m] = s]
  BY DEF Route
<1>3. QED
  BY <1>1, <1>2, UnheardKeeps

\* Recording keeps the findings of just the module recorded, which is back.
LEMMA RecordKeeps == ASSUME ReviewIInv, NEW m \in batch, Record(m) PROVE ReviewIInv'
<1>1. /\ UNCHANGED <<stage, opinion, memo>>
      /\ drafts' = drafts \cup ({m} \X Reconcile(m))
      /\ batch' \subseteq batch /\ stage[m] = "back"
  BY DEF Record, reading, AllBack
<1>2. /\ m \in held /\ held' = held \ {m} /\ seen' = seen \cup {m}
      /\ \/ Heard(m) # {} /\ analysed' = analysed \cup {m} /\ failed' = failed
         \/ Heard(m) = {} /\ failed' = failed \cup {m} /\ analysed' = analysed
  BY DEF Record, RecordRead, RecordUnread, Charge
<1>3. m \in seen /\ m \in Modules /\ seen' = seen /\ m \notin analysed \cup failed
  BY <1>2 DEF ReviewIInv, Fates
<1>4. analysed' \cup failed' = (analysed \cup failed) \cup {m}
  BY <1>2
<1>5. Shapes'
  BY <1>1 DEF ReviewIInv, Shapes, Heard
<1>6. Fates'
  BY <1>2, <1>3 DEF ReviewIInv, Fates
<1>7. RecordedIsBack'
  BY <1>1, <1>4 DEF ReviewIInv, RecordedIsBack
<1>8. AnalysedWasHeard'
  BY <1>1, <1>2 DEF ReviewIInv, AnalysedWasHeard, Heard
<1>9. NothingHeardIsLost'
  <2>1. \A l \in Heard(m) : opinion[m][l] \subseteq Constructs
    BY <1>3 DEF ReviewIInv, Shapes
  <2>2. {m} \X Reconcile(m) =
          {f \in {m} \X Constructs : \E l \in Heard(f[1]) : f[2] \in opinion[f[1]][l]}
    BY <2>1 DEF Reconcile
  <2>3. drafts = {f \in (analysed \cup failed) \X Constructs :
                    \E l \in Heard(f[1]) : f[2] \in opinion[f[1]][l]}
    BY DEF ReviewIInv, NothingHeardIsLost
  <2>4. drafts' = {f \in ((analysed \cup failed) \cup {m}) \X Constructs :
                    \E l \in Heard(f[1]) : f[2] \in opinion[f[1]][l]}
    BY <1>1, <2>2, <2>3
  <2>5. QED
    BY <1>1, <1>4, <2>4 DEF NothingHeardIsLost, Heard
<1>10. QED
  BY <1>5, <1>6, <1>7, <1>8, <1>9 DEF ReviewIInv

-----------------------------------------------------------------------------
\* A review begins with nothing recorded and nothing heard.
LEMMA ReviewInitIInv == ReviewInit => ReviewIInv
<1> SUFFICES ASSUME ReviewInit PROVE ReviewIInv
  OBVIOUS
<1>1. /\ seen = {} /\ held = {} /\ analysed = {} /\ failed = {}
      /\ batch = {} /\ drafts = {} /\ memo \in Answers
      /\ stage = [m \in Modules |-> "unread"] /\ opinion = [m \in Modules |-> <<>>]
  BY ReviewerAssumption DEF ReviewInit, Init
<1>2. \A q \in DOMAIN memo : memo[q] \subseteq Constructs
  BY <1>1 DEF Answers, Drafts
<1>3. \A m \in Modules : Heard(m) = {}
  BY <1>1 DEF Heard
<1>4. Shapes
  BY <1>1, <1>2, <1>3 DEF Shapes
<1>5. QED
  BY <1>1, <1>4 DEF ReviewIInv, Fates, RecordedIsBack, AnalysedWasHeard, NothingHeardIsLost

\* Every step, of the scheduler, of a coroutine or of the loop, keeps it.
LEMMA ReviewNextIInv == ReviewIInv /\ [Work \/ Cancel]_all => ReviewIInv'
<1> SUFFICES ASSUME ReviewIInv, [Work \/ Cancel]_all PROVE ReviewIInv'
  OBVIOUS
<1>1. CASE Choose
  BY <1>1, ChooseKeeps
<1>2. CASE SendOut
  BY <1>2, SendOutKeeps
<1>3. CASE Learn \/ Cancel \/ UNCHANGED all
  <2>1. UNCHANGED <<analysed, failed, held, seen, batch, stage, opinion, memo, drafts>>
    BY <1>3 DEF Learn, Cancel, all, vars, reviewing, reading
  <2>2. QED
    BY <2>1 DEF ReviewIInv, Shapes, Fates, RecordedIsBack, AnalysedWasHeard,
                NothingHeardIsLost, Heard
<1>4. ASSUME NEW m \in batch, Open(m) PROVE ReviewIInv'
  BY <1>4, OpenKeeps
<1>5. ASSUME NEW m \in batch, Record(m) PROVE ReviewIInv'
  BY <1>5, RecordKeeps
<1>6. ASSUME NEW m \in batch, NEW picked \in SUBSET Layers, NEW c \in Calls,
             Route(m, picked, c)
      PROVE  ReviewIInv'
  BY <1>6, RouteKeeps
<1>7. ASSUME NEW m \in batch, NEW l \in asked[m], Specialist(m, l) PROVE ReviewIInv'
  BY <1>7, SpecialistKeeps
<1>8. QED
  BY <1>1, <1>2, <1>3, <1>4, <1>5, <1>6, <1>7 DEF Work

\* The invariant holds of every review.
THEOREM ReviewInvariance == ReviewSpec => []ReviewIInv
<1>1. ReviewInit => ReviewIInv
  BY ReviewInitIInv
<1>2. ReviewIInv /\ [Work \/ Cancel]_all => ReviewIInv'
  BY ReviewNextIInv
<1>3. QED
  BY <1>1, <1>2, PTL DEF ReviewSpec

\* A module counts as analysed only if somebody's opinion of it was heard, and
\* as failed only if nobody's was (gather_survivors, gather_each, record).
THEOREM AnalysedAlwaysHeard == ReviewSpec => []AnalysedWasHeard
  BY ReviewInvariance, PTL DEF ReviewIInv

\* The report's drafts are exactly what was heard of the recorded modules,
\* whatever failed beside them (the loop of review).
THEOREM HeardIsNeverLost == ReviewSpec => []NothingHeardIsLost
  BY ReviewInvariance, PTL DEF ReviewIInv

-----------------------------------------------------------------------------
(* The bill, and what the scheduler is told of it *)

\* What the dearest call costs, or nothing if there is none.
Dearest == CHOOSE n \in Nat :
              /\ \A c \in Calls : c <= n
              /\ \A m \in Modules : (1 + Cardinality(Allowed[m])) * n <= MaxCost

\* The calls a module of the batch may have made: one to route it and one for
\* each specialist that is done with it.
Made(m) == 1 + Cardinality(Allowed[m]) - Cardinality(asked[m])

\* So the most it may have added to the bill.
Outlay == [m \in Modules |-> IF stage[m] \in {"asking", "back"} THEN Made(m) * Dearest ELSE 0]

BillTyped ==
    /\ bill \in [model : Nat, router : Nat] /\ before \in Nat
    /\ asked \in [Modules -> SUBSET Layers]
    /\ \A m \in Modules : asked[m] \subseteq Allowed[m]

\* A batch is out until its last module is recorded, and never too large.
BatchIsOut ==
    /\ phase = "reading" => held # {}
    /\ batch # {} => /\ phase = "reading" /\ held \subseteq batch /\ batch \subseteq seen
                     /\ Cardinality(batch) <= Concurrency

\* What has been recorded costs what was billed: all of it between batches;
\* while a batch is out, what was billed before it.  The rest is an even share
\* for each module of the batch, and no module's share is more than it may
\* have added.  Nothing is recorded while anything is still being read.
BillKept ==
    /\ batch = {} => Sum(cost, seen \ held) = Spent
    /\ batch # {} =>
          /\ Sum(cost, seen \ batch) = before
          /\ before <= Spent
          /\ \A k \in 1..Concurrency : (Spent - before) % k = 0
          /\ Spent - before <= Sum(Outlay, batch)
          /\ held # batch => AllBack
          /\ \A m \in batch \ held : cost[m] = Share

\* The invariant of the scheduler and of the review that drives it.
FullIInv == IInv /\ ReviewIInv /\ BillTyped /\ BatchIsOut /\ BillKept

-----------------------------------------------------------------------------
\* A quotient of what is at most k times a bound is within the bound.
LEMMA QuotientBound ==
    ASSUME NEW a \in Nat, NEW k \in Nat \ {0}, NEW M \in Nat, a <= k * M
    PROVE  a \div k \in 0..M
<1>1. PICK q \in Nat : q = a \div k
  BY QuotientNat
<1>2. k * q <= a
  BY <1>1
<1>3. SUFFICES ASSUME q >= M + 1 PROVE FALSE
  BY <1>1
<1>4. k * q >= k * (M + 1)
  BY <1>3
<1>5. k * (M + 1) = k * M + k
  OBVIOUS
<1>. QED  BY <1>2, <1>4, <1>5

\* What divides evenly is the divisor times the quotient.
LEMMA EvenQuotient ==
    ASSUME NEW a \in Nat, NEW k \in Nat \ {0}, a % k = 0
    PROVE  a \div k \in Nat /\ (a \div k) * k = a
PROOF BY SMT

\* The sum of two multiples is a multiple.
LEMMA MultiplesAdd ==
    ASSUME NEW a \in Nat, NEW b \in Nat, NEW k \in Nat \ {0}, a % k = 0, b % k = 0
    PROVE  (a + b) % k = 0
<1>1. PICK p \in Nat : p = a \div k
  BY EvenQuotient
<1>2. PICK q \in Nat : q = b \div k
  BY EvenQuotient
<1>3. p * k = a /\ q * k = b
  BY <1>1, <1>2, EvenQuotient
<1>4. (p + q) * k = a + b
  BY <1>3
<1>5. ((p + q) * k) % k = 0
  OBVIOUS
<1>. QED  BY <1>4, <1>5

\* There is a dearest call, and MaxCost pays for routing a module and putting
\* it to all its specialists at that price.
LEMMA DearestBounds ==
    ASSUME NEW m \in Modules
    PROVE  /\ Dearest \in Nat
           /\ \A c \in Calls : c <= Dearest
           /\ \A n \in Modules : (1 + Cardinality(Allowed[n])) * Dearest <= MaxCost
<1>. USE SchedulerAssumption, ReviewerAssumption
<1>. DEFINE U == {n \in Nat : \A c \in Calls : c <= n}
            Pays(n) == \A o \in Modules : (1 + Cardinality(Allowed[o])) * n <= MaxCost
<1>1. \A o \in Modules : Cardinality(Allowed[o]) \in Nat
  <2>. SUFFICES ASSUME NEW o \in Modules PROVE Cardinality(Allowed[o]) \in Nat
    OBVIOUS
  <2>1. Allowed[o] \in SUBSET Layers
    OBVIOUS
  <2>. QED  BY <2>1, FS_Subset, FS_CardinalityType
<1>2. MaxCost \in U
  <2>. SUFFICES ASSUME NEW c \in Calls PROVE c <= MaxCost
    OBVIOUS
  <2>. DEFINE a == Cardinality(Allowed[m])
  <2>1. (1 + a) * c <= MaxCost /\ a \in Nat /\ c \in Nat
    BY <1>1
  <2>. HIDE DEF a
  <2>2. 1 * c <= (1 + a) * c
    BY <2>1, ProductGrows
  <2>3. (1 + a) * c \in Nat
    BY <2>1
  <2>. QED  BY <2>1, <2>2, <2>3
<1>3. PICK n \in U : \A o \in U : n <= o
  <2>1. U \subseteq Nat /\ U # {}
    BY <1>2
  <2>. HIDE DEF U
  <2>. QED  BY <2>1, LeastMember
<1>4. n \in Nat /\ \A c \in Calls : c <= n
  BY <1>3
<1>5. Pays(n)
  <2>1. CASE n \in Calls
    BY <2>1
  <2>2. CASE n \notin Calls
    <3>1. n = 0
      <4>1. SUFFICES ASSUME n # 0 PROVE FALSE
        OBVIOUS
      <4>2. n - 1 \in U
        BY <1>4, <2>2, <4>1
      <4>. HIDE DEF U
      <4>. QED  BY <1>3, <1>4, <4>2
    <3>2. ASSUME NEW o \in Modules PROVE (1 + Cardinality(Allowed[o])) * n <= MaxCost
      <4>1. (1 + Cardinality(Allowed[o])) * 0 = 0
        BY <1>1
      <4>. QED  BY <3>1, <4>1
    <3>. QED  BY <3>2
  <2>. QED  BY <2>1, <2>2
<1>6. \E k \in Nat : (\A c \in Calls : c <= k) /\ Pays(k)
  BY <1>4, <1>5
<1>. QED  BY <1>6 DEF Dearest

\* The types of what a module has added to the bill.
LEMMA OutlayBounds ==
    ASSUME BillTyped, NEW m \in Modules
    PROVE  /\ IsFiniteSet(asked[m]) /\ Cardinality(asked[m]) \in Nat
           /\ Cardinality(Allowed[m]) \in Nat /\ Cardinality(asked[m]) <= Cardinality(Allowed[m])
           /\ Made(m) \in Nat /\ Made(m) >= 1 /\ Made(m) <= 1 + Cardinality(Allowed[m])
           /\ Outlay[m] \in 0..MaxCost
<1>. USE SchedulerAssumption, ReviewerAssumption
<1>1. /\ IsFiniteSet(Allowed[m]) /\ Cardinality(Allowed[m]) \in Nat
      /\ IsFiniteSet(asked[m]) /\ Cardinality(asked[m]) \in Nat
      /\ Cardinality(asked[m]) <= Cardinality(Allowed[m])
  <2>1. Allowed[m] \in SUBSET Layers /\ asked[m] \in SUBSET Allowed[m]
    BY DEF BillTyped
  <2>2. IsFiniteSet(Allowed[m])
    BY <2>1, FS_Subset
  <2>. QED  BY <2>1, <2>2, FS_Subset, FS_CardinalityType
<1>2. Made(m) \in Nat /\ Made(m) >= 1 /\ Made(m) <= 1 + Cardinality(Allowed[m])
  BY <1>1 DEF Made
<1>3. Made(m) * Dearest \in 0..MaxCost
  <2>. DEFINE a == Made(m)
              b == 1 + Cardinality(Allowed[m])
  <2>1. a \in Nat /\ b \in Nat /\ a <= b /\ Dearest \in Nat /\ b * Dearest <= MaxCost
    BY <1>1, <1>2, DearestBounds
  <2>. HIDE DEF a, b
  <2>2. a * Dearest <= b * Dearest /\ a * Dearest \in Nat
    BY <2>1, ProductGrows
  <2>3. b * Dearest \in Nat
    BY <2>1
  <2>4. a * Dearest \in 0..MaxCost
    BY <2>1, <2>2, <2>3
  <2>. QED  BY <2>4 DEF a
<1>4. Outlay[m] \in 0..MaxCost
  BY <1>3 DEF Outlay
<1>. QED  BY <1>1, <1>2, <1>4

\* The same after a step.
LEMMA OutlayTypedNext == BillTyped' => (\A m \in Modules : Outlay[m] \in 0..MaxCost)'
<1>1. BillTyped => \A m \in Modules : Outlay[m] \in 0..MaxCost
  BY OutlayBounds
<1>. QED  BY <1>1, PTL

\* While a batch is out, a module's even share is a cost the scheduler allows,
\* and the shares add up to what the batch cost.
LEMMA ShareFits ==
    ASSUME FullIInv, batch # {}
    PROVE  /\ IsFiniteSet(batch) /\ Cardinality(batch) \in 1..Concurrency
           /\ Share \in 0..MaxCost
           /\ Share * Cardinality(batch) = Spent - before
<1>. USE SchedulerAssumption
<1>1. batch \subseteq Modules /\ IsFiniteSet(batch)
  BY FS_Subset DEF FullIInv, ReviewIInv, Shapes
<1>2. Cardinality(batch) \in 1..Concurrency
  BY <1>1, FS_CardinalityType, FS_EmptySet DEF FullIInv, BatchIsOut
<1>. DEFINE a == Spent - before
            k == Cardinality(batch)
<1>3. a \in Nat /\ k \in Nat \ {0} /\ a % k = 0
  BY <1>2 DEF FullIInv, BillKept, BillTyped, Spent
<1>4. a <= k * MaxCost
  <2>. DEFINE cap == [m \in batch |-> MaxCost]
  <2>1. \A m \in batch : Outlay[m] \in Int /\ cap[m] \in Int /\ Outlay[m] <= cap[m]
    BY <1>1, OutlayBounds DEF FullIInv
  <2>2. Sum(cap, batch) = MaxCost * Cardinality(batch)
    <3>1. MaxCost \in Int /\ \A m \in batch : cap[m] = MaxCost
      OBVIOUS
    <3>. HIDE DEF cap
    <3>. QED  BY <1>1, <3>1, SumConstant
  <2>. HIDE DEF cap
  <2>3. Sum(Outlay, batch) <= Sum(cap, batch) /\ Sum(Outlay, batch) \in Int
    BY <1>1, <2>1, SumLess, SumType
  <2>4. a <= Sum(Outlay, batch)
    BY DEF FullIInv, BillKept
  <2>5. a <= MaxCost * k
    <3>1. Sum(cap, batch) \in Int
      BY <1>1, <2>1, SumType
    <3>2. a \in Int
      BY <1>3
    <3>. HIDE DEF a
    <3>. QED  BY <2>2, <2>3, <2>4, <3>1, <3>2
  <2>6. MaxCost * k = k * MaxCost
    BY <1>3
  <2>. QED  BY <2>5, <2>6
<1>. HIDE DEF a, k
<1>5. a \div k \in 0..MaxCost /\ (a \div k) * k = a
  BY <1>3, <1>4, QuotientBound, EvenQuotient
<1>. QED  BY <1>1, <1>2, <1>5 DEF a, k, Share

-----------------------------------------------------------------------------
(* A review is a caller of the scheduler *)

\* A module is recorded at a cost, and with a number of findings, that the
\* scheduler's constants allow.
LEMMA RecordRefines ==
    ASSUME FullIInv, NEW m \in batch, Record(m)
    PROVE  /\ Share \in Costs /\ m \in Modules
           /\ \/ RecordUnread(m, Share)
              \/ \E found \in Findings : RecordRead(m, Share, found)
<1>1. m \in Modules
  BY DEF FullIInv, ReviewIInv, Shapes
<1>2. Share \in Costs
  BY ShareFits, ReviewerAssumption
<1>3. Cardinality(Reconcile(m)) \in Findings
  <2>1. Reconcile(m) \in SUBSET Constructs
    BY <1>1 DEF Reconcile, FullIInv, ReviewIInv, Shapes
  <2>2. Cardinality(Reconcile(m)) \in 0..Cardinality(Constructs)
    BY <2>1, ReviewerAssumption, FS_Subset, FS_CardinalityType
  <2>. QED  BY <2>2, ReviewerAssumption
<1>4. RecordUnread(m, Share) \/ RecordRead(m, Share, Cardinality(Reconcile(m)))
  BY DEF Record
<1>. QED  BY <1>1, <1>2, <1>3, <1>4

\* Every step of a review is a step of the scheduler, or leaves it alone.
LEMMA ReviewStepRefines ==
    ASSUME FullIInv, [Work \/ Cancel]_all
    PROVE  [Next]_vars
<1>1. CASE Choose
  BY <1>1 DEF Choose, Next
<1>2. ASSUME NEW m \in batch, Record(m) PROVE [Next]_vars
  BY <1>2, RecordRefines DEF Next
<1>3. CASE SendOut \/ Learn \/ Cancel \/ UNCHANGED all
  BY <1>3 DEF SendOut, Learn, Cancel, all
<1>4. ASSUME NEW m \in batch,
             \/ Open(m)
             \/ \E picked \in SUBSET Layers, c \in Calls : Route(m, picked, c)
             \/ \E l \in asked[m] : Specialist(m, l)
      PROVE  UNCHANGED vars
  BY <1>4 DEF Open, Route, Specialist, Recall, Answer, Fault, Blocked, Elsewhere
<1>. QED  BY <1>1, <1>2, <1>3, <1>4 DEF Work

-----------------------------------------------------------------------------
(* Every step keeps the bill *)

\* The scheduler chooses only between batches, and issues only what it has not
\* issued before.
LEMMA ChooseKeepsBill ==
    ASSUME FullIInv, Choose
    PROVE  BillTyped' /\ BatchIsOut' /\ BillKept'
<1>1. UNCHANGED <<batch, before, stage, asked, bill>>
  BY DEF Choose, reviewing, reading
<1>2. Ask \/ Exhaust \/ \E m \in Modules : Issue(m)
  BY DEF Choose
<1>3. phase # "reading" /\ cost' = cost
  BY <1>2 DEF Ask, Exhaust, Issue
<1>4. batch = {} /\ Sum(cost, seen \ held) = Spent
  BY <1>3 DEF FullIInv, BatchIsOut, BillKept
<1>5. seen' \ held' = seen \ held
  <2>1. CASE Ask \/ Exhaust
    BY <2>1 DEF Ask, Exhaust
  <2>2. ASSUME NEW m \in Modules, Issue(m) PROVE seen' \ held' = seen \ held
    BY <2>2 DEF Issue, Best, Affordable, Candidates
  <2>. QED  BY <1>2, <2>1, <2>2
<1>6. BillTyped'
  BY <1>1 DEF FullIInv, BillTyped
<1>7. BatchIsOut'
  <2>1. CASE Ask
    BY <1>1, <1>4, <2>1 DEF Ask, BatchIsOut
  <2>2. CASE Exhaust
    BY <1>1, <1>4, <2>2 DEF Exhaust, BatchIsOut
  <2>3. ASSUME NEW m \in Modules, Issue(m) PROVE BatchIsOut'
    BY <1>1, <1>4, <2>3 DEF Issue, BatchIsOut
  <2>. QED  BY <1>2, <2>1, <2>2, <2>3
<1>8. BillKept'
  BY <1>1, <1>3, <1>4, <1>5 DEF BillKept, Spent
<1>. QED  BY <1>6, <1>7, <1>8

\* A batch that is sent out has cost nothing yet.
LEMMA SendOutKeepsBill ==
    ASSUME FullIInv, SendOut
    PROVE  BillTyped' /\ BatchIsOut' /\ BillKept'
<1>. USE SchedulerAssumption
<1>1. /\ phase = "reading" /\ batch = {} /\ batch' = held /\ before' = Spent
      /\ stage' = [m \in Modules |-> IF m \in held THEN "sent" ELSE stage[m]]
      /\ UNCHANGED <<phase, held, seen, cost, asked, bill>>
  BY DEF SendOut, vars
<1>2. held # {} /\ held \subseteq Modules /\ held \subseteq seen /\ IsFiniteSet(held)
  BY <1>1, KeptFinite DEF FullIInv, BatchIsOut, IInv, TypeOK, OneFate
<1>3. Cardinality(held) <= Concurrency
  <2>1. /\ Cardinality(held) \in Nat /\ back \in Nat
        /\ back + Cardinality(held) <= Width
    BY <1>1, <1>2, FS_CardinalityType DEF FullIInv, IInv, BatchFits, TypeOK
  <2>2. Width \in Nat /\ Width <= Concurrency
    BY DEF Width, Least
  <2>. QED  BY <2>1, <2>2
<1>4. Spent \in Nat
  BY DEF FullIInv, BillTyped, Spent
<1>5. BillTyped'
  BY <1>1, <1>4 DEF FullIInv, BillTyped
<1>6. BatchIsOut'
  BY <1>1, <1>2, <1>3 DEF BatchIsOut
<1>7. BillKept'
  <2>1. Spent' = Spent /\ Spent' - before' = 0
    BY <1>1, <1>4 DEF Spent
  <2>2. Sum(cost', seen' \ batch') = before'
    BY <1>1 DEF FullIInv, BillKept
  <2>3. \A k \in 1..Concurrency : (Spent' - before') % k = 0
    BY <2>1
  <2>4. Sum(Outlay', batch') = 0
    <3>1. \A m \in held : Outlay'[m] = 0
      BY <1>1, <1>2 DEF Outlay
    <3>2. PICK f : f = Outlay'
      OBVIOUS
    <3>3. \A m \in held : f[m] = 0
      BY <3>1, <3>2
    <3>4. Sum(f, held) = 0
      BY <1>2, <3>3, SumZero
    <3>. QED  BY <1>1, <3>2, <3>4
  <2>6. Spent' - before' <= Sum(Outlay', batch')
    BY <2>1, <2>4
  <2>7. before' <= Spent'
    BY <1>1, <1>4, <2>1
  <2>. QED  BY <1>1, <1>2, <2>2, <2>3, <2>6, <2>7 DEF BillKept
<1>. QED  BY <1>5, <1>6, <1>7

\* A coroutine that is not back may add to the bill what its module still has
\* to its outlay.
LEMMA CoroutineKeepsBill ==
    ASSUME FullIInv, BillTyped', NEW m \in batch, Elsewhere, stage[m] # "back",
           NEW c \in Nat, \A k \in 1..Concurrency : c % k = 0,
           Spent' = Spent + c, Outlay'[m] >= Outlay[m] + c,
           \A n \in Modules \ {m} : stage'[n] = stage[n] /\ asked'[n] = asked[n]
    PROVE  BatchIsOut' /\ BillKept'
<1>. USE SchedulerAssumption
<1>1. UNCHANGED <<phase, held, seen, cost, batch, before>>
  BY DEF Elsewhere, vars
<1>2. held = batch /\ batch \subseteq Modules /\ m \in Modules /\ IsFiniteSet(batch)
  <2>1. ~AllBack
    BY DEF AllBack
  <2>. QED  BY <2>1, FS_Subset DEF FullIInv, BillKept, ReviewIInv, Shapes
<1>3. BatchIsOut'
  BY <1>1 DEF FullIInv, BatchIsOut
<1>4. Spent \in Nat /\ before \in Nat /\ before <= Spent
  BY DEF FullIInv, BillTyped, BillKept, Spent
<1>5. Spent' - before' = (Spent - before) + c /\ before' <= Spent' /\ Spent - before \in Nat
  BY <1>1, <1>4
<1>6. \A k \in 1..Concurrency : (Spent' - before') % k = 0
  BY <1>5, MultiplesAdd DEF FullIInv, BillKept
<1>7. Spent' - before' <= Sum(Outlay', batch)
  <2>0. PICK f : f = Outlay'
    OBVIOUS
  <2>1. \A n \in batch : Outlay[n] \in Int
    BY <1>2, OutlayBounds DEF FullIInv
  <2>2. \A n \in batch : f[n] \in Int
    <3>1. \A n \in Modules : Outlay'[n] \in 0..MaxCost
      BY OutlayTypedNext
    <3>2. \A n \in Modules : f[n] \in 0..MaxCost
      BY <2>0, <3>1
    <3>3. \A i \in 0..MaxCost : i \in Int
      OBVIOUS
    <3>. QED  BY ONLY <1>2, <3>2, <3>3
  <2>3. /\ \A n \in batch \ {m} : f[n] = Outlay[n]
        /\ f[m] >= Outlay[m] + c
    BY <1>2, <2>0 DEF Outlay, Made
  <2>4. Spent - before <= Sum(Outlay, batch)
    BY DEF FullIInv, BillKept
  <2>5. Sum(f, batch) = Sum(Outlay, batch) - Outlay[m] + f[m]
    <3>1. PICK g : g = Outlay
      OBVIOUS
    <3>2. /\ \A x \in batch : g[x] \in Int /\ f[x] \in Int
          /\ \A x \in batch \ {m} : f[x] = g[x]
      BY <2>1, <2>2, <2>3, <3>1
    <3>3. IsFiniteSet(batch)
      BY <1>2
    <3>4. Sum(f, batch) = Sum(g, batch) - g[m] + f[m]
      BY ONLY <3>2, <3>3, m \in batch, SumChange
    <3>. QED  BY <3>1, <3>4
  <2>6. Sum(Outlay, batch) \in Int
    BY <1>2, <2>1, SumType
  <2>7. Spent' - before' <= Sum(f, batch)
    BY <1>5, <2>1, <2>2, <2>3, <2>4, <2>5, <2>6
  <2>. QED  BY <2>0, <2>7
<1>8. BillKept'
  BY <1>1, <1>2, <1>5, <1>6, <1>7 DEF FullIInv, BillKept
<1>. QED  BY <1>3, <1>8

\* Opening a module bills nothing.
LEMMA OpenKeepsBill ==
    ASSUME FullIInv, NEW m \in batch, Open(m)
    PROVE  BillTyped' /\ BatchIsOut' /\ BillKept'
<1>. USE SchedulerAssumption, ReviewerAssumption
<1>1. m \in Modules /\ stage \in [Modules -> {"unread", "sent", "routing", "asking", "back"}]
  BY DEF FullIInv, ReviewIInv, Shapes
<1>2. /\ Elsewhere /\ stage[m] = "sent" /\ bill' = bill /\ before' = before
      /\ asked' = asked \/ asked' = [asked EXCEPT ![m] = Allowed[m]]
  BY DEF Open, Elsewhere
<1>3. \A n \in Modules \ {m} : stage'[n] = stage[n] /\ asked'[n] = asked[n]
  BY <1>1 DEF Open, FullIInv, BillTyped
<1>4. BillTyped'
  <2>1. CASE asked' = asked
    BY <1>2, <2>1 DEF FullIInv, BillTyped
  <2>2. CASE asked' = [asked EXCEPT ![m] = Allowed[m]]
    BY <1>1, <1>2, <2>2 DEF FullIInv, BillTyped
  <2>. QED  BY <1>2, <2>1, <2>2
<1>5. Outlay[m] = 0
  BY <1>1, <1>2 DEF Outlay
<1>6. Outlay'[m] >= Outlay[m] + 0
  BY <1>1, <1>4, <1>5, OutlayTypedNext
<1>7. Spent' = Spent + 0
  BY <1>2 DEF Spent, FullIInv, BillTyped
<1>8. stage[m] # "back" /\ \A k \in 1..Concurrency : 0 % k = 0
  BY <1>2
<1>9. BatchIsOut' /\ BillKept'
  BY ONLY FullIInv, <1>2, <1>3, <1>4, <1>6, <1>7, <1>8, m \in batch, CoroutineKeepsBill
<1>. QED  BY <1>4, <1>9

\* Routing a module is one call, whoever it picks.
LEMMA RouteKeepsBill ==
    ASSUME FullIInv, NEW m \in batch, NEW picked \in SUBSET Layers, NEW c \in Calls,
           Route(m, picked, c)
    PROVE  BillTyped' /\ BatchIsOut' /\ BillKept'
<1>. USE SchedulerAssumption, ReviewerAssumption
<1>1. m \in Modules /\ stage \in [Modules -> {"unread", "sent", "routing", "asking", "back"}]
  BY DEF FullIInv, ReviewIInv, Shapes
<1>2. /\ Elsewhere /\ stage[m] = "routing" /\ before' = before
      /\ bill' = [bill EXCEPT !.router = @ + c]
      /\ asked' = [asked EXCEPT ![m] = Choice(m, picked)]
      /\ stage' = [stage EXCEPT ![m] = IF Choice(m, picked) = {} THEN "back" ELSE "asking"]
  BY DEF Route, Elsewhere
<1>3. c \in Nat /\ \A k \in 1..Concurrency : c % k = 0
  OBVIOUS
<1>4. bill' \in [model : Nat, router : Nat] /\ Spent' = Spent + c
  <2>1. bill \in [model : Nat, router : Nat]
    BY DEF FullIInv, BillTyped
  <2>2. /\ bill.model \in Nat /\ bill.router \in Nat
        /\ bill'.model = bill.model /\ bill'.router = bill.router + c
        /\ bill' \in [model : Nat, router : Nat]
    BY ONLY <1>2, <1>3, <2>1
  <2>. QED  BY ONLY <1>3, <2>2 DEF Spent
<1>5. Choice(m, picked) \subseteq Allowed[m] /\ Choice(m, picked) \in SUBSET Layers
  BY <1>1 DEF Choice
<1>6. BillTyped'
  BY <1>1, <1>2, <1>4, <1>5 DEF FullIInv, BillTyped
<1>7. \A n \in Modules \ {m} : stage'[n] = stage[n] /\ asked'[n] = asked[n]
  BY <1>1, <1>2 DEF FullIInv, BillTyped
<1>8. Outlay'[m] >= Outlay[m] + c
  <2>1. Outlay[m] = 0
    BY <1>1, <1>2 DEF Outlay
  <2>2. Outlay'[m] = Made(m)' * Dearest
    BY <1>1, <1>2 DEF Outlay
  <2>3. PICK a : a = Made(m)'
    OBVIOUS
  <2>4. a \in Nat /\ 1 <= a
    <3>1. /\ IsFiniteSet(Allowed[m]) /\ Cardinality(Choice(m, picked)) \in Nat
          /\ Cardinality(Choice(m, picked)) <= Cardinality(Allowed[m])
          /\ Cardinality(Allowed[m]) \in Nat
      <4>1. Allowed[m] \in SUBSET Layers
        BY <1>1
      <4>2. IsFiniteSet(Allowed[m])
        BY <4>1, FS_Subset
      <4>. QED  BY <1>5, <4>2, FS_Subset, FS_CardinalityType
    <3>2. a = 1 + Cardinality(Allowed[m]) - Cardinality(Choice(m, picked))
      BY <1>1, <1>2, <2>3 DEF Made, FullIInv, BillTyped
    <3>. QED  BY <3>1, <3>2
  <2>5. Dearest \in Nat /\ c <= Dearest
    BY <1>1, DearestBounds
  <2>6. 1 * Dearest <= a * Dearest /\ a * Dearest \in Nat
    BY <2>4, <2>5, ProductGrows
  <2>. QED  BY <1>3, <2>1, <2>2, <2>3, <2>5, <2>6
<1>9. stage[m] # "back"
  BY <1>2
<1>10. BatchIsOut' /\ BillKept'
  BY ONLY FullIInv, <1>2, <1>3, <1>4, <1>6, <1>7, <1>8, <1>9, m \in batch, CoroutineKeepsBill
<1>. QED  BY <1>6, <1>10

\* Each specialist that is done with a module has made at most one call.
LEMMA LeavesKeepsBill ==
    ASSUME FullIInv, NEW m \in batch, NEW l, Elsewhere, Leaves(m, l),
           NEW c \in Calls \cup {0}, bill' = [bill EXCEPT !.model = @ + c]
    PROVE  BillTyped' /\ BatchIsOut' /\ BillKept'
<1>. USE SchedulerAssumption, ReviewerAssumption
<1>1. m \in Modules /\ stage \in [Modules -> {"unread", "sent", "routing", "asking", "back"}]
  BY DEF FullIInv, ReviewIInv, Shapes
<1>2. /\ stage[m] = "asking" /\ l \in asked[m] /\ before' = before
      /\ asked' = [asked EXCEPT ![m] = @ \ {l}]
      /\ stage' = [stage EXCEPT ![m] = IF asked[m] = {l} THEN "back" ELSE "asking"]
  BY DEF Leaves, Elsewhere
<1>3. c \in Nat /\ \A k \in 1..Concurrency : c % k = 0
  OBVIOUS
<1>4. bill' \in [model : Nat, router : Nat] /\ Spent' = Spent + c
  <2>1. bill \in [model : Nat, router : Nat]
    BY DEF FullIInv, BillTyped
  <2>2. /\ bill.model \in Nat /\ bill.router \in Nat
        /\ bill'.model = bill.model + c /\ bill'.router = bill.router
        /\ bill' \in [model : Nat, router : Nat]
    BY ONLY <1>3, <2>1, bill' = [bill EXCEPT !.model = @ + c]
  <2>. QED  BY ONLY <1>3, <2>2 DEF Spent
<1>5. BillTyped'
  BY <1>1, <1>2, <1>4 DEF FullIInv, BillTyped
<1>6. \A n \in Modules \ {m} : stage'[n] = stage[n] /\ asked'[n] = asked[n]
  BY <1>1, <1>2 DEF FullIInv, BillTyped
<1>7. Outlay'[m] >= Outlay[m] + c
  <2>1. Outlay[m] = Made(m) * Dearest /\ Outlay'[m] = Made(m)' * Dearest
    BY <1>1, <1>2 DEF Outlay
  <2>2. PICK a : a = Made(m)
    OBVIOUS
  <2>3. PICK b : b = Made(m)'
    OBVIOUS
  <2>4. a \in Nat /\ b = a + 1
    <3>1. IsFiniteSet(asked[m]) /\ Cardinality(asked[m]) \in Nat /\ a \in Nat
      BY <1>1, <2>2, OutlayBounds DEF FullIInv
    <3>2. Cardinality(asked[m] \ {l}) = Cardinality(asked[m]) - 1
      BY <1>2, <3>1, FS_RemoveElement
    <3>3. asked'[m] = asked[m] \ {l}
      BY <1>1, <1>2 DEF FullIInv, BillTyped
    <3>4. Cardinality(Allowed[m]) \in Nat
      BY <1>1, OutlayBounds DEF FullIInv
    <3>. QED  BY <2>2, <2>3, <3>1, <3>2, <3>3, <3>4 DEF Made
  <2>5. Dearest \in Nat /\ c <= Dearest
    BY <1>1, DearestBounds
  <2>6. (a + 1) * Dearest = a * Dearest + Dearest /\ a * Dearest \in Nat
    BY <2>4, <2>5, ProductStep
  <2>. QED  BY <1>3, <2>1, <2>2, <2>3, <2>4, <2>5, <2>6
<1>8. stage[m] # "back"
  BY <1>2
<1>9. BatchIsOut' /\ BillKept'
  BY ONLY FullIInv, Elsewhere, <1>3, <1>4, <1>5, <1>6, <1>7, <1>8, m \in batch, CoroutineKeepsBill
<1>. QED  BY <1>5, <1>9

\* Whatever a specialist comes to, the bill is kept.
LEMMA SpecialistKeepsBill ==
    ASSUME FullIInv, NEW m \in batch, NEW l \in asked[m], Specialist(m, l)
    PROVE  BillTyped' /\ BatchIsOut' /\ BillKept'
<1>1. CASE Recall(m, l) \/ Blocked(m, l)
  <2>1. Elsewhere /\ Leaves(m, l) /\ bill' = bill
    BY <1>1 DEF Recall, Blocked
  <2>2. bill' = [bill EXCEPT !.model = @ + 0]
    BY <2>1 DEF FullIInv, BillTyped
  <2>. QED  BY <2>1, <2>2, LeavesKeepsBill
<1>2. ASSUME NEW said \in Drafts, NEW c \in Calls, Answer(m, l, said, c)
      PROVE  BillTyped' /\ BatchIsOut' /\ BillKept'
  <2>1. Elsewhere /\ Leaves(m, l) /\ bill' = [bill EXCEPT !.model = @ + c]
    BY <1>2 DEF Answer
  <2>. QED  BY <2>1, LeavesKeepsBill
<1>3. ASSUME NEW c \in Calls, Fault(m, l, c) PROVE BillTyped' /\ BatchIsOut' /\ BillKept'
  <2>1. Elsewhere /\ Leaves(m, l) /\ bill' = [bill EXCEPT !.model = @ + c]
    BY <1>3 DEF Fault
  <2>. QED  BY <2>1, LeavesKeepsBill
<1>. QED  BY <1>1, <1>2, <1>3 DEF Specialist

\* Each module recorded adds its share to what has been recorded, and the last
\* of the batch brings that up to the bill.
LEMMA RecordKeepsBill ==
    ASSUME FullIInv, NEW m \in batch, Record(m)
    PROVE  BillTyped' /\ BatchIsOut' /\ BillKept'
<1>. USE SchedulerAssumption
<1>1. /\ AllBack /\ batch' = (IF held = {m} THEN {} ELSE batch)
      /\ UNCHANGED <<before, stage, asked, bill>>
  BY DEF Record, reading
<1>2. /\ phase = "reading" /\ m \in held /\ held' = held \ {m} /\ seen' = seen \cup {m}
      /\ cost' = [cost EXCEPT ![m] = Share]
      /\ phase' = IF held = {m} THEN "idle" ELSE "reading"
  BY DEF Record, RecordRead, RecordUnread, Charge
<1>3. /\ batch # {} /\ held \subseteq batch /\ batch \subseteq seen /\ seen' = seen
      /\ batch \subseteq Modules /\ seen \subseteq Modules /\ IsFiniteSet(seen)
      /\ cost \in [Modules -> 0..MaxCost]
  BY <1>2, KeptFinite DEF FullIInv, BatchIsOut, IInv, TypeOK
<1>4. /\ IsFiniteSet(batch) /\ Cardinality(batch) \in 1..Concurrency
      /\ Share \in 0..MaxCost /\ Share * Cardinality(batch) = Spent - before
  BY <1>3, ShareFits
<1>5. /\ Sum(cost, seen \ batch) = before /\ before <= Spent
      /\ \A k \in 1..Concurrency : (Spent - before) % k = 0
      /\ Spent - before <= Sum(Outlay, batch)
      /\ \A n \in batch \ held : cost[n] = Share
  BY <1>3 DEF FullIInv, BillKept
<1>6. BillTyped'
  BY <1>1 DEF FullIInv, BillTyped
<1>7. Spent' = Spent /\ Outlay' = Outlay
  BY <1>1 DEF Spent, Outlay, Made
<1>8. /\ cost' \in [Modules -> 0..MaxCost] /\ cost'[m] = Share
      /\ \A n \in Modules \ {m} : cost'[n] = cost[n]
  BY <1>2, <1>3, <1>4
<1>9. Sum(cost', seen \ batch) = before
  <2>1. \A n \in seen \ batch : cost'[n] = cost[n]
    BY <1>3, <1>8
  <2>2. IsFiniteSet(seen \ batch)
    BY <1>3, FS_Subset
  <2>. QED  BY <1>5, <2>1, <2>2, SumSame
<1>10. CASE held = {m}
  <2>1. /\ batch' = {} /\ held' = {} /\ phase' = "idle"
        /\ seen' \ held' = (seen \ batch) \cup batch
    BY <1>1, <1>2, <1>3, <1>10
  <2>2. \A n \in batch : cost'[n] = Share
    BY <1>3, <1>5, <1>8, <1>10
  <2>3. Sum(cost', batch) = Share * Cardinality(batch)
    <3>1. PICK c : c = Share
      OBVIOUS
    <3>2. PICK f : f = cost'
      OBVIOUS
    <3>3. c \in Int /\ \A n \in batch : f[n] = c
      BY <1>4, <2>2, <3>1, <3>2
    <3>4. Sum(f, batch) = c * Cardinality(batch)
      BY <1>4, <3>3, SumConstant
    <3>. QED  BY <3>1, <3>2, <3>4
  <2>4. Sum(cost', (seen \ batch) \cup batch) = Sum(cost', seen \ batch) + Sum(cost', batch)
    <3>1. IsFiniteSet(seen \ batch) /\ (seen \ batch) \cap batch = {}
      BY <1>3, FS_Subset
    <3>2. \A n \in (seen \ batch) \cup batch : cost'[n] \in Int
      BY <1>3, <1>8
    <3>. QED  BY <1>4, <3>1, <3>2, SumUnion
  <2>5. Spent \in Nat /\ before \in Nat
    BY DEF FullIInv, BillTyped, Spent
  <2>6. Sum(cost', seen' \ held') = Spent
    BY <1>4, <1>9, <2>1, <2>3, <2>4, <2>5
  <2>7. BillKept'
    BY <1>7, <2>1, <2>6 DEF BillKept
  <2>. QED  BY <1>6, <2>1, <2>7 DEF BatchIsOut
<1>11. CASE held # {m}
  <2>1. batch' = batch /\ phase' = "reading" /\ held' # {}
    BY <1>1, <1>2, <1>11
  <2>2. BatchIsOut'
    BY <1>2, <1>3, <2>1 DEF FullIInv, BatchIsOut
  <2>3. Share' = Share /\ AllBack'
    BY <1>1, <1>7, <2>1 DEF Share, AllBack
  <2>4. \A n \in batch \ held' : cost'[n] = Share
    BY <1>2, <1>3, <1>5, <1>8
  <2>5. BillKept'
    BY <1>1, <1>3, <1>5, <1>7, <1>9, <2>1, <2>3, <2>4 DEF BillKept
  <2>. QED  BY <1>6, <2>2, <2>5
<1>. QED  BY <1>10, <1>11

-----------------------------------------------------------------------------
\* A review begins with nothing billed and nothing charged.
LEMMA ReviewInitFull == ReviewInit => FullIInv
<1>. SUFFICES ASSUME ReviewInit PROVE FullIInv
  OBVIOUS
<1>1. IInv
  BY InitIInv DEF ReviewInit
<1>2. ReviewIInv
  BY ReviewInitIInv
<1>3. /\ phase = "idle" /\ seen = {} /\ held = {} /\ batch = {} /\ before = 0
      /\ bill = [model |-> 0, router |-> 0] /\ asked = [m \in Modules |-> {}]
  BY DEF ReviewInit, Init
<1>4. BillTyped
  BY <1>3 DEF BillTyped
<1>5. BatchIsOut
  BY <1>3 DEF BatchIsOut
<1>6. BillKept
  <2>1. Spent = 0 /\ seen \ held = {}
    BY <1>3 DEF Spent
  <2>. QED  BY <1>3, <2>1, SumEmpty DEF BillKept
<1>. QED  BY <1>1, <1>2, <1>4, <1>5, <1>6 DEF FullIInv

\* Every step, of the scheduler, of a coroutine or of the loop, keeps it.
LEMMA ReviewNextFull == FullIInv /\ [Work \/ Cancel]_all => FullIInv'
<1>. SUFFICES ASSUME FullIInv, [Work \/ Cancel]_all PROVE FullIInv'
  OBVIOUS
<1>1. IInv'
  BY ReviewStepRefines, NextIInv DEF FullIInv
<1>2. ReviewIInv'
  BY ReviewNextIInv DEF FullIInv
<1>3. BillTyped' /\ BatchIsOut' /\ BillKept'
  <2>1. CASE Choose
    BY <2>1, ChooseKeepsBill
  <2>2. CASE SendOut
    BY <2>2, SendOutKeepsBill
  <2>3. CASE Learn \/ Cancel \/ UNCHANGED all
    <3>1. UNCHANGED <<vars, batch, before, stage, asked, bill>>
      BY <2>3 DEF Learn, Cancel, all, reviewing, reading
    <3>2. UNCHANGED <<phase, seen, held, cost, Spent, Outlay, Share, AllBack>>
      BY <3>1 DEF vars, Spent, Outlay, Made, Share, AllBack
    <3>. QED  BY <3>1, <3>2 DEF FullIInv, BillTyped, BatchIsOut, BillKept
  <2>4. ASSUME NEW m \in batch, Open(m) PROVE BillTyped' /\ BatchIsOut' /\ BillKept'
    BY <2>4, OpenKeepsBill
  <2>5. ASSUME NEW m \in batch, Record(m) PROVE BillTyped' /\ BatchIsOut' /\ BillKept'
    BY <2>5, RecordKeepsBill
  <2>6. ASSUME NEW m \in batch, NEW picked \in SUBSET Layers, NEW c \in Calls,
               Route(m, picked, c)
        PROVE  BillTyped' /\ BatchIsOut' /\ BillKept'
    BY <2>6, RouteKeepsBill
  <2>7. ASSUME NEW m \in batch, NEW l \in asked[m], Specialist(m, l)
        PROVE  BillTyped' /\ BatchIsOut' /\ BillKept'
    BY <2>7, SpecialistKeepsBill
  <2>. QED  BY <2>1, <2>2, <2>3, <2>4, <2>5, <2>6, <2>7 DEF Work
<1>. QED  BY <1>1, <1>2, <1>3 DEF FullIInv

\* The invariant of the scheduler and its review, together.
THEOREM FullInvariance == ReviewSpec => []FullIInv
<1>1. ReviewInit => FullIInv
  BY ReviewInitFull
<1>2. FullIInv /\ [Work \/ Cancel]_all => FullIInv'
  BY ReviewNextFull
<1>. QED  BY <1>1, <1>2, PTL DEF ReviewSpec

\* Between batches the scheduler has charged exactly what the models have
\* billed, however the calls of a batch overlapped and whatever became of them
\* (_spent and the apportioning in the loop of review).
THEOREM LedgerIsAlwaysTheBill == ReviewSpec => []LedgerIsBill
<1>1. ASSUME FullIInv PROVE LedgerIsBill
  <2>. SUFFICES ASSUME held = {} PROVE spent = bill.model + bill.router
    BY DEF LedgerIsBill
  <2>1. batch = {}
    BY <1>1 DEF FullIInv, BatchIsOut
  <2>2. spent = Sum(cost, seen \ held) + Sum(estimate, held)
    BY <1>1 DEF FullIInv, IInv, SpentIsAccounted
  <2>3. Sum(cost, seen \ held) = Spent
    BY <1>1, <2>1 DEF FullIInv, BillKept
  <2>4. Sum(estimate, held) = 0
    BY SumEmpty
  <2>5. Spent \in Nat
    BY <1>1 DEF FullIInv, BillTyped, Spent
  <2>. QED  BY <2>2, <2>3, <2>4, <2>5 DEF Spent
<1>. QED  BY <1>1, FullInvariance, PTL

\* Refinement: to the scheduler a review is a caller that records each module
\* it was given once, at a cost and with a number of findings its constants
\* allow.
THEOREM ReviewImplementsScheduler == ReviewSpec => ImplementsScheduler
<1>1. ReviewInit => Init
  BY DEF ReviewInit
<1>2. FullIInv /\ [Work \/ Cancel]_all => [Next]_vars
  BY ReviewStepRefines
<1>. QED  BY <1>1, <1>2, FullInvariance, PTL DEF ReviewSpec, ImplementsScheduler

\* So what the scheduler promises holds of every review: no module has two
\* fates, and the overspend is at most one batch.
THEOREM ReviewOverspendBounded == ReviewSpec => [](OneFate /\ OneBatchOver)
<1>1. FullIInv => OneFate /\ OneBatchOver
  BY OverspendFollows DEF FullIInv, IInv
<1>. QED  BY <1>1, FullInvariance, PTL


-----------------------------------------------------------------------------
(* The types of the rest *)

\* The opinions, the memo and the two flags.
RestTyped ==
    /\ DOMAIN opinion = Modules
    /\ \A m \in Modules : Heard(m) \subseteq Allowed[m] /\ opinion[m] \in [Heard(m) -> Drafts]
    /\ memo \in Answers
    /\ research \in {"running", "done", "failed"}
    /\ cancelled \in BOOLEAN

\* One more entry of a function.
LEMMA WithType ==
    ASSUME NEW D, NEW R, NEW f \in [D -> R], NEW x, NEW v \in R
    PROVE  /\ DOMAIN With(f, x, v) = D \cup {x}
           /\ With(f, x, v) \in [D \cup {x} -> R]
PROOF BY DEF With

\* A specialist's opinion is of a layer its module is allowed, and is
\* remembered as the answer to that question.
LEMMA HearingTyped ==
    ASSUME RestTyped, NEW m \in Modules, NEW l \in Allowed[m], NEW said \in Drafts,
           opinion' = [opinion EXCEPT ![m] = With(@, l, said)],
           memo' \in {memo, With(memo, <<m, l>>, said)},
           UNCHANGED <<research, cancelled>>
    PROVE  RestTyped'
<1>1. /\ DOMAIN opinion' = Modules /\ opinion'[m] = With(opinion[m], l, said)
      /\ \A n \in Modules \ {m} : opinion'[n] = opinion[n]
  BY DEF RestTyped
<1>2. /\ DOMAIN opinion'[m] = Heard(m) \cup {l}
      /\ opinion'[m] \in [DOMAIN opinion'[m] -> Drafts]
  <2>1. opinion[m] \in [Heard(m) -> Drafts]
    BY DEF RestTyped
  <2>2. /\ DOMAIN With(opinion[m], l, said) = Heard(m) \cup {l}
        /\ With(opinion[m], l, said) \in [Heard(m) \cup {l} -> Drafts]
    BY <2>1, WithType
  <2>. QED  BY <1>1, <2>2
<1>3. ASSUME NEW n \in Modules
      PROVE  /\ DOMAIN opinion'[n] \subseteq Allowed[n]
             /\ opinion'[n] \in [DOMAIN opinion'[n] -> Drafts]
  <2>1. CASE n = m
    BY <1>2, <2>1 DEF RestTyped
  <2>2. CASE n # m
    BY <1>1, <2>2 DEF RestTyped, Heard
  <2>. QED  BY <2>1, <2>2
<1>4. memo' \in Answers
  <2>1. PICK known \in SUBSET Questions : memo \in [known -> Drafts]
    BY DEF RestTyped, Answers
  <2>2. <<m, l>> \in Questions
    BY ReviewerAssumption DEF Questions
  <2>3. With(memo, <<m, l>>, said) \in [known \cup {<<m, l>>} -> Drafts]
    BY <2>1, WithType
  <2>4. known \cup {<<m, l>>} \in SUBSET Questions
    BY <2>2
  <2>5. With(memo, <<m, l>>, said) \in Answers
    BY <2>3, <2>4 DEF Answers
  <2>. QED  BY <2>5 DEF RestTyped
<1>. QED  BY <1>1, <1>3, <1>4 DEF RestTyped, Heard

\* Every step keeps those types.
LEMMA NextRestTyped ==
    ASSUME FullIInv, RestTyped, [Work \/ Cancel]_all
    PROVE  RestTyped'
<1>1. CASE UNCHANGED <<opinion, memo, research, cancelled>>
  BY <1>1 DEF RestTyped, Heard
<1>2. ASSUME NEW m \in batch, NEW l \in asked[m], Specialist(m, l) PROVE RestTyped'
  <2>1. m \in Modules /\ l \in Allowed[m]
    BY DEF FullIInv, ReviewIInv, Shapes, BillTyped
  <2>2. CASE Recall(m, l)
    <3>1. /\ opinion' = [opinion EXCEPT ![m] = With(@, l, memo[<<m, l>>])]
          /\ <<m, l>> \in DOMAIN memo /\ UNCHANGED <<memo, research, cancelled>>
      BY <2>2 DEF Recall, Elsewhere
    <3>2. memo[<<m, l>>] \in Drafts
      BY <3>1 DEF RestTyped, Answers
    <3>. QED  BY <2>1, <3>1, <3>2, HearingTyped
  <2>3. ASSUME NEW said \in Drafts, NEW c \in Calls, Answer(m, l, said, c) PROVE RestTyped'
    BY <2>1, <2>3, HearingTyped DEF Answer, Elsewhere
  <2>4. CASE Blocked(m, l) \/ \E c \in Calls : Fault(m, l, c)
    BY <1>1, <2>4 DEF Blocked, Fault, Elsewhere
  <2>. QED  BY <1>2, <2>2, <2>3, <2>4 DEF Specialist
<1>3. CASE Learn
  BY <1>3 DEF Learn, reading, RestTyped, Heard
<1>4. CASE Cancel
  BY <1>4 DEF Cancel, reading, RestTyped, Heard
<1>5. CASE Choose \/ SendOut \/ UNCHANGED all
  BY <1>1, <1>5 DEF Choose, SendOut, all, reviewing, reading
<1>6. ASSUME NEW m \in batch,
             Open(m) \/ Record(m)
                \/ \E picked \in SUBSET Layers, c \in Calls : Route(m, picked, c)
      PROVE  RestTyped'
  BY <1>1, <1>6 DEF Open, Record, Route, Elsewhere, reading
<1>. QED  BY <1>2, <1>3, <1>4, <1>5, <1>6 DEF Work

\* Every variable of a review keeps its type: nobody is asked about a module,
\* or heard of it, who is not allowed, and the memo answers real questions.
THEOREM ReviewTypeCorrect == ReviewSpec => []ReviewTypeOK
<1>1. ReviewInit => RestTyped
  <2>. SUFFICES ASSUME ReviewInit PROVE RestTyped
    OBVIOUS
  <2>1. /\ opinion = [m \in Modules |-> <<>>] /\ memo \in Answers
        /\ research \in {"running", "done"} /\ cancelled = FALSE
    BY ReviewerAssumption DEF ReviewInit
  <2>2. \A m \in Modules : Heard(m) = {} /\ opinion[m] = <<>>
    BY <2>1 DEF Heard
  <2>3. <<>> \in [{} -> Drafts]
    OBVIOUS
  <2>. QED  BY <2>1, <2>2, <2>3 DEF RestTyped
<1>2. FullIInv /\ RestTyped /\ [Work \/ Cancel]_all => RestTyped'
  BY NextRestTyped
<1>3. FullIInv /\ RestTyped => ReviewTypeOK
  <2>. SUFFICES ASSUME FullIInv, RestTyped PROVE ReviewTypeOK
    OBVIOUS
  <2>1. drafts \subseteq Modules \X Constructs
    <3>1. analysed \cup failed \subseteq Modules
      BY DEF FullIInv, ReviewIInv, Fates
    <3>. QED  BY <3>1 DEF FullIInv, ReviewIInv, NothingHeardIsLost
  <2>. QED  BY <2>1 DEF FullIInv, IInv, ReviewIInv, Shapes, BillTyped, RestTyped, ReviewTypeOK
<1>. QED  BY <1>1, <1>2, <1>3, FullInvariance, PTL DEF ReviewSpec

-----------------------------------------------------------------------------
(* Every step is progress *)

\* How many steps a module may still take part in: choosing it, sending it out,
\* routing it, an answer of each specialist, recording it, and asking for the
\* batch it is in.
Left(m) ==
    IF m \notin seen THEN Cardinality(Layers) + 7
    ELSE IF m \notin held THEN 0
    ELSE IF m \notin batch THEN Cardinality(Layers) + 6
    ELSE CASE stage[m] = "sent" -> Cardinality(Layers) + 5
           [] stage[m] = "routing" -> Cardinality(Layers) + 4
           [] stage[m] = "asking" -> Cardinality(asked[m]) + 3
           [] OTHER -> 3

\* The steps that are left of all: the modules', those of the loop that no
\* module pays for, and the lookup's and a cancellation's.
LoopLeft == CASE phase = "idle" -> 2 [] phase = "choosing" -> 1 [] OTHER -> 0
AsideLeft == (IF research = "running" THEN 1 ELSE 0) + (IF cancelled THEN 0 ELSE 1)
StepsLeft == Sum([m \in Modules |-> Left(m)], Modules) + LoopLeft + AsideLeft

\* Action property.  Whatever a step of the review is, it leaves fewer to take:
\* a module that nobody could read is not handed out again, no coroutine goes
\* back to where it was, and no batch is asked for that another must follow.
EveryStepIsProgress == [][StepsLeft' \in 0..(StepsLeft - 1)]_all

\* A module has a bounded number of steps left.
LEMMA LeftBounded ==
    ASSUME FullIInv, NEW m \in Modules
    PROVE  /\ Cardinality(Layers) \in Nat /\ Cardinality(asked[m]) \in 0..Cardinality(Layers)
           /\ IsFiniteSet(asked[m]) /\ Left(m) \in 0..(Cardinality(Layers) + 7)
<1>1. IsFiniteSet(Layers) /\ asked[m] \subseteq Layers
  BY ReviewerAssumption DEF FullIInv, BillTyped
<1>2. /\ IsFiniteSet(asked[m]) /\ Cardinality(Layers) \in Nat
      /\ Cardinality(asked[m]) \in Nat /\ Cardinality(asked[m]) <= Cardinality(Layers)
  BY <1>1, FS_Subset, FS_CardinalityType
<1>. DEFINE most == Cardinality(Layers)
            some == Cardinality(asked[m])
<1>3. most \in Nat /\ some \in 0..most
  BY <1>2
<1>4. Left(m) = IF m \notin seen THEN most + 7
                ELSE IF m \notin held THEN 0
                ELSE IF m \notin batch THEN most + 6
                ELSE CASE stage[m] = "sent" -> most + 5
                       [] stage[m] = "routing" -> most + 4
                       [] stage[m] = "asking" -> some + 3
                       [] OTHER -> 3
  BY DEF Left
<1>. HIDE DEF most, some
<1>5. Left(m) \in 0..(most + 7)
  BY <1>3, <1>4
<1>. QED  BY <1>2, <1>5 DEF most

\* So it has after a step.
LEMMA LeftBoundedNext == FullIInv' => (\A m \in Modules : Left(m) \in Nat)'
<1>1. FullIInv => \A m \in Modules : Left(m) \in Nat
  BY LeftBounded
<1>. QED  BY <1>1, PTL

\* And no more specialists to be heard than there are.
LEMMA AskedBoundedNext ==
    FullIInv' => (\A m \in Modules : Cardinality(asked[m]) \in 0..Cardinality(Layers))'
<1>1. FullIInv => \A m \in Modules : Cardinality(asked[m]) \in 0..Cardinality(Layers)
  BY LeftBounded
<1>. QED  BY <1>1, PTL

\* One module that loses some, while none gains any, makes the sum less by it.
LEMMA SumDrops ==
    ASSUME NEW f, NEW g, NEW S, IsFiniteSet(S),
           \A x \in S : f[x] \in Int /\ g[x] \in Int /\ g[x] <= f[x],
           NEW y \in S, NEW k \in Nat, g[y] + k <= f[y]
    PROVE  Sum(g, S) \in Int /\ Sum(f, S) \in Int /\ Sum(g, S) + k <= Sum(f, S)
<1>1. PICK h : h = [x \in S |-> IF x = y THEN g[y] ELSE f[x]]
  OBVIOUS
<1>2. \A x \in S : h[x] \in Int /\ g[x] <= h[x]
  BY <1>1
<1>3. Sum(h, S) = Sum(f, S) - f[y] + g[y]
  <2>1. \A x \in S \ {y} : h[x] = f[x]
    BY <1>1
  <2>2. Sum(h, S) = Sum(f, S) - f[y] + h[y]
    BY <1>2, <2>1, SumChange
  <2>. QED  BY <1>1, <2>2
<1>4. Sum(g, S) <= Sum(h, S)
  BY <1>2, SumLess
<1>5. Sum(g, S) \in Int /\ Sum(f, S) \in Int
  BY SumType
<1>. QED  BY <1>3, <1>4, <1>5

\* What a step must do: cost a module some steps, give none any, and give the
\* loop and what runs beside it less than that.
Spends(m, k) ==
    /\ k \in Nat
    /\ \A n \in Modules : Left(n)' <= Left(n)
    /\ Left(m)' + k <= Left(m)
    /\ LoopLeft' + AsideLeft' < LoopLeft + AsideLeft + k

LEMMA CostIsProgress ==
    ASSUME FullIInv, FullIInv', NEW m \in Modules, NEW k, Spends(m, k)
    PROVE  StepsLeft' \in 0..(StepsLeft - 1)
<1>1. PICK f : f = [n \in Modules |-> Left(n)]
  OBVIOUS
<1>2. PICK g : g = [n \in Modules |-> Left(n)']
  OBVIOUS
<1>3. /\ \A x \in Modules : f[x] \in Nat /\ g[x] \in Nat /\ g[x] <= f[x]
      /\ g[m] + k <= f[m] /\ k \in Nat
  <2>1. \A x \in Modules : Left(x) \in Nat
    BY LeftBounded
  <2>2. \A x \in Modules : Left(x)' \in Nat
    BY LeftBoundedNext
  <2>3. \A x \in Modules : f[x] = Left(x) /\ g[x] = Left(x)'
    BY <1>1, <1>2
  <2>. QED  BY <2>1, <2>2, <2>3 DEF Spends
<1>4. IsFiniteSet(Modules)
  BY SchedulerAssumption
<1>5. Sum(g, Modules) \in Nat /\ Sum(f, Modules) \in Nat
  BY <1>3, <1>4, SumType
<1>6. Sum(g, Modules) + k <= Sum(f, Modules)
  BY <1>3, <1>4, SumDrops
<1>7. /\ StepsLeft = Sum(f, Modules) + LoopLeft + AsideLeft
      /\ StepsLeft' = Sum(g, Modules) + LoopLeft' + AsideLeft'
  BY <1>1, <1>2, Zenon DEF StepsLeft
<1>8. LoopLeft \in Nat /\ AsideLeft \in Nat /\ LoopLeft' \in Nat /\ AsideLeft' \in Nat
  BY DEF LoopLeft, AsideLeft
<1>9. LoopLeft' + AsideLeft' < LoopLeft + AsideLeft + k
  BY DEF Spends
<1>10. PICK now \in Nat : now = LoopLeft + AsideLeft
  BY <1>8
<1>11. PICK next \in Nat : next = LoopLeft' + AsideLeft'
  <2>1. PICK loop \in Nat : loop = LoopLeft'
    BY <1>8
  <2>2. PICK aside \in Nat : aside = AsideLeft'
    BY <1>8
  <2>3. loop + aside \in Nat
    OBVIOUS
  <2>. QED  BY <2>1, <2>2, <2>3, Zenon
<1>12. PICK p \in Nat : p = Sum(f, Modules)
  BY <1>5
<1>13. PICK q \in Nat : q = Sum(g, Modules)
  BY <1>5
<1>14. StepsLeft = p + now /\ StepsLeft' = q + next
  BY <1>7, <1>8, <1>10, <1>11, <1>12, <1>13
<1>15. q + k <= p /\ next < now + k /\ k \in Nat
  BY <1>3, <1>6, <1>8, <1>9, <1>10, <1>11, <1>12, <1>13
<1>16. PICK s : s = StepsLeft
  OBVIOUS
<1>17. PICK t : t = StepsLeft'
  OBVIOUS
<1>18. t \in 0..(s - 1)
  BY <1>14, <1>15, <1>16, <1>17
<1>. QED  BY <1>16, <1>17, <1>18, Zenon

\* A step that is of the loop alone, or beside it, and leaves the modules theirs.
LEMMA LoopSpends ==
    ASSUME FullIInv, \A n \in Modules : Left(n)' = Left(n),
           LoopLeft' + AsideLeft' < LoopLeft + AsideLeft
    PROVE  StepsLeft' \in 0..(StepsLeft - 1)
<1>1. PICK f : f = [n \in Modules |-> Left(n)]
  OBVIOUS
<1>2. f = [n \in Modules |-> Left(n)']
  BY <1>1
<1>3. PICK p \in Nat : p = Sum(f, Modules)
  <2>1. \A n \in Modules : Left(n) \in Nat
    BY LeftBounded
  <2>2. \A n \in Modules : f[n] \in Int /\ f[n] >= 0
    BY <1>1, <2>1
  <2>3. IsFiniteSet(Modules)
    BY SchedulerAssumption
  <2>4. Sum(f, Modules) \in Int /\ Sum(f, Modules) >= 0
    BY <2>2, <2>3, SumType
  <2>. QED  BY <2>4
<1>4. StepsLeft = p + LoopLeft + AsideLeft /\ StepsLeft' = p + LoopLeft' + AsideLeft'
  BY <1>1, <1>2, <1>3, Zenon DEF StepsLeft
<1>5. LoopLeft \in Nat /\ AsideLeft \in Nat /\ LoopLeft' \in Nat /\ AsideLeft' \in Nat
  BY DEF LoopLeft, AsideLeft
<1>6. PICK loop \in Nat : loop = LoopLeft
  BY <1>5
<1>7. PICK aside \in Nat : aside = AsideLeft
  BY <1>5
<1>8. PICK later \in Nat : later = LoopLeft'
  BY <1>5
<1>9. PICK beside \in Nat : beside = AsideLeft'
  BY <1>5
<1>10. later + beside < loop + aside
  BY <1>6, <1>7, <1>8, <1>9, Zenon
<1>11. StepsLeft = p + loop + aside /\ StepsLeft' = p + later + beside
  BY <1>4, <1>6, <1>7, <1>8, <1>9, Zenon
<1>12. p + later + beside \in 0..((p + loop + aside) - 1)
  BY <1>10
<1>. QED  BY <1>11, <1>12, Zenon

\* The scheduler's turns: a batch is asked for, cut short, or given a module.
LEMMA ChooseSpends ==
    ASSUME FullIInv, FullIInv', Choose
    PROVE  StepsLeft' \in 0..(StepsLeft - 1)
<1>1. UNCHANGED <<batch, stage, asked, research, cancelled>>
  BY DEF Choose, reviewing, reading
<1>2. AsideLeft' = AsideLeft /\ AsideLeft \in Nat
  BY <1>1 DEF AsideLeft
<1>3. CASE Ask \/ Exhaust
  <2>1. UNCHANGED <<seen, held>>
    BY <1>3 DEF Ask, Exhaust
  <2>2. \A n \in Modules : Left(n)' = Left(n)
    BY <1>1, <2>1 DEF Left
  <2>3. PICK loop \in 1..2 : loop = LoopLeft /\ LoopLeft' = loop - 1
    <3>1. CASE Ask
      <4>1. LoopLeft = 2 /\ LoopLeft' = 1
        BY <3>1 DEF Ask, LoopLeft
      <4>. QED  BY <4>1
    <3>2. CASE Exhaust
      <4>1. LoopLeft = 1 /\ LoopLeft' = 0
        BY <3>2 DEF Exhaust, LoopLeft
      <4>. QED  BY <4>1
    <3>. QED  BY <1>3, <3>1, <3>2
  <2>4. PICK aside \in Nat : aside = AsideLeft
    BY <1>2
  <2>5. (loop - 1) + aside < loop + aside
    OBVIOUS
  <2>6. LoopLeft' + AsideLeft' < LoopLeft + AsideLeft
    BY <1>2, <2>3, <2>4, <2>5, Zenon
  <2>. QED  BY <2>2, <2>6, LoopSpends
<1>4. ASSUME NEW m \in Modules, Issue(m) PROVE StepsLeft' \in 0..(StepsLeft - 1)
  <2>1. /\ phase = "choosing" /\ m \notin seen
        /\ seen' = seen \cup {m} /\ held' = held \cup {m}
        /\ phase' \in {"reading", "choosing"}
    BY <1>4 DEF Issue, Best, Affordable, Candidates
  <2>2. batch = {} /\ batch' = {}
    BY <1>1, <2>1 DEF FullIInv, BatchIsOut
  <2>3. PICK most \in Nat : most = Cardinality(Layers)
    BY LeftBounded
  <2>4. Left(m) = most + 7 /\ Left(m)' = most + 6
    BY <2>1, <2>2, <2>3 DEF Left
  <2>5. \A n \in Modules : n # m => Left(n)' = Left(n)
    BY <1>1, <2>1 DEF Left
  <2>6. \A n \in Modules : Left(n)' <= Left(n)
    BY <2>3, <2>4, <2>5, LeftBounded
  <2>7. LoopLeft = 1 /\ LoopLeft' \in 0..1
    BY <2>1 DEF LoopLeft
  <2>8. Left(m)' + 1 <= Left(m)
    BY <2>3, <2>4
  <2>9. LoopLeft' + AsideLeft' < LoopLeft + AsideLeft + 1
    <3>1. PICK aside \in Nat : aside = AsideLeft
      BY <1>2
    <3>2. PICK later \in 0..1 : later = LoopLeft'
      BY <2>7
    <3>3. later + aside < 1 + aside + 1
      OBVIOUS
    <3>. QED  BY <1>2, <2>7, <3>1, <3>2, <3>3, Zenon
  <2>10. Spends(m, 1)
    BY <2>6, <2>8, <2>9 DEF Spends
  <2>. QED  BY <2>10, CostIsProgress
<1>. QED  BY <1>3, <1>4 DEF Choose

\* The batch is sent out: there is a module in it.
LEMMA SendOutSpends ==
    ASSUME FullIInv, FullIInv', SendOut
    PROVE  StepsLeft' \in 0..(StepsLeft - 1)
<1>1. /\ phase = "reading" /\ batch = {} /\ batch' = held
      /\ stage' = [m \in Modules |-> IF m \in held THEN "sent" ELSE stage[m]]
      /\ UNCHANGED <<phase, seen, held, asked, research, cancelled>>
  BY DEF SendOut, vars
<1>2. PICK m \in held : TRUE
  BY <1>1 DEF FullIInv, BatchIsOut
<1>3. held \subseteq Modules /\ held \subseteq seen
  BY DEF FullIInv, ReviewIInv, Fates
<1>4. PICK most \in Nat : most = Cardinality(Layers)
  BY <1>2, <1>3, LeftBounded
<1>5. \A n \in Modules \cap held : Left(n) = most + 6 /\ Left(n)' = most + 5
  BY <1>1, <1>3, <1>4 DEF Left
<1>6. \A n \in Modules \ held : Left(n)' = Left(n)
  BY <1>1 DEF Left
<1>7. \A n \in Modules : Left(n)' <= Left(n)
  BY <1>4, <1>5, <1>6, LeftBounded
<1>8. LoopLeft' = LoopLeft /\ AsideLeft' = AsideLeft /\ LoopLeft \in Nat /\ AsideLeft \in Nat
  BY <1>1 DEF LoopLeft, AsideLeft
<1>9. Left(m)' + 1 <= Left(m)
  BY <1>2, <1>3, <1>4, <1>5
<1>10. LoopLeft' + AsideLeft' < LoopLeft + AsideLeft + 1
  BY <1>8
<1>11. m \in Modules /\ Spends(m, 1)
  BY <1>2, <1>3, <1>7, <1>9, <1>10 DEF Spends
<1>. QED  BY <1>11, CostIsProgress

\* A coroutine of the batch goes on: it is of a module that is not recorded,
\* for nothing is recorded while anything is being read.
LEMMA CoroutineSpends ==
    ASSUME FullIInv, FullIInv', Elsewhere, NEW m \in batch, stage[m] \in {"sent", "routing", "asking"},
           \A n \in Modules : n # m => stage'[n] = stage[n] /\ asked'[n] = asked[n],
           \/ stage[m] = "sent" /\ stage'[m] \in {"routing", "asking", "back"}
           \/ stage[m] = "routing" /\ stage'[m] \in {"asking", "back"}
           \/ /\ stage[m] = "asking" /\ stage'[m] \in {"asking", "back"}
              /\ \E l \in asked[m] : asked'[m] = asked[m] \ {l}
    PROVE  StepsLeft' \in 0..(StepsLeft - 1)
<1>1. UNCHANGED <<phase, seen, held, batch, research, cancelled>>
  BY DEF Elsewhere, vars
<1>2. batch = held /\ m \in Modules /\ m \in seen /\ m \in held
  BY DEF FullIInv, ReviewIInv, Shapes, Fates, BatchIsOut, BillKept, AllBack
<1>3. PICK most \in Nat : most = Cardinality(Layers)
  BY <1>2, LeftBounded
<1>4. PICK some \in 0..most : some = Cardinality(asked[m])
  BY <1>2, <1>3, LeftBounded
<1>5. PICK few \in 0..most : few = Cardinality(asked'[m])
  <2>1. (\A n \in Modules : Cardinality(asked[n]) \in 0..Cardinality(Layers))'
    BY AskedBoundedNext
  <2>. QED  BY <1>2, <1>3, <2>1
<1>6. stage[m] = "asking" => few = some - 1
  <2>1. SUFFICES ASSUME stage[m] = "asking" PROVE few = some - 1
    OBVIOUS
  <2>2. PICK l \in asked[m] : asked'[m] = asked[m] \ {l}
    BY <2>1
  <2>3. IsFiniteSet(asked[m])
    BY <1>2, LeftBounded
  <2>. QED  BY <1>4, <1>5, <2>2, <2>3, FS_RemoveElement
<1>7. Left(m) = CASE stage[m] = "sent" -> most + 5
                  [] stage[m] = "routing" -> most + 4
                  [] stage[m] = "asking" -> some + 3
                  [] OTHER -> 3
  BY <1>2, <1>3, <1>4 DEF Left
<1>8. Left(m)' = CASE stage'[m] = "sent" -> most + 5
                   [] stage'[m] = "routing" -> most + 4
                   [] stage'[m] = "asking" -> few + 3
                   [] OTHER -> 3
  BY <1>1, <1>2, <1>3, <1>5 DEF Left
<1>9. Left(m)' + 1 <= Left(m)
  <2>1. CASE stage[m] = "sent"
    <3>1. Left(m) = most + 5 /\ Left(m)' \in {most + 4, few + 3, 3}
      BY <1>7, <1>8, <2>1
    <3>. QED  BY <3>1
  <2>2. CASE stage[m] = "routing"
    <3>1. Left(m) = most + 4 /\ Left(m)' \in {few + 3, 3}
      BY <1>7, <1>8, <2>2
    <3>. QED  BY <3>1
  <2>3. CASE stage[m] = "asking"
    <3>1. Left(m) = some + 3 /\ Left(m)' \in {few + 3, 3}
      BY <1>7, <1>8, <2>3
    <3>. QED  BY <1>6, <2>3, <3>1
  <2>. QED  BY <2>1, <2>2, <2>3
<1>10. \A n \in Modules : n # m => Left(n)' = Left(n)
  BY <1>1 DEF Left
<1>11. \A n \in Modules : Left(n)' <= Left(n)
  <2>1. Left(m)' <= Left(m)
    BY <1>2, <1>9, LeftBounded, LeftBoundedNext
  <2>. QED  BY <1>10, <2>1, LeftBounded
<1>12. LoopLeft' = LoopLeft /\ AsideLeft' = AsideLeft /\ LoopLeft \in Nat /\ AsideLeft \in Nat
  BY <1>1 DEF LoopLeft, AsideLeft
<1>13. LoopLeft' + AsideLeft' < LoopLeft + AsideLeft + 1
  BY <1>12
<1>14. Spends(m, 1)
  BY <1>9, <1>11, <1>13 DEF Spends
<1>. QED  BY <1>2, <1>14, CostIsProgress

\* The lookup ends, or the review is cancelled: each can happen once.
LEMMA AsideSpends ==
    ASSUME FullIInv, Learn \/ Cancel
    PROVE  StepsLeft' \in 0..(StepsLeft - 1)
<1>1. UNCHANGED <<phase, seen, held, batch, stage, asked>>
  BY DEF Learn, Cancel, vars, reading
<1>2. \A n \in Modules : Left(n)' = Left(n)
  BY <1>1 DEF Left
<1>3. LoopLeft' = LoopLeft /\ LoopLeft \in Nat
  BY <1>1 DEF LoopLeft
<1>4. PICK aside \in 1..2 : aside = AsideLeft /\ AsideLeft' = aside - 1
  <2>1. CASE Learn
    <3>1. /\ AsideLeft = 1 + (IF cancelled THEN 0 ELSE 1)
          /\ AsideLeft' = 0 + (IF cancelled THEN 0 ELSE 1)
      BY <2>1 DEF Learn, AsideLeft
    <3>. QED  BY <3>1
  <2>2. CASE Cancel
    <3>1. /\ AsideLeft = (IF research = "running" THEN 1 ELSE 0) + 1
          /\ AsideLeft' = (IF research = "running" THEN 1 ELSE 0) + 0
      BY <2>2 DEF Cancel, AsideLeft
    <3>. QED  BY <3>1
  <2>. QED  BY <2>1, <2>2
<1>5. PICK loop \in Nat : loop = LoopLeft
  BY <1>3
<1>6. loop + (aside - 1) < loop + aside
  OBVIOUS
<1>7. LoopLeft' + AsideLeft' < LoopLeft + AsideLeft
  BY <1>3, <1>4, <1>5, <1>6, Zenon
<1>. QED  BY <1>2, <1>7, LoopSpends

\* A coroutine's step, whichever it is, takes its module on.
LEMMA ReadingSpends ==
    ASSUME FullIInv, FullIInv', NEW m \in batch,
           \/ Open(m)
           \/ \E picked \in SUBSET Layers, c \in Calls : Route(m, picked, c)
           \/ \E l \in asked[m] : Specialist(m, l)
    PROVE  StepsLeft' \in 0..(StepsLeft - 1)
<1>1. /\ m \in Modules /\ DOMAIN stage = Modules
      /\ asked \in [Modules -> SUBSET Layers]
  BY DEF FullIInv, ReviewIInv, Shapes, BillTyped
<1>2. CASE Open(m)
  <2>1. /\ Elsewhere /\ stage[m] = "sent" /\ stage'[m] \in {"routing", "asking", "back"}
        /\ \A n \in Modules : n # m => stage'[n] = stage[n] /\ asked'[n] = asked[n]
    BY <1>1, <1>2 DEF Open
  <2>. QED  BY <2>1, CoroutineSpends
<1>3. ASSUME NEW picked \in SUBSET Layers, NEW c \in Calls, Route(m, picked, c)
      PROVE  StepsLeft' \in 0..(StepsLeft - 1)
  <2>1. /\ Elsewhere /\ stage[m] = "routing" /\ stage'[m] \in {"asking", "back"}
        /\ \A n \in Modules : n # m => stage'[n] = stage[n] /\ asked'[n] = asked[n]
    BY <1>1, <1>3 DEF Route
  <2>. QED  BY <2>1, CoroutineSpends
<1>4. ASSUME NEW l \in asked[m], Specialist(m, l)
      PROVE  StepsLeft' \in 0..(StepsLeft - 1)
  <2>1. Elsewhere /\ Leaves(m, l)
    BY <1>4 DEF Specialist, Recall, Answer, Fault, Blocked
  <2>2. /\ stage[m] = "asking" /\ stage'[m] \in {"asking", "back"}
        /\ asked'[m] = asked[m] \ {l}
        /\ \A n \in Modules : n # m => stage'[n] = stage[n] /\ asked'[n] = asked[n]
    BY <1>1, <2>1 DEF Leaves
  <2>. QED  BY <2>1, <2>2, CoroutineSpends
<1>. QED  BY <1>2, <1>3, <1>4

\* A module of the batch is recorded, and is done with for good: what it gives
\* up pays for asking for the next batch, should it be the last of this one.
LEMMA RecordSpends ==
    ASSUME FullIInv, FullIInv', NEW m \in batch, Record(m)
    PROVE  StepsLeft' \in 0..(StepsLeft - 1)
<1>1. /\ AllBack /\ batch' = (IF held = {m} THEN {} ELSE batch)
      /\ UNCHANGED <<stage, asked, research, cancelled>>
  BY DEF Record, reading
<1>2. /\ phase = "reading" /\ m \in held /\ held' = held \ {m} /\ seen' = seen \cup {m}
      /\ phase' = IF held = {m} THEN "idle" ELSE "reading"
  BY DEF Record, RecordRead, RecordUnread, Charge
<1>3. m \in Modules /\ m \in seen /\ seen' = seen /\ stage[m] = "back"
  BY <1>1, <1>2 DEF FullIInv, ReviewIInv, Shapes, Fates, AllBack
<1>4. Left(m) = 3 /\ Left(m)' = 0
  BY <1>1, <1>2, <1>3 DEF Left
<1>5. \A n \in Modules : n # m => Left(n)' = Left(n)
  <2>1. SUFFICES ASSUME NEW n \in Modules, n # m PROVE Left(n)' = Left(n)
    OBVIOUS
  <2>2. CASE n \in held
    <3>1. held # {m} /\ batch' = batch /\ n \in held'
      BY <1>1, <1>2, <2>1, <2>2
    <3>. QED  BY <1>1, <1>3, <2>2, <3>1 DEF Left
  <2>3. CASE n \notin held
    <3>1. n \notin held'
      BY <1>2, <2>3
    <3>. QED  BY <1>3, <2>3, <3>1 DEF Left
  <2>. QED  BY <2>2, <2>3
<1>6. \A n \in Modules : Left(n)' <= Left(n)
  BY <1>4, <1>5, LeftBounded
<1>7. LoopLeft = 0 /\ LoopLeft' \in 0..2
  BY <1>2 DEF LoopLeft
<1>8. AsideLeft' = AsideLeft /\ AsideLeft \in Nat
  BY <1>1 DEF AsideLeft
<1>9. LoopLeft' + AsideLeft' < LoopLeft + AsideLeft + 3
  <2>1. PICK aside \in Nat : aside = AsideLeft
    BY <1>8
  <2>2. PICK later \in 0..2 : later = LoopLeft'
    BY <1>7
  <2>3. later + aside < 0 + aside + 3
    OBVIOUS
  <2>. QED  BY <1>7, <1>8, <2>1, <2>2, <2>3, Zenon
<1>10. Left(m)' + 3 <= Left(m)
  BY <1>4
<1>11. Spends(m, 3)
  BY <1>6, <1>9, <1>10 DEF Spends
<1>. QED  BY <1>3, <1>11, CostIsProgress

\* Whatever a step of the review is -- the scheduler's, a coroutine's, the
\* loop's, the lookup's or a cancellation -- it leaves fewer to take.  So every
\* review, cancelled or not, takes at most as many as it had when it began: a
\* bound in the modules and the specialists, whatever fails (the loop of review
\* and the coroutines it gathers).
THEOREM EveryStepProgresses == ReviewSpec => EveryStepIsProgress
<1>1. ASSUME FullIInv, FullIInv', [Work \/ Cancel]_all
      PROVE  [StepsLeft' \in 0..(StepsLeft - 1)]_all
  <2>1. CASE Choose
    BY <1>1, <2>1, ChooseSpends
  <2>2. CASE SendOut
    BY <1>1, <2>2, SendOutSpends
  <2>3. CASE Learn \/ Cancel
    BY <1>1, <2>3, AsideSpends
  <2>4. ASSUME NEW m \in batch,
               \/ Open(m)
               \/ \E picked \in SUBSET Layers, c \in Calls : Route(m, picked, c)
               \/ \E l \in asked[m] : Specialist(m, l)
        PROVE  StepsLeft' \in 0..(StepsLeft - 1)
    BY <1>1, <2>4, ReadingSpends
  <2>5. ASSUME NEW m \in batch, Record(m) PROVE StepsLeft' \in 0..(StepsLeft - 1)
    BY <1>1, <2>5, RecordSpends
  <2>. QED  BY <1>1, <2>1, <2>2, <2>3, <2>4, <2>5 DEF Work
<1>2. FullIInv /\ [Work \/ Cancel]_all => FullIInv'
  BY ReviewNextFull
<1>. QED  BY <1>1, <1>2, FullInvariance, PTL DEF ReviewSpec, EveryStepIsProgress

\* When a review begins that is a number the sizes of its sets fix.
LEMMA StepsAtFirst ==
    ASSUME ReviewInit
    PROVE  StepsLeft \in 0..(Cardinality(Modules) * (Cardinality(Layers) + 7) + 4)
<1>1. FullIInv
  BY ReviewInitFull
<1>2. IsFiniteSet(Modules) /\ Cardinality(Modules) \in Nat /\ Cardinality(Layers) \in Nat
  BY SchedulerAssumption, ReviewerAssumption, FS_CardinalityType
<1>3. PICK many \in Nat : many = Cardinality(Modules)
  BY <1>2
<1>4. PICK each \in Nat : each = Cardinality(Layers) + 7
  BY <1>2
<1>5. PICK f : f = [n \in Modules |-> Left(n)]
  OBVIOUS
<1>6. \A n \in Modules : f[n] = each
  BY <1>4, <1>5 DEF ReviewInit, Init, Left
<1>7. Sum(f, Modules) = each * many
  BY <1>2, <1>3, <1>4, <1>6, SumConstant
<1>8. LoopLeft = 2 /\ AsideLeft \in 0..2
  <2>1. phase = "idle"
    BY DEF ReviewInit, Init
  <2>2. LoopLeft = 2
    BY <2>1 DEF LoopLeft
  <2>3. AsideLeft \in 0..2
    BY DEF AsideLeft
  <2>. QED  BY <2>2, <2>3
<1>9. PICK aside \in 0..2 : aside = AsideLeft
  BY <1>8
<1>10. StepsLeft = each * many + 2 + aside
  BY <1>5, <1>7, <1>8, <1>9, Zenon DEF StepsLeft
<1>11. each * many \in Nat /\ each * many = many * each
  BY <1>3, <1>4
<1>12. PICK p \in Nat : p = many * each
  BY <1>11
<1>13. p + 2 + aside \in 0..(p + 4)
  OBVIOUS
<1>. QED  BY <1>3, <1>4, <1>10, <1>11, <1>12, <1>13, Zenon

\* And it never grows: whatever the interleaving and whatever fails, a review
\* is over, or waits for nothing, within that many steps.
THEOREM StepsAreBounded ==
    ReviewSpec => [](StepsLeft \in 0..(Cardinality(Modules) * (Cardinality(Layers) + 7) + 4))
<1>. DEFINE most == Cardinality(Modules) * (Cardinality(Layers) + 7) + 4
            Bound == StepsLeft \in 0..most
<1>1. ReviewInit => Bound
  BY StepsAtFirst
<1>2. ASSUME Bound, [StepsLeft' \in 0..(StepsLeft - 1)]_all PROVE Bound'
  <2>1. Cardinality(Modules) \in Nat /\ Cardinality(Layers) \in Nat
    BY SchedulerAssumption, ReviewerAssumption, FS_CardinalityType
  <2>2. PICK top \in Nat : top = most
    BY <2>1
  <2>3. PICK now \in 0..top : now = StepsLeft
    BY <1>2, <2>2
  <2>4. CASE StepsLeft' \in 0..(StepsLeft - 1)
    <3>1. 0..(now - 1) \subseteq 0..top
      OBVIOUS
    <3>. QED  BY <2>2, <2>3, <2>4, <3>1, Zenon
  <2>5. CASE UNCHANGED all
    <3>1. StepsLeft' = StepsLeft
      BY <2>5 DEF StepsLeft, Left, LoopLeft, AsideLeft, all, vars, reviewing, reading
    <3>. QED  BY <1>2, <3>1
  <2>. QED  BY <1>2, <2>4, <2>5
<1>. QED  BY <1>1, <1>2, EveryStepProgresses, PTL DEF ReviewSpec, EveryStepIsProgress
=============================================================================

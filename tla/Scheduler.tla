----------------------------- MODULE Scheduler -----------------------------
(***************************************************************************)
(* core/scheduling/scheduler.py, driven by the loop of agents/augury.py:   *)
(* which modules are issued, what they are charged, when the review stops  *)
(* and what its coverage says.  Money is in whole micro-dollars, as in the *)
(* code.  next_batch never awaits, so while it chooses (phase "choosing")  *)
(* nothing else runs; each turn of its loop is one step here.              *)
(***************************************************************************)
EXTENDS Integers, FiniteSets, Basics

CONSTANTS Modules,      \* repo.modules, numbered in the order of their paths
          Signalled,    \* the modules with at least one signal
          Unmapped,     \* repo.unparsed and repo.skipped: paths that are no module
          Floor,        \* per module, loc / 1000 * usd_per_1k_loc * calls_per_module
          Base,         \* per module, its value before the neighbour factor
          Imports,      \* per module, the modules it imports
          Asked,        \* the ceiling asked for, 0 for none
          Default,      \* Budget.usd when none is given
          MaxCost,      \* the most one module costs
          Costs,        \* what a module may turn out to cost
          Findings,     \* how many findings a read may return
          Concurrency,  \* the size the reviewer asks next_batch for
          Probe,        \* PROBE_BATCH
          Enough        \* ENOUGH_TO_TRUST

ASSUME SchedulerAssumption ==
    /\ Modules \subseteq Nat /\ IsFiniteSet(Modules)
    /\ Signalled \subseteq Modules
    /\ Modules \cap Unmapped = {}
    /\ Floor \in [Modules -> Nat]
    /\ Base \in [Modules -> Nat]
    /\ Imports \in [Modules -> SUBSET Modules]
    /\ Asked \in Nat /\ Default \in Nat \ {0}
    /\ MaxCost \in Nat /\ Costs \subseteq 0..MaxCost
    /\ Findings \subseteq Nat
    /\ Concurrency \in Nat \ {0} /\ Probe \in Nat \ {0} /\ Enough \in Nat \ {0}

VARIABLES phase,     \* "idle", "choosing" a batch, "reading" it, "ended"
          room,      \* how many more modules next_batch may still hand out
          spent,     \* _spent_micros: estimates of what is out, costs of the rest
          seen,      \* _seen
          held,      \* DOMAIN _reserved: handed out and not recorded yet
          estimate,  \* _reserved: what a module was charged when handed out
          analysed,  \* coverage_analysed
          failed,    \* DOMAIN _failed: came back unread
          measured,  \* len(_costs)
          total,     \* sum(_costs) * calls_per_module
          suspect,   \* _suspect: the findings a module returned, or 0
          stopped,   \* _stopped_because
          cost,      \* history: what each recorded module cost
          back       \* history: modules recorded since the last one was issued

vars == <<phase, room, spent, seen, held, estimate, analysed, failed,
          measured, total, suspect, stopped, cost, back>>

\* Why the review ended; "still running" means that it has not.
Reasons == {"still running", "nothing left worth reading", "budget exhausted",
            "nothing left fits the remaining budget"}

Least(a, b) == IF a < b THEN a ELSE b
Greatest(a, b) == IF a < b THEN b ELSE a

\* The ceiling a review runs under: Budget(usd=asked) if asked else Budget().
Budget == IF Asked = 0 THEN Default ELSE Asked

-----------------------------------------------------------------------------
(* Selection *)

Trusted == measured >= Enough

\* Dollars a module has actually cost, zero until enough have been measured.
Observed == IF Trusted THEN total \div measured ELSE 0

Estimate(m) == Greatest(Floor[m], Observed)

\* Findings in what a module imports raise its value by half of it each; the
\* factor 1 + sum / 2 is doubled to stay in the integers.
Value(m) == Base[m] * (2 + Sum(suspect, Imports[m]))

Candidates == Signalled \ seen

\* Slip: each module is held to the ceiling alone.
AffordableAlone == {m \in Candidates : Estimate(m) <= Budget}
Affordable == {m \in Candidates : spent + Estimate(m) <= Budget}

\* max(affordable, key=(value, path))
Best == {m \in Affordable : \A n \in Affordable :
            Value(n) < Value(m) \/ (Value(n) = Value(m) /\ n <= m)}

-----------------------------------------------------------------------------
(* Coverage, computed on read *)

Unread == Modules \ seen

WhySkipped(m) == IF m \in Signalled THEN "budget" ELSE "no signal"

\* Slip: a module that came back unread is in neither list.
SkippedButFailed ==
    [p \in Unmapped \cup Unread |->
        IF p \in Unread THEN WhySkipped(p) ELSE "unmapped"]

Skipped ==
    [p \in Unmapped \cup Unread \cup failed |->
        IF p \in failed THEN "failed"
        ELSE IF p \in Unread THEN WhySkipped(p) ELSE "unmapped"]

-----------------------------------------------------------------------------
TypeOK ==
    /\ phase \in {"idle", "choosing", "reading", "ended"}
    /\ room \in 0..Concurrency
    /\ spent \in Int
    /\ seen \subseteq Modules /\ held \subseteq Modules
    /\ analysed \subseteq Modules /\ failed \subseteq Modules
    /\ estimate \in [Modules -> Nat]
    /\ measured \in Nat /\ total \in Nat
    /\ suspect \in [Modules -> Nat]
    /\ stopped \in Reasons
    /\ cost \in [Modules -> 0..MaxCost]
    /\ back \in Nat

Init ==
    /\ phase = "idle" /\ room = 0 /\ spent = 0
    /\ seen = {} /\ held = {} /\ analysed = {} /\ failed = {}
    /\ estimate = [m \in Modules |-> 0]
    /\ measured = 0 /\ total = 0
    /\ suspect = [m \in Modules |-> 0]
    /\ stopped = "still running"
    /\ cost = [m \in Modules |-> 0] /\ back = 0

\* next_batch is called once the whole previous batch has been recorded; it
\* hands out few modules until it knows what one costs.
Ask ==
    /\ phase = "idle"
    /\ phase' = "choosing"
    /\ room' = IF Trusted THEN Concurrency ELSE Least(Concurrency, Probe)
    /\ UNCHANGED <<spent, seen, held, estimate, analysed, failed, measured,
                   total, suspect, stopped, cost, back>>

\* next and _reserve: the best module that fits is charged its estimate now.
Issue(m) ==
    /\ phase = "choosing"
    /\ m \in Best
    /\ seen' = seen \cup {m}
    /\ held' = held \cup {m}
    /\ estimate' = [estimate EXCEPT ![m] = Estimate(m)]
    /\ spent' = spent + Estimate(m)
    /\ room' = room - 1
    /\ phase' = IF room = 1 THEN "reading" ELSE "choosing"
    /\ back' = 0
    /\ UNCHANGED <<analysed, failed, measured, total, suspect, stopped, cost>>

\* next returns None: the batch is cut short, and an empty one ends the loop.
Exhaust ==
    /\ phase = "choosing"
    /\ Affordable = {}
    /\ stopped' = IF Candidates = {} THEN "nothing left worth reading"
                  ELSE IF spent >= Budget THEN "budget exhausted"
                  ELSE "nothing left fits the remaining budget"
    /\ phase' = IF held = {} THEN "ended" ELSE "reading"
    /\ room' = 0
    /\ UNCHANGED <<spent, seen, held, estimate, analysed, failed, measured,
                   total, suspect, cost, back>>

\* Slip: the estimate stays charged.
ChargeTwice(m, c) ==
    /\ held' = held \ {m}
    /\ seen' = seen \cup {m}
    /\ spent' = spent + c
    /\ cost' = [cost EXCEPT ![m] = c]
    /\ back' = back + 1
    /\ phase' = IF held = {m} THEN "idle" ELSE "reading"
    /\ UNCHANGED <<room, estimate, stopped>>

\* What record does with a module's cost, whether or not it was read.
Charge(m, c) ==
    /\ held' = held \ {m}
    /\ seen' = seen \cup {m}
    /\ spent' = spent - estimate[m] + c
    /\ cost' = [cost EXCEPT ![m] = c]
    /\ back' = back + 1
    /\ phase' = IF held = {m} THEN "idle" ELSE "reading"
    /\ UNCHANGED <<room, estimate, stopped>>

\* Slip: a free read counts as a measurement.
RecordFreeRead(m, c, found) ==
    /\ phase = "reading"
    /\ m \in held
    /\ Charge(m, c)
    /\ analysed' = analysed \cup {m}
    /\ suspect' = [suspect EXCEPT ![m] = IF found > 0 THEN found ELSE @]
    /\ measured' = measured + 1 /\ total' = total + c
    /\ UNCHANGED failed

\* A module at least one specialist read.  A free read measures nothing.
RecordRead(m, c, found) ==
    /\ phase = "reading"
    /\ m \in held
    /\ Charge(m, c)
    /\ analysed' = analysed \cup {m}
    /\ suspect' = [suspect EXCEPT ![m] = IF found > 0 THEN found ELSE @]
    /\ IF c > 0
       THEN measured' = measured + 1 /\ total' = total + c
       ELSE UNCHANGED <<measured, total>>
    /\ UNCHANGED failed

\* A module that was issued, charged, and read by nobody.
RecordUnread(m, c) ==
    /\ phase = "reading"
    /\ m \in held
    /\ Charge(m, c)
    /\ failed' = failed \cup {m}
    /\ UNCHANGED <<analysed, measured, total, suspect>>

Next ==
    \/ Ask
    \/ Exhaust
    \/ \E m \in Modules : Issue(m)
    \/ \E m \in Modules, c \in Costs :
          RecordUnread(m, c) \/ \E found \in Findings : RecordRead(m, c, found)

\* next_batch and record are synchronous, and every batch comes back: gather
\* returns when each module's coroutine has ended, in a result or an error.
Fairness == WF_vars(Next)

Spec == Init /\ [][Next]_vars /\ Fairness

-----------------------------------------------------------------------------
\* Safety.  What has been charged is exactly the real cost of what has been
\* recorded plus the estimates of what is still out; the rate is measured on
\* exactly the reads that cost something.  (_reserve and record: an estimate
\* is replaced, never added to.)
SpentIsAccounted ==
    /\ spent = Sum(cost, seen \ held) + Sum(estimate, held)
    /\ measured = Cardinality({m \in analysed : cost[m] > 0})
    /\ total = Sum(cost, analysed)

\* Safety.  A module handed out is waiting, analysed or failed -- exactly one.
\* (record: a module nobody could read is never counted as coverage.)
OneFate ==
    /\ seen = held \cup analysed \cup failed
    /\ held \cap analysed = {} /\ held \cap failed = {} /\ analysed \cap failed = {}
    /\ seen \subseteq Signalled

\* Safety.  However wrong the estimates are, the overspend is at most one
\* batch, and at most one probe batch until the rate has been measured.
OneBatchOver ==
    /\ spent <= Budget + Concurrency * MaxCost
    /\ ~Trusted => spent <= Budget + Probe * MaxCost

\* Safety.  While fewer than Enough reads have cost anything, no more than a
\* probe batch is ever out, however many free or failed reads came before.
ProbeFirst ==
    Cardinality({m \in analysed : cost[m] > 0}) < Enough => Cardinality(held) <= Probe

\* Safety.  Between batches, every path of the repository is either analysed
\* or skipped with a reason, and never both.
CoverageBetweenBatches ==
    held = {} =>
        /\ analysed \cup DOMAIN Skipped = Modules \cup Unmapped
        /\ analysed \cap DOMAIN Skipped = {}
=============================================================================

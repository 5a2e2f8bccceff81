------------------------------ MODULE Reviewer ------------------------------
(***************************************************************************)
(* agents/augury.py: the review itself.  It takes batches of modules from  *)
(* the Scheduler, reads the modules of a batch at once -- each is routed   *)
(* by triage, then put to its specialists at once -- and records the batch *)
(* when all of it is back.  Every await is a point where the coroutines of *)
(* the batch interleave; between awaits nothing else runs.                 *)
(*                                                                         *)
(* A finding is the construct it is about: what reconcile merges by is all *)
(* that is kept of it.  Money is in a unit in which a batch divides evenly *)
(* among its modules, so rounding to a micro-dollar is left out.           *)
(***************************************************************************)
EXTENDS Scheduler

CONSTANTS Layers,      \* LAYERS, the specialists
          Allowed,     \* per module, specialists_for(module.signals)
          Constructs,  \* the constructs of one module
          Calls,       \* what a call to a model may cost, however it ends
          Warm         \* what the memo directory may hold when a review starts

\* What a specialist says of a module.
Drafts == SUBSET Constructs

\* What the memo is keyed by: a specialist's prompt about a module.
Questions == {q \in Modules \X Layers : q[2] \in Allowed[q[1]]}

\* f, now with v at x.
With(f, x, v) == [y \in DOMAIN f \cup {x} |-> IF y = x THEN v ELSE f[y]]

\* Answers kept to some of them.  To recall, an entry that does not parse is
\* no entry; remember writes over it.
Answers == UNION {[known -> Drafts] : known \in SUBSET Questions}

ASSUME ReviewerAssumption ==
    /\ IsFiniteSet(Layers) /\ IsFiniteSet(Constructs)
    /\ Allowed \in [Modules -> SUBSET Layers]
    /\ \A m \in Signalled : Allowed[m] # {}
    /\ Calls \subseteq Nat
    /\ \A c \in Calls, k \in 1..Concurrency : c % k = 0
    /\ \A c \in Calls, m \in Modules : (1 + Cardinality(Allowed[m])) * c <= MaxCost
    /\ 0..MaxCost = Costs /\ 0..Cardinality(Constructs) \subseteq Findings
    /\ Warm \subseteq Answers

VARIABLES batch,      \* what next_batch returned, {} between batches
          before,     \* _spent() when the batch was sent out
          bill,       \* what the reviewing model and the router have cost
          stage,      \* where the coroutine of each module of the batch is
          asked,      \* the specialists of a module still to answer
          opinion,    \* what each specialist that answered said of a module
          drafts,     \* the findings of the recorded modules
          memo,       \* the memo directory
          research,   \* the batched registry lookup
          cancelled   \* the review's task was cancelled

reading == <<stage, asked, opinion, bill, memo>>
reviewing == <<batch, before, reading, drafts, research, cancelled>>
all == <<vars, reviewing>>

\* Slip: only the reviewing model is counted.
SpentByModel == bill.model

\* _spent: every model this run is using.
Spent == bill.model + bill.router

\* Slip: each module is charged for its whole batch.
WholeBatch == Spent - before

\* The batch's cost, apportioned.
Share == (Spent - before) \div Cardinality(batch)

\* gather_each returns when every module has a reading or an error.
AllBack == \A m \in batch : stage[m] = "back"

\* route: the names the model picked bound by what the signals allow.
Choice(m, picked) == Allowed[m] \cap picked

\* The specialists of m whose opinion was heard.
Heard(m) == DOMAIN opinion[m]

\* Slip: the findings of the first specialist stand for all of them.
ReconcileOne(m) ==
    IF Heard(m) = {} THEN {}
    ELSE opinion[m][CHOOSE l \in Heard(m) : TRUE]

\* reconcile over what the surviving specialists said: one per construct.
Reconcile(m) == UNION {opinion[m][l] : l \in Heard(m)}

ReviewInit ==
    /\ Init
    /\ batch = {} /\ before = 0
    /\ bill = [model |-> 0, router |-> 0]
    /\ stage = [m \in Modules |-> "unread"]
    /\ asked = [m \in Modules |-> {}]
    /\ opinion = [m \in Modules |-> <<>>]
    /\ drafts = {}
    /\ memo \in Warm
    /\ research \in {"running", "done"}   \* nothing imported, nothing to ask
    /\ cancelled = FALSE

-----------------------------------------------------------------------------
\* The scheduler chooses; reading has not begun.
Choose ==
    /\ ~cancelled
    /\ Ask \/ Exhaust \/ \E m \in Modules : Issue(m)
    /\ UNCHANGED reviewing

\* The batch is handed to gather_each, the bill noted first.
SendOut ==
    /\ ~cancelled /\ phase = "reading" /\ batch = {}
    /\ batch' = held
    /\ before' = Spent
    /\ stage' = [m \in Modules |-> IF m \in held THEN "sent" ELSE stage[m]]
    /\ UNCHANGED <<vars, asked, opinion, bill, memo, drafts, research, cancelled>>

\* What reading a module leaves alone.
Elsewhere == ~cancelled /\ UNCHANGED <<vars, batch, before, drafts, research, cancelled>>

\* _review_module up to its first await.  A file that is gone by now raises;
\* a single allowed specialist needs no routing.
Open(m) ==
    /\ Elsewhere
    /\ stage[m] = "sent"
    /\ \/ stage' = [stage EXCEPT ![m] = "back"] /\ UNCHANGED asked
       \/ IF Cardinality(Allowed[m]) = 1
          THEN /\ stage' = [stage EXCEPT ![m] = "asking"]
               /\ asked' = [asked EXCEPT ![m] = Allowed[m]]
          ELSE stage' = [stage EXCEPT ![m] = "routing"] /\ UNCHANGED asked
    /\ UNCHANGED <<opinion, bill, memo>>

\* Slip: a module put to nobody waits for its specialists.
RouteAlways(m, picked, c) ==
    /\ Elsewhere
    /\ stage[m] = "routing"
    /\ bill' = [bill EXCEPT !.router = @ + c]
    /\ asked' = [asked EXCEPT ![m] = Choice(m, picked)]
    /\ stage' = [stage EXCEPT ![m] = "asking"]
    /\ UNCHANGED <<opinion, memo>>

\* Triage answered, with names of which some may be of no layer offered; or
\* it failed.  Neither no name nor a failure is a reading.
Route(m, picked, c) ==
    /\ Elsewhere
    /\ stage[m] = "routing"
    /\ bill' = [bill EXCEPT !.router = @ + c]
    /\ asked' = [asked EXCEPT ![m] = Choice(m, picked)]
    /\ stage' = [stage EXCEPT ![m] = IF Choice(m, picked) = {} THEN "back" ELSE "asking"]
    /\ UNCHANGED <<opinion, memo>>

\* One specialist is done with m; the last to be done brings the module back.
Leaves(m, l) ==
    /\ stage[m] = "asking" /\ l \in asked[m]
    /\ asked' = [asked EXCEPT ![m] = @ \ {l}]
    /\ stage' = [stage EXCEPT ![m] = IF asked[m] = {l} THEN "back" ELSE "asking"]

\* recall, once the versions are known: the question was answered before.
Recall(m, l) ==
    /\ Elsewhere
    /\ research = "done"
    /\ Leaves(m, l)
    /\ <<m, l>> \in DOMAIN memo
    /\ opinion' = [opinion EXCEPT ![m] = With(@, l, memo[<<m, l>>])]
    /\ UNCHANGED <<bill, memo>>

\* The model answered; the write of remember may fail, and is let fail.
Answer(m, l, said, c) ==
    /\ Elsewhere
    /\ research = "done"
    /\ Leaves(m, l)
    /\ <<m, l>> \notin DOMAIN memo
    /\ opinion' = [opinion EXCEPT ![m] = With(@, l, said)]
    /\ bill' = [bill EXCEPT !.model = @ + c]
    /\ memo' \in {memo, With(memo, <<m, l>>, said)}

\* The call failed, having cost what it cost.
Fault(m, l, c) ==
    /\ Elsewhere
    /\ research = "done"
    /\ Leaves(m, l)
    /\ <<m, l>> \notin DOMAIN memo
    /\ bill' = [bill EXCEPT !.model = @ + c]
    /\ UNCHANGED <<opinion, memo>>

\* The registry lookup raised: it raises again in every specialist that
\* awaits it, before any call is made.
Blocked(m, l) ==
    /\ Elsewhere
    /\ research = "failed"
    /\ Leaves(m, l)
    /\ UNCHANGED <<opinion, bill, memo>>

\* facts_for_many ends on its thread, or an answer it did not expect escapes.
Learn ==
    /\ ~cancelled /\ research = "running"
    /\ research' \in {"done", "failed"}
    /\ UNCHANGED <<vars, batch, before, reading, drafts, cancelled>>

\* Slip: a module triage narrowed to nobody counts as read.
RecordTriaged(m) ==
    /\ ~cancelled /\ m \in batch /\ AllBack
    /\ RecordRead(m, Share, Cardinality(Reconcile(m)))
    /\ drafts' = drafts \cup ({m} \X Reconcile(m))
    /\ batch' = IF held = {m} THEN {} ELSE batch
    /\ UNCHANGED <<before, reading, research, cancelled>>

\* One turn of the loop over the batch's readings: the draft is kept, and the
\* module recorded at its share of what the batch cost.
Record(m) ==
    /\ ~cancelled /\ m \in batch /\ AllBack
    /\ IF Heard(m) # {}
       THEN RecordRead(m, Share, Cardinality(Reconcile(m)))
       ELSE RecordUnread(m, Share)
    /\ drafts' = drafts \cup ({m} \X Reconcile(m))
    /\ batch' = IF held = {m} THEN {} ELSE batch
    /\ UNCHANGED <<before, reading, research, cancelled>>

\* Ctrl-C, or a call that was cancelled under a specialist: gather_survivors
\* and gather_each raise it again, and the review ends without a report.
Cancel ==
    /\ ~cancelled /\ batch # {} /\ ~AllBack
    /\ cancelled' = TRUE
    /\ UNCHANGED <<vars, batch, before, reading, drafts, research>>

Specialist(m, l) ==
    \/ Recall(m, l)
    \/ \E said \in Drafts, c \in Calls : Answer(m, l, said, c)
    \/ \E c \in Calls : Fault(m, l, c)
    \/ Blocked(m, l)

Work ==
    \/ Choose \/ SendOut \/ Learn
    \/ \E m \in batch :
          \/ Open(m) \/ Record(m)
          \/ \E picked \in SUBSET Layers, c \in Calls : Route(m, picked, c)
          \/ \E l \in asked[m] : Specialist(m, l)

\* A model's call ends (Provider), the lookup has a timeout and so ends, and
\* the loop runs what is ready.  Nobody need cancel.
ReviewSpec == ReviewInit /\ [][Work \/ Cancel]_all /\ WF_all(Work)

-----------------------------------------------------------------------------
ReviewTypeOK ==
    /\ TypeOK
    /\ batch \subseteq Modules /\ before \in Nat
    /\ bill \in [model : Nat, router : Nat]
    /\ stage \in [Modules -> {"unread", "sent", "routing", "asking", "back"}]
    /\ \A m \in Modules : asked[m] \subseteq Allowed[m] /\ Heard(m) \subseteq Allowed[m]
    /\ \A m \in Modules : opinion[m] \in [Heard(m) -> Drafts]
    /\ drafts \subseteq Modules \X Constructs
    /\ memo \in Answers
    /\ research \in {"running", "done", "failed"}
    /\ cancelled \in BOOLEAN

\* Safety.  A module counts as analysed only if some specialist's opinion of
\* it was heard, and as failed only if none was: whatever failed on the way,
\* an unread module never looks like a clean one, nor a read one unread.
AnalysedWasHeard ==
    /\ \A m \in analysed : Heard(m) # {}
    /\ \A m \in failed : Heard(m) = {}

\* Safety.  Every construct a surviving specialist raised about a recorded
\* module is among the findings, whatever happened to the specialists and the
\* modules beside it, and nothing else is.
NothingHeardIsLost ==
    drafts = {f \in (analysed \cup failed) \X Constructs :
                 \E l \in Heard(f[1]) : f[2] \in opinion[f[1]][l]}

\* Safety.  Between batches the scheduler has charged exactly what the models
\* have billed: for routing, for calls that failed and for modules nobody
\* could read, however the calls of a batch overlapped.
LedgerIsBill == held = {} => spent = bill.model + bill.router

\* Refinement.  To the scheduler a review is a caller that records every module
\* it was given, once, at a cost its constants allow: what the Scheduler
\* promises, it promises to this caller.
ImplementsScheduler == Init /\ [][Next]_vars

\* Liveness.  A review that is not cancelled comes to its end.
EveryReviewEnds == <>(phase = "ended" \/ cancelled)
=============================================================================

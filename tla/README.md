# Augury-Ai in TLA+

Models of Augury, a program that reviews a repository with a language model under
a spending ceiling: its concurrent and stateful parts, and the passes that turn
code and answers into a report. Each module is translated from the source under
`src/`; TLC checks it on small instances, and TLAPS proves most of the safety
properties for every value of the constants.
`PROJECT.json` lists components, runs, mutants, findings, hazards and theorems,
and maps every definition to the lines it models.

## The system

A review goes through five stages: survey the deployment, map the code, read
the migrations, ask specialists, write the report. Three front ends start one:
the command line (`cli/main.py`), a web server with a browser interface
(`server/`, `web/`) and an MCP server (`mcp/server.py`). Everything that waits
runs in one asyncio loop, so a step of a coroutine runs from one `await` to the
next undisturbed; that is what an action of these models is.

| Part | State it keeps | Operations | Correct when |
|---|---|---|---|
| `server/live.py` Watchers | a bounded queue per viewer, the last 400 steps | subscribe, unsubscribe, publish | a viewer gets an unbroken run of the newest steps, in order; publishing never waits |
| `server/app.py` runs | per run: task, report, failure text | review, events, report, document | whoever watches learns the end; what is said to be there is there; no queue outlives its viewer |
| `web/src/lib/useRun.ts` | an EventSource, the folded state of a run, its last 400 steps | review, onmessage, onerror, fold | the screen agrees with the steps received |
| `core/scheduling/scheduler.py` | money charged, modules out, analysed, failed, measured costs | next_batch, record, coverage | the ceiling is overrun by one batch at most; coverage claims nothing nobody read; the review ends |
| `agents/augury.py` | drafts, the research task | review, _review_module, _ask | one failing specialist costs its opinion only; every module has one outcome |
| `agents/triage.py`, `core/layers.py` | none | route, specialists_for | only allowed specialists are asked |
| `core/adapters/provider.py` | cumulative usage, retries, rate limits, the last bill | call | bounded requests; a rate limit is a wait; totals are what was billed |
| `core/adapters/cassette.py` | recordings on disk, a lock per question, the usage of a process | call | one question has one answer and one live call in a process; a crash leaves no half recording; the usage is what was spent |
| `core/memo.py` | an answer per prompt on disk | recall, remember | never used while recording or replaying; a half entry is a miss |
| `core/journal.py` | an append-only file of run events | begin, finish, history | a run that dies costs its own line and nothing else |
| `core/settings.py` | none | load_settings | a key given for a run is the key it has; an unknown model is refused |
| `core/trajectory.py` | an append-only log | record, record_call | redacts, then writes one line per step |
| `core/reference/` registry, staleness | facts per package | facts_for, facts_for_many, dependency_audit | asked once; a failure is an unknown, not a clean bill |
| `core/cartography/` | none (a map is computed) | map | depth and fan-in agree with the import graph |
| `core/survey/`, `core/schema/`, `core/artifacts/` | none | survey, read, check | a finding is what the files declare, and its advice would help |
| `core/` drafts, findings, repetition, priority, reachability, indexes, coverage, forecast | none | passes over a report | nothing said is lost between findings and dropped; severity is earned; a row counts what was read |
| `agents/synthesis.py`, `core/architecture.py` | none | observe, draw | a reference resolves to what was found |
| `core/proving/`, `evaluation/prover.py` | a child process | prove_finding, prove | a killed or silent experiment is never graded |
| `evaluation/`, `core/scoring.py` | scores per arm | evaluate, reconcile, summarise, compare | a measurement grades the claims about its file; repeats are pooled only when independent |
| `mcp/server.py` | none | handle | one response per request, none per notification |

How they interact: a front end maps the repository and builds a reviewer over a
model. The reviewer's loop asks the scheduler for a batch, reads its modules at
once, and records each result. A module's reading is a call to triage and a call
per specialist, each through the memo, then the model: an adapter, or a cassette
around an adapter. Every step of the reviewer goes to a trajectory; the server's
trajectory also publishes it to the run's watchers, each of which is drained by
the generator of one event stream, and folded by the page into what is shown. The
audit of dependencies runs on a worker thread with a pool of its own, and says its
steps through the loop's callbacks. The command line writes the journal before and
after a review, and may put findings to an experiment in a child process between.

Hard behaviours: many calls share one adapter and one cassette over their
awaits; queues overflow while they are read; the end of a run races timeouts,
disconnections and late viewers; modules are handed out on estimates and paid
for later; a process may die inside a write, and another finds what it left; runs
of several models share a directory of answers; steps said from other threads
arrive behind those of the coroutine; an experiment may never exit; and each pass
over a report takes findings away on what the passes before left.

## Modules

| Module | Models | Kind |
|---|---|---|
| `Feed` | what the broadcast promises: one sequence of steps, a cursor per viewer | abstract specification |
| `Watchers` | `server/live.py`, queues and memory | implements `Feed` |
| `RunStream` | the run, its endpoints, `_stream` and the EventSource; EXTENDS `Watchers` | composition |
| `Scheduler` | `scheduler.py` and the batch loop of `augury.py` | component |
| `Reviewer` | `augury.py`, `triage.py` and the memo's use: a batch read at once; EXTENDS `Scheduler` | composition; implements `Scheduler` |
| `Provider` | `provider.py`, concurrent calls on one adapter | component |
| `Cassette` | `cassette.py`, concurrent callers, crashes | component |
| `Journal` | `journal.py`, concurrent runs, crashes, disk errors | component |
| `Settings`, `Memo`, `Proving` | settings, the memo's files, where an experiment runs and what its end is worth | parts of `Command` |
| `Command` | `augury report`, from the environment to the history, as processes over one directory | composition |
| `Findings`, `Passes` | drafts, reconciliation, metric values; cap, withdrawal, collapse, ranking, coverage rows | algorithms, used by `Arm` and `Pipeline` |
| `Scoring` | score, summary of repeats, significance | algorithms, used by `Arm` |
| `Arm` | `augury evaluate`: arms, repeats, cases, experiments | component |
| `Cartographer`, `Survey`, `Schema`, `Reference`, `Artifacts` | the map, the deployment, migrations, dependencies, configuration files | algorithms, used by `Pipeline` |
| `Forecast`, `Architecture` | the capacities findings weigh on, synthesis' references; the diagram | algorithms, used by `Pipeline` |
| `Pipeline` | `_review` of the server from survey to report, with the worker thread and its pool, and the page's `fold` | composition |
| `Basics` | the sum of a function over a set and what a list is, used by `Scheduler`, `Provider`, `Scoring` and `Pipeline` | definition |
| `*_proofs` | theorems about the module of that name; `RunStream_proofs` those about `Watchers` too, `Stores_proofs` those about `Cassette` and `Journal`, `Reviewer_proofs` those about `Scheduler`; `Basics_proofs` lemmas about sums, lists and induction | proofs |
| `MC*` | constants for TLC | instances |

**Watchers.** `soFar` is `_so_far`, `queue` the asyncio queues, `attached` the
list `_queues`; steps are their numbers. `Subscribe`, `Unsubscribe` and `Publish`
are the methods, each atomic for it never awaits; `Take` is the generator's
`queue.get()`. `heard` is history.

**RunStream.** `outcome`, `report`, `failed` are the fields of `Run` and the end
of its task. A generator's place is `stream`: `ready` at the top of its loop,
`waiting` in `wait_for`, `sending` at the yield of a step, `idle` at the yield of
a keepalive. `client` is the EventSource. Failures carry a text that may be
empty, which is what `str(error)` gives for some exceptions. A run publishes
numbered steps, the last being the terminal one.

**Scheduler.** One turn of the loop in `next_batch` is one action (`Issue` or
`Exhaust`) between `Ask` and the reading; nothing else may run in the phase
`choosing`. `RecordRead` and `RecordUnread` are the two outcomes of `record`.
Money is an integer as in the code; a module's static value is a constant and
the neighbour factor is doubled to stay integral. The `calls_per_module` factor
cancels between estimate and measurement and is folded into the constants. What
a module costs is open, which covers the equal division of a batch's cost.

**Reviewer.** A coroutine of the batch is at a `stage`: `sent` to the gather,
`routing` in triage, `asking` its specialists, `back`. `asked` are the
specialists still to answer, `opinion` what those heard said: a specialist that
failed leaves none. An action is the stretch that ends in a result: `Route` the
end of triage (a failure and an empty answer come to the same), `Recall`,
`Answer`, `Fault` and `Blocked` the ways `_ask` can end, `Record` one turn of the
loop over the batch's readings. Reading from the memo and calling a model are one action, for
no other coroutine has the same question. A finding is its construct, all
`reconcile` merges by. Money is in a unit that a batch divides evenly, so the
rounding to a micro-dollar in `record` is left out, and with it the reads too
cheap to be charged. A memo entry that does not parse is no entry.

**Provider.** `Start`, `Accept`, `Reject`, `Refuse`, `Wake` and `Cancel` are the
stretches of `call` between two awaits, `_attempt` and `_wait_out` inlined.
`billed` is the adapter's `_billed`, shared by all calls. Reasons of failure are
kept as far as the code tells them apart: cut off, invalid, misread (an invalid
answer whose error mentions a rate limit), rate limited, other error.

**Cassette.** A key stands for the hash of model, prompt and schema. `Call` is
the code up to its first await, `Acquire` the second look under the lock,
`Answer` and `Write` the two halves after the live call with a crash possible
between; `Restart` is a new process over the same directory, after the one before
it. Processes that record at once are in `Command`.

**Journal.** The file is a sequence of records, newlines and torn records. `Look`
is `_ends_mid_line`, `Flush`, `Lose` and `Die` the ways a flush can end; a run
is `Blind` when the file changed after it looked, or it could not look.

**Command.** A process goes through the stages of `report`: `new`, `begin`,
`review`, `settle`, `write`, `finish`. `Start` applies flags, environment and .env
as `Settings` says. A run reviews the files
that --scope leaves it. A question is a file put to a model, and has a place in the memo
and another among the recordings; in `review` it goes to the memo, the recordings
and the provider in turn. `Ask` is the look at the disk and the answer, `Remember`
one call of the file system at a time, of the memo or of a recording: two processes
may both look before either has kept what it was told, for the lock of a cassette is
its process's own. A file is an inode, named after the process that created it, and
two processes that keep one answer write one temporary; one that finds it moved away
has an OSError, which costs a recording run its question (`Unkept`). `contested`
and `overlapped` are history: what two processes asked, or wrote, at once. `usage`
is what the process's model says was spent: of a run that records it is
`CassetteModel`'s, which never adds a call that raised, and `unseen` is the part of
the bill it misses. In `settle` the findings are put to experiments one after the
other: `Generate` is the paid call, `Measure` and `Deadline` the two ways a child
ends, and `how` says of each finding which it was. `Die` may come between any two
steps, and what a process had open is closed as it stands.

**Arm.** The loops of `evaluate` over arms, repeats and cases, one turn an action.
An answer is the drafts of each module, reconciled with one another there, and all
together under the baseline's one prompt; a sentence is a model value with the few
facts the passes read of it (its shape with specifics removed, its length, the
column it names). Severities are 0, 1, 2, a rate is its two counts. A repeat may
answer anything in every mode: one that records or replays answers what is on the
cassette alike, but a question that failed, or whose prompt the registry changed, is
asked anew, and nothing that is concluded rests on repeats being alike. A name too
long for a finding is cut to one that fits when a merge credits it, and refused when
it stands alone. `Passes` and `Findings` are the functions of their
files, in the order the end of `AuguryReviewer.review` applies them.

**Pipeline.** `at` is the line of the coroutine; `handed` the loop's queue of
callbacks, which the worker thread fills and `Deliver` empties; `asking` the
packages the pool has out. The modules are read at once by coroutines that end in
any order (`Scheduler` says which are chosen and `Reviewer` what a batch costs, and
neither is repeated here). `screen` is the state `fold` keeps for a viewer who was
there from the start: stages, files, findings, and the last `Window` steps (400 in
the code), of which the telemetry's lookups are read. The passes over the tree, the compose file, the migrations
and the requirements are computed where the code computes them, by the modules
named above, over parsed files: what a parser finds is given.

## Runs

| Run | Instance | Properties | Shows |
|---|---|---|---|
| `runstream` | 2 viewers, queues of 2, memory of 3, 5 steps | NoLeakedQueue, CompletedIsServed, ImplementsFeed, LateViewerSettles, EveryStreamCloses | overflow drops the oldest only and nothing comes twice or backwards; every way a stream ends releases its queue; completion is said after the report is there |
| `scheduler` | 7 modules, ceiling 7, costs 0, 1 or 3, batches of 3, probes of 2 until 2 reads have cost something | SpentIsAccounted, OneBatchOver, ProbeFirst, CoverageBetweenBatches | money, batches and coverage agree at every step |
| `reviewer` | 3 modules, 2 at once, 3 specialists of which 2 are allowed, calls of 0 or 2, 3 memos | AnalysedWasHeard, NothingHeardIsLost, LedgerIsBill, ImplementsScheduler, EveryReviewEnds | no mix of failures makes an unread module look clean, loses a finding or spends unseen money; the scheduler's promises hold of its caller |
| `provider` | 2 calls, 3 attempts, 1 wait, headroom 6 over 2 | TotalsAgree, EveryCallEnds | no mix of failures breaks the totals or leaves a call waiting |
| `cassette` | 3 callers, 2 questions, 2 answers, 2 processes | OneAnswer, OneLiveCall, EveryCallerEnds | racing callers and crashes agree on one answer |
| `journal` | 3 runs, 2 at once | NothingElseLost, CostsItsOwnLine | torn appends cost themselves |
| `arm` | 2 arms, 1 case; one repeat of every answer of up to 3 drafts, or 2 repeats of few answers | NothingVanishes, SeverityIsEarned, NeverEasier, GradedWhereMeasured, SummaryIsHonest, VerdictIsFair | what is said survives the passes or is listed; claims never get easier; conclusions rest on measurements |
| `command` | 2 processes, 2 models; 5 setups over one file: live, recording, replaying, a provider from .env with a key from a flag, no key; for one process also 2 files, live, no memo, 1 experiment; no recordings or memo before the first run | NoFalseCredit, RecordingsDecide, TornOnlyByOverlap, PaidIsPublished, SettlingKeepsFindings, EveryCommandEnds | runs that share a directory keep their answers and costs apart, wherever they overlap or are killed; findings keep their order, the first predictions are tested until the budget runs out, what was killed is not graded |
| `pipeline` | a page of 10 steps; 4 repositories: a shop of 6 files in 2 folders, a worker with every kind of configuration file, an empty scope, an import from outside | LookupsPair, LayersAreHops, CoverageIsBounded, AnnouncedIsReported, WorkersAdviceFits, StagesAdvance, ReviewSettles | what is on screen is what was done, in order, to an end |
| `stream_cut_off` | 1 viewer, queues of 2, memory of 1, 3 steps | WatchedToTheEnd, violated | finding 1 |
| `provider_own_cost` | as `provider` | ChargedItsOwn, violated | finding 2 |
| `coverage_overstated` | as `pipeline` | ReviewedWasRead, violated | finding 3 |

**Why the bounds are enough.** Queues of two and a memory of three overflow
within five steps in `runstream`, and a late viewer is given less than is
remembered; in `stream_cut_off` the memory is shorter than a queue, as 400 is
shorter than 512.
Seven modules give probe batches, as many as free reads delay the measured rate,
the switch to it and a full batch; the ceiling is reached in some behaviours and
not in others, and a cost of 3 is above every floor, so a batch overspends. In
`reviewer` two modules and three specialists' calls overlap, a module is routed
while another is not, and a second batch follows on what the first cost. Two calls
are enough for one to read what the other wrote to the shared bill; three attempts
and headroom of three times the budget let the ceiling double, then stop at the
headroom. Two callers of one question race, a third works beside them, and the
second process finds recordings of the first. With three runs, two race on one
line and the third finds what they left. In `arm`, up to three specialists speak
of one construct with comparators of every direction and bands given either way
round, three files say one thing, which is where a collapse begins, and modules
are at the entrypoint, one hop away, four hops away, unreachable and unknown to
the map, with a fan-in of two and of none. Two files' questions in `command` lie in
places of their own, so what two processes can do to each other they do over one
file, where each may be any setup. What relates files is the order of two findings
and a budget that runs out part way: that is one process over two files with one
experiment, where none, either or both of the findings carry a prediction, the first
may be skipped for want of one and the second tested, the second may find the budget
spent, and an experiment is refused, raises, ends, prints numbers or hangs. Any
number of each is the theorem's, `NoFindingIsLost`. In `pipeline`, the shop pins one package in two folders, so the second
audit finds it cached; two modules and two specialists answer in any order with a
failure anywhere; the page keeps 10 steps, so that while lookups must be right on
screen it holds all of them, has cut a question and not its answer, has cut both, or
none at all; a query is withdrawn for an index a migration makes; a service
overruns its database and another fits.

**Deadlock.** Every review, call or run ends, so the runs say
`CHECK_DEADLOCK FALSE` where the end is a state without a successor. What must
not stop too early is a liveness property.

**Fairness.** `RunStream`: the loop runs every ready coroutine, timers fire,
sends to a reader return, and the review ends, for each of its stages is bounded; so
weak fairness per generator step and on the review's end. Nobody is obliged to
open a stream, hang up or cancel. `Reviewer`: weak fairness of its `Work`, since a
call ends (as `Provider` shows) and the registry lookup has a timeout;
cancelling is not fair. `Provider`: a request is answered or raises
(the client has a timeout) and a sleep ends: weak fairness per call. `Cassette`:
weak fairness per caller; `Restart` is not fair and is bounded. `Command`: weak
fairness per process, of its own steps and the deadline of its experiment; an
experiment need not end, and nothing is obliged to die. `Pipeline`: weak fairness
of its next-state relation, for every call of a thread or of a model comes back, if
only by its timeout, and the loop runs what is ready. No strong fairness is used.
`Scheduler`, `Journal` and `Arm` have no liveness property of their own.

Type invariants are not among the runs' properties: those of `Watchers`,
`RunStream`, `Scheduler`, `Reviewer`, `Provider`, `Cassette`, `Journal` and
`Command` are theorems.

## Findings

1. A viewer can be cut off before the terminal step: after a keepalive,
   `_stream` leaves as soon as the task is done and does not drain its queue.
2. A call whose request is refused is charged what a call beside it was billed.
3. The coverage document says "Occurrences a specialist for this layer read" and
   counts those whose specialist for that layer failed, when another answered.

Stated in the models, and not checked by a run, for the trace is a step or two
and the lines are plain once side by side:

- `RunStream.FailureIsAnswered`: a review that fails with an empty message answers
  409 "still running" for ever (`server/app.py:536`).
- `RunStream.Reconnects`: the page closes its EventSource on the first error
  (`useRun.ts:127`); the endpoint expects it to reconnect (`app.py:507`).
- `Cassette.ReplayIsFree`: a replayed call can report another's cost
  (`cassette.py:127`).
- `Command.UsageIsSpend`: the usage of a recording run is to be "Spend incurred in
  this process" (`cassette.py:115`) and leaves out live calls that were billed and
  raised (`cassette.py:156`), so its report, its line in the history and the cost of
  its experiments (`cli/main.py:595`) miss them; `PaidIsPublished` says it is no more.
- `Command.NoHalfFile`: two runs that overlap can leave half an entry
  (`memo.py:80`); `recall` takes it for none.
- `Command.FlagKeyIsUsed`: a key given as a flag goes to the provider configured
  before .env is read, and the run may use another (`cli/main.py:487`).
- `Command.SpentIsRemembered`: an interrupted run is remembered at no cost
  (`journal.py:60`).
- `Arm.OneObservationEach`: a finding whose claim is refused and which is then
  withdrawn is listed as dropped twice and costs its arm two observations
  (`core/scoring.py:93`).
- `Arm.CoincidenceNeverMerges`: a mechanism too short to compare is long enough
  once the cap has written its note behind it, so findings with nothing in common
  but the note are collapsed (`core/repetition.py:58`).

Seen by reading, with no property:

- a specifier that climbs out of the tree makes `_resolve_beside` raise and ends
  the map (`Cartographer.Escapes`, `Maps`; a repository of `pipeline` has one);
- `Surveyor`'s app flag is a boolean that swallows the next positional word;
- `MIGRATION_DIRS` holds a directory and its parent, so `migrations/versions` is
  read twice;
- the page's findings are keyed by path, line and symbol, so all unpinned
  dependencies but the first are hidden; a finding's "flagged" file is
  overwritten by a later "reading"; spans of remembered and of failed specialists
  never close;
- the registry prefetches by distribution and looks up by import name; one
  dependency pinned in two folders is searched for twice; the server ignores
  `Audit.unreachable`;
- the lockfile rule and the inventory's summary disagree above 25 lockfiles,
  though `_manifest` says they cannot; a CircleCI workflow is reported as not
  gating; the pool advice does not fit when the overflow alone is over budget, and
  a service that declares no overflow or no replicas is counted as 0 and 1 though
  the docstring says every factor must be declared;
- a finding of several merged layers is in no row of the coverage and on no
  capacity of the forecast;
- `synthesis.resolve` builds citations outside its `try`;
- services that share a dotted name collide in the mapper's index;
- `_touches` takes "src/application" for a part of "src/app", and edges are drawn
  from a service to the four shallowest groups without an import;
- the server keeps the memo on while recording and has no experiments;
- `--budget 0` is five dollars, not the "no ceiling" of its help text;
- a container may outlive the client of a compose experiment that was killed.

## Proofs

Every theorem holds for all values of the constants under the named assumptions
of its module: sizes are natural numbers, positive where the code makes them so,
costs are bounded by `MaxCost` where a bound is stated, and marks are distinct from
data. The configured output budget may be above the provider's headroom, for
`AUGURY_MAX_TOKENS` is only checked to be positive (`core/settings.py:255`).
`Command` assumes besides that a report is of finitely many files, of which each run
reviews some, that the number
of experiments asked for is a natural number, and that a recording shipped with the
repository was made with the model it is filed under, as what is left in its memo was. `Pipeline` assumes what its
inputs are in the code: lists are lists, a base is there (`server/app.py:635` falls
back to the root), a tree has finitely many files, a module is named after its path,
sort keys tell their modules apart, and the factors of a service are the integers `_integer` returns, its
workers read of digits; a database that allows less than it reserves for superusers
does not start. `Arm` assumes what the answer's schema lets through (a severity of three, one
claim at most, of numbers), that names have places in one order, that depths and
fan-ins are counts, and that there are finitely many experiments and defects of a case, a case,
and a repeat; of what a model says, how often it fails and what an experiment prints
nothing is assumed. TLC evaluates each assumption on the instance of a run.

How induction is done. The induction theorems of the library take the formula as
an operator, which no prover here can instantiate. `Basics_proofs` derives instead,
from the well-foundedness of `<` and of strict inclusion, that a set of naturals
has a least member, that a set which holds 0 and every successor holds all
naturals, and the like for the subsets of a finite set; a proof by induction
defines the set of the numbers a formula holds of. A fold of the community modules
is a `CHOOSE` over a recursive function: such a function is shown to exist by the
same means, then unfolded. That gives the lemmas about `Sum`, about the steps a
list of events takes on screen, and about lists put one behind the other.
The prover sees no definition of `SelectSeq`, `SortSeq` and `@@`, so the passes
sort and select with `Sorted` and `Kept`, which count.

- `RunStream_proofs`, of `Watchers`: the invariant adds to the type invariant that
  memory and every queue hold consecutive step numbers ending at `said`. It is
  inductive, for `Newest` and `Offer` keep a suffix. Refinement maps a viewer's
  cursor to `said - Len(queue)`, and each action to its namesake of `Feed`. Of
  `RunStream`: every step of a run is a step of `Watchers` or leaves its variables
  alone, so what is proved there, the refinement of `Feed` included, holds of a
  run. The invariant ties the queues to the generators that live, and the report to
  the outcome.
- `Reviewer_proofs`, of `Scheduler`: `OneBatchOver` is not inductive. The invariant
  bounds what is charged by what was charged when the batch began, plus the number
  of modules out times the dearest, and ties `room`, the modules out and those
  `back` to one batch; `ProbeFirst` needs that the batch's size was chosen before
  any of it returned, `CoverageBetweenBatches` that the fates partition what was
  handed out, and `SpentIsAccounted` that one summand changes at a time.
- `Reviewer_proofs`, of `Reviewer`: nothing more is heard of a module once it is
  recorded, for its coroutine is back and no module is issued twice; so what was
  true of its opinions when it was recorded stays true. For the money, the
  invariant says that what was recorded before the batch is what had been billed
  when it began, that the bill since is a multiple of every batch size, and that
  it is at most the sum of what each coroutine may have spent by now: one routing
  and the specialists it has heard from, at the dearest. So the even share of a
  batch is a cost `Scheduler` allows, and the shares add up. With that every step of
  a review is a step of `Scheduler`, or none, and `OneBatchOver` holds of a review
  with all its failures. `EveryStepProgresses` is proved with a variant,
  `StepsLeft`, which no run checks: a module can be chosen, sent, routed, asked
  about by each specialist and recorded once, and what recording it gives up pays
  for asking for the next batch; a coroutine's module is still out, as the invariant
  knows. So a review takes at most `|Modules| * (|Layers| + 7) + 4` steps
  (`StepsAreBounded`), whatever fails; that it does not stop before its end is
  `EveryReviewEnds`, which TLC checks.
- `Provider_proofs`: the invariant counts requests: attempts plus waits, plus one while
  a request is out. `TotalsAgree` is a sum over the calls, of which a step changes
  one summand. `RoomGrows`: the room a call asks for shrinks only from a configured
  budget above the headroom to the headroom.
- `Stores_proofs`: for `Cassette` the invariant ties lock, state and recording: a question
  with an absent recording has no answer yet, one that is being asked or
  written is absent on disk and locked by that caller, and every answer given equals the
  recording.
  For `Journal`, every saved record lies at a position between two line ends;
  appending moves nothing. `CostsItsOwnLine` follows from what a flush starts with.
- `Command_proofs`: a step of one process leaves what the others hold in memory
  alone, so each part of the invariant is proved of the process that steps.
  `NoFalseCredit` needs that whatever lies on disk under a model, torn or not yet
  moved, came from it. `TornOnlyByOverlap` needs who writes (`OneWriter`): no file is
  named after a process that has yet to create it, and where no two processes wrote
  an answer at once, one at most writes it, to a file that is not the one in place,
  and moves it only when it is whole. `RecordingsDecide` needs who asks (`OneAsker`):
  of a recording no two processes asked for at once, one at most is about to keep an
  answer, and where it does there is none yet, so what it keeps is what it said, and
  what was kept is found by whoever asks later; what was written at once was asked
  for at once.
  `PaidIsPublished` carries usage and bill from stage to stage, apart by `unseen`.
  `SettlingKeepsFindings` needs where the loop over the experiments is (`Benches`):
  what is settled, then what waits, is the report; what was put to an experiment, what
  may still be and what is being put to one are as many as were asked for; and while
  one is left, no prediction was passed over.
- `Pipeline_proofs`: one inductive invariant, `IInv`, in parts. `Turning` and
  `Queued` say which audit the coroutine awaits and what its thread may have put
  into the loop's queue: questions, then answers, then the one that wakes it, so
  nothing of an audit is delivered after the review has gone on. `Routing` and
  `Counting` tie what was routed, heard and read to the rows. `Charted` and
  `Hearing` say the map is the mapper's and what is heard a specialist's answer,
  whence the findings are a list. `Staged` bounds the stages shown as done by the
  line the coroutine is at, `Announcing` ties the findings on screen to those of the
  checks and the report, and `Agreeing` says of each package what the page shows of
  it: nothing, while no audit has come to it or its question is in the loop's queue; a
  question, while its answer is; then both in this order, of which the page's cut may
  have taken the question, or both. A page is what it was, moved up by at most one
  line, and a new line (`Slid`). A lemma per action
  says what its steps show: those of the stage it is in, no others.
  `WorkersAdviceFits` is arithmetic about one service.
  `LayersAreHops` has two halves. `DepthsAreHops` is of the mapper alone: after k
  levels the modules with a depth are those a walk of at most k imports leads to,
  each at the length of the shortest, and the frontier is the last of them
  (`Levels`); a level is run for each module there is, and that is enough, for a
  shortest walk meets no module twice (`WalksAreShort`, an injection into the
  modules). `Layering` carries the depths to the screen: before the map nothing is
  drawn, while the packages are looked up what is drawn is the map's. Two modules of
  one name would be drawn as one, hence the assumption on names.

- `Arm_proofs` goes from the operators to the loops. Each pass is given what it
  promises and no more: `Accounts` (what is reconciled is made of drafts of one
  construct, and every draft went into something made), `MadeOf` (the draft made is
  as severe as each, and its claim is one of theirs and no easier), `Becomes` (a
  finding keeps construct and claim of its draft), and `Reported`, which every pass
  after the first preserves: a draft has a finding as severe as it or at its ceiling,
  or is listed as refused or withdrawn, or is listed as collapsed beside a finding
  that stands for it. So collapsing must be shown to keep the worst of its group, and
  ranking, which sorts, to lose nobody: `Basics_proofs` shows that what has each
  member where that many others are before it has all of them. The invariant of the
  loops says then where they are (`Placed`), that the report is the answer's whatever
  was measured of it (`Faithful`), that a measurement is the case's experiment for
  that metric (`Graded`), and what the scores so far come to (`Tallied`): at most one
  experiment per script, case and repeat, and of the first repeat as many as there are
  scripts, which is what is pooled of a recording.
  `VerdictIsFair` is about both arms at once, and needs more of each. `Recounted`
  says that every repeat that is over has met every defect of every case, so the
  recalls of the two arms are fractions of one number and compare by what was found.
  Then a verdict is the opposite of the verdict the other way round because no list
  lies above another and below it. For Fisher's test (`FisherIsFair`) that a
  probability is at most one is Vandermonde's identity, proved from Pascal's rule by
  induction on the size of one arm; the tables of one order are those of the other
  with the arms exchanged, and a sum is the same re-indexed by a bijection
  (`SumRenamed`). For the permutation test (`PermutationIsFair`) the bijection
  sends a relabelling to its complement, moved to where the lists lie when
  concatenated the other way round. `VerdictIsFair` says this of the test that
  enumerates: beyond `MaxExactSample` repeats the code shuffles the pooled
  recalls a fixed number of times, and which shuffles those are depends on their order.

Every safety and action property of the passing runs is stated by a theorem. Only
model-checked is liveness, which is beyond the prover: `LateViewerSettles`,
`EveryStreamCloses`, `EveryReviewEnds`, `EveryCallEnds`, `EveryCallerEnds`,
`EveryCommandEnds` and `ReviewSettles`.

## Not modelled

Parsing of languages, compose files, migrations and requirements: what they hold is
given to the passes. Text: prompts, the wording of findings and reports, the
journal's lines, redaction. Tables of prices, event names, layers' prompts. HTTP
and JSON-RPC framing, the MCP server, rendering, dialogs that pick a directory,
docker itself, and the trajectory's file. Names
are model values: a symbol or path too long for a `Dropped`, whose claim is refused,
makes `to_report` raise (`core/drafts.py:94`), and that is left out. Within the passes: the comparison of
version strings (how many majors lie between two is given), the permutation test's
enumeration order and, beyond ten repeats, its sampling (the model enumerates), the
tolerances that keep floating point from excluding what was observed (the model
computes with fractions), and rounding of money in the report. `PROJECT.json` gives the
reason for each part; hazards without a property carry a note.

The schedules of `Scheduler`, `Reviewer` and `Pipeline` are composed one on the
other (`Reviewer` implements `Scheduler`) or abstracted: `Pipeline` reads any set of
modules at once, which every schedule refines, and leaves out money. The callers of
one process, its crashes and the processes after it are `Cassette`'s; processes that
look, ask and write at once are `Command`'s, where a process asks one question at a
time.

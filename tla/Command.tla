------------------------------ MODULE Command ------------------------------
(***************************************************************************)
(* cli/main.py: `augury report`, from the environment to the line in the   *)
(* run history, as processes that share one repository's memo, one set of  *)
(* recordings and one history.  A process may be killed between any two    *)
(* steps.  What a review does inside itself is Reviewer's; here it puts    *)
(* its questions to the memo, the recordings and the provider in turn.     *)
(***************************************************************************)
EXTENDS Settings, Memo, Proving

CONSTANTS Files,       \* a question per file
          By,          \* the model an answer came from
          Predicted,   \* the answers that carry a prediction
          Setups,      \* [run -> environments, .env files, flags and options it may be started with]:
                       \* its `files` are those --scope leaves to it
          Shipped,     \* what memo and recordings may hold before the first run
          Services, Scope

\* A question to a model has its place in the memo and another among the recordings.
ASSUME KeysAreQuestions == Keys = {"memo", "recording"} \X Models \X Files

Proofs == [value : {None, 2}, why : {"explained", "tail", "timed out"}]

\* A file, an answer, a proof, a number and the absence of one are told apart, a repository is
\* finite, --prove is a count, and an answer lies under the model that gave it.
ASSUME CommandAssumption ==
    /\ {NoFile, Earlier} \cap Procs = {} /\ NoFile # Earlier
    /\ {Half, None} \cap Answers = {} /\ None \notin Int \cup Files \cup Proofs
    /\ IsFiniteSet(Files)
    /\ \A p \in Procs : \A s \in Setups[p] : s.prove \in Nat /\ s.files \subseteq Files
    /\ \A s \in Shipped :
          /\ s \in [Keys -> Answers \cup {NoFile}]
          /\ \A k \in Keys : s[k] # NoFile => By[s[k]] = k[2]

VARIABLES pc,          \* per process: the stage of the command
          run,         \* its settings and options
          my,          \* the rest of its memory, which ends with it
          billed,      \* what the provider charged each process
          unseen,      \* history: the part of it no usage of the process shows
          begun,       \* the runs the history has a begin of
          finished,    \* and the cost in the finish of the others
          contested,   \* history: keys two processes asked for at once
          overlapped   \* history: and those they were writing at once

vars == <<pc, run, my, billed, unseen, begun, finished, contested, overlapped, memoVars>>

Alive == {"new", "begin", "review", "settle", "write", "finish"}
Ends == {"refused", "failed", "done", "dead"}

\* A finding that was settled; `how` is history: not put to an experiment, or put
\* to one that was refused or raised, that ended, or that was killed.
Entries == [file : Files, proof : {None} \cup Proofs,
            how : {"skipped", "refused", "ended", "killed"}]

Memory ==
    [answers : [Files -> Answers \cup {None}],
     todo : SUBSET Files,
     storing : {"no", "open", "fill", "move"} \X (Files \cup {None}),
     queue : Seq(Files),         \* the findings still to settle, a file each
     settled : Seq(Entries),
     left : Nat,                 \* the experiments that may still be asked for
     child : {"none", "local", "compose"},
     usage : Nat,                \* what its model says was spent
     before : Nat, usd : Nat]    \* the same before proving, and the report's cost

TypeOK ==
    /\ pc \in [Procs -> Alive \cup Ends]
    /\ \A p \in Procs : my[p] \in Memory
    /\ fd \in [Procs -> {Closed} \cup (Keys \X Procs)]
    /\ \A k \in Keys : entry[k] \in Inodes \cup {NoFile} /\ partial[k] \in Procs \cup {NoFile}

Idle == <<"no", None>>

Fresh == [answers |-> [f \in Files |-> None], todo |-> Files, storing |-> Idle,
          queue |-> <<>>, settled |-> <<>>, left |-> 0, child |-> "none",
          usage |-> 0, before |-> 0, usd |-> 0]

Init ==
    /\ \E left \in Shipped : MemoInit(left)
    /\ pc = [p \in Procs |-> "new"]
    /\ run = [p \in Procs |-> Refused]
    /\ my = [p \in Procs |-> Fresh]
    /\ billed = [p \in Procs |-> 0]
    /\ unseen = [p \in Procs |-> 0]
    /\ begun = {}
    /\ finished = [p \in Procs |-> None]
    /\ contested = {}
    /\ overlapped = {}

-----------------------------------------------------------------------------
Goto(p, at) == pc' = [pc EXCEPT ![p] = at]

\* What the usage of a process makes of a call.  The provider's counts every call
\* it is billed for; that of a run that records is CassetteModel's, which adds a
\* call once it has answered and never one that raised.
Seen(p, cost, raised) == IF run[p].record /\ raised THEN 0 ELSE cost

Bill(p, cost, raised) ==
    /\ billed' = [billed EXCEPT ![p] = @ + cost]
    /\ unseen' = [unseen EXCEPT ![p] = @ + (cost - Seen(p, cost, raised))]

\* The process is over: what it had open is closed as it stands.
Exit(p, how) ==
    /\ Goto(p, how)
    /\ run' = [run EXCEPT ![p] = Refused]
    /\ my' = [my EXCEPT ![p] = Fresh]
    /\ fd' = [fd EXCEPT ![p] = Closed]
    /\ UNCHANGED <<billed, unseen, begun, contested, overlapped, entry, partial, content>>

\* Slip: the key of an answer leaves the model out.
AnyModel(place, model, f) == <<place, DefaultModel, f>>

\* What the memo files an answer under, and a recording with it.
Key(place, model, f) == <<place, model, f>>
MemoPath(p, f) == Key("memo", run[p].model, f)
CassettePath(p, f) == Key("recording", run[p].model, f)

\* Where a process keeps its answers.
Of(p, f) == IF run[p].record THEN CassettePath(p, f) ELSE MemoPath(p, f)

MemoOn(p) == Enabled(run[p].cache, run[p].record, run[p].replay)
Cassettes(p) == run[p].record \/ run[p].replay

\* What a run keeps of its settings and options.
Options(s, settings) ==
    IF settings.ok
    THEN [ok |-> TRUE, model |-> settings.model, key |-> settings.key,
          record |-> settings.record, replay |-> settings.replay,
          cache |-> s.cache, files |-> s.files, prove |-> s.prove, flag |-> s.flags.key]
    ELSE Refused

\* report: settings from flags, environment and .env, or nothing at all.
Start(p) ==
    /\ pc[p] = "new"
    /\ \E s \in Setups[p] :
          LET settings == Load(Filled(Flagged(s.env, s.flags), s.dotenv))
          IN  /\ run' = [run EXCEPT ![p] = Options(s, settings)]
              /\ Goto(p, IF settings.ok THEN "begin" ELSE "refused")
    /\ UNCHANGED <<my, billed, unseen, begun, finished, contested, overlapped, memoVars>>

\* The run is written down before any specialist runs.  What becomes of an
\* append is Journal's.
Begin(p) ==
    /\ pc[p] = "begin"
    /\ begun' = begun \cup {p}
    /\ Goto(p, "review")
    /\ UNCHANGED <<run, my, billed, unseen, finished, contested, overlapped, memoVars>>

Asks(p, f) ==
    pc[p] = "review" /\ my[p].storing = Idle /\ f \in my[p].todo \cap run[p].files

\* A question the memo answers.
Recall(p, f) ==
    /\ Asks(p, f)
    /\ MemoOn(p) /\ Hit(MemoPath(p, f))
    /\ my' = [my EXCEPT ![p].answers[f] = Kept(MemoPath(p, f)), ![p].todo = @ \ {f}]
    /\ UNCHANGED <<pc, run, billed, unseen, begun, finished, contested, overlapped, memoVars>>

\* Another process has asked k and has yet to keep what it was told.
Busy(p, k) == \E q \in Procs \ {p} : my[q].storing # Idle /\ Of(q, my[q].storing[2]) = k

\* One it does not: a recording if there is one, the provider otherwise unless
\* the run is a replay; what the provider says is recorded or remembered.  A
\* recording that does not parse is an error, not a miss.  An answer that fails
\* costs its question.  The lock the recordings are looked at under is this
\* process's own: others may look before the answer is kept, and keep theirs.
Ask(p, f) ==
    LET tape == CassettePath(p, f)
        replayed == Cassettes(p) /\ Lies(tape)
        live == ~replayed /\ ~run[p].replay
        said == CASE replayed -> {IF Kept(tape) = Half THEN None ELSE Kept(tape)}
                  [] live -> {a \in Answers : By[a] = run[p].model} \cup {None}
                  [] OTHER -> {None}
        keeps(a) == live /\ a # None /\ (MemoOn(p) \/ run[p].record)
    IN  /\ Asks(p, f)
        /\ ~(MemoOn(p) /\ Hit(MemoPath(p, f)))
        /\ \E a \in said :
            \E cost \in IF live THEN (IF a = None THEN 0..1 ELSE {1}) ELSE {0} :
              /\ Bill(p, cost, a = None)
              /\ my' = [my EXCEPT ![p].answers[f] = a, ![p].todo = @ \ {f},
                           ![p].storing = IF keeps(a) THEN <<"open", f>> ELSE @,
                           ![p].usage = @ + Seen(p, cost, a = None)]
              /\ contested' = IF keeps(a) /\ Busy(p, Of(p, f)) THEN contested \cup {Of(p, f)}
                                                              ELSE contested
        /\ UNCHANGED <<pc, run, begun, finished, overlapped, memoVars>>

\* What could not be kept: the memo does without, a recording fails its question.
Unkept(m, f, record) ==
    [m EXCEPT !.storing = Idle, !.answers[f] = IF record THEN None ELSE @]

\* remember or _write, one call of the file system at a time.
Remember(p) ==
    LET step == my[p].storing[1]
        f == my[p].storing[2]
        k == Of(p, f)
        others == {q \in Procs \ {p} : my[q].storing[1] \in {"fill", "move"}
                                          /\ Of(q, my[q].storing[2]) = k}
        then(next) == my' = [my EXCEPT ![p].storing = next]
    IN  /\ \/ step = "open" /\ Open(p, k) /\ then(<<"fill", f>>)
           \/ step = "fill" /\ Fill(p, my[p].answers[f]) /\ then(<<"move", f>>)
           \/ step = "move" /\ Replace(p, k) /\ ~Gone(k) /\ then(Idle)
           \/ /\ step = "move" /\ Replace(p, k) /\ Gone(k)
              /\ my' = [my EXCEPT ![p] = Unkept(@, f, run[p].record)]
        /\ overlapped' = IF step = "open" /\ others # {} THEN overlapped \cup {k} ELSE overlapped
        /\ UNCHANGED <<pc, run, billed, unseen, begun, finished, contested>>

\* A disk that refuses: OSError.
CannotRemember(p) ==
    /\ my[p].storing # Idle
    /\ my' = [my EXCEPT ![p] = Unkept(@, my[p].storing[2], run[p].record)]
    /\ fd' = [fd EXCEPT ![p] = Closed]
    /\ UNCHANGED <<pc, run, billed, unseen, begun, finished, contested, overlapped,
                    entry, partial, content>>

\* What the provider's refusal ends: the run says so and writes nothing more.
ReviewFails(p) ==
    /\ pc[p] = "review" /\ my[p].storing = Idle
    /\ Exit(p, "failed")
    /\ UNCHANGED finished

Reported(p) == SetToSeq({f \in Files : my[p].answers[f] # None})

Reviewed(p) ==
    /\ pc[p] = "review" /\ my[p].storing = Idle /\ my[p].todo \cap run[p].files = {}
    /\ my' = [my EXCEPT ![p].queue = Reported(p), ![p].left = run[p].prove,
                        ![p].usd = my[p].usage, ![p].before = my[p].usage]
    /\ Goto(p, "settle")
    /\ UNCHANGED <<run, billed, unseen, begun, finished, contested, overlapped, memoVars>>

-----------------------------------------------------------------------------
\* Slip: what an experiment was run for is listed before what waits.
KeepTestedFirst(m, proof, how) ==
    LET item == [file |-> Head(m.queue), proof |-> proof, how |-> how]
    IN  [m EXCEPT !.queue = Tail(@), !.child = "none",
                  !.settled = IF how = "skipped" THEN Append(@, item) ELSE <<item>> \o @]

\* _settle.  The first finding in the queue goes to the list, with its proof.
Keep(m, proof, how) ==
    [m EXCEPT !.queue = Tail(@), !.child = "none",
              !.settled = Append(@, [file |-> Head(m.queue), proof |-> proof, how |-> how])]

\* Its experiment was refused, or raised.
KeepUntested(m) == Keep(m, None, "refused")

Settling(p) == pc[p] = "settle" /\ my[p].queue # <<>>
Testable(p) == my[p].left > 0 /\ my[p].answers[Head(my[p].queue)] \in Predicted

Skip(p) ==
    /\ Settling(p) /\ my[p].child = "none" /\ ~Testable(p)
    /\ my' = [my EXCEPT ![p] = Keep(@, None, "skipped")]
    /\ UNCHANGED <<pc, run, billed, unseen, begun, finished, contested, overlapped, memoVars>>

\* An experiment is asked for and billed, and that may raise; it is refused, or it
\* is written and started where the code can be imported.
Generate(p) ==
    /\ Settling(p) /\ my[p].child = "none" /\ Testable(p)
    /\ \E cost \in IF run[p].replay THEN {0} ELSE 0..1, raised \in BOOLEAN :
          LET asked == [my[p] EXCEPT !.left = @ - 1, !.usage = @ + Seen(p, cost, raised)]
          IN  /\ Bill(p, cost, raised)
              /\ \/ my' = [my EXCEPT ![p] = KeepUntested(asked)]
                 \/ \E up \in BOOLEAN :
                       /\ ~raised
                       /\ my' = [my EXCEPT ![p] = [asked EXCEPT !.child =
                                   ChooseEnvironment(Scope, Services, up, <<>>).kind]]
    /\ UNCHANGED <<pc, run, begun, finished, contested, overlapped, memoVars>>

\* The experiment ends by itself ...
Measure(p) ==
    /\ Settling(p) /\ my[p].child # "none"
    /\ \E code \in 0..1, numbers \in {<<>>, <<1, 2>>} :
          my' = [my EXCEPT ![p] = Keep(@, Proof(code, numbers, "other"), "ended")]
    /\ UNCHANGED <<pc, run, billed, unseen, begun, finished, contested, overlapped, memoVars>>

\* Slip: the experiment is waited for without one.
NoDeadline(p) == FALSE

\* ... or at its deadline, killed and waited for.
Deadline(p) ==
    /\ Settling(p) /\ my[p].child # "none"
    /\ my' = [my EXCEPT ![p] = Keep(@, Proof(None, <<>>, "nothing"), "killed")]
    /\ UNCHANGED <<pc, run, billed, unseen, begun, finished, contested, overlapped, memoVars>>

\* Slip: what the experiments cost is not in the report.
ReviewAlone(p) == my[p].usd

WithProving(p) == my[p].usd + (my[p].usage - my[p].before)

Settled(p) ==
    /\ pc[p] = "settle" /\ my[p].queue = <<>>
    /\ my' = [my EXCEPT ![p].usd = WithProving(p)]
    /\ Goto(p, "write")
    /\ UNCHANGED <<run, billed, unseen, begun, finished, contested, overlapped, memoVars>>

Write(p) ==
    /\ pc[p] = "write"
    /\ Goto(p, "finish")
    /\ UNCHANGED <<run, my, billed, unseen, begun, finished, contested, overlapped, memoVars>>

CannotWrite(p) ==
    /\ pc[p] = "write"
    /\ Exit(p, "failed")
    /\ UNCHANGED finished

Finish(p) ==
    /\ pc[p] = "finish"
    /\ finished' = [finished EXCEPT ![p] = my[p].usd]
    /\ Exit(p, "done")

\* Killed, at any point.
Die(p) ==
    /\ pc[p] \in Alive \ {"new"}
    /\ Exit(p, "dead")
    /\ UNCHANGED finished

Step(p) ==
    \/ Start(p) \/ Begin(p) \/ (\E f \in Files : Recall(p, f) \/ Ask(p, f))
    \/ Remember(p) \/ CannotRemember(p) \/ ReviewFails(p) \/ Reviewed(p)
    \/ Skip(p) \/ Generate(p) \/ Deadline(p) \/ Settled(p)
    \/ Write(p) \/ CannotWrite(p) \/ Finish(p)

Next == \E p \in Procs : Step(p) \/ Measure(p) \/ Die(p)

\* A process takes its steps, its deadline among them; an experiment need not end.
Fairness == \A p \in Procs : WF_vars(Step(p))

Spec == Init /\ [][Next]_vars /\ Fairness

-----------------------------------------------------------------------------
\* Journal.history, folded from the events: a run has an entry if its begin was
\* kept, and an entry that was never closed says what begin knew.
Entry(p) == [interrupted |-> finished[p] = None,
             usd |-> IF finished[p] = None THEN 0 ELSE finished[p]]

\* Safety.  "A switched model was credited with findings it never saw": no run
\* has an answer of a model other than its own, whatever runs under other models
\* remembered in the same directory.
NoFalseCredit ==
    \A p \in Procs, f \in Files :
        my[p].answers[f] # None => By[my[p].answers[f]] = run[p].model

\* Safety.  A run that records or replays has no answer but the recorded one,
\* however warm the memo of the machine is: what was recorded travels, and what
\* is replayed is what was recorded.  Where two processes asked the same question
\* before either had kept its answer, the last to write it decides alone.
RecordingsDecide ==
    \A p \in Procs, f \in Files :
        LET k == CassettePath(p, f)
        IN  /\ my[p].answers[f] # None /\ my[p].storing[2] # f
            /\ Cassettes(p) /\ k \notin contested
            => Lies(k) /\ Kept(k) = my[p].answers[f]

\* Safety.  A remembered or recorded answer is torn only where two runs were
\* writing the same one at the same moment: one that dies part way tears nothing.
TornOnlyByOverlap ==
    \A k \in Keys : Lies(k) /\ Kept(k) = Half => k \in overlapped

\* Safety.  Settling costs no finding, spends no experiment out of turn and
\* invents no measurement: the document has the findings of the review in their
\* order, the first of them to carry a prediction are those put to an experiment,
\* as many as were asked for, what ended has its proof and nothing else has one,
\* and what was killed is not graded.
SettlingKeepsFindings ==
    \A p \in Procs :
        LET done == my[p].settled
            predicted(i) == my[p].answers[done[i].file] \in Predicted
            before(i) == {j \in 1..(i - 1) : predicted(j)}
        IN  pc[p] \in {"settle", "write", "finish"} =>
                /\ [i \in DOMAIN done |-> done[i].file] \o my[p].queue = Reported(p)
                /\ \A i \in DOMAIN done :
                      /\ done[i].how # "skipped"
                            <=> predicted(i) /\ Cardinality(before(i)) < run[p].prove
                      /\ done[i].proof # None <=> done[i].how \in {"ended", "killed"}
                      /\ done[i].how = "killed" => done[i].proof.value = None

\* Safety.  The cost a finished run is remembered by, with what raised calls of a
\* run that records cost, is what the provider charged for it: the questions that
\* failed a run that does not record and every experiment are in it.
PaidIsPublished ==
    \A p \in Procs :
        /\ finished[p] # None => finished[p] + unseen[p] = billed[p]
        /\ unseen[p] > 0 /\ pc[p] \in Alive => run[p].record

\* Liveness.  A command that is started ends, whatever its experiments do, for
\* each of them has a deadline.
EveryCommandEnds == \A p \in Procs : (pc[p] = "begin") ~> (pc[p] \in Ends)

-----------------------------------------------------------------------------
\* core/adapters/cassette.py:115: "Spend incurred in this process."  A recording
\* run's usage leaves out the live calls that raised.
UsageIsSpend == \A p \in Procs : pc[p] \in Alive => my[p].usage = billed[p]

\* core/memo.py:80: "an interrupted run leaves no half file for the next one to
\* parse".  When nothing is being written, every entry parses.
NoHalfFile ==
    (\A p \in Procs : my[p].storing = Idle) =>
        \A k \in Keys : k[1] = "memo" /\ Lies(k) => Kept(k) # Half

\* cli/main.py:487: "No provider named, so set the key for whichever one is
\* configured": a key given for a run is the key the run has.
FlagKeyIsUsed ==
    \A p \in Procs : run[p].ok /\ run[p].flag # "" /\ ~run[p].replay => run[p].key = run[p].flag

\* core/journal.py:60: "interrupted after {read} of {modules} modules, ${usd}
\* spent": what the history says a run spent, it spent.
SpentIsRemembered ==
    \A p \in begun : pc[p] \in Ends => Entry(p).usd = billed[p]
=============================================================================

--------------------------------- MODULE Arm ---------------------------------
(***************************************************************************)
(* `evaluate`: each arm reviews every case, as often as there are seeds    *)
(* (cli/main.py, evaluation/runner.py). A review is what a model answered, *)
(* reconciled and passed over; with `prove` each claim is put to the       *)
(* experiment the case ships (evaluation/prover.py); a review that raises  *)
(* is scored as a failure. The repeats of an arm are then summarised.      *)
(*                                                                         *)
(* An answer is a sequence of modules, each the sequence of its drafts.    *)
(* Repeats that are not independent are those of a cassette, which answers *)
(* a question it holds as it did before; one that failed, or whose prompt  *)
(* the registry has changed, is put to the model anew. So a repeat answers *)
(* anything here in every mode, and nothing that is concluded of repeats   *)
(* rests on them being alike.                                              *)
(***************************************************************************)
EXTENDS Passes, Scoring

CONSTANTS
    Cases,          \* sequence of [defects, scripts]: what is seeded, and the
                    \* metrics an experiment exists for
    Plans,          \* what the command may be told, and of which model:
                    \* [seeds, prove, independent, model]
    Answers,        \* [model -> what it may answer]
    Readings        \* numbers an experiment may print

\* Names have their places in the order of all, depths and fan-ins are counts.
ASSUME NamesAreSorted ==
    /\ IsFiniteSet(DOMAIN Order) /\ "unknown" \in DOMAIN Order
    /\ \A x \in DOMAIN Order : Order[x] \in 1..Cardinality(DOMAIN Order)
    /\ Deepest \in Nat \ {0}
    /\ \A p \in DOMAIN Depth : Depth[p] \subseteq 0..Deepest
    /\ \A p \in DOMAIN FanIn : FanIn[p] \in Nat
    /\ \A x \in DOMAIN LineOf : LineOf[x] \in Nat

\* What the answer's schema lets through: at most one claim, of numbers.
IsClaim(p) ==
    /\ p.comparator \in {"at_least", "at_most", "between"}
    /\ p.value \in Int /\ p.upper \subseteq Int /\ IsFiniteSet(p.upper)
IsDraft(d) ==
    /\ DOMAIN d = {"path", "symbol", "line", "layers", "severity", "says", "arithmetic", "prediction"}
    /\ {d.path, d.symbol} \subseteq DOMAIN Order \cup {""}
    /\ d.line \in Int /\ d.severity \in 0..2 /\ IsList(d.says)
    /\ \A p, q \in d.prediction : IsClaim(p) /\ p = q

ASSUME AnswersAreDrafts ==
    \A model \in DOMAIN Answers : \A answer \in Answers[model] :
        IsList(answer) /\ \A i \in DOMAIN answer :
            IsList(answer[i]) /\ \A d \in ToSet(answer[i]) : IsDraft(d)

\* There are cases, each with finitely many defects and experiments, and repeats.
ASSUME CasesAreRepeated ==
    /\ IsList(Cases) /\ Cases # <<>>
    /\ \A c \in DOMAIN Cases : IsFiniteSet(Cases[c].scripts) /\ IsFiniteSet(Cases[c].defects)
    /\ \A p \in Plans : p.seeds \in Nat \ {0} /\ p.model \in DOMAIN Answers

VARIABLES
    plan,
    arm, seed, case,    \* where the loops are
    stage,              \* reviewing, measuring, scoring, over
    heard,              \* the answer behind the report (history)
    report,             \* the report at hand
    cursor, measured,   \* measure's place in it and its experiments so far
    failed,             \* the review raised
    scores,             \* of the arm at hand
    results             \* a summary per arm that is through

vars == << plan, arm, seed, case, stage, heard, report, cursor, measured, failed, scores,
           results >>

Arms == << "baseline", "augury" >>
NoReport == [findings |-> <<>>, dropped |-> <<>>]

Init ==
    /\ plan \in Plans
    /\ arm = 1 /\ seed = 1 /\ case = 1
    /\ stage = "reviewing"
    /\ heard = <<>> /\ report = NoReport
    /\ cursor = 1 /\ measured = << >> /\ failed = FALSE
    /\ scores = <<>> /\ results = << >>

----------------------------------------------------------------------------
(* A review.                                                                *)

Unmeasured(r) == [r EXCEPT !.findings =
    [i \in DOMAIN @ |-> [x \in DOMAIN @[i] \cup {"measurement"} |->
                            IF x = "measurement" THEN {} ELSE @[i][x]]]]

\* What is reconciled together: the drafts of a module, or of the baseline's
\* one prompt.
Together(answer) == IF Arms[arm] = "augury" THEN answer ELSE << FlattenSeq(answer) >>

Drafts(answer) ==
    FlattenSeq([i \in DOMAIN Together(answer) |-> Reconcile(Together(answer)[i])])

\* The reviewer passes over its report; the baseline does not.
Reviewed(answer) ==
    IF Arms[arm] = "augury" THEN Finished(Drafts(answer)) ELSE ToReport(Drafts(answer))

Review ==
    /\ stage = "reviewing"
    /\ \E answer \in Answers[plan.model] :
          /\ report' = Unmeasured(Reviewed(answer))
          /\ heard' = answer
    /\ stage' = IF plan.prove THEN "measuring" ELSE "scoring"
    /\ UNCHANGED << plan, arm, seed, case, cursor, measured, failed, scores, results >>

\* The review raised: an empty report, and no experiment is run.
Crash ==
    /\ stage = "reviewing"
    /\ report' = NoReport
    /\ failed' = TRUE
    /\ stage' = "scoring"
    /\ UNCHANGED << plan, arm, seed, case, heard, cursor, measured, scores, results >>

----------------------------------------------------------------------------
(* measure.                                                                 *)

Case == Cases[case]

\* The files a metric's experiment is about.
Locations(metric) ==
    UNION { d.locations : d \in { d \in Case.defects : d.metric = metric } }

\* Slip: the metric's name is enough.
AppliesAnywhere(f) == f.prediction # {}

\* applies_to: an experiment settles claims about the files it measures.
Applies(f) == f.prediction # {} /\ f.path \in Locations(Claim(f).metric)

\* prove: no script, a timeout, an exit code or no number come to no value.
Proofs(metric) ==
    IF metric \in Case.scripts THEN {{}} \cup {{n} : n \in Readings} ELSE {{}}

With(metric, value) ==
    [m \in DOMAIN measured \cup {metric} |->
        IF m = metric THEN [value |-> value, experiment |-> << case, metric >>]
        ELSE measured[m]]

\* The experiment a finding is put to, unless it has been run.
Measures(f) ==
    LET metric == Claim(f).metric IN
    IF metric \in DOMAIN measured THEN {measured} ELSE { With(metric, v) : v \in Proofs(metric) }

\* One turn of the loop over the findings.
Measure ==
    /\ stage = "measuring"
    /\ cursor <= Len(report.findings)
    /\ LET f == report.findings[cursor] IN
          IF Applies(f)
          THEN \E known \in Measures(f) :
                  /\ measured' = known
                  /\ report' = [report EXCEPT !.findings[cursor].measurement =
                                                  {known[Claim(f).metric]}]
          ELSE UNCHANGED << measured, report >>
    /\ cursor' = cursor + 1
    /\ UNCHANGED << plan, arm, seed, case, stage, heard, failed, scores, results >>

AllMeasured ==
    /\ stage = "measuring"
    /\ cursor > Len(report.findings)
    /\ stage' = "scoring"
    /\ UNCHANGED << plan, arm, seed, case, heard, report, cursor, measured, failed,
                    scores, results >>

----------------------------------------------------------------------------
(* Scores.                                                                  *)

Tokens(f) == FoldLeft(LAMBDA n, s : n + Seen(s).tokens, 0, f.says)
Mentions(f) == {f.symbol} \cup UNION { Seen(s).names : s \in ToSet(f.says) }

\* Defect.found_in: in one of its files, by name, and saying something.
Found(defect) ==
    \E f \in ToSet(report.findings) :
        /\ f.path \in defect.locations
        /\ Tokens(f) >= 5
        /\ Mentions(f) \cap defect.symbols # {}

Scored == Score(report, seed, Cardinality(Case.defects),
                Cardinality({ d \in Case.defects : Found(d) }), failed)

LastCase == case = Len(Cases)
LastSeed == seed = plan.seeds

\* The score is taken and the loops move on; the last one of an arm is followed
\* by its summary.
Take ==
    /\ stage = "scoring"
    /\ LET all == Append(scores, Scored)
           through == LastCase /\ LastSeed
       IN /\ scores' = IF through THEN <<>> ELSE all
          /\ results' = IF through THEN Append(results, Summarise(all, plan.independent))
                        ELSE results
          /\ arm' = IF through THEN arm + 1 ELSE arm
          /\ seed' = IF LastCase THEN (IF LastSeed THEN 1 ELSE seed + 1) ELSE seed
          /\ case' = IF LastCase THEN 1 ELSE case + 1
          /\ stage' = IF through /\ arm = Len(Arms) THEN "over" ELSE "reviewing"
    /\ report' = NoReport /\ heard' = <<>> /\ cursor' = 1 /\ measured' = << >>
    /\ failed' = FALSE
    /\ UNCHANGED plan

Next == Review \/ Crash \/ Measure \/ AllMeasured \/ Take

Spec == Init /\ [][Next]_vars

----------------------------------------------------------------------------
(* What must hold.                                                          *)

Ready == stage \in {"measuring", "scoring"} /\ ~ failed
Offers == { [d EXCEPT !.path = OrUnknown(@), !.symbol = OrUnknown(@)] :
                d \in ToSet(FlattenSeq(heard)) }
Published == ToSet(report.findings)
Gone(d, why) == \E x \in ToSet(report.dropped) : Construct(x) = Construct(d) /\ x.why \in why

\* What a specialist said of a construct is published or listed as dropped: it
\* does not vanish between the merges, the cap, the withdrawal, the collapse and
\* the ranking of a report.
NothingVanishes ==
    Ready => \A d \in Offers :
                \/ \E f \in Published : Construct(f) = Construct(d)
                \/ Gone(d, {"prediction", "malformed", "withdrawn", "collapsed"})

CeilingOf(path) == IF Arms[arm] = "augury" THEN Min({2} \cup { n.ceiling : n \in Notes(path) })
                   ELSE 2

\* No finding is published above what its module's reachability supports, and
\* none is published milder than that because it was merged with another or
\* collapsed into another: the worst that was said of it survives.
SeverityIsEarned ==
    Ready =>
       /\ \A f \in Published : f.severity <= CeilingOf(f.path)
       /\ \A d \in Offers :
             \/ Gone(d, {"malformed", "withdrawn"})
             \/ \E f \in Published :
                   /\ Construct(f) = Construct(d) \/ Systemic \in ToSet(f.says)
                   /\ f.severity >= Min({d.severity, CeilingOf(d.path)})

\* A published claim is one that was made of its construct, and where all who
\* bound its metric there, among what was reconciled together, bound it from the
\* same side, no measurement makes the published claim a hit and one of theirs a
\* miss: reconciling never makes a claim easier.
NeverEasier ==
    Ready => \A f \in Published : \A p \in f.prediction :
        \E i \in DOMAIN Together(heard) : \E d \in ToSet(Together(heard)[i]) :
            LET same == { e \in ToSet(Together(heard)[i]) : Construct(e) = Construct(d) }
                theirs == { q \in UNION { e.prediction : e \in same } :
                              q.metric = p.metric /\ Refutable(q) }
            IN  /\ p \in d.prediction
                /\ Construct(f) = << OrUnknown(d.path), OrUnknown(d.symbol) >>
                /\ (p.comparator # "between" /\ \A q \in theirs : q.comparator = p.comparator)
                   => \A q \in theirs, m \in Floor..Ceiling : Holds(p, m) => Holds(q, m)

\* A claim is graded only by an experiment about its own file, and the claims one
\* experiment settles are graded on one measurement.
GradedWhereMeasured ==
    \A f, g \in Published :
        (Ready /\ f.measurement # {}) =>
            /\ f.path \in Locations(Claim(f).metric)
            /\ (g.measurement # {} /\ Claim(g).metric = Claim(f).metric)
               => g.measurement = f.measurement

\* The summary of an arm claims no more than its reviews saw: repeats that are
\* one recording are counted once, an experiment counts once per repeat and case
\* however many findings it settled, a hit is one of those, and an arm of which
\* no review came through has no recall at all.
SummaryIsHonest ==
    \A i \in DOMAIN results :
        LET r == results[i]
            runs == (IF plan.independent THEN plan.seeds ELSE 1)
                    * Sum([c \in DOMAIN Cases |-> Cardinality(Cases[c].scripts)], DOMAIN Cases)
        IN  /\ r.hits <= r.experiments /\ r.experiments <= runs
            /\ r.failed = plan.seeds * Len(Cases) => r.low = {} /\ r.high = {}

Opposite(v) == CASE v = "better" -> "worse" [] v = "worse" -> "better" [] OTHER -> v

\* Nothing is concluded from two arms whose repeats were served from a recording,
\* and what is concluded is the same whichever arm is named first; so is the
\* probability of the permutation test where it is not estimated from a sample.
VerdictIsFair ==
    stage = "over" =>
        LET l == results[1]
            r == results[2]
            exact == plan.seeds <= MaxExactSample
        IN  /\ ~ plan.independent => /\ Compare(l, r) = "inconclusive"
                                     /\ HitRateP(l, r) \cup RecallP(l, r) = {}
            /\ Compare(l, r) = Opposite(Compare(r, l))
            /\ HitRateP(l, r) = HitRateP(r, l)
            /\ exact => RecallP(l, r) = RecallP(r, l)
            /\ \A p \in HitRateP(l, r) \cup (IF exact THEN RecallP(l, r) ELSE {}) :
                  0 < p[1] /\ p[1] <= p[2]

\* A review is charged one observation for each draft it was reconciled to, as
\* the comment in score has it: a malformed claim costs what an absent one does.
OneObservationEach ==
    (stage = "scoring" /\ ~ failed) => Scored.observations <= Len(Drafts(heard))

\* Findings whose mechanisms say too little to compare are not taken for one, as
\* the comment in repetition.py has it.
CoincidenceNeverMerges ==
    Ready => \A f \in Published : Systemic \in ToSet(f.says) =>
                \A d \in Offers : Construct(d) = Construct(f) =>
                    WordsOf(d.says) >= EnoughToCompare
=============================================================================

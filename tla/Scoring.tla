------------------------------- MODULE Scoring -------------------------------
(***************************************************************************)
(* What a review scores (core/scoring.py), what repeated reviews of one    *)
(* arm come to (evaluation/sweep.py) and what may be said of two arms      *)
(* (evaluation/significance.py). A rate is its two counts, << n, d >>, and *)
(* is absent, the empty set, where there is nothing to divide.             *)
(***************************************************************************)
EXTENDS Findings, Basics

CONSTANT MinTestedForARate      \* MIN_TESTED_FOR_A_RATE

ASSUME FloorAssumption == MinTestedForARate \in Nat

Ratio(n, d) == IF d = 0 THEN {} ELSE {<< n, d >>}
Less(a, b) == a[1] * b[2] < b[1] * a[2]

Claim(f) == CHOOSE p \in f.prediction : TRUE

\* Finding.verdict: none for a finding without a claim or a measurement, and a
\* measurement without a number is broken.
VerdictOf(f) ==
    IF f.prediction = {} \/ f.measurement = {} THEN "none"
    ELSE LET m == CHOOSE m \in f.measurement : TRUE IN Verdict(Claim(f), m.value)

Tested(findings) == { i \in DOMAIN findings : VerdictOf(findings[i]) \in {"hit", "miss"} }

\* _experiment_outcomes: one unit per experiment, and a hit only when all it
\* settled held.
ExperimentOf(f) == (CHOOSE m \in f.measurement : TRUE).experiment
Experiments(findings) == { ExperimentOf(findings[i]) : i \in Tested(findings) }
Hits(findings) ==
    { e \in Experiments(findings) :
        \A i \in Tested(findings) : ExperimentOf(findings[i]) = e => VerdictOf(findings[i]) = "hit" }

Construct(x) == << x.path, x.symbol >>

\* Dropped findings that were not kept as well.
Discarded(report) ==
    SelectSeq(report.dropped,
              LAMBDA d : Construct(d) \notin { Construct(f) : f \in ToSet(report.findings) })

Count(s, Test(_)) == Len(SelectSeq(s, Test))

Score(report, seed, seeded, found, failed) ==
    LET fs == report.findings IN
    [seed |-> seed, seeded |-> seeded, found |-> found, failed |-> failed,
     observations |-> Len(fs) + Len(Discarded(report)),
     falsifiable |-> Count(fs, LAMBDA f : f.prediction # {}),
     testedFindings |-> Cardinality(Tested(fs)),
     experiments |-> Cardinality(Experiments(fs)),
     hits |-> Cardinality(Hits(fs)),
     broken |-> Count(fs, LAMBDA f : VerdictOf(f) = "broken")]

----------------------------------------------------------------------------
(* aggregate: counts are summed and divided once, failed runs included.     *)
(* Which scores are counted is said by their places.                        *)

Total(scores, counted, Of(_)) == Sum([i \in counted |-> Of(scores[i])], counted)

Failed(scores) == Cardinality({ i \in DOMAIN scores : scores[i].failed })

Aggregate(scores, counted) ==
    LET total(Of(_)) == Total(scores, counted, Of)
        experiments == total(LAMBDA s : s.experiments)
        hits == total(LAMBDA s : s.hits)
    IN [detectionRate |-> Ratio(total(LAMBDA s : s.found), total(LAMBDA s : s.seeded)),
        precision |-> Ratio(total(LAMBDA s : s.falsifiable), total(LAMBDA s : s.observations)),
        hits |-> hits, experiments |-> experiments,
        hitRate |-> IF experiments >= MinTestedForARate THEN Ratio(hits, experiments) ELSE {},
        coverage |-> Ratio(total(LAMBDA s : s.testedFindings), total(LAMBDA s : s.falsifiable))]

----------------------------------------------------------------------------
(* summarise: the repeats of one arm.                                       *)

Seeds(scores) == { s.seed : s \in ToSet(scores) }
OfSeed(scores, seed) == { i \in DOMAIN scores : scores[i].seed = seed }

\* Slip: the repeats are pooled whatever they are.
CountedAll(scores, independent) == DOMAIN scores

\* What the counts are pooled over: every repeat when repeats are observations
\* of their own, and the first one when they are one recording served again.
Counted(scores, independent) ==
    IF independent THEN DOMAIN scores ELSE OfSeed(scores, scores[1].seed)

Summarise(scores, independent) ==
    LET rate(seed) == Aggregate(scores, OfSeed(scores, seed)).detectionRate
        recalls == UNION { rate(seed) : seed \in Seeds(scores) }
        completed == Failed(scores) < Len(scores)
        pooled == Aggregate(scores, Counted(scores, independent))
        known == IF completed THEN recalls ELSE {}
    IN [independent |-> independent, seeds |-> Cardinality(Seeds(scores)),
        failed |-> Failed(scores),
        recalls |-> [seed \in Seeds(scores) |-> rate(seed)],
        low |-> { r \in known : \A q \in known : ~ Less(q, r) },
        high |-> { r \in known : \A q \in known : ~ Less(r, q) },
        hits |-> pooled.hits, experiments |-> pooled.experiments,
        hitRate |-> pooled.hitRate, coverage |-> pooled.coverage]

----------------------------------------------------------------------------
(* Two arms. Nothing is concluded from repeats that were not independent.   *)

Independent(left, right) == left.independent /\ right.independent

\* Every recall of the one is above every recall of the other.
Clears(left, right) == \A l \in left.low, r \in right.high : Less(r, l)

Separated(left, right) ==
    IF left.low = {} \/ right.low = {} THEN "inconclusive"
    ELSE CASE Clears(left, right) -> "better"
           [] Clears(right, left) -> "worse"
           [] OTHER -> "inconclusive"

\* Slip: ranges of repeats that are one recording are compared all the same.
CompareReplays(left, right) == Separated(left, right)

Compare(left, right) ==
    IF Independent(left, right) THEN Separated(left, right) ELSE "inconclusive"

fact[n \in Nat] == IF n = 0 THEN 1 ELSE n * fact[n - 1]
Choose(n, k) == IF k < 0 \/ k > n THEN 0 ELSE fact[n] \div (fact[k] * fact[n - k])

\* fisher_exact, both sides: the tables with the same margins that are no
\* likelier than the one observed, over all of them.
FisherExact(hitsA, testedA, hitsB, testedB) ==
    IF testedA = 0 \/ testedB = 0 THEN {}
    ELSE LET hits == hitsA + hitsB
             tables == Max({0, hits - testedB})..Min({testedA, hits})
             ways == [x \in tables |-> Choose(testedA, x) * Choose(testedB, hits - x)]
         IN Ratio(Sum(ways, { x \in tables : ways[x] <= ways[hitsA] }),
                  Choose(testedA + testedB, hits))

MaxExactSample == 10    \* MAX_EXACT_SAMPLE

\* permutation_p: the relabellings that differ at least as much. One
\* observation is counted per repeat, so equal ones are told apart by position.
\* Of more than MaxExactSample the code draws some; that they are all is its limit.
PermutationP(left, right) ==
    IF left = <<>> \/ right = <<>> THEN {}
    ELSE LET pooled == left \o right
             Gap(I) == LET J == DOMAIN pooled \ I
                           d == Sum(pooled, I) * Len(right) - Sum(pooled, J) * Len(left)
                       IN IF d < 0 THEN -d ELSE d
             picks == { I \in SUBSET DOMAIN pooled : Cardinality(I) = Len(left) }
             observed == Gap(1..Len(left))
         IN Ratio(Cardinality({ I \in picks : Gap(I) >= observed }), Cardinality(picks))

\* Every repeat is over the same cases: either all have a recall or none has, and
\* recalls compare by what was found.
Recalled(r) ==
    IF \A seed \in DOMAIN r.recalls : r.recalls[seed] = {} THEN <<>>
    ELSE [seed \in DOMAIN r.recalls |-> (CHOOSE q \in r.recalls[seed] : TRUE)[1]]

RecallP(left, right) ==
    IF Independent(left, right) THEN PermutationP(Recalled(left), Recalled(right)) ELSE {}

HitRateP(left, right) ==
    IF Independent(left, right)
    THEN FisherExact(left.hits, left.experiments, right.hits, right.experiments)
    ELSE {}
=============================================================================

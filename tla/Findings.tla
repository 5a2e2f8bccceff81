------------------------------ MODULE Findings ------------------------------
(***************************************************************************)
(* What a specialist's answer goes through before it is a report: drafts   *)
(* about one construct are reconciled (evaluation/reconcile.py), a claim   *)
(* that nothing could refute is refused (core/schemas.py), and the drafts  *)
(* become findings and what was dropped (core/drafts.py).                  *)
(*                                                                         *)
(* A draft names a path, a symbol and a line, the specialists behind it    *)
(* (`layers`), a severity (0 low, 1 medium, 2 high), what it says (a       *)
(* sequence of sentences), whether it shows its arithmetic, and at most    *)
(* one prediction. An absent value is the empty set. Predictions have one  *)
(* unit, whose range of plausible measurements is Floor..Ceiling.          *)
(***************************************************************************)
EXTENDS Integers, Sequences, FiniteSets, SequencesExt, FiniteSetsExt

CONSTANTS
    Floor, Ceiling,     \* what the unit's measurements lie between
    WidestBand,         \* WIDEST_HONEST_BAND
    Overlong,           \* [layer of a name longer than a finding may carry -> its first 60 characters]
    LineOf              \* [<<path, symbol>> -> line] where the parser knows one

ASSUME RangeAssumption ==
    /\ Floor \in Int /\ Ceiling \in Int /\ Floor < Ceiling
    /\ WidestBand \in Nat \ {0}

\* What is left of a name that was cut does fit.
ASSUME CutNamesFit == \A l \in DOMAIN Overlong : Overlong[l] \notin DOMAIN Overlong

----------------------------------------------------------------------------
(* Sequences, as Python's min, max and dict treat them.                     *)

\* The first element with the least key.
FirstLeast(s, Key(_)) ==
    s[CHOOSE i \in DOMAIN s :
        \A j \in DOMAIN s : \/ Key(s[i]) < Key(s[j])
                            \/ Key(s[i]) = Key(s[j]) /\ i <= j]

\* The members of a set by a strict order: of each, as many are before it as it
\* has places before its own.
Sorted(set, before(_, _)) ==
    [n \in 1..Cardinality(set) |->
        CHOOSE x \in set : Cardinality({y \in set : before(y, x)}) = n - 1]

\* What passes a test, in its order.
Kept(s, Test(_)) ==
    LET places == Sorted({i \in DOMAIN s : Test(s[i])}, <)
    IN  [n \in DOMAIN places |-> s[places[n]]]

\* The groups a dict of lists makes, in the order their keys first appear.
Grouped(s, Key(_)) ==
    LET firsts == { i \in DOMAIN s : \A j \in 1..(i - 1) : Key(s[j]) # Key(s[i]) }
        order == Sorted(firsts, <)
    IN [n \in DOMAIN order |-> Kept(s, LAMBDA x : Key(x) = Key(s[order[n]]))]

Without(s, T) == SelectSeq(s, LAMBDA x : x \notin T)

----------------------------------------------------------------------------
(* Predictions.                                                             *)

\* The validators: some measurement could contradict the claim, and a band is
\* one. A claim without a metric is refused as well.
Refutable(p) ==
    /\ p.metric # ""
    /\ p.comparator = "at_least" => p.value > Floor
    /\ p.comparator = "at_most" => p.value < Ceiling
    /\ p.comparator = "between" =>
          /\ p.upper # {}
          /\ p.value > 0
          /\ \A u \in p.upper : u > p.value /\ u <= WidestBand * p.value

Holds(p, measured) ==
    CASE p.comparator = "at_least" -> measured >= p.value
      [] p.comparator = "at_most" -> measured <= p.value
      [] OTHER -> p.value <= measured /\ \A u \in p.upper : measured <= u

\* Prediction.score: no number is no verdict on the claim.
Verdict(p, measured) ==
    IF measured = {} THEN "broken"
    ELSE IF \A x \in measured : Holds(p, x) THEN "hit" ELSE "miss"

----------------------------------------------------------------------------
(* One finding per measurable consequence of a construct.                   *)

Offered(group) ==
    LET claims == Kept(group, LAMBDA d : d.prediction # {})
    IN [i \in DOMAIN claims |-> CHOOSE p \in claims[i].prediction : TRUE]

\* How far apart the bounds of a band are; a missing or zero bound is none.
Width(p) == IF p.upper \subseteq {0} THEN 0 ELSE Max(p.upper) - p.value

\* Slip: the largest threshold is taken for the strictest whatever it bounds.
StrictestIsLargest(group) ==
    IF Offered(group) = <<>> THEN {}
    ELSE { FirstLeast(Offered(group), LAMBDA p : -p.value) }

\* _strictest: among the claims that can be refuted, if there is one, the
\* strictest by the first one's comparator.
Strictest(group) ==
    LET claims == Offered(group)
        valid == Kept(claims, Refutable)
        among == IF valid = <<>> THEN claims ELSE valid
    IN  IF among = <<>> THEN {}
        ELSE { CASE among[1].comparator = "at_most" -> FirstLeast(among, LAMBDA p : p.value)
                 [] among[1].comparator = "between" -> FirstLeast(among, Width)
                 [] OTHER -> FirstLeast(among, LAMBDA p : -p.value) }

\* What the members say, a mechanism that several gave once.
Said(group) ==
    FlattenSeq([i \in DOMAIN group |->
        IF \E j \in 1..(i - 1) : group[j].says = group[i].says THEN <<>> ELSE group[i].says])

\* [:MAX_LAYER], of the names of a merge: of several it is cut somewhere behind
\* the first, and no name is read out of them again.
Cut(layers) == IF \E l \in DOMAIN Overlong : layers = {l} THEN {Overlong[l] : l \in layers} ELSE layers

Merge(group) ==
    IF Len(group) = 1 THEN group[1]
    ELSE [group[1] EXCEPT
            !.layers = Cut(UNION { d.layers : d \in ToSet(group) }),
            !.severity = Max({ d.severity : d \in ToSet(group) }),
            !.says = Said(group),
            !.arithmetic = \E d \in ToSet(group) : d.arithmetic,
            !.prediction = Strictest(group),
            !.line = Min({ d.line : d \in ToSet(group) })]

Metric(d) == IF d.prediction = {} THEN "" ELSE (CHOOSE p \in d.prediction : TRUE).metric

\* _split: a draft without a metric joins the others when they share one, and
\* stands alone when there are several.
Split(group) ==
    LET prose == Kept(group, LAMBDA d : Metric(d) = "")
        byMetric == Grouped(Kept(group, LAMBDA d : Metric(d) # ""), Metric)
        members == IF Len(byMetric) = 1 THEN << byMetric[1] \o prose >>
                   ELSE IF prose = <<>> THEN byMetric ELSE Append(byMetric, prose)
    IN [i \in DOMAIN members |-> Merge(members[i])]

Reconcile(drafts) ==
    LET groups == Grouped(drafts, LAMBDA d : << d.path, d.symbol >>)
    IN FlattenSeq([i \in DOMAIN groups |-> Split(groups[i])])

----------------------------------------------------------------------------
(* Drafts into a report.                                                    *)

OrUnknown(name) == IF name = "" THEN "unknown" ELSE name

\* The finding a draft makes, with the claim only if it can be refuted and the
\* parser's line before the model's.
AsFinding(d) ==
    LET path == OrUnknown(d.path)
        symbol == OrUnknown(d.symbol)
    IN [d EXCEPT !.path = path, !.symbol = symbol,
                 !.layers = { OrUnknown(l) : l \in @ },
                 !.line = IF << path, symbol >> \in DOMAIN LineOf
                          THEN LineOf[<< path, symbol >>] ELSE Max({@, 0}),
                 !.prediction = { p \in @ : Refutable(p) }]

\* _fits shortens a layer to 120 characters and a finding takes 64, so a draft of
\* one long name is refused, unless a merge has cut it to 60.
Makes(d) == ~ \E l \in DOMAIN Overlong : d.layers = {l}

Refused(d) == \E p \in d.prediction : ~ Refutable(p)

\* Names are no longer than a Dropped takes (512 characters of a symbol, 4096 of a
\* path): of a longer one with a refused claim none is built, and to_report raises.
Drop(d, why) == [path |-> OrUnknown(d.path), symbol |-> OrUnknown(d.symbol), why |-> why]

DroppedOf(d) ==
    (IF Refused(d) THEN << Drop(d, "prediction") >> ELSE <<>>)
    \o (IF Makes(d) THEN <<>> ELSE << Drop(d, "malformed") >>)

ToReport(drafts) ==
    [findings |-> [i \in DOMAIN Kept(drafts, Makes)
                     |-> AsFinding(Kept(drafts, Makes)[i])],
     dropped |-> FlattenSeq([i \in DOMAIN drafts |-> DroppedOf(drafts[i])])]
=============================================================================

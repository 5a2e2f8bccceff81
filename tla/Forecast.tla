------------------------------ MODULE Forecast ------------------------------
(***************************************************************************)
(* What the findings say gives way first (core/forecast.py), and what they *)
(* say together that no specialist said alone (agents/synthesis.py).       *)
(*                                                                         *)
(* A finding has a path, a line, a symbol, the specialists behind it and   *)
(* what it says. A rule has the specialists whose word counts and the      *)
(* sentences that name its mechanism; the first rule that accepts a        *)
(* finding takes it.                                                       *)
(***************************************************************************)
EXTENDS Integers, Sequences, FiniteSets, SequencesExt, FiniteSetsExt

CONSTANTS
    Rules,             \* RULES: [mechanism, specialists, sentences], in order
    SecretPaths,       \* paths holds_live_secrets refuses
    EnoughToConnect,   \* ENOUGH_TO_CONNECT
    MostObservations   \* MOST_OBSERVATIONS

\* Evidence.site and Citation.site.
SiteOf(finding) == <<finding.path, finding.line, finding.symbol>>
CitedAs(finding) == <<finding.path, finding.line, finding.symbol, finding.layers>>

\* _classify: the rules that accept a finding; a merged layer is no name.
Accepting(finding) ==
    {r \in DOMAIN Rules : /\ \E layer \in Rules[r].specialists : finding.layers = {layer}
                          /\ ToSet(finding.says) \cap Rules[r].sentences # {}}

Classify(finding) == IF Accepting(finding) = {} THEN {} ELSE {Min(Accepting(finding))}

\* For each mechanism the sites that press on it, the first finding of a site
\* its citation.
Pressures(findings) ==
    LET pressing(r) == SelectSeq(findings, LAMBDA f : r \in Classify(f))
        first(fs, site) == fs[Min({i \in DOMAIN fs : SiteOf(fs[i]) = site})]
        evidence(r) == {first(pressing(r), site) : site \in {SiteOf(f) : f \in ToSet(pressing(r))}}
    IN  [r \in {r \in DOMAIN Rules : pressing(r) # <<>>} |-> evidence(r)]

\* Band.for_count: isolated, repeated, systemic.
Band(count) == IF count >= 3 THEN 3 ELSE IF count >= 2 THEN 2 ELSE 1

\* _order: most pressed, then most specialists.
Voices(evidence) == {f.layers : f \in evidence}
PressedMore(p, r, s) ==
    \/ Cardinality(p[r]) > Cardinality(p[s])
    \/ Cardinality(p[r]) = Cardinality(p[s]) /\ Cardinality(Voices(p[r])) > Cardinality(Voices(p[s]))

\* forecast: the pressures with their bands, the most pressed first.
Forecasts(findings) ==
    LET p == Pressures(findings)
        ranked == SetToSortSeq(DOMAIN p, LAMBDA r, s : PressedMore(p, r, s))
    IN  [i \in DOMAIN ranked |->
            [mechanism |-> Rules[ranked[i]].mechanism, evidence |-> p[ranked[i]],
             band |-> Band(Cardinality(p[ranked[i]]))]]

-----------------------------------------------------------------------------
(* Synthesis. *)

\* citable: a finding in a file of credentials has no number to be cited by.
Citable(findings) == SelectSeq(findings, LAMBDA f : f.path \notin SecretPaths)

\* observe: whether a call is worth making at all.
WorthAsking(findings) ==
    /\ Len(Citable(findings)) >= EnoughToConnect
    /\ Cardinality(Voices(ToSet(Citable(findings)))) >= EnoughToConnect

\* resolve: one bad number, a repeat or a single specialist costs a draft.
Resolves(cited, findings) ==
    /\ Cardinality(ToSet(cited)) = Len(cited)
    /\ ToSet(cited) \subseteq DOMAIN findings
    /\ LET named == {findings[n] : n \in ToSet(cited)}
       IN  /\ Cardinality(Voices(named)) >= EnoughToConnect
           /\ Cardinality({CitedAs(f) : f \in named}) = Len(cited)

\* observe, of what the model answered: a handful, the widest first.
Observations(drafts, findings) ==
    LET board == Citable(findings)
        voices(cited) == Cardinality(Voices({board[n] : n \in ToSet(cited)}))
        built == SelectSeq(drafts, LAMBDA cited : Resolves(cited, board))
        ranked == SortSeq(built, LAMBDA a, b : \/ voices(a) > voices(b)
                                               \/ voices(a) = voices(b) /\ Len(a) > Len(b))
    IN  SubSeq(ranked, 1, Min({MostObservations, Len(ranked)}))
=============================================================================

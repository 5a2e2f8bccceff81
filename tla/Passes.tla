-------------------------------- MODULE Passes --------------------------------
(***************************************************************************)
(* The deterministic passes over a finished report, in the order of the    *)
(* end of AuguryReviewer.review: severity is capped by reachability, index  *)
(* claims the migrations settle are withdrawn, one sentence about many      *)
(* files is collapsed, what is left is ranked. And coverage: what the       *)
(* report may claim to have read.                                           *)
(*                                                                          *)
(* A mechanism is a sequence of sentences. Of a sentence the passes see its *)
(* shape (what is left without its specifics), how many words that has and  *)
(* how many it had, the column it says has no index, and what it names.     *)
(***************************************************************************)
EXTENDS Findings

CONSTANTS
    Depth,          \* [path -> hops from an entrypoint, as a set of at most one]
    FanIn,          \* [path -> modules that import it]
    Deepest,        \* the largest depth, to keep scores integral
    Sentence,       \* [sentence -> [shape, words, tokens, column (at most one), names]]
    Migrations,     \* operations: [kind, table, columns]
    Raises,         \* [layer -> the modules whose signals raise it]
    Order           \* [path -> its place among paths and symbols sorted]

FarFromEntrypoint == 4
SystemicFiles == 3
EnoughToCompare == 5

\* What the passes themselves append to a mechanism.
Unreached == "severity lowered: no entrypoint reaches this module"
Far == "severity lowered: hops from the nearest entrypoint"
Systemic == "seen in many files"

NoteOf(said) == [shape |-> said, words |-> 6, tokens |-> 7, column |-> {}, names |-> {}]
Seen(s) == IF s \in DOMAIN Sentence THEN Sentence[s] ELSE NoteOf(s)

----------------------------------------------------------------------------
(* cap_severity.                                                            *)

HasEntrypoints == \E p \in DOMAIN Depth : Depth[p] # {}

\* The note a path earns a finding that claims more than it supports.
Notes(path) ==
    CASE path \notin DOMAIN Depth \/ ~ HasEntrypoints -> {}
      [] Depth[path] = {} -> {[ceiling |-> 0, why |-> Unreached]}
      [] \E d \in Depth[path] : d >= FarFromEntrypoint -> {[ceiling |-> 1, why |-> Far]}
      [] OTHER -> {}

Cap(f) ==
    LET above == { n \in Notes(f.path) : f.severity > n.ceiling }
    IN IF above = {} THEN f
       ELSE LET n == CHOOSE n \in above : TRUE
            IN [f EXCEPT !.severity = n.ceiling, !.says = Append(@, n.why)]

----------------------------------------------------------------------------
(* withdraw_false_index_claims.                                             *)

\* The leading column of each index the migrations make.
Indexed ==
    { << op.table, op.columns[1] >> : op \in
        { op \in ToSet(Migrations) : /\ op.kind \in {"create_index", "create_unique_constraint"}
                                     /\ op.columns # <<>> } }

\* The first claim in the mechanism is the one read, and its table may be
\* named anywhere in it.
Contradicted(f) ==
    LET claims == SelectSeq(f.says, LAMBDA s : Seen(s).column # {})
        named == UNION { Seen(s).names : s \in ToSet(f.says) }
    IN  /\ claims # <<>>
        /\ \E pair \in Indexed : pair[2] \in Seen(claims[1]).column /\ pair[1] \in named

----------------------------------------------------------------------------
(* collapse.                                                                *)

Shape(f) ==
    SelectSeq([i \in DOMAIN f.says |-> Seen(f.says[i]).shape], LAMBDA shape : shape # "")

WordsOf(says) == FoldLeft(LAMBDA n, s : n + Seen(s).words, 0, says)

Comparable(f) == WordsOf(f.says) >= EnoughToCompare

\* survivor_source: the worst, then the earliest path, then the first.
Survivor(group) == FirstLeast([i \in DOMAIN group |-> i],
    LAMBDA i : -group[i].severity * (Cardinality(DOMAIN Order) + 1) + Order[group[i].path])

Files(group) == { f.path : f \in ToSet(group) }

\* Slip: the earliest file survives, however mild its finding.
CollapsedByName(group) ==
    IF Cardinality(Files(group)) < SystemicFiles
    THEN [findings |-> group, dropped |-> <<>>]
    ELSE LET f == FirstLeast(group, LAMBDA g : Order[g.path])
             rest == Without(group, {f})
         IN [findings |-> << [f EXCEPT !.says = Append(@, Systemic)] >>,
             dropped |-> [j \in DOMAIN rest |-> Drop(rest[j], "collapsed")]]

\* Slip: what the survivor stands in for is forgotten.
CollapsedQuietly(group) ==
    IF Cardinality(Files(group)) < SystemicFiles
    THEN [findings |-> group, dropped |-> <<>>]
    ELSE [findings |-> << [group[1] EXCEPT !.says = Append(@, Systemic)] >>, dropped |-> <<>>]

\* What a group leaves: itself, or its survivor and the rest as dropped.
Collapsed(group) ==
    IF Cardinality(Files(group)) < SystemicFiles
    THEN [findings |-> group, dropped |-> <<>>]
    ELSE LET i == Survivor(group)
             rest == RemoveAt(group, i)
         IN [findings |-> << [group[i] EXCEPT !.says = Append(@, Systemic)] >>,
             dropped |-> [j \in DOMAIN rest |-> Drop(rest[j], "collapsed")]]

Collapse(findings) ==
    LET groups == Grouped(Kept(findings, Comparable), LAMBDA f : << f.layers, Shape(f) >>)
        each == [i \in DOMAIN groups |-> Collapsed(groups[i])]
    IN [findings |-> Kept(findings, LAMBDA f : ~ Comparable(f))
                     \o FlattenSeq([i \in DOMAIN each |-> each[i].findings]),
        dropped |-> FlattenSeq([i \in DOMAIN each |-> each[i].dropped])]

----------------------------------------------------------------------------
(* rank. A score is evidence * reach * blast + weight, in units of one      *)
(* twentieth of 10^-Deepest.                                                *)

Reach(path) ==
    IF path \notin DOMAIN Depth \/ Depth[path] = {} THEN 2 * 10 ^ (Deepest - 1)
    ELSE LET d == Max(Depth[path]) IN 7 ^ d * 10 ^ (Deepest - d)

Worth(f) ==
    LET evidence == (IF f.prediction # {} THEN 4 ELSE 1) * (IF f.arithmetic THEN 3 ELSE 2)
        fanIn == IF f.path \in DOMAIN FanIn THEN FanIn[f.path] ELSE 0
    IN evidence * Reach(f.path) * (10 + fanIn) + f.severity * 10 * 10 ^ Deepest

\* Worth first, then path, line and symbol.
Before(f, g) ==
    LET place(h) == << -Worth(h), Order[h.path], h.line, Order[h.symbol] >>
    IN \E k \in 1..4 : /\ \A j \in 1..(k - 1) : place(f)[j] = place(g)[j]
                       /\ place(f)[k] < place(g)[k]

Rank(findings) ==
    LET sorted == Sorted(DOMAIN findings,
            LAMBDA i, j : \/ Before(findings[i], findings[j])
                          \/ ~ Before(findings[j], findings[i]) /\ i < j)
    IN [n \in DOMAIN sorted |-> findings[sorted[n]]]

----------------------------------------------------------------------------
(* What the review returns for the drafts it heard.                         *)

Finished(drafts) ==
    LET report == ToReport(drafts)
        anchored == [i \in DOMAIN report.findings |-> Cap(report.findings[i])]
        kept == IF Indexed = {} THEN anchored
                ELSE Kept(anchored, LAMBDA f : ~ Contradicted(f))
        withdrawn == IF Indexed = {} THEN <<>> ELSE Kept(anchored, Contradicted)
        collapsed == Collapse(kept)
    IN [findings |-> Rank(collapsed.findings),
        dropped |-> report.dropped
                    \o [i \in DOMAIN withdrawn |-> Drop(withdrawn[i], "withdrawn")]
                    \o collapsed.dropped]

----------------------------------------------------------------------------
(* engineering_coverage. routed is what triage asked about each module that *)
(* it is known for, and analysed what the scheduler read.                   *)

\* Slip: what was asked counts as read, whether or not anything came back.
RowOfRouted(layer, analysed, routed, findings) ==
    [occurrences |-> Raises[layer],
     reviewed |-> { p \in Raises[layer] : p \in DOMAIN routed /\ layer \in routed[p] },
     findings |-> Len(SelectSeq(findings, LAMBDA f : f.layers = {layer}))]

\* A specialist's row.
Row(layer, analysed, routed, findings) ==
    LET occurrences == Raises[layer]
    IN [occurrences |-> occurrences,
        reviewed |-> { p \in occurrences \cap analysed :
                          p \in DOMAIN routed /\ layer \in routed[p] },
        findings |-> Len(SelectSeq(findings, LAMBDA f : f.layers = {layer}))]

Rows(analysed, routed, findings) ==
    [layer \in DOMAIN Raises |-> Row(layer, analysed, routed, findings)]

\* A finding whose layer is no specialist's name; a merge has joined names.
Unattributed(findings) ==
    Len(SelectSeq(findings, LAMBDA f : ~ \E layer \in DOMAIN Raises : f.layers = {layer}))
=============================================================================

---------------------------- MODULE Reference ----------------------------
(***************************************************************************)
(* A repository's dependencies against what the registry ships             *)
(* (core/reference/staleness.py, registry.py and changelog.py). Versions   *)
(* are their major numbers; 0 is no version.                               *)
(***************************************************************************)
EXTENDS Integers, Sequences, FiniteSets, SequencesExt, TLC

CONSTANT
    NoFacts   \* the registry's None: unknown, or it did not answer

Unpinned == 0

\* requirements_of: later files and pyproject take a name from earlier ones.
Requirements(files) ==
    FoldLeft(LAMBDA found, file : file @@ found, [n \in {} |-> Unpinned], files)

\* _majors_between.
MajorsBetween(pinned, latest) == IF latest > pinned THEN latest - pinned ELSE 0

\* dependency_audit for one package: unpinned is a fact without a registry.
Rule(version, facts) ==
    IF version = Unpinned THEN {"dependency-unpinned"}
    ELSE IF facts # NoFacts /\ MajorsBetween(version, facts) > 0
       THEN {"dependency-major-versions-behind"}
    ELSE {}

Unreachable(pinned, seen) == {n \in DOMAIN pinned : pinned[n] # Unpinned /\ seen[n] = NoFacts}

\* dependency_audit over an answered registry: findings, and what it covered.
Audit(pinned, seen) ==
    LET findings == UNION {{[rule |-> rule, subject |-> n] : rule \in Rule(pinned[n], seen[n])} :
                              n \in DOMAIN pinned}
    IN  [findings |-> findings,
         declared |-> Cardinality(DOMAIN pinned),
         unreachable |-> Unreachable(pinned, seen)]

\* changelog_notes: what a search returned that can be opened; a search that
\* failed returned nothing.
Notes(results) == SelectSeq(results, LAMBDA note : note.http)
=============================================================================

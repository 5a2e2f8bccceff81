----------------------------- MODULE Artifacts -----------------------------
(***************************************************************************)
(* What the deployment declares and what is wrong with it                  *)
(* (core/artifacts/reader.py and checks.py).                               *)
(*                                                                         *)
(* A file is a path (its last segment the name), the kind its name gives   *)
(* it, and what a parser finds in it. The reader keeps an inventory capped *)
(* per kind; the checks read the files the inventory names.                *)
(***************************************************************************)
EXTENDS Integers, Sequences, FiniteSets, SequencesExt, FiniteSetsExt, TLC

CONSTANTS
    Unstated,      \* a number the file does not settle on
    Hidden,        \* EXCLUDED_DIRS and ALSO_EXCLUDED
    Kinds,         \* ArtifactKind, in its order
    MaxPerKind, MaxCopies, MaxEnvNames,
    LocksFor,      \* LOCKS_FOR: the lockfiles each manifest may have
    Workloads,     \* WORKLOAD_KINDS
    Gates          \* _GATING_TRIGGERS

Folder(file) == Front(file.path)
Name(file) == Last(file.path)
UpTo(s, n) == SubSeq(s, 1, Min({n, Len(s)}))
Stated(s) == SelectSeq(s, LAMBDA v : v # Unstated)
FirstStated(s) == IF Stated(s) = <<>> THEN Unstated ELSE Head(Stated(s))

-----------------------------------------------------------------------------
(* The reader. *)

\* _walk: no link, nothing that may hold credentials, nothing vendored.
Walked(file) == ~file.link /\ ~file.secret /\ ToSet(Folder(file)) \cap Hidden = {}

Of(instructions, keyword) == SelectSeq(instructions, LAMBDA i : i.keyword = keyword)

\* _dockerfile: the last stage is what ships, and the last of each instruction.
DockerfileFacts(instructions) ==
    LET copies == SelectSeq(instructions, LAMBDA i : i.keyword \in {"COPY", "ADD"})
        last(keyword) == IF Of(instructions, keyword) = <<>> THEN Unstated
                         ELSE Last(Of(instructions, keyword))
    IN  [base_image |-> last("FROM"), user |-> last("USER"), copies |-> UpTo(copies, MaxCopies),
         healthcheck |-> last("HEALTHCHECK"),
         absent |-> {keyword \in {"USER", "HEALTHCHECK"} : Of(instructions, keyword) = <<>>}]

\* _kubernetes: one artefact for each document, wherever its containers are.
KubernetesFacts(doc) ==
    LET probes == UNION {c.probes : c \in doc.containers}
        has(bucket) == \E c \in doc.containers : bucket \in c.resources
    IN  [kind |-> doc.kind, replicas |-> doc.replicas, probes |-> probes,
         absent |-> IF doc.kind \notin Workloads THEN {}
                    ELSE {bucket \in {"limits", "requests"} : ~has(bucket)}
                         \cup ({"liveness", "readiness"} \ probes)]

Steps(workflow) == FlattenSeq([j \in DOMAIN workflow.jobs |-> workflow.jobs[j].steps])

\* _ci: no triggers read means no claim about them.
CiFacts(workflow) ==
    LET tests == \E i \in DOMAIN Steps(workflow) : Steps(workflow)[i].tests
    IN  [tests |-> tests, triggers |-> workflow.triggers,
         absent |-> (IF tests THEN {} ELSE {"tests"}) \cup
                    (IF workflow.triggers # {} /\ "pull_request" \notin workflow.triggers
                        THEN {"pull_request"} ELSE {})]

\* _manifest: a lockfile counts in the directory of its manifest.
Locked(file, files) ==
    \E lock \in LocksFor[Name(file)] :
        \E i \in DOMAIN files : Folder(files[i]) = Folder(file) /\ Name(files[i]) = lock
ManifestFacts(file, files) ==
    [absent |-> IF Name(file) \in DOMAIN LocksFor /\ ~Locked(file, files) THEN {"lockfile"} ELSE {}]

\* _webserver: of a directive every distinct value, of an assignment the last.
WebserverFacts(content) ==
    [values |-> IF content.executed THEN UpTo(Reverse(content.values), 1)
                ELSE SetToSeq(ToSet(content.values)),
     absent |-> {}]

\* _procfile and _env_example keep lines and names, and only so many.
NamesIn(content) == UpTo(SetToSeq(ToSet(content)), MaxEnvNames)

\* _artifacts_for: none, one or several artefacts of a file.
ArtifactsFor(file, files) ==
    LET one(facts) == <<[kind |-> file.is, file |-> file, facts |-> facts]>>
        bare == one([absent |-> {}])
    IN  CASE file.is = "dockerfile" -> one(DockerfileFacts(file.content))
          [] file.is = "ci" -> one(CiFacts(file.content))
          [] file.is = "manifest" -> one(ManifestFacts(file, files))
          [] file.is = "webserver" -> one(WebserverFacts(file.content))
          [] file.is = "env-example" -> one([names |-> NamesIn(file.content), absent |-> {}])
          [] file.is = "kubernetes" ->
                 [d \in DOMAIN file.content |-> [kind |-> file.is, file |-> file,
                                                 facts |-> KubernetesFacts(file.content[d])]]
          [] file.is \in {"compose", "lockfile", "procfile", "terraform"} -> bare
          [] OTHER -> <<>>

\* read_artifacts, over files in the order of their depth.
Inventory(tree) ==
    LET files == SelectSeq(tree, Walked)
        found == FlattenSeq([i \in DOMAIN files |-> ArtifactsFor(files[i], files)])
        of(kind) == SelectSeq(found, LAMBDA a : a.kind = kind)
        unlocked == SelectSeq(of("manifest"), LAMBDA a : "lockfile" \in a.facts.absent)
    IN  [artifacts |-> FlattenSeq([k \in DOMAIN Kinds |-> UpTo(of(Kinds[k]), MaxPerKind)]),
         totals |-> [kind \in {a.kind : a \in ToSet(found)} |-> Len(of(kind))],
         unlocked |-> UpTo(unlocked, MaxPerKind)]

-----------------------------------------------------------------------------
(* The checks. A finding is its rule, its file and the line. *)

Finding(rule, file, line) == [rule |-> rule, path |-> file.path, line |-> line]

\* _quota_blind: workers counted from the host's CPUs.
QuotaBlind(file, line, command) ==
    IF command.cpus THEN {Finding("workers-ignore-the-cpu-quota", file, line)} ELSE {}

\* _is_mutable_tag.
MutableTag(image) == image.name \notin {"", "scratch"} /\ image.tag \in {"", "latest"}

\* _latest_in_dockerfile: build arguments by their defaults so far, and no
\* stage of this file is an image.
LatestTags(file) ==
    LET walk == FoldLeft(LAMBDA w, i :
            IF i.keyword = "ARG" THEN [w EXCEPT !.defaults = {d \in @ : d.var # i.var} \cup {i}]
            ELSE IF i.keyword # "FROM" THEN w
            ELSE LET given == {d.image : d \in {x \in w.defaults : x.var = i.var}}
                     image == IF i.var = "" \/ given = {} THEN i.image ELSE CHOOSE g \in given : TRUE
                 IN  [w EXCEPT !.aliases = @ \cup ({i.alias} \ {""}),
                               !.found = IF image.name \notin w.aliases /\ MutableTag(image)
                                            THEN @ \cup {Finding("latest-tag", file, i.line)} ELSE @],
            [defaults |-> {}, aliases |-> {}, found |-> {}], file.content)
    IN  walk.found

\* _final_stage: what survives into the shipped image.
FinalStage(instructions) ==
    LET starts == {i \in DOMAIN instructions : instructions[i].keyword = "FROM"}
    IN  IF starts = {} THEN <<>> ELSE SubSeq(instructions, Max(starts), Len(instructions))

DropsPrivilege(i) == i.keyword = "USER" /\ i.user \notin {"", "root", "0"}

\* _dockerfile of the checks; a compose file would declare the probe itself.
DockerfileFindings(file, alone) ==
    LET stage == FinalStage(file.content)
        starters == SelectSeq(stage, LAMBDA i : i.keyword \in {"CMD", "ENTRYPOINT"})
        anchor == IF starters # <<>> THEN Last(starters).line
                  ELSE IF stage # <<>> THEN Head(stage).line ELSE 1
        root == stage # <<>> /\ ~\E i \in DOMAIN stage : DropsPrivilege(stage[i])
        unprobed == alone /\ Of(file.content, "HEALTHCHECK") = <<>>
    IN  IF file.content = <<>> THEN {}
        ELSE (IF root THEN {Finding("container-runs-as-root", file, Head(stage).line)} ELSE {})
             \cup LatestTags(file)
             \cup (IF unprobed THEN {Finding("no-healthcheck", file, anchor)} ELSE {})
             \cup UNION {QuotaBlind(file, i.line, i.command) : i \in ToSet(starters)}

SuperuserReserved == 3
DefaultConnections == 100

Allows(compose) ==
    LET limits == Stated([i \in DOMAIN compose |-> compose[i].command.max_connections])
    IN  IF limits = <<>> THEN DefaultConnections ELSE Head(limits)

OrElse(value, default) == IF value \in {Unstated, 0} THEN default ELSE value

\* What a service may open at worst, where every factor of it is declared.
PerWorker(spec) == FirstStated(spec.pool) + OrElse(FirstStated(spec.overflow), 0)
Workers(spec) == FirstStated(<<spec.command.workers>> \o spec.workers)
Replicas(spec) == OrElse(spec.replicas, 1)
Declares(spec) == Workers(spec) # Unstated /\ FirstStated(spec.pool) # Unstated

\* The arithmetic with the burst above the pool forgotten.
PerWorkerAtRest(spec) == FirstStated(spec.pool)
EachWorker(spec) == PerWorker(spec)

\* _connection_arithmetic: the product over the budget, and the advice.
ConnectionFindings(file, spec, compose) ==
    LET budget == Allows(compose) - SuperuserReserved
        each == EachWorker(spec)
        workers == Workers(spec)
        overflow == OrElse(FirstStated(spec.overflow), 0)
        pool == (budget \div Max({1, Replicas(spec) * workers})) - overflow
    IN  IF ~Declares(spec) THEN {}
        ELSE IF Replicas(spec) * workers * each <= budget THEN {}
        ELSE {[rule |-> "quota-without-replicas-arithmetic", path |-> file.path, line |-> spec.line,
               workers |-> budget \div Max({1, Replicas(spec) * each}), pool |-> Max({0, pool})]}

\* _service and the arithmetic, for each service of a compose file.
ComposeFindings(file) ==
    LET compose == file.content
        database == \E i \in DOMAIN compose : compose[i].database
        of(spec) ==
            (IF ~spec.memory THEN {Finding("no-memory-limit", file, spec.line)} ELSE {})
            \cup (IF spec.ports /\ ~spec.probe THEN {Finding("no-healthcheck", file, spec.line)} ELSE {})
            \cup (IF MutableTag(spec.image) THEN {Finding("latest-tag", file, spec.line)} ELSE {})
            \cup QuotaBlind(file, spec.line, spec.command)
            \cup (IF database THEN ConnectionFindings(file, spec, compose) ELSE {})
    IN  UNION {of(spec) : spec \in ToSet(compose)}

\* _manifest of the checks: beside it in the inventory, which is capped.
ManifestFindings(file, shown) ==
    IF Name(file) \in DOMAIN LocksFor /\ ~Locked(file, shown)
       THEN {Finding("lockfile-missing", file, 1)} ELSE {}

\* _workflow: tests that gate nothing, one finding for each workflow.
WorkflowFindings(file) ==
    LET workflow == file.content
        job(t) == workflow.jobs[t[1]]
        step(t) == job(t).steps[t[2]]
        tested == {t \in (DOMAIN workflow.jobs) \X (1..Len(Steps(workflow))) :
                      t[2] \in DOMAIN job(t).steps /\ step(t).tests}
        soft == \E t \in tested : job(t).soft \/ step(t).soft
        swallowed == \E t \in tested : step(t).swallowed
    IN  IF tested # {} /\ (workflow.triggers \cap Gates = {} \/ soft \/ swallowed)
           THEN {Finding("ci-does-not-gate", file, 1)} ELSE {}

\* deployment_findings, of the inventory it is given.
DeploymentFindings(artifacts) ==
    LET shown == [i \in DOMAIN artifacts |-> artifacts[i].file]
        composed == \E f \in ToSet(shown) : f.is = "compose"
        of(file) ==
            CASE file.is = "dockerfile" -> DockerfileFindings(file, ~composed)
              [] file.is = "compose" -> ComposeFindings(file)
              [] file.is = "procfile" ->
                     UNION {QuotaBlind(file, line.line, line) : line \in ToSet(file.content)}
              [] file.is = "manifest" -> ManifestFindings(file, shown)
              [] file.is = "ci" -> WorkflowFindings(file)
              [] OTHER -> {}
    IN  UNION {of(file) : file \in {f \in ToSet(shown) : ~f.secret}}
=============================================================================

------------------------------ MODULE Pipeline ------------------------------
(***************************************************************************)
(* One review as the server runs it (server/app.py, _review) and as the    *)
(* browser shows it (web/src/lib/useRun.ts, fold): the deployment is       *)
(* surveyed, the code mapped, the deterministic checks made, every package *)
(* looked up, the modules put to their specialists, and what they said     *)
(* made into the report.  The coroutine runs on the event loop; the audit  *)
(* of the dependencies runs on a worker thread, with a pool of its own for *)
(* the lookups, and what those say reaches the loop through its queue of   *)
(* callbacks.                                                              *)
(*                                                                         *)
(* How modules are chosen within a budget is Scheduler's, and how a batch  *)
(* is read Reviewer's: here a review reads some of the modules, at once.   *)
(***************************************************************************)
EXTENDS Architecture, Schema, Reference, Artifacts, Forecast, Basics

CONSTANTS
    Repositories,   \* what may be reviewed, by name
    Concerns,       \* LAYERS: [specialist -> the signals that call for it]
    LanguageOf,     \* EXTENSIONS: [suffix -> language]
    Picks,          \* what triage's model may answer: sets of names
    Opinions,       \* [<<module, specialist>> -> what it may say: sequences of drafts]
    Readings,       \* what synthesis' model may answer: sequences of citations
    Floor, Ceiling, WidestBand, Overlong, LineOf, Deepest, Sentence, Order,
    Window          \* the steps the page keeps: 400 (useRun.ts)

\* Cartographer.map of a repository, with the entrypoints its services declare;
\* <<>> if it refuses.
MapOf(given) ==
    IF Maps(given.tree, given.scope, FALSE)
    THEN RepoMap(given.tree, given.scope, Declared(given.compose), FALSE) ELSE <<>>

ASSUME ThePageKeepsSteps == Window \in Nat \ {0}

\* What is read of a repository is lists, there is a base at least (the scope,
\* or the root), a base pins finitely many packages, and a map is of finitely
\* many modules, each with a name of its own: its path.
ASSUME RepositoriesAreRead ==
    \A name \in DOMAIN Repositories :
        LET given == Repositories[name]
        IN  /\ IsList(Services(given.compose))
            /\ IsList(given.bases) /\ given.bases # <<>>
            /\ \A b \in DOMAIN given.bases :
                  /\ IsFiniteSet(DOMAIN Requirements(given.bases[b].pins))
                  /\ IsList(SchemaFindings(ReadMigrations(given.bases[b].migrations)))
            /\ DOMAIN MapOf(given) # {} =>
                  /\ IsFiniteSet(MapOf(given).modules)
                  /\ \A i, j \in MapOf(given).modules :
                        MapOf(given).sources[i].id = MapOf(given).sources[j].id => i = j

\* What a specialist says of a module is a list, and modules and specialists
\* are sorted by different places.
ASSUME ReviewsAreRead ==
    /\ IsFiniteSet(DOMAIN Concerns) /\ DOMAIN Concerns \subseteq DOMAIN Order
    /\ \A x \in DOMAIN Order : Order[x] \in Int /\ \A y \in DOMAIN Order : Order[x] = Order[y] => x = y
    /\ \A name \in DOMAIN Repositories :
          LET made == MapOf(Repositories[name])
          IN  DOMAIN made # {} =>
                \A i \in made.modules : \A l \in DOMAIN Concerns :
                    Concerns[l] \cap made.sources[i].signals # {} =>
                        /\ made.sources[i].id \in DOMAIN Order
                        /\ \A drafts \in Opinions[<<made.sources[i].id, l>>] : IsList(drafts)

\* The factors of a service that declares them are integers, its workers were
\* read of digits, and a database allows its reserve at least, without which it
\* does not start; or the service opens a connection for each worker.
ASSUME FactorsAreCounts ==
    /\ Unstated \notin Int
    /\ \A name \in DOMAIN Repositories :
          \A file \in {f \in ToSet(Repositories[name].files) : f.is = "compose"} :
              /\ Allows(file.content) \in Int
              /\ \A spec \in {s \in ToSet(file.content) : Declares(s)} :
                    /\ {Workers(spec), FirstStated(spec.pool), Replicas(spec),
                        OrElse(FirstStated(spec.overflow), 0)} \subseteq Int
                    /\ Workers(spec) >= 0
                    /\ \/ Allows(file.content) >= SuperuserReserved
                       \/ Replicas(spec) * PerWorker(spec) >= 1

VARIABLES
    repo,           \* the repository of this run
    map,            \* the RepoMap the mapper makes of it, <<>> where it raises
    at,             \* where the coroutine is
    checks,         \* the findings about its deployment and its schema
    place,          \* the turn of the loop it is in: a base, then a stale package
    wanted,         \* the packages this audit had to ask about
    asking,         \* those the pool has no answer for yet
    seen,           \* the registry's cache: Registry._seen
    handed,         \* the callbacks the worker has handed to the loop
    dependencies,   \* the findings of the audits so far
    batch,          \* the modules being read, {} before
    asked,          \* [module once routed -> the specialists still to answer]
    heard,          \* [module once routed -> what its specialists have said]
    routed,         \* _Narration.routed
    report,         \* what the review returned, <<>> before
    screen          \* the RunState of a viewer who was there from the start

auditing == <<place, wanted, asking, seen, handed, dependencies>>
reading == <<batch, asked, heard, routed>>
vars == <<repo, map, at, checks, auditing, reading, report, screen>>

With(f, x, v) == [y \in DOMAIN f \cup {x} |-> IF y = x THEN v ELSE f[y]]

-----------------------------------------------------------------------------
(* The browser.  A step is its event and what fold reads of it. *)

Event(name) == [event |-> name]

Stages == <<"survey", "map", "schema", "specialists", "report">>

\* STAGE_OF: the stage an event proves the run has reached, by its place.
Proves == <<{"scout.started", "service.detected"},
            {"language.detected", "structure.discovered", "model.built"},
            {"research.started", "research.finished"},
            {"agent.started", "agent.handoff", "agent.finished"},
            {"coverage.computed", "prediction.generated"}>>
StageOf == [e \in UNION ToSet(Proves) |-> CHOOSE s \in DOMAIN Proves : e \in Proves[s]]

\* The stage reached is running, those before it are done.
Reached(stages, k) ==
    [s \in DOMAIN stages |-> IF s < k THEN "done" ELSE IF s = k THEN "running" ELSE stages[s]]

\* What the telemetry shows of a step: a lookup is told, any other is a line.
Line(step) == IF step.event \in {"research.started", "research.finished"} THEN step ELSE Event("other")
\* slice(-400), of a list with one step more.
Recent(steps) == IF Len(steps) > Window THEN Tail(steps) ELSE steps
Noted(shown, step) == [shown EXCEPT !.steps = Recent(Append(@, Line(step)))]

\* What a step changes on screen besides.
Painted(shown, step) ==
    CASE step.event = "review.completed" ->
             [shown EXCEPT !.stages = [s \in DOMAIN Stages |-> "done"],
                           !.files = [m \in DOMAIN @ |-> IF @[m] = "reading" THEN "read" ELSE @[m]],
                           !.over = "completed"]
      [] step.event = "review.failed" -> [shown EXCEPT !.over = "failed"]
      [] step.event = "finding.detected" ->
             [shown EXCEPT !.files = With(@, step.at[1], "flagged"), !.findings = @ \cup {step.at}]
      [] step.event = "scheduler" ->
             [shown EXCEPT !.files = With(@, step.module, "reading")]
      [] step.event \in DOMAIN StageOf ->
             [shown EXCEPT
                 !.stages = Reached(@, StageOf[step.event]),
                 !.files = IF step.event = "agent.started" THEN With(@, step.module, "reading") ELSE @,
                 !.tiers = IF step.event = "model.built" THEN step.layers ELSE @]
      [] OTHER -> shown

\* fold.
Fold(shown, step) == Painted(Noted(shown, step), step)

\* publish, one step after the other.
Say(steps) == screen' = FoldLeft(Fold, screen, steps)

-----------------------------------------------------------------------------
(* The passes over the repository. *)

Compose == Repositories[repo].compose
Bases == Repositories[repo].bases

Mapping == MapOf(Repositories[repo])

IdOf(i) == map.sources[i].id
Mapped == {IdOf(i) : i \in map.modules}
PlaceOf(m) == CHOOSE i \in map.modules : IdOf(i) = m

\* specialists_for, and the modules that raise each specialist's concern.
Allowed(m) == {l \in DOMAIN Concerns : Concerns[l] \cap map.sources[PlaceOf(m)].signals # {}}
RaisedBy == [l \in DOMAIN Concerns |-> {m \in Mapped : l \in Allowed(m)}]

\* request_path: hops of the modules that have any.
Tiers == [m \in {IdOf(i) : i \in DOMAIN map.depth} |-> map.depth[PlaceOf(m)]]

\* languages_in: how many modules of each language.
LanguagesIn ==
    LET spoken(i) == LanguageOf[map.sources[i].ext]
    IN  [l \in {spoken(i) : i \in map.modules} |-> Cardinality({i \in map.modules : spoken(i) = l})]

\* read_artifacts, deployment_findings, and schema_findings of each base.
Operations(b) == ReadMigrations(Bases[b].migrations)
Checks ==
    [deployment |-> DeploymentFindings(Inventory(Repositories[repo].files).artifacts),
     schema |-> FlattenSeq([b \in DOMAIN Bases |-> SchemaFindings(Operations(b))])]

\* What AuguryReviewer does with the drafts, over the map and the migrations
\* of the root.
Pass == INSTANCE Passes WITH
    Depth <- [m \in Mapped |-> IF PlaceOf(m) \in DOMAIN map.depth THEN {map.depth[PlaceOf(m)]} ELSE {}],
    FanIn <- [m \in Mapped |-> map.fan_in[PlaceOf(m)]],
    Migrations <- Operations(1),
    Raises <- RaisedBy

\* _finding: where a finding is, of the specialists, a migration or a package.
Text(path) == FoldLeft(LAMBDA text, part : text \o "/" \o part, Head(path), Tail(path))
KeyOf(finding) == <<finding.path, finding.line, finding.symbol>>
KeyOfSchema(finding) == <<Text(finding.path), finding.line, finding.rule>>
KeyOfPackage(finding) == <<"requirements", 1, finding.rule>>
Detected(key) == [event |-> "finding.detected", at |-> key]

-----------------------------------------------------------------------------
(* The coroutine up to the audit. *)

Init ==
    /\ repo \in DOMAIN Repositories
    /\ map = Mapping /\ at = "survey" /\ place = 1
    /\ wanted = {} /\ asking = {} /\ seen = <<>> /\ handed = <<>> /\ dependencies = <<>>
    /\ batch = {} /\ asked = <<>> /\ heard = <<>> /\ routed = <<>> /\ report = <<>> /\ checks = <<>>
    /\ screen = [stages |-> [s \in DOMAIN Stages |-> "waiting"], files |-> <<>>, findings |-> {},
                 steps |-> <<>>, tiers |-> <<>>, over |-> ""]

\* The deployment is surveyed, and each service announced.
SurveyStep ==
    /\ at = "survey"
    /\ Say(<<Event("review.started"), Event("scout.started")>>
           \o [s \in DOMAIN Services(Compose) |-> Event("service.detected")])
    /\ at' = "map"
    /\ UNCHANGED <<repo, map, checks, auditing, reading, report>>

\* The map, its languages and, where there is one, the path of a request.
MapStep ==
    /\ at = "map" /\ DOMAIN map # {}
    /\ Say(<<Event("structure.discovered")>>
           \o [i \in 1..Cardinality(DOMAIN LanguagesIn) |-> Event("language.detected")]
           \o (IF DOMAIN Tiers = {} THEN <<>> ELSE <<[event |-> "model.built", layers |-> Tiers]>>))
    /\ checks' = Checks
    /\ at' = "audit"
    /\ UNCHANGED <<repo, map, auditing, reading, report>>

-----------------------------------------------------------------------------
(* The audit of the dependencies. *)

Pinned(b) == Requirements(Bases[b].pins)

\* Slip: what the worker hands over last is run first.
Ahead(queue, steps) == steps \o queue
\* call_soon_threadsafe: behind everything handed over before.
Behind(queue, steps) == queue \o steps

LookedUp(n, source) == [event |-> "research.started", of |-> <<n, source>>]
Answered(n, source, found) == [event |-> "research.finished", of |-> <<n, source>>, found |-> found]
Audited == Event("audited")

\* Slip: the cache is not consulted.
EveryPackage(b) == DOMAIN Pinned(b)
\* The packages of a base the registry has not been asked about.
Missing(b) == DOMAIN Pinned(b) \ DOMAIN seen

\* facts_for_many, on the worker: every miss is announced, then put to the pool.
AuditAsks ==
    /\ at = "audit"
    /\ at' = "lookups" /\ wanted' = Missing(place) /\ asking' = Missing(place)
    /\ handed' = Behind(handed, SetToSeq({LookedUp(n, "pypi.org") : n \in Missing(place)}))
    /\ UNCHANGED <<repo, map, checks, place, seen, dependencies, reading, report, screen>>

\* A thread of the pool: the registry answers, or it does not.
PoolAnswers(n) ==
    /\ n \in asking
    /\ \E answer \in {Repositories[repo].registry[n], NoFacts} : seen' = With(seen, n, answer)
    /\ asking' = asking \ {n}
    /\ UNCHANGED <<repo, map, checks, at, place, wanted, handed, dependencies, reading, report, screen>>

\* The pool is done: what it learned is announced, and the coroutine is woken.
AuditEnds ==
    /\ at = "lookups" /\ asking = {}
    /\ handed' = Behind(Behind(handed,
                     SetToSeq({Answered(n, "pypi.org", seen[n] # NoFacts) : n \in wanted})), <<Audited>>)
    /\ at' = "audited"
    /\ UNCHANGED <<repo, map, checks, place, wanted, asking, seen, dependencies, reading, report, screen>>

\* The loop runs the next callback: a lookup is said, or the coroutine goes on.
Deliver ==
    /\ handed # <<>>
    /\ handed' = Tail(handed)
    /\ IF Head(handed) = Audited
       THEN /\ dependencies' = dependencies \o SetToSeq(Audit(Pinned(place), seen).findings)
            /\ IF place < Len(Bases) THEN at' = "audit" /\ place' = place + 1
                                     ELSE at' = "changelogs" /\ place' = 1
            /\ UNCHANGED screen
       ELSE Say(<<Head(handed)>>) /\ UNCHANGED <<at, place, dependencies>>
    /\ UNCHANGED <<repo, map, checks, wanted, asking, seen, reading, report>>

\* The packages a major version behind, in the order they were found.
Stale == SelectSeq(dependencies, LAMBDA f : f.rule = "dependency-major-versions-behind")

\* Where to read about one of them: a search is announced, and made on a worker.
Search ==
    /\ at = "changelogs" /\ place <= Len(Stale)
    /\ Say(<<LookedUp(Stale[place].subject, "duckduckgo")>>)
    /\ at' = "searching"
    /\ UNCHANGED <<repo, map, checks, auditing, reading, report>>

\* What a search may return: nothing, or pages of which the notes keep some.
SearchResults == {<<>>, <<[http |-> FALSE]>>, <<[http |-> FALSE], [http |-> TRUE]>>}

Searched ==
    /\ at = "searching"
    /\ \E results \in SearchResults :
          Say(<<Answered(Stale[place].subject, "duckduckgo", Notes(results) # <<>>)>>)
    /\ at' = "changelogs" /\ place' = place + 1
    /\ UNCHANGED <<repo, map, checks, wanted, asking, seen, handed, dependencies, reading, report>>

\* The deterministic findings are announced, and the review is begun.
Announce ==
    /\ at = "changelogs" /\ place > Len(Stale)
    /\ Say([i \in DOMAIN checks.schema |-> Detected(KeyOfSchema(checks.schema[i]))]
           \o [i \in DOMAIN dependencies |-> Detected(KeyOfPackage(dependencies[i]))])
    /\ at' = "review"
    /\ UNCHANGED <<repo, map, checks, auditing, reading, report>>

-----------------------------------------------------------------------------
(* The review: AuguryReviewer under _Narration, which says its steps again. *)

Signalled == {m \in Mapped : Allowed(m) # {}}
InOrder(modules) == Pass!Sorted(modules, LAMBDA m, n : Order[m] < Order[n])

\* The scheduler selects what the budget allows, at the least its probe.
Select ==
    /\ at = "review"
    /\ \E picked \in SUBSET Signalled :
          /\ picked # {} \/ Signalled = {}
          /\ batch' = picked
          /\ Say([i \in DOMAIN InOrder(picked) |-> [event |-> "scheduler", module |-> InOrder(picked)[i]]])
    /\ at' = "reading"
    /\ UNCHANGED <<repo, map, checks, auditing, asked, heard, routed, report>>

\* What triage asked, narrowed to what the module's signals allow.
Chosen(m, named) == Allowed(m) \cap named

\* A module is routed; one that allows a single specialist is not put to the model.
Route(m) ==
    /\ at = "reading" /\ m \in batch \ DOMAIN asked
    /\ \E named \in IF Cardinality(Allowed(m)) = 1 THEN {Allowed(m)} ELSE Picks :
          /\ asked' = With(asked, m, Chosen(m, named))
          /\ routed' = IF Chosen(m, named) = {} THEN routed ELSE With(routed, m, Chosen(m, named))
          /\ Say(IF Chosen(m, named) = {} THEN <<>>
                 ELSE <<Event("agent.handoff")>> \o SetToSeq(
                        {[event |-> "agent.started", layer |-> l, module |-> m] : l \in Chosen(m, named)}))
    /\ heard' = With(heard, m, <<>>)
    /\ UNCHANGED <<repo, map, checks, at, auditing, batch, report>>

\* The file is gone, or triage's call failed: nobody reads the module.
Lose(m) ==
    /\ at = "reading" /\ m \in batch \ DOMAIN asked
    /\ asked' = With(asked, m, {}) /\ heard' = With(heard, m, <<>>)
    /\ UNCHANGED <<repo, map, checks, at, auditing, batch, routed, report, screen>>

\* Slip: a specialist's findings are announced as it speaks.
AnswerAloud(m, l) ==
    /\ at = "reading" /\ m \in DOMAIN asked /\ l \in asked[m]
    /\ \E drafts \in Opinions[<<m, l>>] :
          /\ heard' = [heard EXCEPT ![m] = With(@, l, drafts)]
          /\ Say([i \in DOMAIN drafts |-> Detected(KeyOf(drafts[i]))])
    /\ asked' = [asked EXCEPT ![m] = @ \ {l}]
    /\ UNCHANGED <<repo, map, checks, at, auditing, batch, routed, report>>

\* A specialist answers.  A remembered answer leaves no step; a call's step is
\* said again as agent.finished, which changes nothing that is on screen here.
Answer(m, l) ==
    /\ at = "reading" /\ m \in DOMAIN asked /\ l \in asked[m]
    /\ \E drafts \in Opinions[<<m, l>>] : heard' = [heard EXCEPT ![m] = With(@, l, drafts)]
    /\ asked' = [asked EXCEPT ![m] = @ \ {l}]
    /\ \E step \in {<<>>, <<Event("agent.finished")>>} : Say(step)
    /\ UNCHANGED <<repo, map, checks, at, auditing, batch, routed, report>>

\* gather_survivors: one that fails costs its opinion.
Fail(m, l) ==
    /\ at = "reading" /\ m \in DOMAIN asked /\ l \in asked[m]
    /\ asked' = [asked EXCEPT ![m] = @ \ {l}]
    /\ UNCHANGED <<repo, map, checks, at, auditing, batch, heard, routed, report, screen>>

\* Every module of the batch is back from its specialists.
AllBack == DOMAIN asked = batch /\ \A m \in batch : asked[m] = {}

\* The modules some specialist was heard about: coverage.analysed.
Analysed == {m \in batch : DOMAIN heard[m] # {}}

\* What was said of one module, reconciled; a layer's drafts before the next's.
Said(m) ==
    Pass!Reconcile(FlattenSeq([i \in DOMAIN InOrder(DOMAIN heard[m]) |->
                                        heard[m][InOrder(DOMAIN heard[m])[i]]]))
Drafts == FlattenSeq([i \in DOMAIN InOrder(batch) |-> Said(InOrder(batch)[i])])

\* Every module is back: the report is made, and announced with its coverage
\* and what it is forecast to lead to.
Conclude ==
    /\ at = "reading" /\ AllBack
    /\ \E drafts \in {Drafts} : \E made \in {Pass!Finished(drafts)} :
           /\ report' = [findings |-> made.findings, dropped |-> made.dropped,
                         rows |-> Pass!Rows(Analysed, routed, made.findings),
                         unattributed |-> Pass!Unattributed(made.findings),
                         pressures |-> Forecasts(made.findings), synthesis |-> <<>>,
                         architecture |-> <<>>, deployment |-> {}]
           /\ Say([i \in DOMAIN made.findings |-> Detected(KeyOf(made.findings[i]))]
                  \o <<Event("coverage.computed"), Event("prediction.generated")>>)
    /\ at' = "synthesis"
    /\ UNCHANGED <<repo, map, checks, auditing, reading>>

\* What the findings say together, where there is enough to ask; the call may
\* fail, and then there is nothing.
Observe ==
    /\ at = "synthesis"
    /\ \E drafts \in IF WorthAsking(report.findings) THEN Readings \cup {<<>>} ELSE {<<>>} :
          report' = [report EXCEPT !.synthesis = Observations(drafts, report.findings)]
    /\ at' = "write"
    /\ UNCHANGED <<repo, map, checks, auditing, reading, screen>>

\* The document and the diagram.
Complete ==
    /\ at = "write"
    /\ LET counted == [i \in map.modules |-> Len(SelectSeq(report.findings,
                          LAMBDA f : f.path = IdOf(i)))]
       IN  report' = [report EXCEPT !.architecture = Drawn(Compose, map, counted),
                                      !.deployment = checks.deployment]
    /\ Say(<<Event("review.completed")>>)
    /\ at' = "over"
    /\ UNCHANGED <<repo, map, checks, auditing, reading>>

-----------------------------------------------------------------------------
(* The except clause. *)

\* Slip: the run records its failure and says nothing.
EndQuietly ==
    /\ at' = "over"
    /\ UNCHANGED <<repo, map, checks, auditing, reading, report, screen>>

EndFailed ==
    /\ at' = "over"
    /\ Say(<<Event("review.failed")>>)
    /\ UNCHANGED <<repo, map, checks, auditing, reading, report>>

\* The mapper refuses: nothing in scope, or a specifier that leads outside.
Refuse == at = "map" /\ DOMAIN map = {} /\ EndFailed

\* Any other line of the coroutine may raise; what synthesis raises is caught.
Break ==
    /\ \/ at \in {"survey", "map", "audit", "changelogs", "review", "write"}
       \/ at = "reading" /\ AllBack
    /\ EndFailed

\* A coroutine of the review: a module, or one of its specialists.
Read(m) == Route(m) \/ Lose(m) \/ \E l \in DOMAIN Concerns : Answer(m, l) \/ Fail(m, l)

Next ==
    \/ Break \/ Refuse
    \/ SurveyStep \/ MapStep
    \/ AuditAsks \/ (\E n \in asking : PoolAnswers(n)) \/ AuditEnds \/ Deliver
    \/ Search \/ Searched \/ Announce \/ Select \/ \E m \in batch : Read(m)
    \/ Conclude \/ Observe \/ Complete

\* Every call of a thread or of a model comes back, if only by its timeout, and
\* the loop runs what is ready.
Spec == Init /\ [][Next]_vars /\ WF_vars(Next)

-----------------------------------------------------------------------------
(* What should hold. *)

\* A stage that is shown as finished stays finished: no step of an earlier one
\* arrives after the run has moved on, whichever thread it was taken on.
StagesAdvance ==
    [][\A s \in DOMAIN Stages : screen.stages[s] = "done" => screen'.stages[s] = "done"]_screen

\* The lines on screen that ask the registry about a package, and that say
\* what it answered.
AskedIn(steps, n) == {i \in DOMAIN steps : steps[i] = LookedUp(n, "pypi.org")}
AnsweredIn(steps, n) ==
    {i \in DOMAIN steps : \E found \in BOOLEAN : steps[i] = Answered(n, "pypi.org", found)}

\* Once the audits are over, what the page still shows of the lookups is right:
\* a declared package is shown asked about once and answered once, however many
\* requirements name it, a question that is still there has its answer below it
\* and an answer says what the registry did, so that an unanswered lookup does
\* not read as a package without news; and a page that has dropped no step yet
\* shows the lookup of every declared package.
LookupsPair ==
    at \notin {"survey", "map", "audit", "lookups", "audited", "over"} =>
        \A b \in DOMAIN Bases : \A n \in DOMAIN Pinned(b) :
            LET questions == AskedIn(screen.steps, n)
                answers == AnsweredIn(screen.steps, n)
            IN  /\ \A i, j \in questions : i = j
                /\ \A i, j \in answers : i = j
                /\ \A i \in questions : \E j \in answers : i < j
                /\ \A j \in answers : screen.steps[j].found = (seen[n] # NoFacts)
                /\ Len(screen.steps) < Window => questions # {}

\* A walk of d imports from an entrypoint to module i of the map.
Walk(entrypoints, i, d) ==
    \E w \in [0..d -> map.modules] :
        /\ w[0] \in entrypoints /\ w[d] = i
        /\ \A k \in 0..(d - 1) : w[k + 1] \in map.imports[w[k]]

\* The depth drawn of a module is the length of the shortest walk of imports
\* from a module the deployment or the code begins at, and a module is drawn
\* exactly when there is one.
LayersAreHops ==
    at = "audit" =>
        LET begun == {i \in map.modules : \/ "entrypoint" \in map.sources[i].signals
                                          \/ map.sources[i].path \in Declared(Compose)}
            hops(i) == {d \in 0..Cardinality(map.modules) : Walk(begun, i, d)}
        IN  \A i \in map.modules :
                IF hops(i) = {} THEN IdOf(i) \notin DOMAIN screen.tiers
                ELSE /\ IdOf(i) \in DOMAIN screen.tiers
                     /\ screen.tiers[IdOf(i)] = Min(hops(i))

\* A row of the coverage counts every module a specialist of it was heard
\* about, and only modules it was put to and some specialist was heard about:
\* a module whose specialists all failed is read by none of them.
CoverageIsBounded ==
    DOMAIN report # {} =>
        \A l \in DOMAIN Concerns :
            LET reviewed == report.rows[l].reviewed
            IN  /\ {m \in batch : l \in DOMAIN heard[m]} \subseteq reviewed
                /\ reviewed \subseteq {m \in Analysed : l \in routed[m]}

\* A finding on screen is one the report keeps: what the passes withdraw,
\* collapse or merge has never been announced.
AnnouncedIsReported ==
    at \in {"synthesis", "write", "over"} /\ DOMAIN report # {} =>
        screen.findings = {KeyOf(f) : f \in ToSet(report.findings)}
                          \cup {KeyOfSchema(f) : f \in ToSet(checks.schema)}
                          \cup {KeyOfPackage(f) : f \in ToSet(dependencies)}

\* The backends a service opens at worst: each of its replicas' workers fills
\* its pool and the overflow above it.
WorstCase(spec, workers) ==
    Replicas(spec) * workers * (FirstStated(spec.pool) + OrElse(FirstStated(spec.overflow), 0))

\* A service that declares its factors is reported exactly when it can open
\* more backends than the database allows, and the number of workers it is
\* told to run at instead does fit, with no room for one more.
WorkersAdviceFits ==
    at = "audit" =>
        \A file \in {f \in ToSet(Repositories[repo].files) : f.is = "compose"} :
            \A spec \in {s \in ToSet(file.content) : Declares(s)} :
                LET budget == Allows(file.content) - SuperuserReserved
                    advice == ConnectionFindings(file, spec, file.content)
                IN  /\ (advice # {}) = (WorstCase(spec, Workers(spec)) > budget)
                    /\ \A a \in advice : /\ WorstCase(spec, a.workers) <= budget
                                         /\ WorstCase(spec, a.workers + 1) > budget

\* A review ends on the screen: with a report and nothing still being read, or
\* with a failure, whatever fails on the way.
ReviewSettles ==
    <>(\/ screen.over = "completed" /\ "reading" \notin {screen.files[m] : m \in DOMAIN screen.files}
       \/ screen.over = "failed")

\* coverage.py: a row's `reviewed` are occurrences a specialist for this layer
\* read.
ReviewedWasRead ==
    DOMAIN report # {} =>
        \A l \in DOMAIN Concerns : \A m \in report.rows[l].reviewed : l \in DOMAIN heard[m]
=============================================================================

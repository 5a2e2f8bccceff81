----------------------------- MODULE MCPipeline -----------------------------
(* A shop of three modules a request walks through and one it does not, in   *)
(* two folders that pin a package in common; a worker with no entrypoint;    *)
(* a review whose scope holds nothing; a script that imports from outside.   *)
EXTENDS Pipeline

File(id, path, ext, dotted, beside, signals) ==
    [id |-> id, path |-> path, ext |-> ext, test |-> FALSE, machine |-> Nowhere, secret |-> FALSE,
     link |-> FALSE, big |-> FALSE, broken |-> FALSE, dotted |-> dotted, beside |-> beside,
     quoted |-> {}, signals |-> signals]
Main == File("main", <<"api", "main">>, "py", {<<"api", "orders">>, <<"fastapi">>}, {}, {})
Orders == File("orders", <<"api", "orders">>, "py", {<<"api", "store", "rows">>}, {}, {"io"})
Store == File("store", <<"api", "store">>, "py", {<<"asyncpg">>}, {}, {"io", "query"})
Nightly == File("nightly", <<"jobs", "nightly">>, "py", {<<"jobs", "nightly">>}, {}, {"io"})
Tested == [File("tests", <<"tests", "orders">>, "py", {}, {}, {"io"}) EXCEPT !.test = TRUE]
Vendored == File("vendored", <<"node_modules", "pg">>, "ts", {}, {}, {"io"})
Script == File("script", <<"web">>, "ts", {}, {[up |-> 1, to |-> <<"shared">>]}, {"io"})
Shop == <<Main, Orders, Store, Nightly, Vendored, Tested>>

Word(names) == [is |-> "word", names |-> names, app |-> FALSE, m |-> FALSE]
Flag == [is |-> "flag", names |-> <<>>, app |-> FALSE, m |-> FALSE]
Serve(workers) == [runner |-> "uvicorn", args |-> <<Word(<<"api", "main">>), Flag>>, cpus |-> FALSE,
                   max_connections |-> Unstated, workers |-> workers]
Service(name, command, pool, overflow, replicas) ==
    [name |-> name, built |-> TRUE, build |-> <<>>, command |-> command, ports |-> TRUE,
     probe |-> TRUE, memory |-> FALSE, image |-> [name |-> "", tag |-> ""], line |-> 2,
     workers |-> <<>>, pool |-> pool, overflow |-> overflow, replicas |-> replicas, database |-> FALSE]
Database == [Service("db", [Serve(Unstated) EXCEPT !.runner = "", !.max_connections = 23], <<>>, <<>>, Unstated)
                EXCEPT !.built = FALSE, !.database = TRUE, !.ports = FALSE,
                       !.image = [name |-> "postgres", tag |-> "16"]]
Deployed == <<Service("api", Serve(2), <<4>>, <<1>>, 3), Database>>
Fitting == <<Service("api", Serve(2), <<4>>, <<>>, 2), Service("job", Serve(2), <<4>>, <<7>>, Unstated), Database>>
Artifact(path, kind, content) ==
    [path |-> path, is |-> kind, link |-> FALSE, secret |-> FALSE, content |-> content]
Composed(compose) == <<Artifact(<<"compose.yaml">>, "compose", compose)>>
Image(name, tag) == [name |-> name, tag |-> tag]
Instruction(keyword, line, var, image, user) ==
    [keyword |-> keyword, line |-> line, var |-> var, image |-> image, alias |-> "", user |-> user,
     command |-> [cpus |-> keyword = "CMD"]]
Dockerfile == <<Instruction("ARG", 1, "base", Image("python", ""), ""),
                Instruction("FROM", 2, "base", Image("", ""), ""),
                Instruction("COPY", 3, "", Image("", ""), ""),
                Instruction("CMD", 4, "", Image("", ""), "")>>
Gated == [tests |-> TRUE, swallowed |-> FALSE, soft |-> FALSE]
Workflow(triggers, soft) ==
    [triggers |-> triggers, jobs |-> <<[soft |-> soft, steps |-> <<Gated>>]>>]
Deployment == [kind |-> "Deployment", replicas |-> 2,
               containers |-> {[probes |-> {"liveness"}, resources |-> {"limits"}]}]
Nginx == [executed |-> FALSE, values |-> <<8, 8>>]
Everything(compose) ==
    Composed(compose) \o
    <<Artifact(<<"Dockerfile">>, "dockerfile", Dockerfile),
      Artifact(<<"node_modules", "Dockerfile">>, "dockerfile", Dockerfile),
      Artifact(<<"ci.yml">>, "ci", Workflow({"pull_request"}, TRUE)),
      Artifact(<<"nightly.yml">>, "ci", Workflow({"schedule"}, FALSE)),
      Artifact(<<"package.json">>, "manifest", <<>>),
      Artifact(<<"web", "package.json">>, "manifest", <<>>),
      Artifact(<<"web", "package-lock.json">>, "lockfile", <<>>),
      Artifact(<<"deployment.yaml">>, "kubernetes", <<Deployment>>),
      Artifact(<<"nginx.conf">>, "webserver", Nginx),
      Artifact(<<"Procfile">>, "procfile", <<[line |-> 1, cpus |-> TRUE]>>),
      Artifact(<<".env.example">>, "env-example", <<"POOL_SIZE", "WORKERS">>)>>

Migration == [path |-> <<"alembic", "first">>, parses |-> TRUE, upgrade |-> TRUE,
    calls |-> <<[kind |-> "create_index", line |-> 7, table |-> "orders", columns |-> <<"status">>,
                 required |-> FALSE, default |-> FALSE, concurrently |-> FALSE]>>]
Base(pins, migrations) == [pins |-> <<pins>>, migrations |-> migrations]
Pins(names) == [n \in names |-> IF n = "redis" THEN Unpinned ELSE 4]
Registered == [n \in {"celery", "fastapi", "redis"} |-> IF n = "fastapi" THEN 6 ELSE 4]
Repository(tree, compose, scope, bases) ==
    [tree |-> tree, compose |-> compose, files |-> Composed(compose), scope |-> scope,
     bases |-> bases, registry |-> Registered]
Here == <<Base(Pins({"fastapi"}), <<Migration>>)>>
MCRepositories == [r \in {"shop", "worker", "nothing", "outside"} |->
    CASE r = "shop" -> Repository(Shop, Deployed, {},
             <<Base(Pins({"fastapi", "redis"}), <<Migration>>), Base(Pins({"celery", "fastapi"}), <<>>)>>)
      [] r = "worker" -> [Repository(<<Orders, Store>>, <<Fitting[2], Database>>, {<<"api">>}, Here)
                              EXCEPT !.files = Everything(<<Fitting[2], Database>>)]
      [] r = "nothing" -> Repository(Shop, Fitting, {<<"docs">>}, Here)
      [] OTHER -> Repository(<<Script>>, Fitting, {}, Here)]

Say2(shape, words, column, names) ==
    [shape |-> shape, words |-> words, tokens |-> words + 2, column |-> column, names |-> names]
MCSentence == [s \in {"loops", "scans"} |->
    IF s = "loops" THEN Say2("loop", 7, {}, {"rows"}) ELSE Say2("scan", 8, {"status"}, {"orders"})]
Draft(path, symbol, line, layer, severity, says) ==
    [path |-> path, symbol |-> symbol, line |-> line, layers |-> {layer}, severity |-> severity,
     says |-> <<says>>, arithmetic |-> FALSE, prediction |-> {}]
MCOpinions == [x \in {"nightly", "orders", "store"} \X {"data", "network"} |->
    CASE x = <<"store", "data">> -> {<<Draft("store", "rows", 4, "data", 2, "scans")>>,
                                     <<Draft("store", "rows", 4, "data", 2, "loops")>>}
      [] x = <<"store", "network">> -> {<<Draft("store", "rows", 9, "network", 1, "loops")>>}
      [] x = <<"nightly", "network">> -> {<<Draft("nightly", "run", 8, "network", 2, "loops")>>}
      [] OTHER -> {<<>>, <<Draft("orders", "list", 3, "network", 1, "loops")>>}]
MCOrder == LET names == <<"data", "list", "network", "nightly", "orders", "rows", "run", "store">>
           IN  [n \in ToSet(names) |-> CHOOSE i \in DOMAIN names : names[i] = n]
MCOverlong == [l \in {"verbose"} |-> "verb"]
MCLineOf == [x \in {<<"orders", "list">>} |-> 5]
MCConcerns == [l \in {"data", "network"} |-> IF l = "data" THEN {"query"} ELSE {"io"}]
MCLanguageOf == [e \in {"py", "ts"} |-> IF e = "py" THEN "Python" ELSE "TypeScript"]
MCPicks == {{"data"}, {"data", "network"}, {"oracle"}}
MCReadings == {<< <<1, 2>>, <<1, 1>> >>}
MCRules == <<[mechanism |-> "a query per row", specialists |-> {"data"}, sentences |-> {"loops"}],
             [mechanism |-> "calls in sequence", specialists |-> {"data", "network"}, sentences |-> {"loops"}]>>
MCClientsOf == [s \in {"db"} |-> {"asyncpg"}]
MCLocksFor == [m \in {"package.json"} |-> {"package-lock.json"}]
MCMigrationDirs == << <<"alembic">> >>
MCKinds == <<"compose", "dockerfile", "kubernetes", "ci", "manifest", "lockfile", "webserver",
             "procfile", "env-example">>
MCSuffixes == <<"ts">>
=============================================================================

-------------------------------- MODULE MCArm --------------------------------
(* A service of a file at the entrypoint, three beside it, one far from it,   *)
(* three that nothing reaches, and one the map does not hold.                 *)
EXTENDS Arm

Near == {"carts", "items", "users"}
Aside == {"jobs", "mail", "sync"}
MCDepth == [p \in {"api", "deep"} \cup Near \cup Aside |->
    CASE p = "api" -> {0} [] p = "deep" -> {4} [] p \in Near -> {1} [] OTHER -> {}]
MCFanIn == [p \in {"api", "deep"} |-> IF p = "api" THEN 2 ELSE 0]
Alphabet == << "api", "carts", "deep", "elsewhere", "get", "items", "jobs", "mail", "sync",
               "unknown", "users" >>
MCOrder == [p \in ToSet(Alphabet) |-> CHOOSE i \in DOMAIN Alphabet : Alphabet[i] = p]
Say(shape, words, column, names) ==
    [shape |-> shape, words |-> words, tokens |-> words + 2, column |-> column, names |-> names]
MCSentence == [s \in {"loops", "scans", "sorts", "points"} |->
    CASE s = "loops" -> Say("loop", 7, {}, {"get"})
      [] s = "scans" -> Say("scan", 8, {"status"}, {"orders"})
      [] s = "sorts" -> Say("scan", 8, {"made"}, {"orders"})
      [] OTHER -> Say("", 0, {}, {"get"})]
MCMigrations == << [kind |-> "create_index", table |-> "orders", columns |-> << "status", "made" >>],
                   [kind |-> "add_column", table |-> "orders", columns |-> << "made" >>] >>
MCRaises == [l \in {"data", "network"} |-> {"api", "deep"}]
MCOverlong == [l \in {"verbose"} |-> "verb"]
MCLineOf == [x \in {<< "api", "get" >>} |-> 3]

AtLeast(n) == {[metric |-> "p99", comparator |-> "at_least", value |-> n, upper |-> {}]}
AtMost(n) == {[metric |-> "p99", comparator |-> "at_most", value |-> n, upper |-> {}]}
Band(m, u) == {[metric |-> "queries", comparator |-> "between", value |-> m, upper |-> u]}

Draft(path, layer, severity, says, prediction) ==
    [path |-> path, symbol |-> "get", line |-> 1, layers |-> {layer}, severity |-> severity,
     says |-> says, arithmetic |-> FALSE, prediction |-> prediction]

\* What is said of one construct by up to three specialists.
Opinions ==
    { Draft("api", "data", 2, << "loops" >>, {}), Draft("api", "network", 0, << "loops" >>, AtLeast(4)),
      Draft("api", "data", 1, << "scans" >>, AtLeast(6)), Draft("api", "data", 0, << "points" >>, AtMost(3)),
      Draft("api", "verbose", 1, << "sorts" >>, AtMost(5)), Draft("api", "data", 0, << "loops" >>, Band(4, {2})) }
\* What is said of three files of one kind.
Echoes(path) ==
    { Draft(path, "data", 2, << "loops" >>, {}), Draft(path, "data", 0, << "loops" >>, Band(2, {4})),
      Draft(path, "data", 2, << "points" >>, {}), Draft(path, "data", 1, << "scans" >>, Band(4, {2})) }
Wide == { << s >> : s \in UNION { [1..n -> Opinions] : n \in 1..3 } }
        \cup { << << x >>, << y >>, << z >> >> : x \in Echoes("jobs"), y \in Echoes("mail"),
                                              z \in Echoes("sync") }
        \cup { << << x >>, << y >>, << z >> >> : x \in Echoes("carts"), y \in Echoes("items"),
                                              z \in Echoes("users") }
        \cup { << << x, y >> >> : x \in Echoes("deep"), y \in Echoes("elsewhere") \cup Echoes("") }
        \cup { << << x >>, << y >> >> : x \in Opinions, y \in Opinions }
        \cup { << << x, y >> >> : x \in Echoes(""), y \in Echoes("unknown") }
Narrow == { << << Draft("api", "data", 1, << "loops" >>, AtLeast(4)) >> >>,
            << << Draft("api", "data", 1, << "loops" >>, AtLeast(2)),
                  Draft("deep", "data", 1, << "loops" >>, AtLeast(6)) >> >>,
            << << Draft("deep", "data", 1, << "points" >>, {}) >> >> }
MCAnswers == [model \in {"wide", "narrow"} |-> IF model = "wide" THEN Wide ELSE Narrow]
Plan(seeds, prove, independent, model) ==
    [seeds |-> seeds, prove |-> prove, independent |-> independent, model |-> model]
MCPlans == { Plan(1, TRUE, TRUE, "wide") } \cup
           { Plan(2, prove, independent, "narrow") : prove \in BOOLEAN, independent \in BOOLEAN }
MCCases == << [defects |-> { [locations |-> {"api", "deep"}, symbols |-> {"get"}, metric |-> "p99"] },
               scripts |-> {"p99"}] >>
=============================================================================

------------------------------ MODULE Proving ------------------------------
(***************************************************************************)
(* core/proving: where an experiment runs, and what its end is worth.      *)
(* Directories are sequences of segments.                                  *)
(***************************************************************************)
EXTENDS Integers, Sequences, SequencesExt

CONSTANT None

\* _covers: a service is built from a directory that contains the scope.
Covers(built, wanted) ==
    built = <<>> \/ wanted = {} \/ \E part \in wanted : IsPrefix(built, part)

\* _service_for: of the services built from the directory under review, those
\* that take traffic are tried alone if there are any; the first whose name
\* docker would not read as a flag, or else the first one refused for it.
ServiceFor(scope, services) ==
    LET candidates == SelectSeq(services, LAMBDA s : Covers(s.built, scope))
        serving == SelectSeq(candidates, LAMBDA s : s.entrypoint)
        ordered == IF serving = <<>> THEN candidates ELSE serving
        usable == SelectSeq(ordered, LAMBDA s : s.plain)
    IN  CASE usable # <<>> -> [service |-> Head(usable).name, refused |-> None]
          [] usable = <<>> /\ ordered # <<>> ->
                [service |-> None, refused |-> Head(ordered).name]
          [] OTHER -> [service |-> None, refused |-> None]

\* interpreter_for: the first environment beside the code that runs, or ours.
InterpreterFor(executables) ==
    IF executables = <<>> THEN "ours" ELSE Head(executables)

\* choose_environment, with why it is not the image.
ChooseEnvironment(scope, services, dockerIsUp, executables) ==
    LET found == ServiceFor(scope, services)
    IN  IF found.service # None /\ dockerIsUp
        THEN [kind |-> "compose", at |-> found.service, why |-> None]
        ELSE [kind |-> "local", at |-> InterpreterFor(executables),
              why |-> CASE found.refused # None -> "named like a flag"
                        [] found.service # None -> "docker is not running"
                        [] OTHER -> "no service builds from it"]

\* diagnose: why there is no measurement, from what the child wrote to stderr.
Diagnose(stderr) ==
    CASE stderr = "nothing" -> "no error output"
      [] stderr = "syntax" -> "does not parse"
      [] stderr = "dotted module" -> "wrong path"
      [] stderr = "bare module" -> "not installed"
      [] OTHER -> "tail"

\* The Proof of an experiment that ended: code None is a deadline, numbers are
\* what it printed, and the last of them is the measurement.
Proof(code, numbers, stderr) ==
    LET broken(why) == [value |-> None, why |-> why]
    IN  CASE code = None -> broken("timed out")
          [] code # None /\ code # 0 -> broken(Diagnose(stderr))
          [] code = 0 /\ numbers = <<>> -> broken(Diagnose(stderr))
          [] OTHER -> [value |-> Last(numbers), why |-> "explained"]
=============================================================================

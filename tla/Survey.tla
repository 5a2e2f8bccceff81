------------------------------ MODULE Survey ------------------------------
(***************************************************************************)
(* What a compose file says of a deployment (core/survey/surveyor.py): its *)
(* services, what each is built from, and the module its command starts.   *)
(*                                                                         *)
(* A command is the name of its runner and its arguments. An argument is   *)
(* a record: a "word" or a "valued" flag (--flag=value) or a bare "flag",  *)
(* with the path it names; `app` marks the flag that carries the runner's  *)
(* module, `m` the -m of an interpreter.                                   *)
(***************************************************************************)
EXTENDS Integers, Sequences, FiniteSets, SequencesExt, FiniteSetsExt

CONSTANTS
    Flagged,       \* _FLAGGED: runners that take their module from a flag
    ColonRunners,  \* _COLON_RUNNERS: from their first argument
    Interpreters   \* and those that take a script or -m

\* _first_positional: the first word no bare flag has swallowed, as a set.
FirstPositional(args) ==
    LET read == FoldLeft(LAMBDA walk, arg :
                   IF walk.skip THEN [walk EXCEPT !.skip = FALSE]
                   ELSE IF walk.found # {} THEN walk
                   ELSE IF arg.is = "word" THEN [walk EXCEPT !.found = {arg.names}]
                   ELSE [walk EXCEPT !.skip = arg.is = "flag"],
                   [skip |-> FALSE, found |-> {}], args)
    IN  read.found

\* The argument after the runner's own flag, where there is one.
AfterAppFlag(args) ==
    LET at == {i \in DOMAIN args : args[i].app}
    IN  IF at = {} \/ Min(at) = Len(args) THEN {} ELSE {args[Min(at) + 1].names}

\* entrypoint_refs: the modules a command starts.
EntrypointRefs(command) ==
    LET args == command.args
        refs == IF command.runner \in Flagged /\ \E i \in DOMAIN args : args[i].app
                   THEN AfterAppFlag(args)
                ELSE IF command.runner \in ColonRunners THEN FirstPositional(args)
                ELSE IF command.runner \in Interpreters
                   THEN IF Len(args) > 1 /\ args[1].m THEN {args[2].names} ELSE FirstPositional(args)
                ELSE {}
    IN  refs \ {<<>>}

\* Service.entrypoints: a command names its module from the build context.
Entrypoints(service) == {service.build \o ref : ref \in EntrypointRefs(service.command)}

\* A service is what is built; the rest is an image the deployment uses.
Services(compose) == SelectSeq(compose, LAMBDA spec : spec.built)
Backing(compose) == SelectSeq(compose, LAMBDA spec : ~spec.built)

\* survey: the modules the services begin at.
Declared(compose) == UNION {Entrypoints(service) : service \in ToSet(Services(compose))}
=============================================================================

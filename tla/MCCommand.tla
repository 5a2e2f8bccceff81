----------------------------- MODULE MCCommand -----------------------------
(* Two commands over one file, each live, recording or replaying, with      *)
(* either of two models; one setup has its provider in .env and its key in  *)
(* a flag, and one has no key at all.  Or one of them is over two files,    *)
(* with one experiment for what both may predict.                           *)
EXTENDS Command

CONSTANTS m1, m2, f1, f2, p1, p2

MCKeys == {"memo", "recording"} \X Models \X Files
MCBy == [x1 |-> m1, y1 |-> m1, x2 |-> m2]
MCShipped == {[k \in Keys |-> NoFile]}
MCKeyOf == [groq |-> "GROQ_API_KEY", deepseek |-> "DEEPSEEK_API_KEY"]
MCAllowed == {"AUGURY_PROVIDER", "AUGURY_MODEL", "AUGURY_REPLAY_ONLY", "AUGURY_RECORD",
              "GROQ_API_KEY", "DEEPSEEK_API_KEY"}

Names == MCAllowed \cup {"AUGURY_TRIAGE_MODEL"}
Nothing == [n \in Names |-> Unset]
NoFlags == [provider |-> "", model |-> "", key |-> ""]

Live == [Nothing EXCEPT !["GROQ_API_KEY"] = "env"]

Setup(env, dotenv, flags, cache, files, prove) ==
    [env |-> env, dotenv |-> dotenv, flags |-> flags, cache |-> cache, files |-> files,
     prove |-> prove]

OneFile ==
    LET with(name) == [Live EXCEPT ![name] = "1"]
    IN  {Setup(Live, Nothing, NoFlags, TRUE, {f1}, 1),
         Setup(with("AUGURY_RECORD"), Nothing, NoFlags, TRUE, {f1}, 1),
         Setup(with("AUGURY_REPLAY_ONLY"), Nothing, NoFlags, TRUE, {f1}, 0),
         Setup(Nothing, [Live EXCEPT !["AUGURY_PROVIDER"] = "deepseek",
                                     !["DEEPSEEK_API_KEY"] = "dotenv"],
               [NoFlags EXCEPT !.model = m2, !.key = "flag"], TRUE, {f1}, 0),
         Setup(Nothing, Nothing, NoFlags, TRUE, {f1}, 0)}

\* Two files, without the memo, and one experiment.
TwoFiles == Setup(Live, Nothing, NoFlags, FALSE, {f1, f2}, 1)
MCSetups == [p \in Procs |-> IF p = p1 THEN OneFile \cup {TwoFiles} ELSE OneFile]

\* The API and a worker are built from the directory under review.
MCServices ==
    <<[name |-> "worker", built |-> <<"backend">>, entrypoint |-> FALSE, plain |-> TRUE],
      [name |-> "api", built |-> <<"backend">>, entrypoint |-> TRUE, plain |-> TRUE]>>
MCScope == {<<"backend", "app">>}
=============================================================================

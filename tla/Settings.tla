------------------------------ MODULE Settings ------------------------------
(***************************************************************************)
(* core/settings.py: what a process reads from its environment, Augury's   *)
(* own .env and its flags before it does anything, and what it refuses.    *)
(* An environment is a function from the names of variables to values, or  *)
(* to Unset.                                                               *)
(***************************************************************************)
EXTENDS Integers, Sequences, FiniteSets

CONSTANTS Providers, DefaultProvider,
          Models,          \* the models with a published price
          DefaultModel,
          KeyOf,           \* API_KEY_VARIABLES: the variable of each provider
          DotenvAllowed,   \* the names a .env may set
          Unset,           \* a variable that is not in the environment
          Off              \* the values that read as an unset flag

Refused == [ok |-> FALSE]

\* API_KEY_VARIABLES.get, with the name that belongs to no provider.
KeyVariable(provider) ==
    IF provider \in Providers THEN KeyOf[provider] ELSE "AUGURY_API_KEY"

\* os.environ.get with a default.
Get(env, name, default) == IF env[name] = Unset THEN default ELSE env[name]

Flag(env, name) == Get(env, name, "") \notin Off

ReplayOnly(env) == Flag(env, "AUGURY_REPLAY_ONLY")
Recording(env) == Flag(env, "AUGURY_RECORD")

\* _load_dotenv, line by line: setdefault, and only the names that are allowed.
Filled(env, dotenv) ==
    [n \in DOMAIN env |->
        IF env[n] = Unset /\ n \in DotenvAllowed THEN dotenv[n] ELSE env[n]]

\* load_settings, over an environment the .env has filled.
Load(env) ==
    LET provider == Get(env, "AUGURY_PROVIDER", DefaultProvider)
        model == Get(env, "AUGURY_MODEL", DefaultModel)
        named == Get(env, "AUGURY_TRIAGE_MODEL", "")
        triage == IF named = "" THEN model ELSE named
        key == Get(env, KeyVariable(provider), "")
    IN  IF \/ provider \notin Providers
           \/ {model, triage} \ Models # {}
           \/ ~ReplayOnly(env) /\ key = ""
        THEN Refused
        ELSE [ok |-> TRUE, provider |-> provider, model |-> model, triage |-> triage,
              key |-> IF ReplayOnly(env) THEN "" ELSE key,
              replay |-> ReplayOnly(env), record |-> Recording(env)]

\* _settings_from: the flags that were given are put into the environment, the
\* key under the variable of the provider named, or configured, so far.
Flagged(env, flags) ==
    LET given == [n \in DOMAIN env |->
                    CASE n = "AUGURY_PROVIDER" /\ flags.provider # "" -> flags.provider
                      [] n = "AUGURY_MODEL" /\ flags.model # "" -> flags.model
                      [] OTHER -> env[n]]
        provider == Get(given, "AUGURY_PROVIDER", DefaultProvider)
    IN  IF flags.key = "" THEN given ELSE [given EXCEPT ![KeyVariable(provider)] = flags.key]
=============================================================================

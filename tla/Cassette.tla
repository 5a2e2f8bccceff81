------------------------------ MODULE Cassette ------------------------------
(***************************************************************************)
(* core/adapters/cassette.py: one CassetteModel asked the same questions   *)
(* by many agents at once, in a process that may die and be run again over *)
(* the same directory.  The model behind it is external: a live call       *)
(* answers at some cost, or raises after some cost.                        *)
(***************************************************************************)
EXTENDS Integers, FiniteSets

CONSTANTS Callers,   \* concurrent callers of `call`
          Keys,      \* questions: model, prompt and schema, as one path each
          Question,  \* per caller, what it asks
          Answers,   \* what the model may answer
          Costs,     \* what a live call may cost
          MaxRuns    \* bound: processes that run over one directory

ASSUME CassetteAssumption ==
    /\ Question \in [Callers -> Keys]
    /\ Costs \subseteq Nat
    /\ MaxRuns \in Nat \ {0}

Absent == "absent"
Corrupt == "corrupt"
Nobody == "nobody"

ASSUME MarksAreApart ==
    Absent \notin Answers /\ Corrupt \notin Answers /\ Nobody \notin Callers

VARIABLES mode,     \* "record" or "replay" (replay_only)
          state,    \* per caller: where it is
          lock,     \* _locks: per key, the caller that holds it
          writer,   \* the caller whose _write has the event loop
          fresh,    \* per caller: the answer it was given live
          disk,     \* per key: the recording
          before,   \* per caller: the total when it called
          reported, \* per caller: the usage of its Completion
          usage,    \* _usage
          runs,     \* processes so far
          live,     \* history: callers this run whose answer came from a live call
          paid,     \* history: what the model behind has cost this run
          given     \* history: per key, every answer any caller was ever given

vars == <<mode, state, lock, writer, fresh, disk, before, reported, usage,
          runs, live, paid, given>>

States == {"new", "waiting", "asking", "done", "raised"}
Ended == {"done", "raised"}

Waiting(k) == {c \in Callers : state[c] = "waiting" /\ Question[c] = k}

-----------------------------------------------------------------------------
TypeOK ==
    /\ mode \in {"record", "replay"}
    /\ state \in [Callers -> States]
    /\ lock \in [Keys -> Callers \cup {Nobody}]
    /\ writer \in Callers \cup {Nobody}
    /\ fresh \in [Callers -> Answers \cup {Absent}]
    /\ disk \in [Keys -> Answers \cup {Absent, Corrupt}]
    /\ before \in [Callers -> Nat] /\ reported \in [Callers -> Nat]
    /\ usage \in Nat /\ paid \in Nat
    /\ runs \in 1..MaxRuns
    /\ live \subseteq Callers
    /\ given \in [Keys -> SUBSET Answers]

Init ==
    /\ mode \in {"record", "replay"}
    /\ state = [c \in Callers |-> "new"]
    /\ lock = [k \in Keys |-> Nobody] /\ writer = Nobody
    /\ fresh = [c \in Callers |-> Absent]
    /\ before = [c \in Callers |-> 0] /\ reported = [c \in Callers |-> 0]
    /\ usage = 0 /\ live = {} /\ paid = 0
    /\ disk \in [Keys -> Answers \cup {Absent, Corrupt}]
    /\ runs = 1
    /\ given = [k \in Keys |-> {}]

-----------------------------------------------------------------------------
\* `call` returns an answer.
Serve(c, answer) ==
    /\ state' = [state EXCEPT ![c] = "done"]
    /\ given' = [given EXCEPT ![Question[c]] = @ \cup {answer}]

Raise(c) ==
    /\ state' = [state EXCEPT ![c] = "raised"]
    /\ UNCHANGED given

\* _replay found a file: a valid one is an answer, any other an error.
Recorded(c) ==
    LET k == Question[c]
    IN  IF disk[k] = Corrupt THEN Raise(c) ELSE Serve(c, disk[k])

\* `call` up to its first await.  asyncio's lock is taken without waiting only
\* if it is free and nobody waits for it.
Call(c) ==
    LET k == Question[c]
        held == lock[k] # Nobody \/ Waiting(k) # {}
    IN
    /\ writer = Nobody
    /\ state[c] = "new"
    /\ before' = [before EXCEPT ![c] = usage]
    /\ \/ /\ disk[k] # Absent
          /\ Recorded(c)
          /\ UNCHANGED lock
       \/ /\ disk[k] = Absent /\ mode = "replay"
          /\ Raise(c)
          /\ UNCHANGED lock
       \/ /\ disk[k] = Absent /\ mode = "record" /\ held
          /\ state' = [state EXCEPT ![c] = "waiting"]
          /\ UNCHANGED <<lock, given>>
       \/ /\ disk[k] = Absent /\ mode = "record" /\ ~held
          /\ state' = [state EXCEPT ![c] = "asking"]
          /\ lock' = [lock EXCEPT ![k] = c]
          /\ UNCHANGED given
    /\ UNCHANGED <<mode, writer, fresh, disk, reported, usage, runs, live, paid>>

\* Slip: no second look under the lock.
AcquireBlind(c) ==
    LET k == Question[c] IN
    /\ writer = Nobody
    /\ state[c] = "waiting"
    /\ lock[k] = Nobody
    /\ state' = [state EXCEPT ![c] = "asking"]
    /\ lock' = [lock EXCEPT ![k] = c]
    /\ UNCHANGED <<mode, writer, fresh, disk, before, reported, usage, runs,
                   live, paid, given>>

\* The lock is free again: look once more before asking.
Acquire(c) ==
    LET k == Question[c] IN
    /\ writer = Nobody
    /\ state[c] = "waiting"
    /\ lock[k] = Nobody
    /\ IF disk[k] # Absent
       THEN /\ Recorded(c)
            /\ reported' = [reported EXCEPT ![c] = usage - before[c]]
            /\ UNCHANGED lock
       ELSE /\ state' = [state EXCEPT ![c] = "asking"]
            /\ lock' = [lock EXCEPT ![k] = c]
            /\ UNCHANGED <<reported, given>>
    /\ UNCHANGED <<mode, writer, fresh, disk, before, usage, runs, live, paid>>

\* The live call returns; the loop goes straight on to write the recording.
Answer(c, answer, cost) ==
    /\ writer = Nobody
    /\ state[c] = "asking"
    /\ fresh' = [fresh EXCEPT ![c] = answer]
    /\ usage' = usage + cost
    /\ paid' = paid + cost
    /\ writer' = c
    /\ live' = live \cup {c}
    /\ UNCHANGED <<mode, state, lock, disk, before, reported, runs, given>>

\* os.replace puts the whole recording in place, the lock is released, and the
\* answer is returned.
Write(c) ==
    LET k == Question[c] IN
    /\ writer = c
    /\ disk' = [disk EXCEPT ![k] = fresh[c]]
    /\ lock' = [lock EXCEPT ![k] = Nobody]
    /\ Serve(c, fresh[c])
    /\ reported' = [reported EXCEPT ![c] = usage - before[c]]
    /\ writer' = Nobody
    /\ UNCHANGED <<mode, fresh, before, usage, runs, live, paid>>

\* Slip: the error leaves the lock held.
GiveUpHolding(c, cost) ==
    /\ writer = Nobody
    /\ state[c] = "asking"
    /\ Raise(c)
    /\ paid' = paid + cost
    /\ UNCHANGED <<mode, lock, writer, fresh, disk, before, reported, usage, runs, live>>

\* The live call raises after its attempts, having cost something or nothing;
\* the lock is released and nothing is recorded.
GiveUp(c, cost) ==
    /\ writer = Nobody
    /\ state[c] = "asking"
    /\ Raise(c)
    /\ lock' = [lock EXCEPT ![Question[c]] = Nobody]
    /\ paid' = paid + cost
    /\ UNCHANGED <<mode, writer, fresh, disk, before, reported, usage, runs, live>>

\* What an interrupted _write leaves at a path: nothing, for the bytes go to a
\* temporary file first.
LeftBehind(k) == disk[k]

\* The process dies, perhaps inside _write, and another is started over the
\* directory as it is.
Restart(m) ==
    /\ runs < MaxRuns
    /\ runs' = runs + 1
    /\ disk' = [k \in Keys |->
                  IF writer # Nobody /\ Question[writer] = k THEN LeftBehind(k) ELSE disk[k]]
    /\ mode' = m
    /\ state' = [c \in Callers |-> "new"]
    /\ lock' = [k \in Keys |-> Nobody] /\ writer' = Nobody
    /\ fresh' = [c \in Callers |-> Absent]
    /\ before' = [c \in Callers |-> 0] /\ reported' = [c \in Callers |-> 0]
    /\ usage' = 0 /\ live' = {} /\ paid' = 0
    /\ UNCHANGED given

Settle(c) ==
    \/ Call(c) \/ Acquire(c) \/ Write(c)
    \/ \E cost \in Costs :
          GiveUp(c, cost) \/ \E answer \in Answers : Answer(c, answer, cost)

Next ==
    \/ \E c \in Callers : Settle(c)
    \/ \E m \in {"record", "replay"} : Restart(m)

Fairness == \A c \in Callers : WF_vars(Settle(c))

Spec == Init /\ [][Next]_vars /\ Fairness

-----------------------------------------------------------------------------
\* Safety.  Whoever asks a question, in whichever run, is given one answer:
\* callers that raced for it, and callers after a crash.
OneAnswer == \A k \in Keys : Cardinality(given[k]) <= 1

\* Safety.  At most one live answer per question and run, even when several
\* agents ask at once; and none in a replay.
OneLiveCall ==
    /\ \A c, d \in live : Question[c] = Question[d] => c = d
    /\ mode = "replay" => paid = 0

\* Safety.  The lock of a question is held exactly while its holder is at the
\* provider: no answer and no error leaves it behind, and nobody asks without.
LockHeld ==
    \A c \in Callers :
        (state[c] = "asking") <=> (lock[Question[c]] = c)

\* Action property.  No step, a crash inside a write included, changes a file
\* that is there, readable or not, or leaves one that cannot be read.
NeverRerecorded ==
    [][\A k \in Keys : disk'[k] # disk[k] => disk[k] = Absent /\ disk'[k] \in Answers]_vars

\* Liveness.  Once the process is not killed any more every caller is answered
\* or told why not: no lock is left held by a caller that has gone.
EveryCallerEnds == \A c \in Callers : <>[](state[c] \in Ended)

\* Safety, as `call` has it: a replayed call reports zero usage.
ReplayIsFree ==
    \A c \in Callers : state[c] = "done" /\ c \notin live => reported[c] = 0
=============================================================================

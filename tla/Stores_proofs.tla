---------------------------- MODULE Stores_proofs ----------------------------
(***************************************************************************)
(* What is kept on disk between runs. Cassette: one answer per question    *)
(* and recordings that never change, for every number of callers,          *)
(* questions, answers and runs of the process. Journal, for any number of  *)
(* runs, however many at once: its invariant carries a position, every     *)
(* saved record lies whole between two line ends, and a file that is only  *)
(* ever appended to keeps it there.                                        *)
(***************************************************************************)
EXTENDS Cassette, Journal, FiniteSetTheorems, TLAPS

(***************************************************************************)
(* Cassette                                                                *)
(***************************************************************************)

\* Whoever is at the provider asks a question with no recording.
AskedIsAbsent ==
    \A c \in Callers : state[c] = "asking" => disk[Question[c]] = Absent

\* Whoever holds the event loop to write is at the provider with an answer.
WriterHasAnswer ==
    writer # Nobody => state[writer] = "asking" /\ fresh[writer] \in Answers

\* Every answer ever given is the recording.
GivenIsRecorded == \A k \in Keys : given[k] \subseteq {disk[k]}

\* A live answer is recorded, or is about to be.
LiveIsKept ==
    \A c \in live : writer = c \/ disk[Question[c]] # Absent

\* In a replay nobody waits for the provider or reaches it.
ReplayAsksNobody ==
    mode = "replay" =>
        paid = 0 /\ \A c \in Callers : state[c] \notin {"waiting", "asking"}

\* The total a caller found when it called is never above the total.
BeforeIsPast == \A c \in Callers : before[c] <= usage

\* At most one live answer per question and run (the first half of OneLiveCall).
LiveOnce == \A c, d \in live : Question[c] = Question[d] => c = d

\* The file of a question changes only from nothing to an answer.
Kept(k) == disk'[k] # disk[k] => disk[k] = Absent /\ disk'[k] \in Answers

\* The inductive invariant.
IInv ==
    /\ TypeOK
    /\ LockHeld
    /\ AskedIsAbsent
    /\ WriterHasAnswer
    /\ GivenIsRecorded
    /\ LiveIsKept
    /\ ReplayAsksNobody
    /\ LiveOnce
    /\ BeforeIsPast

-----------------------------------------------------------------------------
\* Two callers cannot both be at the provider with one question.
LEMMA OneAsks ==
    ASSUME IInv, NEW c \in Callers, NEW d \in Callers,
           state[c] = "asking", state[d] = "asking", Question[c] = Question[d]
    PROVE  c = d
PROOF BY DEF IInv, LockHeld

\* A new process over a directory in which nothing has been asked.
LEMMA InitIInv == Init => IInv
<1>. SUFFICES ASSUME Init PROVE IInv
  OBVIOUS
<1>. USE CassetteAssumption, MarksAreApart DEF Init
<1>1. TypeOK
  BY DEF TypeOK, States
<1>2. LockHeld
  BY DEF LockHeld
<1>3. AskedIsAbsent /\ WriterHasAnswer /\ GivenIsRecorded
  BY DEF AskedIsAbsent, WriterHasAnswer, GivenIsRecorded
<1>4. LiveIsKept /\ ReplayAsksNobody /\ LiveOnce /\ BeforeIsPast
  BY DEF LiveIsKept, ReplayAsksNobody, LiveOnce, BeforeIsPast
<1>. QED  BY <1>1, <1>2, <1>3, <1>4 DEF IInv

\* Serving a recording, or failing to read it, keeps what is given recorded.
LEMMA RecordedKeeps ==
    ASSUME IInv, NEW c \in Callers, disk[Question[c]] # Absent, Recorded(c)
    PROVE  /\ \E s \in Ended : state' = [state EXCEPT ![c] = s]
           /\ given' \in [Keys -> SUBSET Answers]
           /\ \A k \in Keys : given'[k] \subseteq {disk[k]}
<1>. USE CassetteAssumption DEF IInv
<1>. DEFINE k == Question[c]
<1>1. k \in Keys /\ disk[k] \in Answers \cup {Corrupt}
  BY DEF TypeOK
<1>2. CASE disk[k] = Corrupt
  BY <1>2 DEF Recorded, Raise, Ended, TypeOK, GivenIsRecorded
<1>3. CASE disk[k] # Corrupt
  <2>1. /\ state' = [state EXCEPT ![c] = "done"]
        /\ given' = [given EXCEPT ![k] = @ \cup {disk[k]}]
    BY <1>3 DEF Recorded, Serve
  <2>2. disk[k] \in Answers
    BY <1>1, <1>3
  <2>3. given' \in [Keys -> SUBSET Answers]
    BY <1>1, <2>1, <2>2 DEF TypeOK
  <2>4. \A j \in Keys : given'[j] \subseteq {disk[j]}
    BY <1>1, <2>1 DEF TypeOK, GivenIsRecorded
  <2>. QED  BY <2>1, <2>3, <2>4 DEF Ended
<1>. QED  BY <1>2, <1>3

\* A caller that ends without having been at the provider disturbs nobody.
LEMMA EndsKeeps ==
    ASSUME IInv, NEW c \in Callers, state[c] \in {"new", "waiting"},
           NEW s \in {"waiting", "done", "raised"}, state' = [state EXCEPT ![c] = s],
           s = "waiting" => mode = "record", BeforeIsPast',
           given' \in [Keys -> SUBSET Answers],
           \A k \in Keys : given'[k] \subseteq {disk[k]},
           before' \in [Callers -> Nat], reported' \in [Callers -> Nat],
           UNCHANGED <<mode, lock, writer, fresh, disk, usage, runs, live, paid>>
    PROVE  IInv'
<1>. USE CassetteAssumption DEF IInv
<1>1. /\ state' \in [Callers -> States] /\ state'[c] # "asking"
      /\ \A d \in Callers \ {c} : state'[d] = state[d]
  BY DEF TypeOK, States
<1>2. TypeOK'
  BY <1>1 DEF TypeOK
<1>3. LockHeld'
  BY <1>1 DEF LockHeld, TypeOK
<1>4. AskedIsAbsent'
  BY <1>1 DEF AskedIsAbsent, TypeOK
<1>5. WriterHasAnswer'
  <2>1. writer # Nobody => writer \in Callers /\ writer # c
    BY DEF TypeOK, WriterHasAnswer
  <2>. QED  BY <1>1, <2>1 DEF WriterHasAnswer
<1>6. GivenIsRecorded'
  BY DEF GivenIsRecorded
<1>7. LiveIsKept' /\ LiveOnce'
  BY DEF LiveIsKept, LiveOnce
<1>8. ReplayAsksNobody'
  BY <1>1 DEF ReplayAsksNobody
<1>. QED  BY <1>2, <1>3, <1>4, <1>5, <1>6, <1>7, <1>8 DEF IInv

\* A caller that takes the lock to ask for what is not recorded.
LEMMA AsksKeeps ==
    ASSUME IInv, NEW c \in Callers, state[c] \in {"new", "waiting"}, mode = "record",
           disk[Question[c]] = Absent, lock[Question[c]] = Nobody,
           state' = [state EXCEPT ![c] = "asking"],
           lock' = [lock EXCEPT ![Question[c]] = c],
           before' \in [Callers -> Nat], BeforeIsPast',
           UNCHANGED <<mode, writer, fresh, disk, reported, usage, runs, live, paid, given>>
    PROVE  IInv'
<1>. USE CassetteAssumption, MarksAreApart DEF IInv
<1>1. /\ state' \in [Callers -> States] /\ state'[c] = "asking"
      /\ \A d \in Callers \ {c} : state'[d] = state[d]
  BY DEF TypeOK, States
<1>2. TypeOK'
  BY <1>1 DEF TypeOK
<1>3. LockHeld'
  <2>1. ASSUME NEW d \in Callers
        PROVE  (state'[d] = "asking") <=> (lock'[Question[d]] = d)
    <3>1. CASE d = c
      BY <1>1, <3>1 DEF TypeOK
    <3>2. CASE d # c /\ Question[d] = Question[c]
      BY <1>1, <3>2 DEF TypeOK, LockHeld
    <3>3. CASE d # c /\ Question[d] # Question[c]
      BY <1>1, <3>3 DEF TypeOK, LockHeld
    <3>. QED  BY <3>1, <3>2, <3>3
  <2>. QED  BY <2>1 DEF LockHeld
<1>4. AskedIsAbsent'
  BY <1>1 DEF AskedIsAbsent
<1>5. WriterHasAnswer'
  <2>1. writer # Nobody => writer \in Callers /\ writer # c
    BY DEF TypeOK, WriterHasAnswer
  <2>. QED  BY <1>1, <2>1 DEF WriterHasAnswer
<1>6. GivenIsRecorded' /\ LiveIsKept' /\ LiveOnce' /\ ReplayAsksNobody'
  BY DEF GivenIsRecorded, LiveIsKept, LiveOnce, ReplayAsksNobody
<1>. QED  BY <1>2, <1>3, <1>4, <1>5, <1>6 DEF IInv

\* `call` up to its first await.
LEMMA CallIInv ==
    ASSUME IInv, NEW c \in Callers, Call(c)
    PROVE  IInv'
<1>. DEFINE k == Question[c]
<1>1. /\ state[c] = "new" /\ before' = [before EXCEPT ![c] = usage]
      /\ UNCHANGED <<mode, writer, fresh, disk, reported, usage, runs, live, paid>>
  BY DEF Call
<1>2. before' \in [Callers -> Nat] /\ reported' \in [Callers -> Nat] /\ BeforeIsPast'
  <2>1. usage \in Nat /\ usage <= usage
    BY DEF IInv, TypeOK
  <2>. QED  BY <1>1, <2>1 DEF IInv, TypeOK, BeforeIsPast
<1>3. given \in [Keys -> SUBSET Answers] /\ \A j \in Keys : given[j] \subseteq {disk[j]}
  BY DEF IInv, TypeOK, GivenIsRecorded
<1>4. CASE disk[k] # Absent /\ Recorded(c) /\ UNCHANGED lock
  <2>1. PICK s \in Ended : state' = [state EXCEPT ![c] = s]
    BY <1>4, RecordedKeeps
  <2>2. s \in {"waiting", "done", "raised"} /\ s # "waiting"
    BY DEF Ended
  <2>3. /\ given' \in [Keys -> SUBSET Answers]
        /\ \A j \in Keys : given'[j] \subseteq {disk[j]}
    BY <1>4, RecordedKeeps
  <2>. QED  BY <1>1, <1>2, <1>4, <2>1, <2>2, <2>3, EndsKeeps
<1>5. CASE Raise(c) /\ UNCHANGED lock
  <2>1. state' = [state EXCEPT ![c] = "raised"] /\ given' = given
    BY <1>5 DEF Raise
  <2>. QED  BY <1>1, <1>2, <1>3, <1>5, <2>1, EndsKeeps
<1>6. CASE /\ state' = [state EXCEPT ![c] = "waiting"] /\ mode = "record"
           /\ UNCHANGED <<lock, given>>
  BY <1>1, <1>2, <1>3, <1>6, EndsKeeps
<1>7. CASE /\ disk[k] = Absent /\ mode = "record" /\ lock[k] = Nobody
           /\ state' = [state EXCEPT ![c] = "asking"]
           /\ lock' = [lock EXCEPT ![k] = c] /\ UNCHANGED given
  BY <1>1, <1>2, <1>7, AsksKeeps
<1>. QED  BY <1>4, <1>5, <1>6, <1>7 DEF Call

\* The second look, under the lock.
LEMMA AcquireIInv ==
    ASSUME IInv, NEW c \in Callers, Acquire(c)
    PROVE  IInv'
<1>. DEFINE k == Question[c]
<1>1. /\ state[c] = "waiting" /\ lock[k] = Nobody
      /\ UNCHANGED <<mode, writer, fresh, disk, before, usage, runs, live, paid>>
  BY DEF Acquire
<1>2. /\ before \in [Callers -> Nat] /\ usage \in Nat /\ before[c] <= usage
      /\ before' \in [Callers -> Nat] /\ BeforeIsPast'
  BY <1>1 DEF IInv, TypeOK, BeforeIsPast
<1>3. CASE disk[k] # Absent
  <2>1. /\ Recorded(c) /\ lock' = lock
        /\ reported' = [reported EXCEPT ![c] = usage - before[c]]
    BY <1>3 DEF Acquire
  <2>2. reported' \in [Callers -> Nat]
    <3>1. before[c] \in Nat
      BY <1>2
    <3>2. usage - before[c] \in Nat
      BY <1>2, <3>1
    <3>. QED  BY <2>1, <3>2 DEF IInv, TypeOK
  <2>3. PICK s \in Ended : state' = [state EXCEPT ![c] = s]
    BY <1>3, <2>1, RecordedKeeps
  <2>4. s \in {"waiting", "done", "raised"} /\ s # "waiting"
    BY DEF Ended
  <2>5. /\ given' \in [Keys -> SUBSET Answers]
        /\ \A j \in Keys : given'[j] \subseteq {disk[j]}
    BY <1>3, <2>1, RecordedKeeps
  <2>. QED  BY <1>1, <1>2, <2>1, <2>2, <2>3, <2>4, <2>5, EndsKeeps
<1>4. CASE disk[k] = Absent
  <2>1. /\ state' = [state EXCEPT ![c] = "asking"]
        /\ lock' = [lock EXCEPT ![k] = c] /\ UNCHANGED <<reported, given>>
    BY <1>4 DEF Acquire
  <2>2. mode = "record"
    BY <1>1 DEF IInv, ReplayAsksNobody, TypeOK
  <2>. QED  BY <1>1, <1>2, <1>4, <2>1, <2>2, AsksKeeps
<1>. QED  BY <1>3, <1>4

\* The live call returns.
LEMMA AnswerIInv ==
    ASSUME IInv, NEW c \in Callers, NEW answer \in Answers, NEW cost \in Costs,
           Answer(c, answer, cost)
    PROVE  IInv'
<1>. USE CassetteAssumption, MarksAreApart DEF IInv
<1>1. /\ writer = Nobody /\ state[c] = "asking"
      /\ fresh' = [fresh EXCEPT ![c] = answer] /\ writer' = c
      /\ usage' = usage + cost /\ paid' = paid + cost /\ live' = live \cup {c}
      /\ UNCHANGED <<mode, state, lock, disk, before, reported, runs, given>>
  BY DEF Answer
<1>2. cost \in Nat /\ usage \in Nat /\ usage' \in Nat /\ paid' \in Nat /\ usage <= usage'
  BY <1>1 DEF TypeOK
<1>3. TypeOK'
  BY <1>1, <1>2 DEF TypeOK
<1>4. LockHeld' /\ AskedIsAbsent' /\ GivenIsRecorded'
  BY <1>1 DEF LockHeld, AskedIsAbsent, GivenIsRecorded
<1>5. WriterHasAnswer'
  BY <1>1 DEF WriterHasAnswer, TypeOK
<1>6. \A d \in live : disk[Question[d]] # Absent
  BY <1>1 DEF LiveIsKept, TypeOK
<1>7. LiveIsKept'
  BY <1>1, <1>6 DEF LiveIsKept
<1>8. LiveOnce'
  <2>1. disk[Question[c]] = Absent
    BY <1>1 DEF AskedIsAbsent
  <2>. QED  BY <1>1, <1>6, <2>1 DEF LiveOnce
<1>9. ReplayAsksNobody'
  BY <1>1 DEF ReplayAsksNobody
<1>10. BeforeIsPast'
  <2>1. ASSUME NEW d \in Callers PROVE before'[d] <= usage'
    BY <1>1, <1>2, <2>1 DEF BeforeIsPast, TypeOK
  <2>. QED  BY <2>1 DEF BeforeIsPast
<1>. QED  BY <1>3, <1>4, <1>5, <1>7, <1>8, <1>9, <1>10

\* The recording is put in place.
LEMMA WriteIInv ==
    ASSUME IInv, NEW c \in Callers, Write(c)
    PROVE  IInv' /\ \A k \in Keys : Kept(k)
<1>. USE CassetteAssumption, MarksAreApart DEF IInv
<1>. DEFINE k == Question[c]
<1>1. /\ writer = c /\ disk' = [disk EXCEPT ![k] = fresh[c]]
      /\ lock' = [lock EXCEPT ![k] = Nobody]
      /\ state' = [state EXCEPT ![c] = "done"]
      /\ given' = [given EXCEPT ![k] = @ \cup {fresh[c]}]
      /\ reported' = [reported EXCEPT ![c] = usage - before[c]] /\ writer' = Nobody
      /\ UNCHANGED <<mode, fresh, before, usage, runs, live, paid>>
  BY DEF Write, Serve
<1>2. /\ state[c] = "asking" /\ fresh[c] \in Answers /\ k \in Keys
      /\ disk[k] = Absent /\ given[k] = {} /\ lock[k] = c
  <2>1. state[c] = "asking" /\ fresh[c] \in Answers /\ k \in Keys
    BY <1>1 DEF WriterHasAnswer
  <2>2. disk[k] = Absent /\ lock[k] = c
    BY <2>1 DEF AskedIsAbsent, LockHeld
  <2>3. given[k] = {}
    BY <2>1, <2>2 DEF GivenIsRecorded, TypeOK
  <2>. QED  BY <2>1, <2>2, <2>3
<1>3. /\ state' \in [Callers -> States] /\ state'[c] = "done"
      /\ \A d \in Callers \ {c} : state'[d] = state[d]
      /\ disk' \in [Keys -> Answers \cup {Absent, Corrupt}]
      /\ disk'[k] = fresh[c] /\ \A j \in Keys \ {k} : disk'[j] = disk[j]
  BY <1>1, <1>2 DEF TypeOK, States
<1>4. TypeOK'
  <2>1. reported' \in [Callers -> Nat]
    <3>1. before[c] \in Nat /\ usage \in Nat /\ before[c] <= usage
      BY DEF TypeOK, BeforeIsPast
    <3>2. usage - before[c] \in Nat
      BY <3>1
    <3>. QED  BY <1>1, <3>2 DEF TypeOK
  <2>2. given' \in [Keys -> SUBSET Answers] /\ lock' \in [Keys -> Callers \cup {Nobody}]
    BY <1>1, <1>2 DEF TypeOK
  <2>. QED  BY <1>1, <1>3, <2>1, <2>2 DEF TypeOK
<1>5. LockHeld'
  <2>1. ASSUME NEW d \in Callers
        PROVE  (state'[d] = "asking") <=> (lock'[Question[d]] = d)
    <3>1. CASE d = c
      BY <1>1, <1>2, <1>3, <3>1 DEF TypeOK
    <3>2. CASE d # c /\ Question[d] = k
      BY <1>1, <1>2, <1>3, <3>2 DEF TypeOK, LockHeld
    <3>3. CASE d # c /\ Question[d] # k
      BY <1>1, <1>3, <3>3 DEF TypeOK, LockHeld
    <3>. QED  BY <3>1, <3>2, <3>3
  <2>. QED  BY <2>1 DEF LockHeld
<1>6. AskedIsAbsent'
  <2>1. ASSUME NEW d \in Callers, state'[d] = "asking"
        PROVE  disk'[Question[d]] = Absent
    <3>1. d # c /\ state[d] = "asking"
      BY <1>3, <2>1
    <3>2. Question[d] # k
      BY <1>2, <3>1 DEF LockHeld
    <3>. QED  BY <1>3, <3>1, <3>2 DEF AskedIsAbsent
  <2>. QED  BY <2>1 DEF AskedIsAbsent
<1>7. WriterHasAnswer'
  BY <1>1 DEF WriterHasAnswer
<1>8. GivenIsRecorded'
  BY <1>1, <1>2, <1>3 DEF GivenIsRecorded, TypeOK
<1>9. LiveIsKept'
  <2>1. ASSUME NEW d \in live PROVE disk'[Question[d]] # Absent
    <3>1. d \in Callers /\ Question[d] \in Keys
      BY <2>1 DEF TypeOK
    <3>2. CASE Question[d] = k
      BY <1>2, <1>3, <3>2
    <3>3. CASE Question[d] # k
      BY <1>1, <1>3, <2>1, <3>1, <3>3 DEF LiveIsKept
    <3>. QED  BY <3>2, <3>3
  <2>. QED  BY <1>1, <2>1 DEF LiveIsKept
<1>10. LiveOnce' /\ BeforeIsPast'
  BY <1>1 DEF LiveOnce, BeforeIsPast
<1>11. ReplayAsksNobody'
  BY <1>1, <1>3 DEF ReplayAsksNobody
<1>12. \A j \in Keys : Kept(j)
  BY <1>2, <1>3 DEF Kept
<1>. QED  BY <1>4, <1>5, <1>6, <1>7, <1>8, <1>9, <1>10, <1>11, <1>12

\* The live call raises.
LEMMA GiveUpIInv ==
    ASSUME IInv, NEW c \in Callers, NEW cost \in Costs, GiveUp(c, cost)
    PROVE  IInv'
<1>. USE CassetteAssumption, MarksAreApart DEF IInv
<1>. DEFINE k == Question[c]
<1>1. /\ writer = Nobody /\ state[c] = "asking"
      /\ state' = [state EXCEPT ![c] = "raised"]
      /\ lock' = [lock EXCEPT ![k] = Nobody] /\ paid' = paid + cost
      /\ UNCHANGED <<mode, writer, fresh, disk, before, reported, usage, runs, live, given>>
  BY DEF GiveUp, Raise
<1>2. /\ state' \in [Callers -> States] /\ state'[c] = "raised"
      /\ \A d \in Callers \ {c} : state'[d] = state[d]
  BY <1>1 DEF TypeOK, States
<1>3. TypeOK'
  BY <1>1, <1>2 DEF TypeOK
<1>4. LockHeld'
  <2>1. ASSUME NEW d \in Callers
        PROVE  (state'[d] = "asking") <=> (lock'[Question[d]] = d)
    <3>1. CASE d = c
      BY <1>1, <1>2, <3>1 DEF TypeOK
    <3>2. CASE d # c /\ Question[d] = k
      BY <1>1, <1>2, <3>2 DEF TypeOK, LockHeld
    <3>3. CASE d # c /\ Question[d] # k
      BY <1>1, <1>2, <3>3 DEF TypeOK, LockHeld
    <3>. QED  BY <3>1, <3>2, <3>3
  <2>. QED  BY <2>1 DEF LockHeld
<1>5. AskedIsAbsent' /\ WriterHasAnswer' /\ GivenIsRecorded'
  BY <1>1, <1>2 DEF AskedIsAbsent, WriterHasAnswer, GivenIsRecorded
<1>6. LiveIsKept' /\ LiveOnce' /\ BeforeIsPast'
  BY <1>1 DEF LiveIsKept, LiveOnce, BeforeIsPast
<1>7. ReplayAsksNobody'
  BY <1>1 DEF ReplayAsksNobody
<1>. QED  BY <1>3, <1>4, <1>5, <1>6, <1>7

\* A crash, inside _write or not, and a new process.
LEMMA RestartIInv ==
    ASSUME IInv, NEW m \in {"record", "replay"}, Restart(m)
    PROVE  IInv' /\ disk' = disk
<1>. USE CassetteAssumption, MarksAreApart DEF IInv
<1>1. disk' = disk
  BY DEF Restart, LeftBehind, TypeOK
<1>2. /\ mode' = m /\ state' = [d \in Callers |-> "new"]
      /\ lock' = [j \in Keys |-> Nobody] /\ writer' = Nobody
      /\ fresh' = [d \in Callers |-> Absent]
      /\ before' = [d \in Callers |-> 0] /\ reported' = [d \in Callers |-> 0]
      /\ usage' = 0 /\ live' = {} /\ paid' = 0 /\ given' = given
      /\ runs < MaxRuns /\ runs' = runs + 1
  BY DEF Restart
<1>3. TypeOK'
  BY <1>1, <1>2 DEF TypeOK, States
<1>4. LockHeld' /\ AskedIsAbsent' /\ WriterHasAnswer' /\ GivenIsRecorded'
  BY <1>1, <1>2 DEF LockHeld, AskedIsAbsent, WriterHasAnswer, GivenIsRecorded
<1>5. LiveIsKept' /\ ReplayAsksNobody' /\ LiveOnce' /\ BeforeIsPast'
  BY <1>2 DEF LiveIsKept, ReplayAsksNobody, LiveOnce, BeforeIsPast
<1>. QED  BY <1>1, <1>3, <1>4, <1>5

\* Every step keeps the invariant, and every recording.
LEMMA NextIInv ==
    ASSUME IInv, [Next]_vars
    PROVE  IInv' /\ \A k \in Keys : Kept(k)
<1>1. ASSUME NEW c \in Callers, Call(c) \/ Acquire(c)
      PROVE  IInv' /\ disk' = disk
  BY <1>1, CallIInv, AcquireIInv DEF Call, Acquire
<1>2. ASSUME NEW c \in Callers, Write(c)
      PROVE  IInv' /\ \A k \in Keys : Kept(k)
  BY <1>2, WriteIInv
<1>3. ASSUME NEW c \in Callers, NEW cost \in Costs, GiveUp(c, cost)
      PROVE  IInv' /\ disk' = disk
  BY <1>3, GiveUpIInv DEF GiveUp
<1>4. ASSUME NEW c \in Callers, NEW answer \in Answers, NEW cost \in Costs,
             Answer(c, answer, cost)
      PROVE  IInv' /\ disk' = disk
  BY <1>4, AnswerIInv DEF Answer
<1>5. ASSUME NEW m \in {"record", "replay"}, Restart(m) PROVE IInv' /\ disk' = disk
  BY <1>5, RestartIInv
<1>6. CASE UNCHANGED vars
  BY <1>6 DEF vars, IInv, TypeOK, LockHeld, AskedIsAbsent, WriterHasAnswer,
     GivenIsRecorded, LiveIsKept, ReplayAsksNobody, LiveOnce, BeforeIsPast, Kept
<1>. QED  BY <1>1, <1>2, <1>3, <1>4, <1>5, <1>6 DEF Next, Settle, Kept

\* The inductive invariant holds in every reachable state.
THEOREM Invariance == Spec => []IInv
<1>1. IInv /\ [Next]_vars => IInv'
  BY NextIInv
<1>. QED  BY <1>1, InitIInv, PTL DEF Spec

-----------------------------------------------------------------------------
\* Every variable of the cassette keeps its type.
THEOREM TypeCorrect == Spec => []TypeOK
<1>1. IInv => TypeOK
  BY DEF IInv
<1>. QED  BY <1>1, Invariance, PTL

\* A question has one answer, whoever asks it and in whichever run.
THEOREM AnswersAgree == Spec => []OneAnswer
<1>1. ASSUME IInv PROVE OneAnswer
  <2>. SUFFICES ASSUME NEW k \in Keys PROVE Cardinality(given[k]) <= 1
    BY DEF OneAnswer
  <2>1. given[k] \subseteq {disk[k]}
    BY <1>1 DEF IInv, GivenIsRecorded
  <2>2. IsFiniteSet({disk[k]}) /\ Cardinality({disk[k]}) = 1
    BY FS_Singleton
  <2>. QED  BY <2>1, <2>2, FS_Subset
<1>. QED  BY <1>1, Invariance, PTL

\* At most one live answer per question and run, and none in a replay.
THEOREM LiveCallsOnce == Spec => []OneLiveCall
<1>1. IInv => OneLiveCall
  BY DEF IInv, LiveOnce, ReplayAsksNobody, OneLiveCall
<1>. QED  BY <1>1, Invariance, PTL

\* The lock of a question is held exactly while its holder asks.
THEOREM LocksAgree == Spec => []LockHeld
<1>1. IInv => LockHeld
  BY DEF IInv
<1>. QED  BY <1>1, Invariance, PTL

\* No step, crashes included, changes a recording.
THEOREM RecordingsStay == Spec => NeverRerecorded
<1>1. IInv /\ [Next]_vars => [\A k \in Keys :
                              disk'[k] # disk[k] => disk[k] = Absent /\ disk'[k] \in Answers]_vars
  BY NextIInv DEF Kept
<1>. QED  BY <1>1, Invariance, PTL DEF Spec, NeverRerecorded

(***************************************************************************)
(* Journal                                                                 *)
(***************************************************************************)

Pieces == Records \cup {Newline, Torn}

\* A record between two line ends.
Sealed(f, i) ==
    /\ i \in 1..(Len(f) - 1)
    /\ f[i] \in Records
    /\ i > 1 => f[i - 1] = Newline
    /\ f[i + 1] = Newline

SavedAreSealed == \A x \in saved : \E i \in 1..Len(file) : file[i] = x /\ Sealed(file, i)

JournalIInv == JournalTypeOK /\ SavedAreSealed

\* What a flush puts at the end of the file is made of pieces, whole or cut off.
LEMMA FlushTyped ==
    ASSUME JournalTypeOK, NEW r \in Runs, pc[r] \in Appending
    PROVE  /\ Record(pc[r], r) \in Records
           /\ Seal(r) \in Seq(Pieces)
           /\ Line(r) \in Seq(Pieces)
           /\ \A left \in Leftovers(r) : left \in Seq(Pieces)
<1>1. Record(pc[r], r) \in Records
    BY DEF Records, Appending
<1>2. <<>> \in Seq(Pieces) /\ Seal(r) \in Seq(Pieces)
    <2>1. Newline \in Pieces
        BY DEF Pieces
    <2>2. <<>> \in Seq(Pieces) /\ <<Newline>> \in Seq(Pieces)
        BY <2>1
    <2>3. Seal(r) = <<>> \/ Seal(r) = <<Newline>>
        BY DEF Seal
    <2>. QED BY <2>2, <2>3
<1>. DEFINE rec == Record(pc[r], r)
<1>3. rec \in Pieces /\ Newline \in Pieces /\ Torn \in Pieces
    BY <1>1 DEF Pieces
<1>. HIDE DEF rec
<1>4. \A s \in Seq(Pieces) :
         /\ s \o <<rec, Newline>> \in Seq(Pieces)
         /\ s \o <<rec>> \in Seq(Pieces)
         /\ s \o <<Torn>> \in Seq(Pieces)
    BY <1>3
<1>5. Line(r) \in Seq(Pieces)
    BY <1>2, <1>4 DEF Line, rec
<1>6. \A left \in Leftovers(r) : left \in Seq(Pieces)
    BY <1>2, <1>4 DEF Leftovers, rec
<1>. QED BY <1>1, <1>2, <1>5, <1>6

\* Appending to a file moves nothing: what was sealed is sealed where it was.
LEMMA SealedStays ==
    ASSUME NEW f \in Seq(Pieces), NEW s \in Seq(Pieces), NEW i \in Int, Sealed(f, i)
    PROVE  Sealed(f \o s, i) /\ (f \o s)[i] = f[i] /\ i \in 1..Len(f \o s)
<1>1. i \in 1..Len(f) /\ i + 1 \in 1..Len(f) /\ (i > 1 => i - 1 \in 1..Len(f))
    BY DEF Sealed
<1>2. \A j \in 1..Len(f) : (f \o s)[j] = f[j]
    OBVIOUS
<1>3. Len(f \o s) = Len(f) + Len(s) /\ Len(s) \in Nat /\ Len(f) \in Nat
    OBVIOUS
<1>. QED BY <1>1, <1>2, <1>3 DEF Sealed

\* A sealed record is one that reads back.
LEMMA SealedReads ==
    ASSUME NEW i \in Int, Sealed(file, i)
    PROVE  i \in 1..Len(file) /\ Reads(i)
BY DEF Sealed, Reads

\* A step that appends and saves nothing new keeps the invariant.
LEMMA AppendKeeps ==
    ASSUME JournalIInv, NEW s \in Seq(Pieces), file' = file \o s, saved' = saved
    PROVE  SavedAreSealed'
<1>1. file \in Seq(Pieces)
    BY DEF JournalIInv, JournalTypeOK, Pieces
<1>. SUFFICES ASSUME NEW x \in saved
              PROVE  \E i \in 1..Len(file') : file'[i] = x /\ Sealed(file', i)
    BY DEF SavedAreSealed
<1>2. PICK i \in 1..Len(file) : file[i] = x /\ Sealed(file, i)
    BY DEF JournalIInv, SavedAreSealed
<1>3. i \in Int
    BY <1>1, <1>2
<1>. QED BY <1>1, <1>2, <1>3, SealedStays

\* A run that saw the file right writes its record between two line ends.
LEMMA WriteSeals ==
    ASSUME JournalTypeOK, NEW r \in Runs, pc[r] \in Appending, ~Blind(r),
           file' = file \o Line(r)
    PROVE  \E i \in 1..Len(file') : file'[i] = Record(pc[r], r) /\ Sealed(file', i)
<1>. DEFINE rec == Record(pc[r], r)
<1>1. rec \in Records
    BY FlushTyped
<1>. HIDE DEF rec
<1>2. file \in Seq(Pieces) /\ Len(file) \in Nat
    BY DEF JournalTypeOK, Pieces
<1>3. rec \in Pieces /\ Newline \in Pieces
    BY <1>1 DEF Pieces
<1>4. CASE mid[r]
    <2>. DEFINE f == file \o (<<Newline>> \o <<rec, Newline>>)
    <2>1. file' = f
        BY <1>4 DEF Line, Seal, rec
    <2>2. /\ Len(f) = Len(file) + 3
          /\ f[Len(file) + 1] = Newline
          /\ f[Len(file) + 2] = rec
          /\ f[Len(file) + 3] = Newline
        BY <1>2, <1>3
    <2>. HIDE DEF f
    <2>3. Sealed(f, Len(file) + 2)
        BY <1>1, <1>2, <2>2 DEF Sealed
    <2>. QED BY <1>2, <2>1, <2>2, <2>3 DEF rec
<1>5. CASE ~mid[r]
    <2>. DEFINE f == file \o (<<>> \o <<rec, Newline>>)
    <2>1. file' = f
        BY <1>5 DEF Line, Seal, rec
    <2>2. /\ Len(f) = Len(file) + 2
          /\ f[Len(file) + 1] = rec
          /\ f[Len(file) + 2] = Newline
          /\ \A j \in 1..Len(file) : f[j] = file[j]
        BY <1>2, <1>3
    <2>3. file = <<>> \/ file[Len(file)] = Newline
        BY <1>5 DEF Blind, EndsMidLine
    <2>4. Len(file) + 1 > 1 => f[(Len(file) + 1) - 1] = Newline
        BY <1>2, <2>2, <2>3
    <2>. HIDE DEF f
    <2>5. Sealed(f, Len(file) + 1)
        BY <1>1, <1>2, <2>2, <2>4 DEF Sealed
    <2>. QED BY <1>2, <2>1, <2>2, <2>5 DEF rec
<1>. QED BY <1>4, <1>5

\* Every step keeps the types.
LEMMA StepTyped ==
    ASSUME JournalTypeOK, [JournalNext]_journalVars
    PROVE  JournalTypeOK'
<1>1. CASE UNCHANGED journalVars
    BY <1>1 DEF JournalTypeOK, journalVars
<1>2. ASSUME NEW r \in Runs, Look(r)
      PROVE  JournalTypeOK'
    <2>1. pc' \in [Runs -> Stages]
        BY <1>2 DEF Look, JournalTypeOK, Stages
    <2>2. mid' \in [Runs -> BOOLEAN]
        BY <1>2 DEF Look, JournalTypeOK, EndsMidLine
    <2>. QED BY <1>2, <2>1, <2>2 DEF Look, JournalTypeOK
<1>3. ASSUME NEW r \in Runs, pc[r] \in Appending, pc' = [pc EXCEPT ![r] = After[pc[r]]]
      PROVE  pc' \in [Runs -> Stages]
    <2>1. After[pc[r]] \in Stages
        BY <1>3 DEF After, Appending, Stages
    <2>. QED BY <1>3, <2>1 DEF JournalTypeOK
<1>4. ASSUME NEW s \in Seq(Pieces)
      PROVE  file \o s \in Seq(Records \cup {Newline, Torn})
    BY <1>4 DEF JournalTypeOK, Pieces
<1>5. ASSUME NEW r \in Runs, Flush(r)
      PROVE  JournalTypeOK'
    <2>1. pc[r] \in Appending /\ pc' \in [Runs -> Stages]
        BY <1>3, <1>5 DEF Flush
    <2>2. Record(pc[r], r) \in Records /\ Line(r) \in Seq(Pieces)
        BY <2>1, FlushTyped
    <2>3. file' \in Seq(Records \cup {Newline, Torn})
        BY <1>4, <1>5, <2>2 DEF Flush
    <2>4. saved' \subseteq Records
        BY <1>5, <2>2 DEF Flush, JournalTypeOK
    <2>. QED BY <1>5, <2>1, <2>3, <2>4 DEF Flush, JournalTypeOK
<1>6. ASSUME NEW r \in Runs, Lose(r)
      PROVE  JournalTypeOK'
    <2>1. pc[r] \in Appending /\ pc' \in [Runs -> Stages]
        BY <1>3, <1>6 DEF Lose
    <2>2. file' \in Seq(Records \cup {Newline, Torn})
        BY <1>4, <1>6, <2>1, FlushTyped DEF Lose
    <2>. QED BY <1>6, <2>1, <2>2 DEF Lose, JournalTypeOK
<1>7. ASSUME NEW r \in Runs, Die(r)
      PROVE  JournalTypeOK'
    <2>1. pc' \in [Runs -> Stages]
        BY <1>7 DEF Die, JournalTypeOK, Stages
    <2>2. file' \in Seq(Records \cup {Newline, Torn})
        BY <1>4, <1>7, FlushTyped DEF Die, JournalTypeOK
    <2>. QED BY <1>7, <2>1, <2>2 DEF Die, JournalTypeOK
<1>. QED BY <1>1, <1>2, <1>5, <1>6, <1>7 DEF JournalNext

\* Every step keeps what is saved sealed.
LEMMA StepSeals ==
    ASSUME JournalIInv, [JournalNext]_journalVars
    PROVE  SavedAreSealed'
<1>1. JournalTypeOK
    BY DEF JournalIInv
<1>2. CASE file' = file /\ saved' = saved
    BY <1>2 DEF JournalIInv, SavedAreSealed, Sealed
<1>3. ASSUME NEW r \in Runs, Flush(r)
      PROVE  SavedAreSealed'
    <2>1. pc[r] \in Appending /\ file' = file \o Line(r)
        BY <1>3 DEF Flush
    <2>2. Line(r) \in Seq(Pieces) /\ file \in Seq(Pieces)
        BY <1>1, <2>1, FlushTyped DEF JournalTypeOK, Pieces
    <2>3. CASE saved' = saved
        BY <2>1, <2>2, <2>3, AppendKeeps
    <2>4. CASE ~Blind(r) /\ saved' = saved \cup {Record(pc[r], r)}
        <3>1. \E i \in 1..Len(file') : file'[i] = Record(pc[r], r) /\ Sealed(file', i)
            BY <1>1, <2>1, <2>4, WriteSeals
        <3>2. ASSUME NEW x \in saved
              PROVE  \E i \in 1..Len(file') : file'[i] = x /\ Sealed(file', i)
            <4>1. PICK i \in 1..Len(file) : file[i] = x /\ Sealed(file, i)
                BY DEF JournalIInv, SavedAreSealed
            <4>2. i \in Int
                BY <2>2, <4>1
            <4>. QED BY <2>1, <2>2, <4>1, <4>2, SealedStays
        <3>. QED BY <2>4, <3>1, <3>2 DEF SavedAreSealed
    <2>. QED BY <1>3, <2>3, <2>4 DEF Flush
<1>4. ASSUME NEW r \in Runs, Lose(r) \/ (Die(r) /\ pc[r] \in Appending)
      PROVE  SavedAreSealed'
    <2>1. pc[r] \in Appending /\ saved' = saved
        BY <1>4 DEF Lose, Die
    <2>2. PICK left \in Leftovers(r) : file' = file \o left
        BY <1>4 DEF Lose, Die, Appending
    <2>3. left \in Seq(Pieces)
        BY <1>1, <2>1, FlushTyped
    <2>. QED BY <2>1, <2>2, <2>3, AppendKeeps
<1>5. ASSUME NEW r \in Runs, Look(r) \/ (Die(r) /\ pc[r] \notin Appending)
      PROVE  file' = file /\ saved' = saved
    BY <1>5 DEF Look, Die
<1>6. UNCHANGED journalVars => file' = file /\ saved' = saved
    BY DEF journalVars
<1>. QED BY <1>2, <1>3, <1>4, <1>5, <1>6 DEF JournalNext

\* The inductive invariant holds in every behaviour of the journal.
THEOREM JournalInvariance == JournalSpec => []JournalIInv
<1>1. JournalInit => JournalIInv
    BY DEF JournalInit, JournalIInv, JournalTypeOK, SavedAreSealed, Stages
<1>2. JournalIInv /\ [JournalNext]_journalVars => JournalIInv'
    BY StepTyped, StepSeals DEF JournalIInv
<1>. QED BY <1>1, <1>2, PTL DEF JournalSpec

\* The file is always made of records, line ends and torn records.
THEOREM JournalTypeCorrect == JournalSpec => []JournalTypeOK
<1>1. JournalIInv => JournalTypeOK
    BY DEF JournalIInv
<1>. QED BY <1>1, JournalInvariance, PTL

\* A record appended by a run that saw the file right is read back for ever,
\* whatever crashes, disk errors and other runs follow.
THEOREM NothingSavedIsLost == JournalSpec => []NothingElseLost
<1>1. JournalIInv => NothingElseLost
    <2>. SUFFICES ASSUME JournalIInv, NEW x \in saved
                  PROVE  x \in Readable
        BY DEF NothingElseLost
    <2>1. PICK i \in 1..Len(file) : file[i] = x /\ Sealed(file, i)
        BY DEF JournalIInv, SavedAreSealed
    <2>2. i \in Int
        BY <2>1 DEF Sealed
    <2>. QED BY <2>1, <2>2, SealedReads DEF Readable
<1>. QED BY <1>1, JournalInvariance, PTL

\* A flush of a run that knows the file ends mid-line starts with a newline, or
\* puts nothing there.
LEMMA FlushStarts ==
    ASSUME JournalTypeOK, NEW r \in Runs, pc[r] \in Appending, mid[r],
           NEW s \in Leftovers(r) \cup {Line(r)}
    PROVE  s = <<>> \/ (Len(s) > 0 /\ s[1] = Newline)
<1>. DEFINE rec == Record(pc[r], r)
<1>1. Seal(r) = <<Newline>>
    BY DEF Seal
<1>2. \/ s = <<>> \/ s = <<Newline>>
      \/ s = <<Newline>> \o <<Torn>>
      \/ s = <<Newline>> \o <<rec>>
      \/ s = <<Newline>> \o <<rec, Newline>>
    BY <1>1 DEF Leftovers, Line
<1>3. rec \in Pieces /\ Newline \in Pieces /\ Torn \in Pieces
    BY FlushTyped DEF Pieces
<1>. HIDE DEF rec
<1>4. <<Newline>> \in Seq(Pieces) /\ Len(<<Newline>>) = 1 /\ <<Newline>>[1] = Newline
    BY <1>3
<1>5. ASSUME NEW t \in Seq(Pieces)
      PROVE  Len(<<Newline>> \o t) > 0 /\ (<<Newline>> \o t)[1] = Newline
    BY <1>4
<1>6. <<Torn>> \in Seq(Pieces) /\ <<rec>> \in Seq(Pieces) /\ <<rec, Newline>> \in Seq(Pieces)
    BY <1>3
<1>7. ASSUME NEW t \in Seq(Pieces), s = <<Newline>> \o t
      PROVE  Len(s) > 0 /\ s[1] = Newline
    <2>. DEFINE u == <<Newline>> \o t
    <2>1. Len(u) > 0 /\ u[1] = Newline
        BY <1>5
    <2>. HIDE DEF u
    <2>2. s = u
        BY <1>7 DEF u
    <2>. QED BY <2>1, <2>2
<1>8. CASE s = <<Newline>>
    <2>1. Len(s) = 1 /\ s[1] = Newline
        BY <1>4, <1>8, Zenon
    <2>. QED BY <2>1
<1>9. CASE s = <<Newline>> \o <<Torn>>
    BY <1>6, <1>7, <1>9, Zenon
<1>10. CASE s = <<Newline>> \o <<rec>>
    BY <1>6, <1>7, <1>10, Zenon
<1>11. CASE s = <<Newline>> \o <<rec, Newline>>
    BY <1>6, <1>7, <1>11, Zenon
<1>. QED BY <1>2, <1>8, <1>9, <1>10, <1>11, Zenon

\* Whatever such a flush, or one to a file that ends with a line, leaves
\* behind, every record that read back still does.
LEMMA FlushKeepsReadable ==
    ASSUME file \in Seq(Pieces), NEW s \in Seq(Pieces), file' = file \o s,
           ~EndsMidLine \/ s = <<>> \/ (Len(s) > 0 /\ s[1] = Newline)
    PROVE  Readable \subseteq Readable'
<1>. DEFINE f == file \o s
<1>1. /\ Len(f) = Len(file) + Len(s) /\ Len(file) \in Nat /\ Len(s) \in Nat
      /\ \A j \in 1..Len(file) : f[j] = file[j]
      /\ \A j \in 1..Len(s) : f[Len(file) + j] = s[j]
    OBVIOUS
<1>2. s = <<>> => Len(s) = 0
    OBVIOUS
<1>3. file' = f
    OBVIOUS
<1>. HIDE DEF f
<1>. SUFFICES ASSUME NEW i \in 1..Len(file), Reads(i)
              PROVE  i \in 1..Len(file') /\ Reads(i)' /\ file'[i] = file[i]
    BY DEF Readable
<1>4. i \in 1..Len(f) /\ f[i] = file[i]
    BY <1>1
<1>5. i > 1 => f[i - 1] = Newline
    <2>1. i > 1 => i - 1 \in 1..Len(file)
        BY <1>1
    <2>. QED BY <1>1, <2>1 DEF Reads
<1>6. CASE i < Len(file)
    <2>1. file[i + 1] = Newline
        BY <1>6 DEF Reads
    <2>2. i + 1 \in 1..Len(file)
        BY <1>1, <1>6
    <2>3. f[i + 1] = Newline
        BY <1>1, <2>1, <2>2
    <2>. QED BY <1>3, <1>4, <1>5, <2>3 DEF Reads
<1>7. CASE i = Len(file)
    <2>1. file[i] \in Records /\ file # <<>>
        BY <1>1 DEF Reads
    <2>2. EndsMidLine
        BY <1>7, <2>1, MarksAreNoRecords DEF EndsMidLine
    <2>3. i < Len(f) => f[i + 1] = Newline
        BY <1>1, <1>2, <1>7, <2>2
    <2>. QED BY <1>3, <1>4, <1>5, <2>1, <2>3 DEF Reads
<1>. QED BY <1>1, <1>6, <1>7

\* "A run that dies mid-write costs its own line and nothing else": no step of
\* a run that saw the file right takes a readable record away.
THEOREM OnlyItsOwnLine == JournalSpec => CostsItsOwnLine
<1>1. ASSUME JournalIInv, [JournalNext]_journalVars, NEW r \in Runs, pc'[r] # pc[r],
             ~(pc[r] \in Appending /\ Blind(r))
      PROVE  Readable \subseteq Readable'
    <2>1. JournalTypeOK /\ file \in Seq(Pieces)
        BY <1>1 DEF JournalIInv, JournalTypeOK, Pieces
    <2>2. PICK q \in Runs : Look(q) \/ Flush(q) \/ Lose(q) \/ Die(q)
        BY <1>1 DEF JournalNext, journalVars
    <2>3. q = r
        BY <1>1, <2>1, <2>2 DEF Look, Flush, Lose, Die, JournalTypeOK
    <2>4. CASE file' = file
        BY <2>4 DEF Readable, Reads
    <2>5. CASE file' # file
        <3>1. pc[r] \in Appending
            BY <2>2, <2>3, <2>5 DEF Look, Flush, Lose, Die
        <3>2. PICK s \in Leftovers(r) \cup {Line(r)} : file' = file \o s
            BY <2>2, <2>3, <2>5 DEF Look, Flush, Lose, Die
        <3>3. s \in Seq(Pieces)
            BY <2>1, <3>1, <3>2, FlushTyped
        <3>4. mid[r] \/ ~EndsMidLine
            BY <1>1, <3>1 DEF Blind
        <3>5. mid[r] => s = <<>> \/ (Len(s) > 0 /\ s[1] = Newline)
            BY <2>1, <3>1, <3>2, FlushStarts
        <3>. QED BY <2>1, <3>2, <3>3, <3>4, <3>5, FlushKeepsReadable
    <2>. QED BY <2>4, <2>5
<1>. DEFINE StillRead == \A r \in Runs :
                      pc'[r] # pc[r] /\ ~(pc[r] \in Appending /\ Blind(r)) =>
                         Readable \subseteq Readable'
<1>2. JournalIInv /\ [JournalNext]_journalVars => [StillRead]_journalVars
    BY <1>1
<1>. QED BY <1>2, JournalInvariance, PTL DEF JournalSpec, CostsItsOwnLine
=============================================================================

--------------------------- MODULE Command_proofs ---------------------------
(***************************************************************************)
(* Proofs about Command.tla: what runs that share a memo, recordings and a *)
(* history owe to each other, for any number of them, of models and files. *)
(***************************************************************************)
EXTENDS Command, FiniteSetTheorems, SequenceTheorems, TLAPS

Working == Alive \ {"new"}

Fields == {"answers", "todo", "storing", "queue", "settled", "left", "child", "usage", "before", "usd"}

\* What a process holds: the file it writes is the entry of the question it
\* remembers, and one that has not begun, or is over, holds nothing.
ShapeOf(p) ==
    LET m == my[p]
        step == m.storing[1]
        f == m.storing[2]
    IN  /\ pc[p] \in Alive \cup Ends
        /\ DOMAIN m = Fields
        /\ m.answers \in [Files -> Answers \cup {None}]
        /\ m.todo \subseteq Files
        /\ m.storing = Idle \/ m.storing \in {"open", "fill", "move"} \X Files
        /\ m.storing # Idle => pc[p] = "review" /\ f \notin m.todo /\ m.answers[f] # None
        /\ m.storing # Idle => ~run[p].replay
        /\ m.usage \in Int /\ m.before \in Int /\ m.usd \in Int
        /\ pc[p] \in Working => run[p].model \in Models
        /\ pc[p] \notin Working => m = Fresh
        /\ IF step = "fill" THEN \E q \in Procs : fd[p] = <<Of(p, f), q>> ELSE fd[p] = Closed

Shape ==
    /\ DOMAIN pc = Procs /\ DOMAIN run = Procs /\ DOMAIN my = Procs /\ DOMAIN fd = Procs
    /\ \A p \in Procs : ShapeOf(p)
    /\ billed \in [Procs -> Nat] /\ unseen \in [Procs -> Nat] /\ DOMAIN finished = Procs
    /\ entry \in [Keys -> Inodes \cup {NoFile}]
    /\ partial \in [Keys -> Procs \cup {NoFile}]
    /\ content \in [Keys -> [Inodes -> Answers \cup {Half}]]

\* Whatever is on disk under a model came from it.
FiledUnderItsModel ==
    \A k \in Keys, i \in Inodes : content[k][i] # Half => By[content[k][i]] = k[2]

\* What a process costs, as far as it knows.
CostedOf(p) ==
    /\ pc[p] = "new" => billed[p] = 0 /\ unseen[p] = 0
    /\ pc[p] \in Working => my[p].usage + unseen[p] = billed[p]
    /\ pc[p] \in Working /\ unseen[p] > 0 => run[p].record
    /\ pc[p] = "settle" => my[p].usd = my[p].before
    /\ pc[p] \in {"write", "finish"} => my[p].usd = my[p].usage
    /\ finished[p] # None => pc[p] = "done" /\ finished[p] + unseen[p] = billed[p]

Costed == \A p \in Procs : CostedOf(p)

\* A process writes, or is about to move, the entry k.
Storing(p, k) ==
    my[p].storing[1] \in {"fill", "move"} /\ Of(p, my[p].storing[2]) = k

\* A process may still come to write the entry k.
MayOpen(p, k) ==
    \/ pc[p] \in {"new", "begin"}
    \/ /\ pc[p] = "review"
       /\ \E f \in Files : k = Of(p, f) /\ (f \in my[p].todo \/ my[p].storing = <<"open", f>>)

\* No inode bears the name of a process that has yet to create it.
Unnamed == \A p \in Procs, k \in Keys : MayOpen(p, k) => entry[k] # p /\ partial[k] # p

\* Where nobody overlapped, one process at most writes an entry, to a file that
\* is not the one in place, and moves it when it is whole.
OneWriter ==
    \A k \in Keys \ overlapped :
        /\ \A p, q \in Procs : Storing(p, k) /\ Storing(q, k) => p = q
        /\ \A p \in Procs : Storing(p, k) =>
              /\ partial[k] \in Procs
              /\ IF my[p].storing[1] = "fill"
                 THEN fd[p] = <<k, partial[k]>> /\ content[k][partial[k]] = Half
                 ELSE content[k][partial[k]] = my[p].answers[my[p].storing[2]]
        /\ partial[k] # NoFile => partial[k] # entry[k]
        /\ Lies(k) => Kept(k) # Half

\* A process has asked for k and has yet to keep what it was told.
Holding(p, k) == my[p].storing # Idle /\ Of(p, my[p].storing[2]) = k

\* Where nobody asked at once, one process at most is about to keep an answer, and
\* a recording that is about to be made is not there.
OneAsker ==
    \A k \in Keys \ contested :
        /\ \A p, q \in Procs : Holding(p, k) /\ Holding(q, k) => p = q
        /\ \A p \in Procs : Holding(p, k) /\ k[1] = "recording" => ~Lies(k)

\* The stages in which the findings are settled and written.
Late == {"settle", "write", "finish"}

\* Of what was settled: what was put to an experiment, and what carries a prediction.
Put(done) == {i \in DOMAIN done : done[i].how # "skipped"}
Foretold(done, answers) == {i \in DOMAIN done : answers[done[i].file] \in Predicted}

\* The first that carry a prediction, as many as were asked for, are put to one.
InTurn(done, answers, prove) ==
    \A i \in DOMAIN done :
        i \in Put(done) <=>
            /\ answers[done[i].file] \in Predicted
            /\ Cardinality({j \in 1..(i - 1) : answers[done[j].file] \in Predicted}) < prove

\* What ended has its proof, and what was killed has not been measured.
Graded(item) ==
    /\ item.proof # None <=> item.how \in {"ended", "killed"}
    /\ item.how = "killed" => item.proof.value = None

FilesOf(done) == [i \in DOMAIN done |-> done[i].file]

Running(m) == IF m.child = "none" THEN 0 ELSE 1

\* Nothing is on the bench before the review is over.
Clear(m) == m.queue = <<>> /\ m.settled = <<>> /\ m.child = "none" /\ m.usd = 0

\* What is settled and what is queued are the findings of the review.  What was
\* put to an experiment, what may still be and what is being put to one are as many
\* as were asked for; while there is one left, no prediction was passed over.
Settles(m, reported, prove) ==
    /\ FilesOf(m.settled) \o m.queue = reported
    /\ Put(m.settled) \subseteq Foretold(m.settled, m.answers)
    /\ Cardinality(Put(m.settled)) + m.left + Running(m) = prove
    /\ m.left + Running(m) > 0 => Put(m.settled) = Foretold(m.settled, m.answers)
    /\ InTurn(m.settled, m.answers, prove)
    /\ \A i \in DOMAIN m.settled : Graded(m.settled[i])
    /\ m.child # "none" => m.queue # <<>> /\ m.answers[Head(m.queue)] \in Predicted

BenchOf(p) ==
    /\ my[p] \in Memory
    /\ pc[p] \in Working => run[p].prove \in Nat
    /\ IF pc[p] \in Late THEN Settles(my[p], Reported(p), run[p].prove) ELSE Clear(my[p])

Benches == \A p \in Procs : BenchOf(p)

\* Stages and open files are kept for each process and for nothing else.
Tables == pc = [p \in Procs |-> pc[p]] /\ fd = [p \in Procs |-> fd[p]]

CommandIInv ==
    /\ Shape
    /\ FiledUnderItsModel /\ NoFalseCredit
    /\ Costed
    /\ Unnamed /\ OneWriter
    /\ overlapped \subseteq contested /\ OneAsker /\ RecordingsDecide
    /\ Benches /\ Tables

-----------------------------------------------------------------------------
Act(p) == Step(p) \/ Measure(p) \/ Die(p)

\* A step of one process leaves what the others hold alone.
OwnOnly(p) ==
    /\ DOMAIN pc' = Procs /\ DOMAIN run' = Procs /\ DOMAIN my' = Procs /\ DOMAIN fd' = Procs
    /\ DOMAIN billed' = Procs /\ DOMAIN unseen' = Procs /\ DOMAIN finished' = Procs
    /\ \A q \in Procs \ {p} :
          /\ pc'[q] = pc[q] /\ run'[q] = run[q] /\ my'[q] = my[q] /\ fd'[q] = fd[q]
          /\ billed'[q] = billed[q] /\ unseen'[q] = unseen[q] /\ finished'[q] = finished[q]

\* A step of a process changes no other process's memory, outcome or bill.
LEMMA Locality == ASSUME Shape, NEW p \in Procs, Act(p) PROVE OwnOnly(p)
<1> DEFINE domains == /\ DOMAIN pc = Procs /\ DOMAIN run = Procs /\ DOMAIN my = Procs
                      /\ DOMAIN fd = Procs /\ DOMAIN billed = Procs /\ DOMAIN unseen = Procs
                      /\ DOMAIN finished = Procs
<1>1. domains
  BY DEF Shape
<1> HIDE DEF domains
<1>2. ASSUME NEW how, Exit(p, how), UNCHANGED finished PROVE OwnOnly(p)
  BY <1>1, <1>2 DEF domains, Exit, Goto, OwnOnly
<1>3. CASE Start(p)
  BY <1>1, <1>3 DEF domains, Start, Goto, OwnOnly, memoVars
<1>4. CASE Begin(p)
  BY <1>1, <1>4 DEF domains, Begin, Goto, OwnOnly, memoVars
<1>5. ASSUME NEW f \in Files, Recall(p, f) PROVE OwnOnly(p)
  BY <1>1, <1>5 DEF domains, Recall, OwnOnly, memoVars
<1>6. ASSUME NEW f \in Files, Ask(p, f) PROVE OwnOnly(p)
  BY <1>1, <1>6 DEF domains, Ask, Bill, OwnOnly, memoVars
<1>7. CASE Remember(p)
  BY <1>1, <1>7 DEF domains, Remember, Open, Fill, Replace, OwnOnly
<1>8. CASE CannotRemember(p)
  BY <1>1, <1>8 DEF domains, CannotRemember, OwnOnly
<1>9. CASE ReviewFails(p) \/ CannotWrite(p) \/ Die(p)
  BY <1>2, <1>9 DEF ReviewFails, CannotWrite, Die
<1>10. CASE Reviewed(p) \/ Settled(p) \/ Write(p)
  BY <1>1, <1>10 DEF domains, Reviewed, Settled, Write, Goto, OwnOnly, memoVars
<1>11. CASE Skip(p) \/ Deadline(p)
  BY <1>1, <1>11 DEF domains, Skip, Deadline, OwnOnly, memoVars
<1>12. CASE Measure(p)
  BY <1>1, <1>12 DEF domains, Measure, OwnOnly, memoVars
<1>13. CASE Generate(p)
  BY <1>1, <1>13 DEF domains, Generate, Bill, OwnOnly, memoVars
<1>14. CASE Finish(p)
  BY <1>1, <1>14 DEF domains, Finish, Exit, Goto, OwnOnly
<1>15. QED
  BY <1>3, <1>4, <1>5, <1>6, <1>7, <1>8, <1>9, <1>10, <1>11, <1>12, <1>13, <1>14 DEF Act, Step

-----------------------------------------------------------------------------
\* load_settings lets no model through that has no published price.
LEMMA Loaded ==
    ASSUME NEW env, Load(env).ok
    PROVE  Load(env).model \in Models
<1> DEFINE model == Get(env, "AUGURY_MODEL", DefaultModel)
           named == Get(env, "AUGURY_TRIAGE_MODEL", "")
           triage == IF named = "" THEN model ELSE named
<1>1. Load(env) = Refused \/ (Load(env).model = model /\ {model, triage} \ Models = {})
  BY DEF Load
<1>2. ~Refused.ok
  BY DEF Refused
<1>3. QED
  BY <1>1, <1>2

\* So what is known of the shape of another process stays.
LEMMA Others ==
    ASSUME Shape, NEW p \in Procs, OwnOnly(p), NEW q \in Procs \ {p}
    PROVE  ShapeOf(q)'
BY DEF Shape, ShapeOf, OwnOnly, Of, MemoPath, CassettePath, Key

\* The files of the memo and the recordings.
Disk == /\ entry \in [Keys -> Inodes \cup {NoFile}]
        /\ partial \in [Keys -> Procs \cup {NoFile}]
        /\ content \in [Keys -> [Inodes -> Answers \cup {Half}]]

\* A process begins with all questions to ask and nothing answered.
LEMMA FreshShape ==
    /\ DOMAIN Fresh = Fields
    /\ Fresh.answers = [f \in Files |-> None] /\ Fresh.todo = Files /\ Fresh.storing = Idle
    /\ Fresh.usage = 0 /\ Fresh.before = 0 /\ Fresh.usd = 0
    /\ Idle[1] = "no"
BY DEF Fresh, Fields, Idle

\* Every way to end leaves nothing behind in memory.
LEMMA ExitShape ==
    ASSUME Shape, NEW p \in Procs, NEW how \in Ends, Exit(p, how)
    PROVE  ShapeOf(p)'
<1>1. pc'[p] = how /\ my'[p] = Fresh /\ fd'[p] = Closed
  BY DEF Exit, Goto, Shape
<1>2. how \notin Working /\ how \notin Alive
  BY DEF Ends, Alive, Working
<1>3. QED
  BY <1>1, <1>2, FreshShape DEF ShapeOf

\* A question lies with the files of its model.
LEMMA QuestionIsKey ==
    ASSUME Shape, NEW p \in Procs, pc[p] \in Working, NEW f \in Files
    PROVE  /\ {Of(p, f), MemoPath(p, f), CassettePath(p, f)} \subseteq Keys
           /\ Of(p, f) \in Keys
           /\ {Of(p, f)[2], MemoPath(p, f)[2], CassettePath(p, f)[2]} = {run[p].model}
           /\ Of(p, f) = IF run[p].record THEN CassettePath(p, f) ELSE MemoPath(p, f)
           /\ MemoPath(p, f)[1] = "memo" /\ CassettePath(p, f)[1] = "recording"
BY KeysAreQuestions DEF Shape, ShapeOf, Of, MemoPath, CassettePath, Key

\* Starting keeps the shape of the process that starts.
LEMMA StartShape == ASSUME Shape, NEW p \in Procs, Start(p) PROVE ShapeOf(p)'
<1>1. PICK s \in Setups[p] :
         LET settings == Load(Filled(Flagged(s.env, s.flags), s.dotenv))
         IN  /\ run' = [run EXCEPT ![p] = Options(s, settings)]
             /\ Goto(p, IF settings.ok THEN "begin" ELSE "refused")
  BY DEF Start
<1> DEFINE settings == Load(Filled(Flagged(s.env, s.flags), s.dotenv))
<1>2. settings.ok => settings.model \in Models
  BY Loaded
<1>3. run'[p] = Options(s, settings) /\ pc'[p] = IF settings.ok THEN "begin" ELSE "refused"
  BY <1>1 DEF Shape, Goto
<1> HIDE DEF settings
<1>4. settings.ok => run'[p].model \in Models
  BY <1>2, <1>3 DEF Options
<1>5. my'[p] = Fresh /\ fd'[p] = Closed
  <2>1. my'[p] = my[p] /\ fd'[p] = fd[p] /\ pc[p] = "new"
    BY DEF Start, memoVars
  <2>2. my[p] = Fresh
    BY <2>1 DEF Shape, ShapeOf, Working
  <2>3. QED
    BY <2>1, <2>2, FreshShape DEF Shape, ShapeOf
<1>6. QED
  BY <1>3, <1>4, <1>5, FreshShape DEF ShapeOf, Alive, Ends, Working

\* Steps that only move a process on.
LEMMA MoveShape ==
    ASSUME Shape, NEW p \in Procs, Begin(p) \/ Write(p)
    PROVE  ShapeOf(p)'
<1>1. pc'[p] \in {"review", "finish"} /\ pc[p] \in {"begin", "write"}
  BY DEF Begin, Write, Goto, Shape
<1>2. my'[p] = my[p] /\ run'[p] = run[p] /\ fd'[p] = fd[p]
  BY DEF Begin, Write, memoVars
<1>3. QED
  BY <1>1, <1>2 DEF Shape, ShapeOf, Alive, Ends, Working, Of, MemoPath, CassettePath, Key

\* What is billed is counted, by the usage or beside it.
LEMMA BillType ==
    ASSUME Shape, NEW p \in Procs, NEW cost \in Nat, NEW raised, Bill(p, cost, raised)
    PROVE  /\ billed' \in [Procs -> Nat] /\ unseen' \in [Procs -> Nat]
           /\ billed'[p] = billed[p] + cost
           /\ unseen'[p] = unseen[p] + (cost - Seen(p, cost, raised))
           /\ Seen(p, cost, raised) \in {0, cost}
           /\ Seen(p, cost, raised) # cost => run[p].record
<1>1. Seen(p, cost, raised) \in {0, cost}
  BY DEF Seen
<1>2. Seen(p, cost, raised) # cost => run[p].record
  BY DEF Seen
<1>3. PICK hidden \in Nat : hidden = cost - Seen(p, cost, raised)
  BY <1>1
<1>4. /\ billed' = [billed EXCEPT ![p] = @ + cost]
      /\ unseen' = [unseen EXCEPT ![p] = @ + hidden]
  BY <1>3 DEF Bill
<1>5. QED
  BY <1>1, <1>2, <1>3, <1>4 DEF Shape

\* A question that is asked: what it is answered, at which cost, and whether the
\* answer is to be kept.
Answered(p, f, a, cost, keeps) ==
    /\ a \in Answers \cup {None} /\ cost \in Nat /\ keeps \in BOOLEAN
    /\ a # None => By[a] = run[p].model
    /\ Bill(p, cost, a = None)
    /\ my' = [my EXCEPT ![p].answers[f] = a, ![p].todo = @ \ {f},
                 ![p].storing = IF keeps THEN <<"open", f>> ELSE @,
                 ![p].usage = @ + Seen(p, cost, a = None)]
    /\ keeps => /\ a # None /\ ~run[p].replay
                /\ run[p].record => ~Lies(CassettePath(p, f))
    /\ a # None /\ ~keeps /\ Cassettes(p) =>
            Lies(CassettePath(p, f)) /\ a = Kept(CassettePath(p, f))
    /\ contested' = IF keeps /\ Busy(p, Of(p, f)) THEN contested \cup {Of(p, f)}
                                                   ELSE contested

LEMMA AskAnswers ==
    ASSUME Shape, FiledUnderItsModel, NEW p \in Procs, NEW f \in Files, Ask(p, f)
    PROVE  \E a, cost, keeps : Answered(p, f, a, cost, keeps)
<1> DEFINE tape == CassettePath(p, f)
           replayed == Cassettes(p) /\ Lies(tape)
           live == ~replayed /\ ~run[p].replay
           said == CASE replayed -> {IF Kept(tape) = Half THEN None ELSE Kept(tape)}
                     [] live -> {x \in Answers : By[x] = run[p].model} \cup {None}
                     [] OTHER -> {None}
           keep(a) == live /\ a # None /\ (MemoOn(p) \/ run[p].record)
<1>1. PICK a \in said :
        \E cost \in IF live THEN (IF a = None THEN 0..1 ELSE {1}) ELSE {0} :
              /\ Bill(p, cost, a = None)
              /\ my' = [my EXCEPT ![p].answers[f] = a, ![p].todo = @ \ {f},
                           ![p].storing = IF keep(a) THEN <<"open", f>> ELSE @,
                           ![p].usage = @ + Seen(p, cost, a = None)]
              /\ contested' = IF keep(a) /\ Busy(p, Of(p, f)) THEN contested \cup {Of(p, f)}
                                                              ELSE contested
  BY DEF Ask
<1>2. PICK keeps \in BOOLEAN : keeps <=> keep(a)
  OBVIOUS
<1>3. PICK cost \in Nat :
              /\ Bill(p, cost, a = None)
              /\ my' = [my EXCEPT ![p].answers[f] = a, ![p].todo = @ \ {f},
                           ![p].storing = IF keep(a) THEN <<"open", f>> ELSE @,
                           ![p].usage = @ + Seen(p, cost, a = None)]
              /\ contested' = IF keep(a) /\ Busy(p, Of(p, f)) THEN contested \cup {Of(p, f)}
                                                              ELSE contested
  <2>1. (IF live THEN (IF a = None THEN 0..1 ELSE {1}) ELSE {0}) \subseteq Nat
    OBVIOUS
  <2> HIDE DEF live, keep
  <2>2. QED
    BY <1>1, <2>1
<1>4. /\ my' = [my EXCEPT ![p].answers[f] = a, ![p].todo = @ \ {f},
                           ![p].storing = IF keeps THEN <<"open", f>> ELSE @,
                           ![p].usage = @ + Seen(p, cost, a = None)]
      /\ contested' = IF keeps /\ Busy(p, Of(p, f)) THEN contested \cup {Of(p, f)}
                                                    ELSE contested
  <2> HIDE DEF keep
  <2>1. QED
    BY <1>2, <1>3
<1>5. pc[p] \in Working
  BY DEF Ask, Asks, Working, Alive
<1>6. tape \in Keys /\ tape[2] = run[p].model
  BY <1>5, QuestionIsKey
<1>7. Lies(tape) => /\ entry[tape] \in Inodes /\ Kept(tape) \in Answers \cup {Half}
                    /\ Kept(tape) # Half => By[Kept(tape)] = run[p].model
  BY <1>6 DEF Lies, Kept, Shape, FiledUnderItsModel
<1> HIDE DEF tape
<1>8. a \in Answers \cup {None} /\ (a # None => By[a] = run[p].model)
  <2>1. CASE replayed
    BY <1>1, <1>7, <2>1
  <2>2. CASE live
    BY <1>1, <2>2
  <2>3. CASE ~replayed /\ ~live
    BY <1>1, <2>3
  <2>4. QED
    BY <2>1, <2>2, <2>3
<1>9. keeps => /\ a # None /\ ~run[p].replay
               /\ run[p].record => ~Lies(tape)
  BY <1>2 DEF Cassettes
<1>10. a # None /\ ~keeps /\ Cassettes(p) => Lies(tape) /\ a = Kept(tape)
  <2>1. CASE replayed
    BY <1>1, <2>1
  <2>2. CASE ~replayed
    BY <1>1, <1>2, <2>2 DEF Cassettes
  <2>3. QED
    BY <2>1, <2>2
<1>11. Answered(p, f, a, cost, keeps)
  BY <1>3, <1>4, <1>8, <1>9, <1>10 DEF Answered, tape
<1>12. QED
  BY <1>11

\* Steps within the review that answer a question.
LEMMA AnswerShape ==
    ASSUME Shape, FiledUnderItsModel,
           NEW p \in Procs, NEW f \in Files, Recall(p, f) \/ Ask(p, f)
    PROVE  /\ ShapeOf(p)' /\ UNCHANGED memoVars
           /\ billed' \in [Procs -> Nat] /\ unseen' \in [Procs -> Nat]
<1>1. Asks(p, f)
  BY DEF Recall, Ask
<1>2. /\ pc[p] = "review" /\ my[p].storing = Idle /\ f \in my[p].todo
      /\ pc[p] \in Working /\ ShapeOf(p)
      /\ MemoPath(p, f) \in Keys /\ CassettePath(p, f) \in Keys
  BY <1>1, QuestionIsKey DEF Asks, Shape, Working, Alive
<1>3. UNCHANGED <<pc, run, memoVars>>
  BY DEF Recall, Ask
<1>4. ASSUME NEW a \in Answers \cup {None}, NEW storing \in {my[p].storing, <<"open", f>>},
             storing # Idle => a # None /\ ~run[p].replay, NEW usage \in Int,
             my'[p] = [my[p] EXCEPT !.answers[f] = a, !.todo = @ \ {f}, !.storing = storing,
                                    !.usage = usage]
      PROVE  ShapeOf(p)'
  <2>1. /\ my'[p].answers = [my[p].answers EXCEPT ![f] = a]
        /\ my'[p].todo = my[p].todo \ {f}
        /\ my'[p].storing = storing
        /\ DOMAIN my'[p] = Fields /\ my'[p].usage = usage
        /\ my'[p].before = my[p].before /\ my'[p].usd = my[p].usd
    BY <1>2, <1>4 DEF ShapeOf, Fields
  <2>2. fd'[p] = Closed /\ pc'[p] = "review" /\ run'[p] = run[p]
    BY <1>2, <1>3 DEF ShapeOf, Idle, memoVars
  <2>3. storing = Idle \/ storing = <<"open", f>>
    BY <1>2, <1>4
  <2>4. QED
    BY <1>2, <1>4, <2>1, <2>2, <2>3 DEF ShapeOf, Idle, Alive, Ends, Working
<1>5. CASE Recall(p, f)
  <2> DEFINE a == Kept(MemoPath(p, f))
  <2>1. a \in Answers
    BY <1>2, <1>5 DEF Recall, Hit, Lies, Kept, Shape
  <2>2. my' = [my EXCEPT ![p].answers[f] = a, ![p].todo = @ \ {f}]
    BY <1>5 DEF Recall
  <2>3. a \in Answers \cup {None} /\ my[p].usage \in Int /\ my[p].storing = Idle
    BY <1>2, <2>1 DEF ShapeOf
  <2> HIDE DEF a
  <2>4. my'[p] = [my[p] EXCEPT !.answers[f] = a, !.todo = @ \ {f}]
    BY <2>2 DEF Shape
  <2>5. my'[p] = [my[p] EXCEPT !.answers[f] = a, !.todo = @ \ {f}, !.storing = my[p].storing,
                               !.usage = my[p].usage]
    BY <1>2, <2>4 DEF ShapeOf, Fields
  <2>6. UNCHANGED <<billed, unseen>>
    BY <1>5 DEF Recall
  <2>7. ShapeOf(p)'
    BY <1>4, <2>3, <2>5
  <2>8. QED
    BY <1>3, <2>6, <2>7 DEF Shape
<1>6. CASE Ask(p, f)
  <2>1. PICK a, cost, keeps : Answered(p, f, a, cost, keeps)
    BY <1>6, AskAnswers
  <2> DEFINE storing == IF keeps THEN <<"open", f>> ELSE my[p].storing
             usage == my[p].usage + Seen(p, cost, a = None)
  <2>2. my'[p] = [my[p] EXCEPT !.answers[f] = a, !.todo = @ \ {f}, !.storing = storing,
                               !.usage = usage]
    BY <2>1 DEF Answered, Shape
  <2>3. /\ storing \in {my[p].storing, <<"open", f>>}
        /\ storing # Idle => a # None /\ ~run[p].replay
    BY <1>2, <2>1 DEF Answered
  <2>4. a \in Answers \cup {None} /\ usage \in Int
    BY <1>2, <2>1 DEF Answered, Seen, ShapeOf
  <2>5. ShapeOf(p)'
    <3> HIDE DEF storing, usage
    <3>1. QED
      BY <1>4, <2>2, <2>3, <2>4
  <2>6. billed' \in [Procs -> Nat] /\ unseen' \in [Procs -> Nat]
    BY <2>1, BillType DEF Answered
  <2>7. QED
    BY <1>3, <2>5, <2>6
<1>7. QED
  BY <1>5, <1>6

\* An answer that could not be kept is forgotten by a run that records.
LEMMA UnkeptFacts ==
    ASSUME Shape, NEW p \in Procs, my[p].storing # Idle,
           my' = [my EXCEPT ![p] = Unkept(@, my[p].storing[2], run[p].record)]
    PROVE  /\ my'[p].storing = Idle /\ my'[p].todo = my[p].todo /\ DOMAIN my'[p] = Fields
           /\ my'[p].usage = my[p].usage /\ my'[p].before = my[p].before
           /\ my'[p].usd = my[p].usd
           /\ my'[p].answers \in [Files -> Answers \cup {None}]
           /\ run[p].record => my'[p].answers[my[p].storing[2]] = None
           /\ \A g \in Files : my'[p].answers[g] \in {my[p].answers[g], None}
           /\ \A g \in Files \ {my[p].storing[2]} : my'[p].answers[g] = my[p].answers[g]
           /\ my'[p] = [my[p] EXCEPT !.answers = my'[p].answers, !.todo = my[p].todo,
                                     !.storing = Idle]
<1> DEFINE f == my[p].storing[2]
           a == IF run[p].record THEN None ELSE my[p].answers[f]
<1>1. /\ ShapeOf(p) /\ DOMAIN my = Procs /\ f \in Files
      /\ my[p].answers \in [Files -> Answers \cup {None}] /\ DOMAIN my[p] = Fields
  BY DEF Shape, ShapeOf
<1>2. my'[p] = [my[p] EXCEPT !.storing = Idle, !.answers[f] = a]
  BY <1>1 DEF Unkept
<1>3. a \in {my[p].answers[f], None} /\ (run[p].record => a = None)
  OBVIOUS
<1> HIDE DEF a, f
<1>4. /\ my'[p].answers = [my[p].answers EXCEPT ![f] = a] /\ my'[p].storing = Idle
      /\ my'[p].todo = my[p].todo /\ DOMAIN my'[p] = Fields
      /\ my'[p].usage = my[p].usage /\ my'[p].before = my[p].before /\ my'[p].usd = my[p].usd
  BY <1>1, <1>2 DEF Fields
<1>5. my'[p] = [my[p] EXCEPT !.answers = my'[p].answers, !.todo = my[p].todo, !.storing = Idle]
  <2> DEFINE said == my'[p].answers
             old == [my[p] EXCEPT !.answers = said, !.todo = my[p].todo, !.storing = Idle]
             new == [x \in Fields |-> IF x = "answers" THEN said
                                      ELSE IF x = "storing" THEN Idle ELSE my[p][x]]
  <2>1. said = [my[p].answers EXCEPT ![f] = a]
    BY <1>4
  <2> HIDE DEF said
  <2>2. my'[p] = [my[p] EXCEPT !.storing = Idle, !.answers = said]
    BY <1>2, <2>1
  <2>3. my'[p] = new
    BY <1>1, <2>2 DEF Fields
  <2>4. old = new
    BY <1>1 DEF Fields
  <2>5. QED
    BY <2>3, <2>4 DEF said
<1>6. /\ my'[p].answers \in [Files -> Answers \cup {None}]
      /\ my'[p].answers[f] = a
      /\ \A g \in Files \ {f} : my'[p].answers[g] = my[p].answers[g]
  BY <1>1, <1>3, <1>4
<1>7. QED
  BY <1>3, <1>4, <1>5, <1>6 DEF f

\* Remembering goes from one call of the file system to the next.
LEMMA RememberShape ==
    ASSUME Shape, NEW p \in Procs, Remember(p)
    PROVE  ShapeOf(p)' /\ Disk' /\ UNCHANGED <<billed, unseen>>
<1> DEFINE step == my[p].storing[1]
           f == my[p].storing[2]
           k == Of(p, f)
           then(next) == my' = [my EXCEPT ![p].storing = next]
           lost == my' = [my EXCEPT ![p] = Unkept(@, f, run[p].record)]
<1>1. /\ \/ step = "open" /\ Open(p, k) /\ then(<<"fill", f>>)
         \/ step = "fill" /\ Fill(p, my[p].answers[f]) /\ then(<<"move", f>>)
         \/ step = "move" /\ Replace(p, k) /\ then(Idle)
         \/ step = "move" /\ Replace(p, k) /\ lost
      /\ UNCHANGED <<pc, run, billed, unseen>>
  BY DEF Remember
<1>2. /\ step # "no" /\ my[p].storing # Idle /\ my[p].storing \in {"open", "fill", "move"} \X Files
      /\ f \in Files /\ f \notin my[p].todo /\ my[p].answers[f] # None
      /\ pc[p] = "review" /\ ShapeOf(p) /\ my[p].storing = <<step, f>> /\ ~run[p].replay
  BY <1>1 DEF Shape, ShapeOf, Idle
<1>3. k \in Keys /\ pc[p] \in Working
  BY <1>2, QuestionIsKey DEF Working, Alive
<1>4. ASSUME NEW next \in {<<"fill", f>>, <<"move", f>>, Idle}, then(next),
             IF next[1] = "fill" THEN \E q \in Procs : fd'[p] = <<k, q>> ELSE fd'[p] = Closed
      PROVE  ShapeOf(p)'
  <2>1. /\ my'[p].storing = next /\ my'[p].todo = my[p].todo /\ my'[p].answers = my[p].answers
        /\ DOMAIN my'[p] = Fields /\ my'[p].usage = my[p].usage
        /\ my'[p].before = my[p].before /\ my'[p].usd = my[p].usd
    BY <1>2, <1>4 DEF Shape, ShapeOf, Fields
  <2>2. pc'[p] = "review" /\ run'[p] = run[p] /\ "review" \in Working
    BY <1>1, <1>2 DEF Working, Alive
  <2>3. next = Idle \/ next \in {"open", "fill", "move"} \X Files
    BY <1>2, <1>4
  <2>4. next # Idle => next[2] = f
    BY <1>4
  <2>5. next[1] = "fill" => next[2] = f
    BY <1>4 DEF Idle
  <2>6. IF my'[p].storing[1] = "fill"
        THEN \E q \in Procs : fd'[p] = <<Of(p, my[p].storing[2])', q>> ELSE fd'[p] = Closed
    BY <1>4, <2>1, <2>2, <2>5 DEF Of, MemoPath, CassettePath, Key
  <2>7. QED
    BY <1>2, <1>4, <2>1, <2>2, <2>3, <2>4, <2>6 DEF ShapeOf, Alive, Ends, Working
<1>10. ASSUME lost, fd'[p] = Closed PROVE ShapeOf(p)'
  <2>1. /\ my'[p].storing = Idle /\ my'[p].todo = my[p].todo /\ DOMAIN my'[p] = Fields
        /\ my'[p].usage = my[p].usage /\ my'[p].before = my[p].before /\ my'[p].usd = my[p].usd
        /\ my'[p].answers \in [Files -> Answers \cup {None}]
    BY <1>2, <1>10, UnkeptFacts
  <2>2. pc'[p] = "review" /\ run'[p] = run[p] /\ "review" \in Working
    BY <1>1, <1>2 DEF Working, Alive
  <2>3. run[p].model \in Models /\ pc[p] \in Working
    BY <1>2 DEF ShapeOf, Working, Alive
  <2> HIDE DEF lost, step, f, k
  <2>4. QED
    BY <1>2, <1>10, <2>1, <2>2, <2>3 DEF ShapeOf, Idle, Alive, Ends, Working
<1> HIDE DEF then, lost, step, f, k
<1>5. fd[p] = IF step = "fill" THEN fd[p] ELSE Closed
  BY <1>2 DEF ShapeOf, step
<1>6. CASE step = "open" /\ Open(p, k) /\ then(<<"fill", f>>)
  <2> DEFINE inode == IF partial[k] = NoFile THEN p ELSE partial[k]
  <2>1. inode \in Procs
    BY <1>3 DEF Shape
  <2>2. fd'[p] = <<k, inode>>
    BY <1>6 DEF Open, Shape
  <2>3. Disk'
    BY <1>3, <1>6, <2>1 DEF Open, Shape, Disk, Inodes
  <2>4. QED
    BY <1>1, <1>4, <1>6, <2>1, <2>2, <2>3
<1>7. CASE step = "fill" /\ Fill(p, my[p].answers[f]) /\ then(<<"move", f>>)
  <2>1. fd'[p] = Closed
    BY <1>7 DEF Fill, Shape
  <2>2. PICK q \in Procs : fd[p] = <<k, q>>
    BY <1>2, <1>7 DEF ShapeOf, step, f, k
  <2>3. my[p].answers[f] \in Answers
    BY <1>2 DEF ShapeOf
  <2>4. PICK written \in {my[p].answers[f], Half} :
           content' = [content EXCEPT ![k][q] = written] /\ UNCHANGED <<entry, partial>>
    <3>1. fd[p][1] = k /\ fd[p][2] = q
      BY <2>2
    <3>2. \E written \in {my[p].answers[f]} \cup (IF content[k][q] = Half THEN {} ELSE {Half}) :
             content' = [content EXCEPT ![k][q] = written]
      BY ONLY <1>7, <3>1 DEF Fill
    <3>3. UNCHANGED <<entry, partial>>
      BY <1>7 DEF Fill
    <3>4. QED
      BY <3>2, <3>3
  <2>5. Disk'
    BY <1>3, <2>2, <2>3, <2>4 DEF Shape, Disk, Inodes
  <2>6. QED
    BY <1>1, <1>4, <1>7, <2>1, <2>5
<1>8. CASE step = "move" /\ Replace(p, k) /\ (then(Idle) \/ lost)
  <2>1. fd'[p] = Closed
    BY <1>8 DEF Replace
  <2>2. Disk'
    BY <1>3, <1>8 DEF Replace, Shape, Disk, Gone, Inodes
  <2>3. Idle[1] # "fill"
    BY DEF Idle
  <2>4. QED
    BY <1>1, <1>4, <1>8, <1>10, <2>1, <2>2, <2>3
<1>9. QED
  BY <1>1, <1>6, <1>7, <1>8

\* A disk that refuses an entry keeps the shape of its process.
LEMMA CannotRememberShape ==
    ASSUME Shape, NEW p \in Procs, CannotRemember(p)
    PROVE  ShapeOf(p)'
<1>1. /\ my' = [my EXCEPT ![p] = Unkept(@, my[p].storing[2], run[p].record)]
      /\ fd'[p] = Closed /\ UNCHANGED <<pc, run>> /\ my[p].storing # Idle
  BY DEF CannotRemember, Shape
<1>2. /\ my'[p].storing = Idle /\ my'[p].todo = my[p].todo /\ DOMAIN my'[p] = Fields
      /\ my'[p].usage = my[p].usage /\ my'[p].before = my[p].before /\ my'[p].usd = my[p].usd
      /\ my'[p].answers \in [Files -> Answers \cup {None}]
  BY <1>1, UnkeptFacts
<1>3. pc[p] = "review" /\ ShapeOf(p)
  BY DEF CannotRemember, Shape, ShapeOf
<1>4. QED
  BY <1>1, <1>2, <1>3 DEF ShapeOf, Idle, Working, Alive

\* A memory that has asked for one more experiment.
Asked(m, usage) == [m EXCEPT !.left = @ - 1, !.usage = usage]

\* An experiment that is asked for: at which cost, and whether the call raised.
Generated(p, cost, raised) ==
    /\ Bill(p, cost, raised)
    /\ \/ my' = [my EXCEPT ![p] =
                    KeepUntested(Asked(my[p], my[p].usage + Seen(p, cost, raised)))]
       \/ \E child \in {"local", "compose"} :
             my' = [my EXCEPT ![p] = [Asked(my[p], my[p].usage + Seen(p, cost, raised))
                                        EXCEPT !.child = child]]

LEMMA GenerateAsks ==
    ASSUME NEW p \in Procs, Generate(p)
    PROVE  \E cost \in Nat, raised \in BOOLEAN : Generated(p, cost, raised)
<1>1. PICK cost \in (IF run[p].replay THEN {0} ELSE 0..1), raised \in BOOLEAN :
        LET asked == [my[p] EXCEPT !.left = @ - 1, !.usage = @ + Seen(p, cost, raised)]
        IN  /\ Bill(p, cost, raised)
            /\ \/ my' = [my EXCEPT ![p] = KeepUntested(asked)]
               \/ \E up \in BOOLEAN :
                     /\ ~raised
                     /\ my' = [my EXCEPT ![p] = [asked EXCEPT !.child =
                                 ChooseEnvironment(Scope, Services, up, <<>>).kind]]
  BY DEF Generate
<1>2. cost \in Nat
  <2>1. CASE run[p].replay
    BY <2>1
  <2>2. CASE ~run[p].replay
    BY <2>2
  <2>3. QED
    BY <2>1, <2>2
<1>3. \A up : ChooseEnvironment(Scope, Services, up, <<>>).kind \in {"local", "compose"}
  BY DEF ChooseEnvironment
<1>4. Generated(p, cost, raised)
  BY <1>1, <1>3 DEF Generated, Asked
<1>5. QED
  BY <1>2, <1>4

\* Steps that concern only the findings and what they cost.
LEMMA SettleShape ==
    ASSUME Shape, NEW p \in Procs,
           Reviewed(p) \/ Skip(p) \/ Generate(p) \/ Measure(p) \/ Deadline(p) \/ Settled(p)
    PROVE  /\ ShapeOf(p)' /\ billed' \in [Procs -> Nat] /\ unseen' \in [Procs -> Nat]
           /\ pc'[p] \in {"settle", "write"}
           /\ UNCHANGED <<run, contested, overlapped, memoVars>>
           /\ my'[p].answers = my[p].answers /\ my'[p].storing = Idle
<1>1. my[p].storing = Idle /\ pc[p] \in Working
  BY DEF Reviewed, Skip, Generate, Measure, Deadline, Settled, Settling, Shape, ShapeOf, Working, Alive
<1>2. billed' \in [Procs -> Nat] /\ unseen' \in [Procs -> Nat]
  <2>1. CASE Generate(p)
    <3>1. PICK cost \in Nat, raised \in BOOLEAN : Generated(p, cost, raised)
      BY <2>1, GenerateAsks
    <3>2. QED
      BY <3>1, BillType DEF Generated
  <2>2. CASE ~Generate(p)
    BY <2>2 DEF Reviewed, Skip, Measure, Deadline, Settled, Shape
  <2>3. QED
    BY <2>1, <2>2
<1>3. pc'[p] \in {"settle", "write"} /\ UNCHANGED <<run, contested, overlapped, memoVars>>
  BY DEF Reviewed, Skip, Generate, Measure, Deadline, Settled, Settling, Goto, Shape
<1>4. /\ DOMAIN my'[p] = Fields
      /\ my'[p].answers = my[p].answers /\ my'[p].todo = my[p].todo /\ my'[p].storing = my[p].storing
      /\ my'[p].usage \in Int /\ my'[p].before \in Int /\ my'[p].usd \in Int
  <2>1. DOMAIN my = Procs /\ ShapeOf(p) /\ billed \in [Procs -> Nat]
    BY DEF Shape
  <2>2. /\ DOMAIN my[p] = Fields
        /\ my[p].usage \in Int /\ my[p].before \in Int /\ my[p].usd \in Int
    BY <2>1 DEF ShapeOf
  <2>3. ASSUME NEW m, NEW proof, NEW how, DOMAIN m = Fields
        PROVE  /\ DOMAIN Keep(m, proof, how) = Fields
               /\ Keep(m, proof, how).answers = m.answers /\ Keep(m, proof, how).todo = m.todo
               /\ Keep(m, proof, how).storing = m.storing
               /\ Keep(m, proof, how).usage = m.usage
               /\ Keep(m, proof, how).before = m.before /\ Keep(m, proof, how).usd = m.usd
    BY <2>3 DEF Keep, Fields
  <2>4. CASE Reviewed(p)
    BY <2>1, <2>2, <2>4 DEF Reviewed, Fields
  <2>5. CASE Skip(p)
    BY <2>1, <2>2, <2>3, <2>5 DEF Skip
  <2>6. CASE Measure(p)
    BY <2>1, <2>2, <2>3, <2>6 DEF Measure
  <2>7. CASE Deadline(p)
    BY <2>1, <2>2, <2>3, <2>7 DEF Deadline
  <2>8. CASE Settled(p)
    <3>1. /\ my' = [my EXCEPT ![p].usd = my[p].usd + (my[p].usage - my[p].before)]
          /\ my[p].usd + (my[p].usage - my[p].before) \in Int
      BY <2>1, <2>2, <2>8 DEF Settled, WithProving
    <3>2. QED
      BY <2>1, <2>2, <3>1 DEF Fields
  <2>9. CASE Generate(p)
    <3>1. PICK cost \in Nat, raised \in BOOLEAN : Generated(p, cost, raised)
      BY <2>9, GenerateAsks
    <3>2. PICK asked : asked = Asked(my[p], my[p].usage + Seen(p, cost, raised))
      OBVIOUS
    <3>3. my[p].usage + Seen(p, cost, raised) \in Int
      BY <2>2 DEF Seen
    <3>4. /\ DOMAIN asked = Fields /\ asked.answers = my[p].answers /\ asked.todo = my[p].todo
          /\ asked.storing = my[p].storing /\ asked.before = my[p].before /\ asked.usd = my[p].usd
          /\ asked.usage \in Int
      BY <2>2, <3>2, <3>3 DEF Fields, Asked
    <3>5. \/ my'[p] = Keep(asked, None, "refused")
          \/ \E child : my'[p] = [asked EXCEPT !.child = child]
      BY <2>1, <3>1, <3>2 DEF Generated, KeepUntested
    <3>6. CASE my'[p] = Keep(asked, None, "refused")
      BY <2>2, <2>3, <3>4, <3>6
    <3>7. CASE \E child : my'[p] = [asked EXCEPT !.child = child]
      BY <2>2, <3>4, <3>7 DEF Fields
    <3>8. QED
      BY <3>5, <3>6, <3>7
  <2>10. QED
    BY <2>4, <2>5, <2>6, <2>7, <2>8, <2>9
<1>5. QED
  BY <1>1, <1>2, <1>3, <1>4 DEF Shape, ShapeOf, Alive, Ends, Working, Of, MemoPath, CassettePath, Key, Idle, memoVars

\* What every process holds keeps its shape, whoever steps.
LEMMA ShapeStep ==
    ASSUME Shape, FiledUnderItsModel, NEW p \in Procs, Act(p)
    PROVE  Shape' /\ OwnOnly(p)
<1>1. OwnOnly(p)
  BY Locality
<1> DEFINE Rest == /\ billed \in [Procs -> Nat] /\ unseen \in [Procs -> Nat]
                   /\ Disk
<1>2. Rest
  BY DEF Shape, Disk
<1> SUFFICES ShapeOf(p)' /\ Rest'
  BY <1>1, Others DEF Shape, OwnOnly, Disk
<1>3. ASSUME UNCHANGED <<billed, unseen, entry, partial, content>> PROVE Rest'
  BY <1>2, <1>3 DEF Disk
<1>4. ASSUME NEW how \in Ends, Exit(p, how) PROVE ShapeOf(p)' /\ Rest'
  BY <1>3, <1>4, ExitShape DEF Exit
<1> HIDE DEF Rest
<1>5. CASE Start(p)
  BY <1>3, <1>5, StartShape DEF Start, memoVars
<1>6. CASE Begin(p) \/ Write(p)
  BY <1>3, <1>6, MoveShape DEF Begin, Write, memoVars
<1>7. ASSUME NEW f \in Files, Recall(p, f) \/ Ask(p, f) PROVE ShapeOf(p)' /\ Rest'
  <2>1. /\ ShapeOf(p)' /\ UNCHANGED memoVars
        /\ billed' \in [Procs -> Nat] /\ unseen' \in [Procs -> Nat]
    BY <1>7, AnswerShape
  <2>2. QED
    BY <1>2, <2>1 DEF Rest, Disk, memoVars
<1>8. CASE Remember(p)
  BY <1>2, <1>8, RememberShape DEF Rest
<1>9. CASE CannotRemember(p)
  BY <1>3, <1>9, CannotRememberShape DEF CannotRemember
<1>10. CASE ReviewFails(p) \/ CannotWrite(p) \/ Die(p) \/ Finish(p)
  BY <1>4, <1>10 DEF ReviewFails, CannotWrite, Die, Finish, Ends
<1>11. CASE Reviewed(p) \/ Skip(p) \/ Generate(p) \/ Measure(p) \/ Deadline(p) \/ Settled(p)
  <2>1. /\ ShapeOf(p)' /\ billed' \in [Procs -> Nat] /\ unseen' \in [Procs -> Nat]
        /\ UNCHANGED memoVars
    BY <1>11, SettleShape
  <2>2. QED
    BY <1>2, <2>1 DEF Rest, Disk, memoVars
<1>12. QED
  BY <1>5, <1>6, <1>7, <1>8, <1>9, <1>10, <1>11 DEF Act, Step

-----------------------------------------------------------------------------
Credit == FiledUnderItsModel /\ NoFalseCredit

\* Nothing is said or kept; a process that is over, or could not keep an answer, forgets.
LEMMA QuietCredit ==
    ASSUME Shape, Credit, NEW p \in Procs, OwnOnly(p), UNCHANGED content,
           \/ run'[p] = run[p] /\ \A f \in Files : my'[p].answers[f] \in {my[p].answers[f], None}
           \/ \A f \in Files : my'[p].answers[f] = None
    PROVE  Credit'
<1>1. FiledUnderItsModel'
  BY DEF Credit, FiledUnderItsModel
<1>2. NoFalseCredit'
  BY DEF Credit, NoFalseCredit, OwnOnly
<1>3. QED
  BY <1>1, <1>2 DEF Credit

\* A question is answered by the model of the run.
LEMMA AnswerCredit ==
    ASSUME Shape, Credit, NEW p \in Procs, OwnOnly(p), NEW f \in Files, NEW a,
           a # None => By[a] = run[p].model,
           UNCHANGED <<run, content>>, my'[p].answers = [my[p].answers EXCEPT ![f] = a]
    PROVE  Credit'
<1>1. /\ my'[p].answers[f] = a
      /\ \A g \in Files \ {f} : my'[p].answers[g] = my[p].answers[g]
  BY DEF Shape, ShapeOf
<1>2. FiledUnderItsModel'
  BY DEF Credit, FiledUnderItsModel
<1>3. ASSUME NEW q \in Procs, NEW g \in Files, my'[q].answers[g] # None
      PROVE  By[my'[q].answers[g]] = run'[q].model
  <2>1. By[my[q].answers[g]] = run[q].model \/ my[q].answers[g] = None
    BY DEF Credit, NoFalseCredit
  <2>2. CASE q = p /\ g = f
    BY <1>1, <1>3, <2>2
  <2>3. CASE q = p /\ g # f
    BY <1>1, <1>3, <2>1, <2>3
  <2>4. CASE q # p
    BY <1>3, <2>1, <2>4 DEF OwnOnly
  <2>5. QED
    BY <2>2, <2>3, <2>4
<1>4. NoFalseCredit'
  BY <1>3 DEF NoFalseCredit
<1>5. QED
  BY <1>2, <1>4 DEF Credit

\* A question the memo answers: what lies there came from the model.
LEMMA RecallCredit ==
    ASSUME Shape, Credit, NEW p \in Procs, OwnOnly(p), NEW f \in Files, Recall(p, f)
    PROVE  Credit'
<1> DEFINE a == Kept(MemoPath(p, f))
<1>1. /\ pc[p] \in Working
      /\ MemoPath(p, f) \in Keys /\ MemoPath(p, f)[2] = run[p].model
  BY QuestionIsKey DEF Recall, Asks, Working, Alive
<1>2. By[a] = run[p].model
  BY <1>1 DEF Recall, Hit, Lies, Kept, Shape, Credit, FiledUnderItsModel
<1>3. /\ UNCHANGED <<run, content>>
      /\ my' = [my EXCEPT ![p].answers[f] = a, ![p].todo = @ \ {f}]
  BY DEF Recall, memoVars
<1> HIDE DEF a
<1>4. my'[p].answers = [my[p].answers EXCEPT ![f] = a]
  BY <1>3 DEF Shape, ShapeOf, Fields
<1>5. QED
  BY <1>2, <1>3, <1>4, AnswerCredit

\* A question put to the recordings or the provider.
LEMMA AskCredit ==
    ASSUME Shape, Credit, NEW p \in Procs, OwnOnly(p), NEW f \in Files, Ask(p, f)
    PROVE  Credit'
<1>1. PICK a, cost, keeps : Answered(p, f, a, cost, keeps)
  BY AskAnswers DEF Credit
<1>2. UNCHANGED <<run, content>>
  BY DEF Ask, memoVars
<1>3. my'[p].answers = [my[p].answers EXCEPT ![f] = a]
  BY <1>1 DEF Answered, Shape, ShapeOf, Fields
<1>4. a # None => By[a] = run[p].model
  BY <1>1 DEF Answered
<1>5. QED
  BY <1>2, <1>3, <1>4, AnswerCredit

\* What is filled in is what the process holds, under the key it holds it for.
LEMMA RememberCredit ==
    ASSUME Shape, Credit, NEW p \in Procs, OwnOnly(p), Remember(p)
    PROVE  Credit'
<1> DEFINE step == my[p].storing[1]
           f == my[p].storing[2]
           k == Of(p, f)
           then(next) == my' = [my EXCEPT ![p].storing = next]
           lost == my' = [my EXCEPT ![p] = Unkept(@, f, run[p].record)]
<1>1. /\ \/ step = "open" /\ Open(p, k) /\ then(<<"fill", f>>)
         \/ step = "fill" /\ Fill(p, my[p].answers[f]) /\ then(<<"move", f>>)
         \/ step = "move" /\ Replace(p, k) /\ then(Idle)
         \/ step = "move" /\ Replace(p, k) /\ lost
      /\ UNCHANGED run
  BY DEF Remember
<1>2. /\ my[p].storing # Idle /\ f \in Files /\ pc[p] = "review" /\ my[p].answers[f] # None
      /\ ShapeOf(p)
  BY <1>1 DEF Shape, ShapeOf, Idle
<1>3. k \in Keys /\ k[2] = run[p].model
  BY <1>2, QuestionIsKey DEF Working, Alive
<1>4. ASSUME NEW next, then(next) PROVE my'[p].answers = my[p].answers
  BY <1>2, <1>4 DEF Shape, ShapeOf, Fields
<1>5. \A g \in Files : my'[p].answers[g] \in {my[p].answers[g], None}
  <2>1. CASE \E next : then(next)
    BY <1>4, <2>1
  <2>2. CASE lost
    BY <1>2, <2>2, UnkeptFacts
  <2>3. QED
    BY <1>1, <2>1, <2>2
<1> HIDE DEF then, lost, k, f, step
<1>6. ASSUME NEW j \in Keys, NEW q \in Inodes, content'[j][q] # Half
      PROVE  By[content'[j][q]] = j[2]
  <2>1. By[my[p].answers[f]] = k[2]
    BY <1>2, <1>3 DEF Credit, NoFalseCredit
  <2>2. content[j][q] # Half => By[content[j][q]] = j[2]
    BY DEF Credit, FiledUnderItsModel
  <2>3. CASE step = "open" /\ Open(p, k)
    <3>1. content'[j][q] = content[j][q] \/ content'[j][q] = Half
      BY <2>3 DEF Open, Shape, Inodes
    <3>2. QED
      BY <1>6, <2>2, <3>1
  <2>4. CASE step = "fill" /\ Fill(p, my[p].answers[f])
    <3>1. PICK i \in Procs : fd[p] = <<k, i>>
      BY <1>2, <2>4 DEF ShapeOf, step, f, k
    <3>2. PICK written \in {my[p].answers[f], Half} :
             content' = [content EXCEPT ![k][i] = written]
      <4>1. fd[p][1] = k /\ fd[p][2] = i
        BY <3>1
      <4>2. \E written \in {my[p].answers[f]} \cup (IF content[k][i] = Half THEN {} ELSE {Half}) :
               content' = [content EXCEPT ![k][i] = written]
        BY ONLY <2>4, <4>1 DEF Fill
      <4>3. QED
        BY <4>2
    <3>3. \/ content'[j][q] = content[j][q]
          \/ j = k /\ content'[j][q] = written
      BY <3>2 DEF Shape, Inodes
    <3>4. QED
      BY <1>6, <2>1, <2>2, <3>2, <3>3
  <2>5. CASE step = "move" /\ Replace(p, k)
    BY <1>6, <2>2, <2>5 DEF Replace
  <2>6. QED
    BY <1>1, <2>3, <2>4, <2>5
<1>7. FiledUnderItsModel'
  BY <1>1, <1>6 DEF Credit, FiledUnderItsModel
<1>8. NoFalseCredit'
  BY <1>1, <1>5 DEF Credit, NoFalseCredit, OwnOnly
<1>9. QED
  BY <1>7, <1>8 DEF Credit

\* No step files an answer under a model that did not give it.
LEMMA CreditStep ==
    ASSUME Shape, Credit, NEW p \in Procs, Act(p)
    PROVE  Credit'
<1>1. OwnOnly(p)
  BY Locality
<1>2. ASSUME NEW how, Exit(p, how) PROVE Credit'
  <2>1. my'[p] = Fresh /\ UNCHANGED content
    BY <1>2 DEF Exit, Shape
  <2>2. QED
    BY <1>1, <2>1, FreshShape, QuietCredit
<1>3. CASE Start(p)
  <2>1. my'[p] = Fresh
    BY <1>3 DEF Start, Shape, ShapeOf, Working
  <2>2. UNCHANGED content
    BY <1>3 DEF Start, memoVars
  <2>3. QED
    BY <1>1, <2>1, <2>2, FreshShape, QuietCredit
<1>4. CASE Begin(p) \/ Write(p)
  BY <1>1, <1>4, QuietCredit DEF Begin, Write, memoVars
<1>5. ASSUME NEW f \in Files, Recall(p, f) \/ Ask(p, f) PROVE Credit'
  BY <1>1, <1>5, RecallCredit, AskCredit
<1>6. CASE Remember(p)
  BY <1>1, <1>6, RememberCredit
<1>7. CASE CannotRemember(p)
  <2>1. UNCHANGED <<run, content>>
    BY <1>7 DEF CannotRemember
  <2>2. \A g \in Files : my'[p].answers[g] \in {my[p].answers[g], None}
    BY <1>7, UnkeptFacts DEF CannotRemember
  <2>3. QED
    BY <1>1, <2>1, <2>2, QuietCredit
<1>8. CASE ReviewFails(p) \/ CannotWrite(p) \/ Die(p) \/ Finish(p)
  BY <1>2, <1>8 DEF ReviewFails, CannotWrite, Die, Finish
<1>9. CASE Reviewed(p) \/ Skip(p) \/ Generate(p) \/ Measure(p) \/ Deadline(p) \/ Settled(p)
  <2>1. my'[p].answers = my[p].answers /\ UNCHANGED <<run, memoVars>>
    BY <1>9, SettleShape
  <2>2. QED
    BY <1>1, <2>1, QuietCredit DEF memoVars
<1>10. QED
  BY <1>3, <1>4, <1>5, <1>6, <1>7, <1>8, <1>9 DEF Act, Step

-----------------------------------------------------------------------------
\* What is spent shows in the usage of its process or is counted as unseen.
LEMMA PaidCost ==
    ASSUME Shape, NEW p \in Procs, CostedOf(p), pc[p] \in {"review", "settle"},
           UNCHANGED <<pc, run, finished>>,
           NEW cost \in Nat, NEW raised, Bill(p, cost, raised),
           my'[p].usage = my[p].usage + Seen(p, cost, raised),
           my'[p].usd = my[p].usd, my'[p].before = my[p].before
    PROVE  CostedOf(p)'
<1>1. PICK seen \in {0, cost} : /\ seen = Seen(p, cost, raised)
                                /\ seen # cost => run[p].record
                                /\ billed'[p] = billed[p] + cost
                                /\ unseen'[p] = unseen[p] + (cost - seen)
  BY BillType
<1>2. /\ billed[p] \in Nat /\ unseen[p] \in Nat /\ my[p].usage \in Int
      /\ my[p].usage + unseen[p] = billed[p] /\ (unseen[p] > 0 => run[p].record)
      /\ finished[p] = None
  BY DEF Shape, ShapeOf, CostedOf, Working, Alive
<1>3. PICK b, u, w : b = billed[p] /\ u = unseen[p] /\ w = my[p].usage
  OBVIOUS
<1>4. PICK bb, uu, ww : bb = billed'[p] /\ uu = unseen'[p] /\ ww = my'[p].usage
  OBVIOUS
<1>5. ww + uu = bb /\ (uu > 0 => run[p].record)
  <2>1. b \in Nat /\ u \in Nat /\ w \in Int /\ w + u = b /\ (u > 0 => run[p].record)
    BY <1>2, <1>3
  <2>2. bb = b + cost /\ uu = u + (cost - seen) /\ ww = w + seen
    BY <1>1, <1>3, <1>4
  <2>3. ww + uu = bb
    BY ONLY <2>1, <2>2, cost \in Nat, seen \in {0, cost}
  <2>4. CASE seen = cost
    <3>1. uu = u
      BY ONLY <2>1, <2>2, <2>4, cost \in Nat
    <3>2. QED
      BY <2>1, <2>3, <3>1
  <2>5. CASE seen # cost
    BY <1>1, <2>3, <2>5
  <2>6. QED
    BY <2>4, <2>5
<1>6. my'[p].usage + unseen'[p] = billed'[p] /\ (unseen'[p] > 0 => run'[p].record)
  BY <1>4, <1>5
<1>7. QED
  BY <1>2, <1>6 DEF CostedOf

\* The cost of a process is its own affair, and each stage hands it to the next.
LEMMA CostedStep ==
    ASSUME Shape, FiledUnderItsModel, Costed, NEW p \in Procs, Act(p)
    PROVE  Costed'
<1>1. OwnOnly(p) /\ DOMAIN pc = Procs /\ DOMAIN my = Procs /\ DOMAIN finished = Procs
  BY Locality DEF Shape
<1>2. CostedOf(p) /\ ShapeOf(p)
  BY DEF Costed, Shape
<1>3. SUFFICES CostedOf(p)'
  BY <1>1 DEF Costed, CostedOf, OwnOnly
<1>4. ASSUME NEW how \in Ends, Exit(p, how), UNCHANGED finished, pc[p] \in Alive PROVE CostedOf(p)'
  <2>1. pc'[p] = how /\ finished'[p] = None
    BY <1>1, <1>2, <1>4 DEF Exit, Goto, CostedOf, Alive
  <2>2. QED
    BY <1>4, <2>1 DEF CostedOf, Ends, Working, Alive
<1>5. ASSUME pc[p] \in Working, UNCHANGED <<run, billed, unseen, finished>>,
             my'[p].usage = my[p].usage, my'[p].usd = my[p].usd, my'[p].before = my[p].before,
             \/ pc'[p] = pc[p]
             \/ pc[p] = "begin" /\ pc'[p] = "review"
             \/ pc[p] = "write" /\ pc'[p] = "finish"
      PROVE  CostedOf(p)'
  BY <1>2, <1>5 DEF CostedOf, Working, Alive
<1>6. CASE Start(p)
  <2>1. /\ pc[p] = "new" /\ pc'[p] \in {"begin", "refused"} /\ my'[p] = Fresh
        /\ UNCHANGED <<billed, unseen, finished>>
    BY <1>1, <1>2, <1>6 DEF Start, Goto, ShapeOf, Working
  <2>2. billed'[p] = 0 /\ unseen'[p] = 0 /\ my'[p].usage = 0 /\ finished'[p] = None
    BY <1>2, <2>1, FreshShape DEF CostedOf
  <2>3. QED
    BY <2>1, <2>2 DEF CostedOf
<1>7. CASE Begin(p) \/ Write(p)
  BY <1>1, <1>5, <1>7 DEF Begin, Write, Goto, Working, Alive
<1>8. ASSUME NEW f \in Files, Recall(p, f) PROVE CostedOf(p)'
  <2>1. my' = [my EXCEPT ![p].answers[f] = Kept(MemoPath(p, f)), ![p].todo = @ \ {f}]
    BY <1>8 DEF Recall
  <2>2. my'[p].usage = my[p].usage /\ my'[p].usd = my[p].usd /\ my'[p].before = my[p].before
    BY <1>1, <1>2, <2>1 DEF ShapeOf, Fields
  <2>3. QED
    BY <1>5, <1>8, <2>2 DEF Recall, Asks, Working, Alive
<1>9. ASSUME NEW f \in Files, Ask(p, f) PROVE CostedOf(p)'
  <2>1. PICK a, cost, keeps : Answered(p, f, a, cost, keeps)
    BY <1>9, AskAnswers
  <2>2. /\ my'[p].usage = my[p].usage + Seen(p, cost, a = None)
        /\ my'[p].usd = my[p].usd /\ my'[p].before = my[p].before
        /\ cost \in Nat /\ Bill(p, cost, a = None)
    BY <1>1, <1>2, <2>1 DEF Answered, ShapeOf, Fields
  <2>3. pc[p] = "review" /\ UNCHANGED <<pc, run, finished>>
    BY <1>9 DEF Ask, Asks
  <2>4. QED
    BY <1>2, <2>2, <2>3, PaidCost
<1>10. CASE Remember(p) \/ CannotRemember(p)
  <2>1. my[p].storing # Idle
    BY <1>10, FreshShape DEF Remember, CannotRemember
  <2>2. pc[p] = "review" /\ UNCHANGED <<pc, run, billed, unseen, finished>>
    BY <1>2, <1>10, <2>1 DEF Remember, CannotRemember, ShapeOf
  <2>3. \/ \E next : my' = [my EXCEPT ![p].storing = next]
        \/ my' = [my EXCEPT ![p] = Unkept(@, my[p].storing[2], run[p].record)]
    BY <1>10 DEF Remember, CannotRemember
  <2>4. my'[p].usage = my[p].usage /\ my'[p].usd = my[p].usd /\ my'[p].before = my[p].before
    <3>1. CASE \E next : my' = [my EXCEPT ![p].storing = next]
      BY <1>1, <1>2, <3>1 DEF ShapeOf, Fields
    <3>2. CASE my' = [my EXCEPT ![p] = Unkept(@, my[p].storing[2], run[p].record)]
      BY <2>1, <3>2, UnkeptFacts
    <3>3. QED
      BY <2>3, <3>1, <3>2
  <2>5. QED
    BY <1>5, <2>2, <2>4 DEF Working, Alive
<1>11. CASE ReviewFails(p) \/ CannotWrite(p) \/ Die(p)
  BY <1>4, <1>11 DEF ReviewFails, CannotWrite, Die, Ends, Alive
<1>12. CASE Reviewed(p)
  <2>1. my' = [my EXCEPT ![p].queue = Reported(p), ![p].left = run[p].prove,
                        ![p].usd = my[p].usage, ![p].before = my[p].usage]
    BY <1>12 DEF Reviewed
  <2>2. my'[p].usd = my[p].usage /\ my'[p].before = my[p].usage /\ my'[p].usage = my[p].usage
    BY <1>1, <1>2, <2>1 DEF ShapeOf, Fields
  <2>3. /\ pc'[p] = "settle" /\ pc[p] = "review"
        /\ UNCHANGED <<run, billed, unseen, finished>>
    BY <1>1, <1>12 DEF Reviewed, Goto
  <2>4. QED
    BY <1>2, <2>2, <2>3 DEF CostedOf, Working, Alive
<1>13. ASSUME NEW m, DOMAIN m = Fields, NEW proof, NEW how
       PROVE  /\ Keep(m, proof, how).usage = m.usage
              /\ Keep(m, proof, how).usd = m.usd /\ Keep(m, proof, how).before = m.before
  BY <1>13 DEF Keep, Fields
<1>14. CASE Skip(p) \/ Measure(p) \/ Deadline(p)
  <2>1. \E proof, how : my' = [my EXCEPT ![p] = Keep(@, proof, how)]
    BY <1>14 DEF Skip, Measure, Deadline
  <2>2. my'[p].usage = my[p].usage /\ my'[p].usd = my[p].usd /\ my'[p].before = my[p].before
    BY <1>1, <1>2, <1>13, <2>1 DEF ShapeOf
  <2>3. pc[p] = "settle" /\ UNCHANGED <<pc, run, billed, unseen, finished>>
    BY <1>14 DEF Skip, Measure, Deadline, Settling
  <2>4. QED
    BY <1>5, <2>2, <2>3 DEF Working, Alive
<1>15. CASE Generate(p)
  <2>1. PICK cost \in Nat, raised \in BOOLEAN : Generated(p, cost, raised)
    BY <1>15, GenerateAsks
  <2>2. PICK asked : asked = Asked(my[p], my[p].usage + Seen(p, cost, raised))
    OBVIOUS
  <2>3. DOMAIN asked = Fields /\ asked.before = my[p].before /\ asked.usd = my[p].usd
        /\ asked.usage = my[p].usage + Seen(p, cost, raised)
    BY <1>2, <2>2 DEF ShapeOf, Fields, Asked
  <2>4. \/ my'[p] = Keep(asked, None, "refused")
        \/ \E child : my'[p] = [asked EXCEPT !.child = child]
    BY <1>1, <2>1, <2>2 DEF Generated, KeepUntested
  <2>5. my'[p].usage = asked.usage /\ my'[p].usd = asked.usd /\ my'[p].before = asked.before
    <3>1. CASE my'[p] = Keep(asked, None, "refused")
      BY <1>13, <2>3, <3>1
    <3>2. CASE \E child : my'[p] = [asked EXCEPT !.child = child]
      BY <2>3, <3>2 DEF Fields
    <3>3. QED
      BY <2>4, <3>1, <3>2
  <2>6. pc[p] = "settle" /\ UNCHANGED <<pc, run, finished>>
    BY <1>15 DEF Generate, Settling
  <2>7. Bill(p, cost, raised)
    BY <2>1 DEF Generated
  <2>8. QED
    BY <1>2, <2>3, <2>5, <2>6, <2>7, PaidCost
<1>16. CASE Settled(p)
  <2>1. /\ my' = [my EXCEPT ![p].usd = my[p].usd + (my[p].usage - my[p].before)]
        /\ pc'[p] = "write" /\ pc[p] = "settle" /\ UNCHANGED <<run, billed, unseen, finished>>
    BY <1>1, <1>16 DEF Settled, WithProving, Goto
  <2>2. /\ my'[p].usd = my[p].usd + (my[p].usage - my[p].before)
        /\ my'[p].usage = my[p].usage
    BY <1>1, <1>2, <2>1 DEF ShapeOf, Fields
  <2>3. my[p].usd = my[p].before /\ my[p].before \in Int /\ my[p].usage \in Int
    BY <1>2, <2>1 DEF CostedOf, ShapeOf
  <2>4. my'[p].usd = my'[p].usage
    BY <2>2, <2>3
  <2>5. QED
    BY <1>2, <2>1, <2>2, <2>4 DEF CostedOf, Working, Alive
<1>17. CASE Finish(p)
  <2>1. /\ pc[p] = "finish" /\ pc'[p] = "done" /\ finished'[p] = my[p].usd
        /\ UNCHANGED <<billed, unseen>>
    BY <1>1, <1>17 DEF Finish, Exit, Goto
  <2>2. QED
    BY <1>2, <2>1 DEF CostedOf, Working, Alive
<1>18. QED
  BY <1>6, <1>7, <1>8, <1>9, <1>10, <1>11, <1>12, <1>14, <1>15, <1>16, <1>17 DEF Act, Step

-----------------------------------------------------------------------------
Whole == Unnamed /\ OneWriter

\* A step that leaves the files alone and does not bring a process closer to one.
LEMMA QuietWhole ==
    ASSUME Shape, Whole, NEW p \in Procs, OwnOnly(p),
           UNCHANGED <<entry, partial, content, overlapped>>,
           my'[p].storing[1] \notin {"fill", "move"},
           \A k \in Keys : MayOpen(p, k)' => MayOpen(p, k)
    PROVE  Whole'
<1>1. \A q \in Procs \ {p}, k \in Keys :
         (MayOpen(q, k)' <=> MayOpen(q, k)) /\ (Storing(q, k)' <=> Storing(q, k))
  BY DEF MayOpen, Storing, OwnOnly, Of, MemoPath, CassettePath, Key
<1>2. \A k \in Keys : ~Storing(p, k)'
  BY DEF Storing
<1>3. Unnamed'
  BY <1>1 DEF Whole, Unnamed
<1>4. \A q \in Procs \ {p} : my'[q] = my[q] /\ fd'[q] = fd[q]
  BY DEF OwnOnly
<1>5. OneWriter'
  <2>1. SUFFICES ASSUME NEW k \in Keys \ overlapped
                 PROVE  /\ \A q, r \in Procs : Storing(q, k)' /\ Storing(r, k)' => q = r
                        /\ \A q \in Procs : Storing(q, k)' =>
                              /\ partial[k] \in Procs
                              /\ IF my'[q].storing[1] = "fill"
                                 THEN fd'[q] = <<k, partial[k]>> /\ content[k][partial[k]] = Half
                                 ELSE content[k][partial[k]] = my'[q].answers[my'[q].storing[2]]
                        /\ partial[k] # NoFile => partial[k] # entry[k]
                        /\ Lies(k) => Kept(k) # Half
    BY DEF OneWriter, Lies, Kept
  <2>2. \A q \in Procs : Storing(q, k)' => q # p /\ Storing(q, k) /\ my'[q] = my[q] /\ fd'[q] = fd[q]
    BY <1>1, <1>2, <1>4
  <2>3. QED
    BY <2>2 DEF Whole, OneWriter
<1>6. QED
  BY <1>3, <1>5 DEF Whole

\* An answer is remembered: opened beside its place, filled, and moved.
LEMMA RememberWhole ==
    ASSUME Shape, Whole, NEW p \in Procs, OwnOnly(p), Remember(p)
    PROVE  Whole'
<1>0. PICK step, f, k : step = my[p].storing[1] /\ f = my[p].storing[2] /\ k = Of(p, f)
  OBVIOUS
<1> DEFINE then(next) == my' = [my EXCEPT ![p].storing = next]
           lost == my' = [my EXCEPT ![p] = Unkept(@, f, run[p].record)]
           others == {q \in Procs \ {p} : my[q].storing[1] \in {"fill", "move"}
                                             /\ Of(q, my[q].storing[2]) = k}
<1>1. /\ \/ step = "open" /\ Open(p, k) /\ then(<<"fill", f>>)
         \/ step = "fill" /\ Fill(p, my[p].answers[f]) /\ then(<<"move", f>>)
         \/ step = "move" /\ Replace(p, k) /\ then(Idle)
         \/ step = "move" /\ Replace(p, k) /\ lost
      /\ overlapped' = IF step = "open" /\ others # {} THEN overlapped \cup {k} ELSE overlapped
      /\ UNCHANGED <<pc, run>>
  BY <1>0 DEF Remember
<1>2. /\ my[p].storing # Idle /\ f \in Files /\ f \notin my[p].todo /\ my[p].answers[f] \in Answers
      /\ pc[p] = "review" /\ ShapeOf(p) /\ my[p].storing = <<step, f>>
      /\ step = "fill" => \E q \in Procs : fd[p] = <<k, q>>
  BY <1>0, <1>1 DEF Shape, ShapeOf, Idle
<1>3. k \in Keys
  BY <1>0, <1>2, QuestionIsKey DEF Working, Alive
<1>4. \A g : Of(p, g) = k <=> g = f
  BY <1>0 DEF Of, MemoPath, CassettePath, Key
<1>5. ASSUME NEW next, then(next)
      PROVE  /\ my'[p].storing = next /\ my'[p].todo = my[p].todo
             /\ my'[p].answers = my[p].answers
  BY <1>2, <1>5 DEF Shape, ShapeOf, Fields
<1>5a. lost => my'[p].storing = Idle /\ my'[p].todo = my[p].todo
  BY <1>0, <1>2, UnkeptFacts
<1>6. others = {} => \A q \in Procs \ {p} : ~Storing(q, k)
  BY DEF Storing
<1>7. \A q \in Procs \ {p}, j \in Keys :
         /\ MayOpen(q, j)' <=> MayOpen(q, j)
         /\ Storing(q, j)' <=> Storing(q, j)
         /\ my'[q] = my[q] /\ fd'[q] = fd[q]
  BY DEF MayOpen, Storing, OwnOnly, Of, MemoPath, CassettePath, Key
<1>8. \A g : Of(p, g)' = Of(p, g)
  BY <1>1 DEF Of, MemoPath, CassettePath, Key
<1>9. ASSUME NEW next \in {<<"fill", f>>, <<"move", f>>, Idle},
             my'[p].storing = next /\ my'[p].todo = my[p].todo
      PROVE  /\ \A j \in Keys : MayOpen(p, j)' => MayOpen(p, j) /\ j # k
             /\ \A j \in Keys : Storing(p, j)' <=> next # Idle /\ j = k
             /\ my'[p].storing[1] = next[1]
  <2>1. my'[p].storing = next /\ my'[p].todo = my[p].todo
    BY <1>9
  <2>2. next = Idle \/ next = <<"fill", f>> \/ next = <<"move", f>>
    BY <1>9
  <2>3. next[1] # "open" /\ (next = Idle => next[1] = "no")
        /\ (next # Idle => next[1] \in {"fill", "move"} /\ next[2] = f)
    BY <2>2 DEF Idle
  <2>4. \A g \in Files : next # <<"open", g>>
    BY <2>2 DEF Idle
  <2>5. \A j \in Keys : MayOpen(p, j)' => MayOpen(p, j) /\ j # k
    <3>1. pc'[p] = "review"
      BY <1>1, <1>2
    <3>2. \A j \in Keys : MayOpen(p, j)' => \E g \in Files : j = Of(p, g) /\ g \in my[p].todo
      BY <1>8, <2>1, <2>4, <3>1 DEF MayOpen
    <3>3. QED
      BY <1>2, <1>4, <3>2 DEF MayOpen
  <2>6. Storing(p, k)' <=> next # Idle
    BY <1>0, <1>8, <2>1, <2>3 DEF Storing
  <2>7. \A j \in Keys : Storing(p, j)' => j = k
    BY <1>0, <1>8, <2>1, <2>3 DEF Storing
  <2>8. QED
    BY <2>1, <2>5, <2>6, <2>7
<1>10. MayOpen(p, k) <=> step = "open"
  BY <1>0, <1>2, <1>4 DEF MayOpen
<1>11. Storing(p, k) <=> step \in {"fill", "move"}
  BY <1>0 DEF Storing
<1>12. \A j \in Keys : Storing(p, j) => j = k
  BY <1>0 DEF Storing
<1> HIDE DEF then, lost, others
<1>13. /\ DOMAIN entry = Keys /\ DOMAIN partial = Keys /\ DOMAIN content = Keys
       /\ \A j \in Keys : DOMAIN content[j] = Inodes /\ partial[j] \in Procs \cup {NoFile}
       /\ NoFile \notin Procs /\ Half \notin Answers /\ Procs \subseteq Inodes
  BY CommandAssumption DEF Shape, Inodes
<1> DEFINE Fine(j) ==
        /\ \A q, r \in Procs : Storing(q, j) /\ Storing(r, j) => q = r
        /\ \A q \in Procs : Storing(q, j) =>
              /\ partial[j] \in Procs
              /\ IF my[q].storing[1] = "fill"
                 THEN fd[q] = <<j, partial[j]>> /\ content[j][partial[j]] = Half
                 ELSE content[j][partial[j]] = my[q].answers[my[q].storing[2]]
        /\ partial[j] # NoFile => partial[j] # entry[j]
        /\ Lies(j) => Kept(j) # Half
<1>14. \A j \in Keys \ overlapped : Fine(j)
  BY DEF Whole, OneWriter
<1>15. ASSUME \A j \in Keys \ overlapped' : Fine(j)'
       PROVE  OneWriter'
  BY <1>15 DEF OneWriter
<1>16. ASSUME NEW j \in Keys \ {k}, j \notin overlapped,
              entry'[j] = entry[j], partial'[j] = partial[j], content'[j] = content[j],
              \A i \in Keys : Storing(p, i)' => i = k
       PROVE  Fine(j)'
  <2>1. ~Storing(p, j)' /\ Fine(j)
    BY <1>14, <1>16
  <2>2. \A q \in Procs : Storing(q, j)' => q # p /\ Storing(q, j) /\ my'[q] = my[q] /\ fd'[q] = fd[q]
    BY <1>7, <2>1
  <2>3. QED
    BY <1>16, <2>1, <2>2 DEF Lies, Kept
<1>17. \A j \in Keys \ overlapped' : j \notin overlapped
  BY <1>1
<1>18. CASE step = "open" /\ Open(p, k) /\ then(<<"fill", f>>)
  <2> DEFINE inode == IF partial[k] = NoFile THEN p ELSE partial[k]
  <2>1. /\ partial' = [partial EXCEPT ![k] = inode]
        /\ fd' = [fd EXCEPT ![p] = <<k, inode>>]
        /\ content' = [content EXCEPT ![k][inode] = Half]
        /\ entry' = entry
    BY <1>18 DEF Open
  <2>2. /\ \A j \in Keys : MayOpen(p, j)' => MayOpen(p, j) /\ j # k
        /\ \A j \in Keys : Storing(p, j)' <=> j = k
        /\ my'[p].storing[1] = "fill"
    BY <1>5, <1>9, <1>18 DEF Idle
  <2>3. (inode \in Procs /\ inode # NoFile /\ inode # entry[k]) \/ k \in overlapped
    <3>1. entry[k] # p
      BY <1>3, <1>10, <1>18 DEF Whole, Unnamed
    <3>2. k \notin overlapped => (partial[k] # NoFile => partial[k] # entry[k])
      BY <1>3, <1>14
    <3>3. QED
      BY <1>3, <1>13, <3>1, <3>2
  <2>4. Unnamed'
    <3>1. SUFFICES ASSUME NEW q \in Procs, NEW j \in Keys, MayOpen(q, j)'
                   PROVE  entry[j] # q /\ partial'[j] # q
      BY <2>1 DEF Unnamed
    <3>2. MayOpen(q, j) /\ (q = p => j # k)
      BY <1>7, <2>2, <3>1
    <3>3. entry[j] # q /\ partial[j] # q
      BY <3>2 DEF Whole, Unnamed
    <3>4. partial'[j] = partial[j] \/ (j = k /\ partial'[j] = p)
      BY <1>3, <1>13, <2>1
    <3>5. QED
      BY <3>2, <3>3, <3>4
  <2> HIDE DEF inode
  <2>5. ASSUME k \notin overlapped' PROVE Fine(k)'
    <3>1. k \notin overlapped /\ \A q \in Procs \ {p} : ~Storing(q, k)
      BY <1>1, <1>3, <1>6, <1>18, <2>5
    <3>2. inode \in Procs /\ inode # NoFile /\ inode # entry[k] /\ Fine(k)
      BY <1>3, <1>14, <2>3, <3>1
    <3>3. \A q \in Procs : Storing(q, k)' => q = p
      BY <1>3, <1>7, <3>1
    <3>4. partial'[k] = inode /\ fd'[p] = <<k, inode>> /\ content'[k][inode] = Half
      BY <1>3, <1>13, <2>1, <3>2 DEF Shape
    <3>5. Lies(k)' => Kept(k)' # Half
      <4>1. entry'[k] # inode => content'[k][entry'[k]] = content[k][entry[k]]
        BY <1>3, <1>13, <2>1
      <4>2. QED
        BY <2>1, <3>2, <4>1 DEF Lies, Kept
    <3>6. QED
      BY <2>1, <2>2, <3>2, <3>3, <3>4, <3>5
  <2>6. \A j \in Keys \ overlapped' : Fine(j)'
    <3>1. ASSUME NEW j \in Keys \ {k}, j \notin overlapped PROVE Fine(j)'
      <4>1. entry'[j] = entry[j] /\ partial'[j] = partial[j] /\ content'[j] = content[j]
        BY <1>13, <2>1, <3>1
      <4> HIDE DEF Fine
      <4>2. QED
        BY <1>16, <2>2, <3>1, <4>1
    <3> HIDE DEF Fine
    <3>2. QED
      BY <1>3, <1>17, <2>5, <3>1
  <2> HIDE DEF Fine
  <2>7. QED
    BY <1>15, <2>4, <2>6 DEF Whole

<1>19. CASE step = "fill" /\ Fill(p, my[p].answers[f]) /\ then(<<"move", f>>)
  <2>1. PICK i \in Procs : fd[p] = <<k, i>>
    BY <1>2, <1>19
  <2>2. PICK written :
           /\ written \in {my[p].answers[f]} \cup (IF content[k][i] = Half THEN {} ELSE {Half})
           /\ content' = [content EXCEPT ![k][i] = written]
           /\ UNCHANGED <<entry, partial>>
    <3>1. fd[p][1] = k /\ fd[p][2] = i
      BY <2>1
    <3>2. QED
      BY ONLY <1>19, <3>1 DEF Fill
  <2>3. /\ \A j \in Keys : MayOpen(p, j)' => MayOpen(p, j) /\ j # k
        /\ \A j \in Keys : Storing(p, j)' <=> j = k
        /\ my'[p].storing = <<"move", f>> /\ my'[p].answers = my[p].answers
    BY <1>5, <1>9, <1>19 DEF Idle
  <2>4. Unnamed'
    BY <1>7, <2>2, <2>3 DEF Whole, Unnamed
  <2>5. overlapped' = overlapped
    BY <1>1, <1>19
  <2>6. ASSUME k \notin overlapped PROVE Fine(k)'
    <3>1. Storing(p, k) /\ my[p].storing[1] = "fill" /\ Fine(k)
      BY <1>0, <1>3, <1>11, <1>14, <1>19, <2>6
    <3>2. partial[k] \in Procs /\ i = partial[k] /\ content[k][i] = Half
      BY <2>1, <3>1
    <3>3. content'[k][i] = my[p].answers[f]
      BY <1>2, <1>3, <1>13, <2>2, <3>2
    <3>4. \A q \in Procs : Storing(q, k)' => q = p
      BY <1>3, <1>7, <3>1
    <3>5. Lies(k)' => Kept(k)' # Half
      <4>1. i # entry[k]
        BY <1>13, <3>1, <3>2
      <4>2. content'[k][entry[k]] = content[k][entry[k]]
        BY <1>3, <1>13, <2>2, <4>1
      <4>3. QED
        BY <2>2, <3>1, <4>2 DEF Lies, Kept
    <3>6. QED
      BY <2>2, <2>3, <3>1, <3>2, <3>3, <3>4, <3>5
  <2>7. ASSUME NEW j \in Keys \ {k}, j \notin overlapped PROVE Fine(j)'
    <3>1. entry'[j] = entry[j] /\ partial'[j] = partial[j] /\ content'[j] = content[j]
      BY <1>13, <2>2, <2>7
    <3> HIDE DEF Fine
    <3>2. QED
      BY <1>16, <2>3, <2>7, <3>1
  <2> HIDE DEF Fine
  <2>8. QED
    BY <1>3, <1>15, <2>4, <2>5, <2>6, <2>7 DEF Whole
<1>20. CASE step = "move" /\ Replace(p, k) /\ (then(Idle) \/ lost)
  <2>1. /\ entry' = [entry EXCEPT ![k] = IF partial[k] = NoFile THEN @ ELSE partial[k]]
        /\ partial' = [partial EXCEPT ![k] = NoFile]
        /\ content' = content
    BY <1>20 DEF Replace, Gone
  <2>2. /\ \A j \in Keys : MayOpen(p, j)' => MayOpen(p, j) /\ j # k
        /\ \A j \in Keys : ~Storing(p, j)'
    BY <1>5, <1>9, <1>20, <1>5a
  <2>3. Unnamed'
    <3>1. SUFFICES ASSUME NEW q \in Procs, NEW j \in Keys, MayOpen(q, j)'
                   PROVE  entry'[j] # q /\ partial'[j] # q
      BY DEF Unnamed
    <3>2. MayOpen(q, j)
      BY <1>7, <2>2, <3>1
    <3>3. entry[j] # q /\ partial[j] # q
      BY <3>2 DEF Whole, Unnamed
    <3>4. /\ entry'[j] = entry[j] \/ entry'[j] = partial[j]
          /\ partial'[j] = partial[j] \/ partial'[j] = NoFile
      BY <1>3, <1>13, <2>1
    <3>5. QED
      BY <1>13, <3>3, <3>4
  <2>4. overlapped' = overlapped
    BY <1>1, <1>20
  <2>5. ASSUME k \notin overlapped PROVE Fine(k)'
    <3>1. Storing(p, k) /\ my[p].storing[1] = "move" /\ Fine(k)
      BY <1>0, <1>3, <1>11, <1>14, <1>20, <2>5
    <3>2. partial[k] \in Procs /\ content[k][partial[k]] # Half
      BY <1>0, <1>2, <1>13, <3>1
    <3>3. entry'[k] = partial[k] /\ partial'[k] = NoFile
      BY <1>3, <1>13, <2>1, <3>2
    <3>4. \A q \in Procs : ~Storing(q, k)'
      BY <1>3, <1>7, <2>2, <3>1
    <3>5. QED
      BY <2>1, <3>2, <3>3, <3>4 DEF Lies, Kept
  <2>6. ASSUME NEW j \in Keys \ {k}, j \notin overlapped PROVE Fine(j)'
    <3>1. entry'[j] = entry[j] /\ partial'[j] = partial[j] /\ content'[j] = content[j]
      BY <1>13, <2>1, <2>6
    <3> HIDE DEF Fine
    <3>2. QED
      BY <1>16, <2>2, <2>6, <3>1
  <2> HIDE DEF Fine
  <2>7. QED
    BY <1>3, <1>15, <2>3, <2>4, <2>5, <2>6 DEF Whole
<1>21. QED
  BY <1>1, <1>18, <1>19, <1>20

\* Every step keeps entries whole where no two processes wrote at once.
LEMMA WholeStep ==
    ASSUME Shape, FiledUnderItsModel, Whole, NEW p \in Procs, Act(p)
    PROVE  Whole'
<1>1. OwnOnly(p) /\ ShapeOf(p) /\ DOMAIN my = Procs /\ DOMAIN pc = Procs
  BY Locality DEF Shape
<1>2. ASSUME NEW how \in Ends, Exit(p, how) PROVE Whole'
  <2>1. my'[p] = Fresh /\ pc'[p] = how /\ UNCHANGED <<entry, partial, content, overlapped>>
    BY <1>1, <1>2 DEF Exit, Goto
  <2>2. \A k \in Keys : ~MayOpen(p, k)'
    BY <2>1 DEF MayOpen, Ends
  <2>3. QED
    BY <1>1, <2>1, <2>2, FreshShape, QuietWhole
<1>3. CASE Start(p)
  <2>1. /\ pc[p] = "new" /\ my'[p] = my[p]
        /\ UNCHANGED <<entry, partial, content, overlapped>>
    BY <1>3 DEF Start, memoVars
  <2>2. my'[p] = Fresh
    BY <1>1, <2>1 DEF ShapeOf, Working
  <2>3. \A k \in Keys : MayOpen(p, k)
    BY <2>1 DEF MayOpen
  <2>4. QED
    BY <1>1, <2>1, <2>2, <2>3, FreshShape, QuietWhole
<1>4. CASE Begin(p) \/ Write(p)
  <2>1. /\ my'[p] = my[p] /\ UNCHANGED <<entry, partial, content, overlapped>>
        /\ pc[p] \in {"begin", "write"}
        /\ pc[p] = "write" => pc'[p] = "finish"
    BY <1>1, <1>4 DEF Begin, Write, Goto, memoVars
  <2>2. my'[p].storing[1] \notin {"fill", "move"}
    BY <1>1, <2>1 DEF ShapeOf, Idle
  <2>3. \A k \in Keys : MayOpen(p, k)' => MayOpen(p, k)
    BY <2>1 DEF MayOpen
  <2>4. QED
    BY <1>1, <2>1, <2>2, <2>3, QuietWhole
<1>5. ASSUME NEW f \in Files, Recall(p, f) \/ Ask(p, f) PROVE Whole'
  <2>1. Asks(p, f) /\ UNCHANGED <<pc, run, entry, partial, content, overlapped>>
    BY <1>5 DEF Recall, Ask, memoVars
  <2>2. my'[p].todo = my[p].todo \ {f} /\ my'[p].storing \in {Idle, <<"open", f>>}
    <3>1. CASE Recall(p, f)
      BY <1>1, <2>1, <3>1 DEF Recall, Asks, ShapeOf, Fields
    <3>2. CASE Ask(p, f)
      <4>1. PICK a, cost, keeps : Answered(p, f, a, cost, keeps)
        BY <3>2, AskAnswers
      <4>2. QED
        BY <1>1, <2>1, <4>1 DEF Answered, Asks, ShapeOf, Fields
    <3>3. QED
      BY <1>5, <3>1, <3>2
  <2>3. my'[p].todo = my[p].todo \ {f} /\ my'[p].storing \in {Idle, <<"open", f>>}
    BY <2>2
  <2>4. my'[p].storing[1] \notin {"fill", "move"}
    BY <2>3 DEF Idle
  <2>5. \A k \in Keys : MayOpen(p, k)' => MayOpen(p, k)
    <3>1. SUFFICES ASSUME NEW k \in Keys, MayOpen(p, k)' PROVE MayOpen(p, k)
      OBVIOUS
    <3>2. pc[p] = "review" /\ f \in my[p].todo
      BY <2>1 DEF Asks
    <3>3. PICK g \in Files : k = Of(p, g) /\ (g \in my'[p].todo \/ my'[p].storing = <<"open", g>>)
      BY <2>1, <3>1, <3>2 DEF MayOpen, Of, MemoPath, CassettePath, Key
    <3>4. my'[p].storing = <<"open", g>> => g = f
      BY <2>3 DEF Idle
    <3>5. QED
      BY <2>3, <3>2, <3>3, <3>4 DEF MayOpen
  <2>6. QED
    BY <1>1, <2>1, <2>4, <2>5, QuietWhole
<1>6. CASE Remember(p)
  BY <1>1, <1>6, RememberWhole
<1>7. CASE CannotRemember(p)
  <2>1. /\ my[p].storing # Idle /\ UNCHANGED <<pc, run>>
        /\ my' = [my EXCEPT ![p] = Unkept(@, my[p].storing[2], run[p].record)]
        /\ UNCHANGED <<entry, partial, content, overlapped>>
    BY <1>7 DEF CannotRemember
  <2>2. my'[p].storing = Idle /\ my'[p].todo = my[p].todo
    BY <2>1, UnkeptFacts
  <2>3. \A k \in Keys : MayOpen(p, k)' => MayOpen(p, k)
    BY <2>1, <2>2 DEF MayOpen, Of, MemoPath, CassettePath, Key, Idle
  <2>4. QED
    BY <1>1, <2>1, <2>2, <2>3, FreshShape, QuietWhole
<1>8. CASE ReviewFails(p) \/ CannotWrite(p) \/ Die(p) \/ Finish(p)
  BY <1>2, <1>8 DEF ReviewFails, CannotWrite, Die, Finish, Ends
<1>9. CASE Reviewed(p) \/ Skip(p) \/ Generate(p) \/ Measure(p) \/ Deadline(p) \/ Settled(p)
  <2>1. /\ my'[p].storing = Idle /\ pc'[p] \in {"settle", "write"}
        /\ UNCHANGED <<overlapped, memoVars>>
    BY <1>9, SettleShape
  <2>2. \A k \in Keys : ~MayOpen(p, k)'
    BY <2>1 DEF MayOpen
  <2>3. QED
    BY <1>1, <2>1, <2>2, FreshShape, QuietWhole DEF memoVars
<1>10. QED
  BY <1>3, <1>4, <1>5, <1>6, <1>7, <1>8, <1>9 DEF Act, Step

-----------------------------------------------------------------------------
Solo == overlapped \subseteq contested /\ OneAsker /\ RecordingsDecide

\* A process has an answer that is kept, or came from where answers are kept.
Told(p, g) == my[p].answers[g] # None /\ my[p].storing[2] # g /\ Cassettes(p)

\* What concerns the other processes is as it was.
LEMMA OthersSolo ==
    ASSUME NEW p \in Procs, OwnOnly(p), NEW q \in Procs \ {p}
    PROVE  /\ my'[q] = my[q]
           /\ \A k : Holding(q, k)' <=> Holding(q, k)
           /\ \A g : /\ CassettePath(q, g)' = CassettePath(q, g)
                     /\ Told(q, g)' <=> Told(q, g)
BY DEF OwnOnly, Holding, Told, Cassettes, Of, MemoPath, CassettePath, Key

\* Who has been told something works, so its recordings are among the keys.
LEMMA ToldIsKey ==
    ASSUME Shape, NEW p \in Procs, NEW g \in Files, Told(p, g)
    PROVE  CassettePath(p, g) \in Keys /\ CassettePath(p, g)[1] = "recording"
<1>1. pc[p] \in Working
  BY FreshShape DEF Told, Shape, ShapeOf
<1>2. QED
  BY <1>1, QuestionIsKey

\* A step that keeps nothing: the process has nothing to keep after it, and what it
\* was told it had been told before.
LEMMA QuietSolo ==
    ASSUME Shape, Solo, NEW p \in Procs, OwnOnly(p),
           UNCHANGED <<entry, content, overlapped, contested>>,
           my'[p].storing = Idle,
           \A g \in Files : my'[p].answers[g] # None /\ Cassettes(p)' =>
               /\ run'[p] = run[p] /\ my'[p].answers[g] = my[p].answers[g]
               /\ my[p].storing[2] # g
    PROVE  Solo'
<1>1. \A k : ~Holding(p, k)'
  BY DEF Holding
<1>2. \A k : Lies(k)' = Lies(k) /\ Kept(k)' = Kept(k)
  BY DEF Lies, Kept
<1>3. ASSUME NEW k \in Keys \ contested
      PROVE  /\ \A q, r \in Procs : Holding(q, k)' /\ Holding(r, k)' => q = r
             /\ \A q \in Procs : Holding(q, k)' /\ k[1] = "recording" => ~Lies(k)'
  <2>1. \A q \in Procs : Holding(q, k)' => q # p /\ Holding(q, k)
    BY <1>1, OthersSolo
  <2>2. QED
    BY <1>2, <1>3, <2>1 DEF Solo, OneAsker
<1>4. OneAsker'
  BY <1>3 DEF OneAsker
<1>5. ASSUME NEW q \in Procs, NEW g \in Files, Told(q, g)', CassettePath(q, g)' \notin contested
      PROVE  Lies(CassettePath(q, g)') /\ Kept(CassettePath(q, g)') = my'[q].answers[g]
  <2>1. /\ Told(q, g) /\ CassettePath(q, g)' = CassettePath(q, g)
        /\ my'[q].answers[g] = my[q].answers[g]
    <3>1. CASE q = p
      BY <1>5, <3>1 DEF Told, Cassettes, CassettePath, Key
    <3>2. CASE q # p
      BY <1>5, <3>2, OthersSolo
    <3>3. QED
      BY <3>1, <3>2
  <2>2. QED
    BY <1>5, <2>1 DEF Solo, RecordingsDecide, Told
<1>6. RecordingsDecide'
  BY <1>2, <1>5 DEF RecordingsDecide, Told, Lies, Kept
<1>7. QED
  BY <1>4, <1>6 DEF Solo

\* A question that is asked: an answer that is not kept was recorded, and one that
\* is to be recorded was not.
LEMMA AskSolo ==
    ASSUME Shape, FiledUnderItsModel, Solo, NEW p \in Procs, OwnOnly(p),
           NEW f \in Files, Ask(p, f)
    PROVE  Solo'
<1>1. PICK a, cost, keeps : Answered(p, f, a, cost, keeps)
  BY AskAnswers
<1>2. UNCHANGED <<run, overlapped, entry, content>>
  BY DEF Ask, memoVars
<1>3. my[p].storing = Idle /\ pc[p] \in Working /\ ShapeOf(p)
  BY DEF Ask, Asks, Shape, Working, Alive
<1>4. PICK k : k = Of(p, f)
  OBVIOUS
<1>5. /\ k \in Keys /\ CassettePath(p, f) \in Keys
      /\ k = IF run[p].record THEN CassettePath(p, f) ELSE MemoPath(p, f)
      /\ MemoPath(p, f)[1] = "memo"
  BY <1>3, <1>4, QuestionIsKey
<1>6. contested' = IF keeps /\ Busy(p, k) THEN contested \cup {k} ELSE contested
  BY <1>1, <1>4 DEF Answered
<1>7. /\ my'[p].answers = [my[p].answers EXCEPT ![f] = a]
      /\ my'[p].storing = IF keeps THEN <<"open", f>> ELSE Idle
  BY <1>1, <1>3 DEF Answered, Shape, ShapeOf, Fields
<1>8. /\ \A j : Lies(j)' = Lies(j) /\ Kept(j)' = Kept(j)
      /\ \A g : Of(p, g)' = Of(p, g) /\ CassettePath(p, g)' = CassettePath(p, g)
      /\ Cassettes(p)' = Cassettes(p)
  BY <1>2 DEF Lies, Kept, Of, MemoPath, CassettePath, Key, Cassettes
<1>9. \A j : Holding(p, j)' <=> keeps /\ j = k
  BY <1>4, <1>7, <1>8 DEF Holding, Idle
<1>10. \A j : Busy(p, j) <=> \E q \in Procs \ {p} : Holding(q, j)
  BY DEF Busy, Holding
<1>11. ASSUME NEW j \in Keys \ contested'
       PROVE  /\ \A q, r \in Procs : Holding(q, j)' /\ Holding(r, j)' => q = r
              /\ \A q \in Procs : Holding(q, j)' /\ j[1] = "recording" => ~Lies(j)'
  <2>1. j \in Keys \ contested
    BY <1>6, <1>11
  <2>2. \A q \in Procs \ {p} : Holding(q, j)' => Holding(q, j)
    BY OthersSolo
  <2>3. CASE keeps /\ j = k
    <3>1. \A q \in Procs \ {p} : ~Holding(q, j)'
      BY <1>6, <1>10, <1>11, <2>2, <2>3
    <3>2. j[1] = "recording" => ~Lies(j)'
      BY <1>1, <1>5, <1>8, <2>3 DEF Answered
    <3>3. QED
      BY <3>1, <3>2
  <2>4. CASE ~(keeps /\ j = k)
    <3>1. \A q \in Procs : Holding(q, j)' => q # p /\ Holding(q, j)
      BY <1>9, <2>2, <2>4
    <3>2. QED
      BY <1>8, <2>1, <3>1 DEF Solo, OneAsker
  <2>5. QED
    BY <2>3, <2>4
<1>12. OneAsker'
  BY <1>11 DEF OneAsker
<1>13. ASSUME NEW q \in Procs, NEW g \in Files, Told(q, g)', CassettePath(q, g)' \notin contested'
       PROVE  Lies(CassettePath(q, g)') /\ Kept(CassettePath(q, g)') = my'[q].answers[g]
  <2>1. CassettePath(q, g)' = CassettePath(q, g) /\ CassettePath(q, g) \notin contested
    BY <1>6, <1>8, <1>13, OthersSolo
  <2>2. CASE q # p
    <3>1. Told(q, g) /\ my'[q].answers[g] = my[q].answers[g]
      BY <1>13, <2>2, OthersSolo
    <3>2. QED
      BY <2>1, <3>1 DEF Solo, RecordingsDecide, Told
  <2>3. CASE q = p /\ g # f
    <3>1. my'[p].answers[g] = my[p].answers[g]
      BY <1>3, <1>7, <2>3 DEF ShapeOf
    <3>2. Told(p, g)
      BY <1>3, <1>8, <1>13, <2>3, <3>1, CommandAssumption DEF Told, Idle
    <3>3. QED
      BY <2>1, <2>3, <3>1, <3>2 DEF Solo, RecordingsDecide, Told
  <2>4. CASE q = p /\ g = f
    <3>1. my'[p].answers[f] = a
      BY <1>3, <1>7 DEF ShapeOf
    <3>2. a # None /\ ~keeps /\ Cassettes(p)
      <4>1. my'[p].answers[f] # None /\ my'[p].storing[2] # f /\ Cassettes(p)'
        BY <1>13, <2>4 DEF Told
      <4>2. keeps => my'[p].storing[2] = f
        BY <1>7
      <4>3. QED
        BY <1>8, <3>1, <4>1, <4>2
    <3>3. Lies(CassettePath(p, f)) /\ a = Kept(CassettePath(p, f))
      BY <1>1, <3>2 DEF Answered
    <3>4. QED
      BY <2>1, <2>4, <3>1, <3>3
  <2>5. QED
    BY <2>2, <2>3, <2>4
<1>14. RecordingsDecide'
  <2>1. \A j : (Lies(j)' <=> Lies(j)) /\ Kept(j)' = Kept(j)
    BY <1>8
  <2>2. QED
    BY <1>2, <1>13 DEF RecordingsDecide, Told, Lies, Kept
<1>15. overlapped' \subseteq contested'
  BY <1>2, <1>6 DEF Solo
<1>16. QED
  BY <1>12, <1>14, <1>15 DEF Solo

\* An answer is kept where nobody else keeps one, and is then what lies there.
LEMMA RememberSolo ==
    ASSUME Shape, Whole, Solo, NEW p \in Procs, OwnOnly(p), Remember(p)
    PROVE  Solo'
<1>0. PICK step, f, k : step = my[p].storing[1] /\ f = my[p].storing[2] /\ k = Of(p, f)
  OBVIOUS
<1> DEFINE then(next) == my' = [my EXCEPT ![p].storing = next]
           lost == my' = [my EXCEPT ![p] = Unkept(@, f, run[p].record)]
           others == {q \in Procs \ {p} : my[q].storing[1] \in {"fill", "move"}
                                             /\ Of(q, my[q].storing[2]) = k}
<1>1. /\ \/ step = "open" /\ Open(p, k) /\ then(<<"fill", f>>)
         \/ step = "fill" /\ Fill(p, my[p].answers[f]) /\ then(<<"move", f>>)
         \/ step = "move" /\ Replace(p, k) /\ ~Gone(k) /\ then(Idle)
         \/ step = "move" /\ Replace(p, k) /\ Gone(k) /\ lost
      /\ overlapped' = IF step = "open" /\ others # {} THEN overlapped \cup {k} ELSE overlapped
      /\ UNCHANGED <<run, contested>>
  BY <1>0 DEF Remember
<1>2. /\ my[p].storing # Idle /\ my[p].storing[2] = f /\ f \in Files
      /\ pc[p] \in Working /\ ShapeOf(p) /\ ~run[p].replay
      /\ step = "fill" => \E q \in Procs : fd[p] = <<k, q>>
  BY <1>0, <1>1 DEF Shape, ShapeOf, Idle, Working, Alive
<1>3. k \in Keys /\ Holding(p, k)
  BY <1>0, <1>2, QuestionIsKey DEF Holding
<1>4. overlapped' \subseteq contested
  <2>1. \A q \in others : q \in Procs \ {p} /\ Holding(q, k)
    BY DEF Holding, Idle
  <2>2. others # {} => k \in contested
    <3> HIDE DEF others
    <3>1. QED
      BY <1>3, <2>1 DEF Solo, OneAsker
  <2>3. QED
    BY <1>1, <2>2 DEF Solo
<1> HIDE DEF others
<1>5. /\ my'[p].storing = Idle \/ my'[p].storing = <<"fill", f>> \/ my'[p].storing = <<"move", f>>
      /\ \A g \in Files \ {f} : my'[p].answers[g] = my[p].answers[g]
      /\ step # "move" => my'[p].storing # Idle
      /\ my'[p].storing = Idle /\ Gone(k) /\ run[p].record => my'[p].answers[f] = None
      /\ step = "move" => my'[p].storing = Idle
      /\ ~Gone(k) \/ step # "move" => my'[p].answers[f] = my[p].answers[f]
  <2>1. ASSUME NEW next, then(next) PROVE my'[p].storing = next /\ my'[p].answers = my[p].answers
    BY <1>2, <2>1 DEF Shape, ShapeOf, Fields
  <2>2. lost => /\ my'[p].storing = Idle /\ (run[p].record => my'[p].answers[f] = None)
                /\ \A g \in Files \ {f} : my'[p].answers[g] = my[p].answers[g]
    BY <1>2, UnkeptFacts
  <2> HIDE DEF then, lost
  <2>3. QED
    BY <1>1, <2>1, <2>2 DEF Idle
<1>6. ASSUME NEW j \in Keys \ {k} PROVE (Lies(j)' <=> Lies(j)) /\ Kept(j)' = Kept(j)
  <2>1. entry'[j] = entry[j] /\ content'[j] = content[j]
    <3>1. CASE Open(p, k)
      BY <1>6, <3>1 DEF Open, Shape
    <3>2. CASE step = "fill" /\ Fill(p, my[p].answers[f])
      <4>1. PICK q \in Procs : fd[p] = <<k, q>>
        BY <1>2, <3>2
      <4>2. fd[p][1] = k
        BY <4>1
      <4>3. (\E g : content' = [content EXCEPT ![k] = g]) /\ UNCHANGED entry
        BY ONLY <3>2, <4>2 DEF Fill
      <4>4. QED
        BY <1>6, <4>3 DEF Shape
    <3>3. CASE Replace(p, k)
      BY <1>6, <3>3 DEF Replace, Shape
    <3>4. QED
      BY <1>1, <3>1, <3>2, <3>3
  <2>2. QED
    BY <2>1 DEF Lies, Kept
<1>7. step # "move" => UNCHANGED entry
  BY <1>1 DEF Open, Fill
<1>8. \A q \in Procs, j \in Keys : Holding(q, j)' => Holding(q, j) /\ (q = p => step # "move")
  <2>1. ASSUME NEW j, Holding(p, j)' PROVE Holding(p, j) /\ step # "move"
    <3>1. my'[p].storing # Idle
      BY <2>1 DEF Holding
    <3>2. my'[p].storing[2] = f
      BY <1>5, <3>1
    <3>3. j = k
      BY <1>0, <1>1, <2>1, <3>2 DEF Holding, Of, MemoPath, CassettePath, Key
    <3>4. step # "move"
      BY <1>5, <3>1
    <3>5. QED
      BY <1>3, <3>3, <3>4
  <2>2. QED
    BY <2>1, OthersSolo
<1>9. ASSUME NEW j \in Keys \ contested
      PROVE  /\ \A q, r \in Procs : Holding(q, j)' /\ Holding(r, j)' => q = r
             /\ \A q \in Procs : Holding(q, j)' /\ j[1] = "recording" => ~Lies(j)'
  <2>1. \A q, r \in Procs : Holding(q, j)' /\ Holding(r, j)' => q = r
    BY <1>8, <1>9 DEF Solo, OneAsker
  <2>2. ASSUME NEW q \in Procs, Holding(q, j)', j[1] = "recording" PROVE ~Lies(j)'
    <3>1. Holding(q, j) /\ ~Lies(j)
      BY <1>8, <1>9, <2>2 DEF Solo, OneAsker
    <3>2. CASE j # k
      BY <1>6, <3>1, <3>2
    <3>3. CASE j = k
      <4>1. q = p
        BY <1>3, <1>9, <3>1, <3>3 DEF Solo, OneAsker
      <4>2. UNCHANGED entry
        BY <1>7, <1>8, <2>2, <4>1
      <4>3. QED
        BY <3>1, <4>2 DEF Lies
    <3>4. QED
      BY <3>2, <3>3
  <2>3. QED
    BY <2>1, <2>2
<1>10. OneAsker'
  BY <1>1, <1>9 DEF OneAsker
<1>11. ASSUME NEW q \in Procs, NEW g \in Files, Told(q, g)', CassettePath(q, g) \notin contested,
              CassettePath(q, g) # k
       PROVE  Lies(CassettePath(q, g))' /\ Kept(CassettePath(q, g))' = my'[q].answers[g]
  <2>1. Told(q, g) /\ my'[q].answers[g] = my[q].answers[g]
    <3>1. CASE q # p
      BY <1>11, <3>1, OthersSolo
    <3>2. CASE q = p /\ g # f
      BY <1>1, <1>2, <1>5, <1>11, <3>2 DEF Told, Cassettes
    <3>3. CASE q = p /\ g = f
      <4>1. run[p].record
        BY <1>1, <1>2, <1>11, <3>3 DEF Told, Cassettes
      <4>2. QED
        BY <1>0, <1>11, <3>3, <4>1 DEF Of
    <3>4. QED
      BY <3>1, <3>2, <3>3
  <2>2. CassettePath(q, g) \in Keys
    BY <2>1, ToldIsKey
  <2>3. Lies(CassettePath(q, g)) /\ Kept(CassettePath(q, g)) = my[q].answers[g]
    BY <1>11, <2>1 DEF Solo, RecordingsDecide, Told
  <2>4. PICK j \in Keys : j = CassettePath(q, g)
    BY <2>2
  <2>5. (Lies(j)' <=> Lies(j)) /\ Kept(j)' = Kept(j)
    BY <1>6, <1>11, <2>4
  <2>6. entry'[j] # NoFile /\ content'[j][entry'[j]] = my'[q].answers[g]
    BY <2>1, <2>3, <2>4, <2>5 DEF Lies, Kept
  <2>7. CassettePath(q, g)' = CassettePath(q, g)
    BY <1>1 DEF CassettePath, Key
  <2>8. QED
    BY <2>4, <2>6, <2>7 DEF Lies, Kept
<1>12. ASSUME NEW q \in Procs, NEW g \in Files, Told(q, g)', CassettePath(q, g) \notin contested,
              CassettePath(q, g) = k
       PROVE  entry'[k] # NoFile /\ content'[k][entry'[k]] = my'[q].answers[g]
  <2>1. k[1] = "recording"
    BY <1>12 DEF CassettePath, Key
  <2>2. ~Lies(k)
    BY <1>3, <1>12, <2>1 DEF Solo, OneAsker
  <2>3. ~Told(q, g)
    BY <1>12, <2>2 DEF Solo, RecordingsDecide, Told
  <2>4. q = p
    BY <1>12, <2>3, OthersSolo
  <2>5. run[p].record /\ g = f
    <3>1. Cassettes(p)'
      BY <1>12, <2>4 DEF Told
    <3>2. run[p].record
      BY <1>1, <1>2, <3>1 DEF Cassettes
    <3>3. CassettePath(p, g) = CassettePath(p, f)
      BY <1>0, <1>12, <2>4, <3>2 DEF Of
    <3>4. QED
      BY <3>2, <3>3 DEF CassettePath, Key
  <2>6. my'[p].storing = Idle
    BY <1>5, <1>12, <2>4, <2>5 DEF Told
  <2>7. step = "move" /\ ~Gone(k) /\ my'[p].answers[f] = my[p].answers[f] /\ Replace(p, k)
    BY <1>1, <1>5, <1>12, <2>4, <2>5, <2>6 DEF Told
  <2>8. partial[k] \in Procs /\ content[k][partial[k]] = my[p].answers[f]
    <3>1. Storing(p, k) /\ k \notin overlapped
      BY <1>0, <1>12, <2>7 DEF Storing, Solo
    <3>2. QED
      BY <1>0, <1>3, <2>7, <3>1 DEF Whole, OneWriter
  <2>9. entry'[k] = partial[k] /\ content' = content
    BY <1>3, <2>7 DEF Replace, Shape
  <2>10. QED
    BY <2>4, <2>5, <2>7, <2>8, <2>9, CommandAssumption
<1>13. RecordingsDecide'
  <2>1. \A q \in Procs, g \in Files : CassettePath(q, g)' = CassettePath(q, g)
    BY <1>1 DEF CassettePath, Key
  <2>2. SUFFICES ASSUME NEW q \in Procs, NEW g \in Files, Told(q, g)',
                        CassettePath(q, g) \notin contested
                 PROVE  Lies(CassettePath(q, g))' /\ Kept(CassettePath(q, g))' = my'[q].answers[g]
    BY <1>1, <2>1 DEF RecordingsDecide, Told
  <2>3. CASE CassettePath(q, g) # k
    BY <1>11, <2>2, <2>3
  <2>4. CASE CassettePath(q, g) = k
    BY <1>12, <2>1, <2>2, <2>4 DEF Lies, Kept
  <2>5. QED
    BY <2>3, <2>4
<1>14. QED
  BY <1>1, <1>4, <1>10, <1>13 DEF Solo

\* Every step keeps the recordings to what those that use them were told.
LEMMA SoloStep ==
    ASSUME Shape, FiledUnderItsModel, Whole, Solo, NEW p \in Procs, Act(p)
    PROVE  Solo'
<1>1. OwnOnly(p) /\ ShapeOf(p) /\ DOMAIN my = Procs
  BY Locality DEF Shape
<1>2. ASSUME my'[p] = Fresh, UNCHANGED <<entry, content, overlapped, contested>> PROVE Solo'
  BY <1>1, <1>2, FreshShape, QuietSolo
<1>3. ASSUME NEW how, Exit(p, how) PROVE Solo'
  BY <1>1, <1>2, <1>3 DEF Exit
<1>4. ASSUME my[p].storing = Idle, my'[p].storing = Idle, my'[p].answers = my[p].answers,
             run'[p] = run[p], UNCHANGED <<entry, content, overlapped, contested>>
      PROVE  Solo'
  <2>1. \A g \in Files : my[p].storing[2] # g
    BY <1>4, CommandAssumption DEF Idle
  <2>2. QED
    BY <1>1, <1>4, <2>1, QuietSolo
<1>5. CASE Start(p)
  <2>1. my'[p] = Fresh
    BY <1>1, <1>5 DEF Start, ShapeOf, Working
  <2>2. QED
    BY <1>2, <1>5, <2>1 DEF Start, memoVars
<1>6. CASE Begin(p) \/ Write(p)
  <2>1. my[p].storing = Idle
    BY <1>1, <1>6 DEF Begin, Write, ShapeOf
  <2>2. QED
    BY <1>4, <1>6, <2>1 DEF Begin, Write, memoVars
<1>7. ASSUME NEW f \in Files, Recall(p, f) PROVE Solo'
  <2>1. /\ UNCHANGED <<run, entry, content, overlapped, contested>> /\ my[p].storing = Idle
        /\ my' = [my EXCEPT ![p].answers[f] = Kept(MemoPath(p, f)), ![p].todo = @ \ {f}]
        /\ ~Cassettes(p)
    BY <1>7 DEF Recall, Asks, MemoOn, Enabled, Cassettes, memoVars
  <2>2. my'[p].storing = Idle /\ ~Cassettes(p)'
    BY <1>1, <2>1 DEF ShapeOf, Fields, Cassettes
  <2>3. QED
    BY <1>1, <2>1, <2>2, QuietSolo
<1>8. ASSUME NEW f \in Files, Ask(p, f) PROVE Solo'
  BY <1>1, <1>8, AskSolo
<1>9. CASE Remember(p)
  BY <1>1, <1>9, RememberSolo
<1>10. CASE CannotRemember(p)
  <2>1. /\ my[p].storing # Idle /\ UNCHANGED <<run, entry, content, overlapped, contested>>
        /\ my' = [my EXCEPT ![p] = Unkept(@, my[p].storing[2], run[p].record)]
    BY <1>10 DEF CannotRemember
  <2>2. /\ my'[p].storing = Idle
        /\ run[p].record => my'[p].answers[my[p].storing[2]] = None
        /\ \A g \in Files \ {my[p].storing[2]} : my'[p].answers[g] = my[p].answers[g]
    BY <2>1, UnkeptFacts
  <2>3. ~run[p].replay
    BY <1>1, <2>1 DEF ShapeOf
  <2>4. \A g \in Files : my'[p].answers[g] # None /\ Cassettes(p)' =>
            /\ my'[p].answers[g] = my[p].answers[g] /\ my[p].storing[2] # g
    BY <2>1, <2>2, <2>3 DEF Cassettes
  <2>5. QED
    BY <1>1, <2>1, <2>2, <2>4, QuietSolo
<1>11. CASE ReviewFails(p) \/ CannotWrite(p) \/ Die(p) \/ Finish(p)
  BY <1>3, <1>11 DEF ReviewFails, CannotWrite, Die, Finish
<1>12. CASE Reviewed(p) \/ Skip(p) \/ Generate(p) \/ Measure(p) \/ Deadline(p) \/ Settled(p)
  <2>1. /\ my'[p].answers = my[p].answers /\ my'[p].storing = Idle
        /\ UNCHANGED <<run, contested, overlapped, memoVars>>
    BY <1>12, SettleShape
  <2>2. my[p].storing = Idle
    BY <1>1, <1>12
       DEF Reviewed, Skip, Generate, Measure, Deadline, Settled, Settling, ShapeOf
  <2>3. QED
    BY <1>4, <2>1, <2>2 DEF memoVars
<1>13. QED
  BY <1>5, <1>6, <1>7, <1>8, <1>9, <1>10, <1>11, <1>12 DEF Act, Step

-----------------------------------------------------------------------------
\* A process begins with nothing settled.
LEMMA FreshBench == Fresh \in Memory /\ Clear(Fresh)
BY DEF Fresh, Memory, Clear, Idle

\* A set that is put in an order is a sequence.
LEMMA Ordered ==
    ASSUME NEW S, IsFiniteSet(S)
    PROVE  SetToSeq(S) \in Seq(S)
<1>1. Cardinality(S) \in Nat /\ ExistsBijection(1..Cardinality(S), S)
  BY FS_CardinalityType
<1>2. \E f \in [1..Cardinality(S) -> S] : IsInjective(f)
  BY <1>1 DEF ExistsBijection, Bijection, Injection
<1>3. SetToSeq(S) \in [1..Cardinality(S) -> S]
  BY <1>2 DEF SetToSeq
<1>4. QED
  BY <1>1, <1>3

\* A report is a list of files.
LEMMA ReportedIsSeq == ASSUME NEW p PROVE Reported(p) \in Seq(Files)
<1> DEFINE S == {f \in Files : my[p].answers[f] # None}
<1>1. IsFiniteSet(S)
  BY CommandAssumption, FS_Subset
<1>2. Reported(p) \in Seq(S)
  BY <1>1, Ordered DEF Reported
<1> HIDE DEF S
<1>3. S \subseteq Files
  BY DEF S
<1>4. QED
  BY <1>2, <1>3

\* A memory after a step of the review.
Reviewing(m, answers, todo, storing, usage) ==
    [m EXCEPT !.answers = answers, !.todo = todo, !.storing = storing, !.usage = usage]

\* Steps before the findings are known change none of what settles them.
LEMMA EarlyBench ==
    ASSUME Shape, NEW p \in Procs, BenchOf(p),
           NEW answers \in [Files -> Answers \cup {None}], NEW todo \in SUBSET Files,
           NEW storing \in {"no", "open", "fill", "move"} \X (Files \cup {None}), NEW usage \in Nat,
           my'[p] = Reviewing(my[p], answers, todo, storing, usage),
           pc[p] = "review", pc'[p] = "review", run'[p] = run[p]
    PROVE  BenchOf(p)'
<1>1. my[p] \in Memory /\ Clear(my[p]) /\ run[p].prove \in Nat
  BY DEF BenchOf, Late, Working, Alive
<1>2. my'[p] \in Memory /\ Clear(my'[p])
  BY <1>1 DEF Reviewing, Memory, Clear
<1>3. QED
  BY <1>1, <1>2 DEF BenchOf, Late

\* What was put to an experiment, and what carries a prediction, of a finite list.
LEMMA PutFinite ==
    ASSUME NEW E, NEW done \in Seq(E), NEW answers
    PROVE  /\ Put(done) \subseteq 1..Len(done) /\ Foretold(done, answers) \subseteq 1..Len(done)
           /\ Len(done) \in Nat
           /\ IsFiniteSet(Put(done)) /\ IsFiniteSet(Foretold(done, answers))
           /\ Cardinality(Put(done)) \in Nat /\ Cardinality(Foretold(done, answers)) \in Nat
<1>1. DOMAIN done = 1..Len(done) /\ Len(done) \in Nat
  OBVIOUS
<1>2. Put(done) \subseteq 1..Len(done) /\ Foretold(done, answers) \subseteq 1..Len(done)
  BY <1>1 DEF Put, Foretold
<1>3. IsFiniteSet(1..Len(done))
  BY <1>1, FS_Interval
<1>4. IsFiniteSet(Put(done)) /\ IsFiniteSet(Foretold(done, answers))
  BY <1>2, <1>3, FS_Subset
<1>5. QED
  BY <1>1, <1>2, <1>4, FS_CardinalityType

\* What a list is with one more at its end.
LEMMA Appended ==
    ASSUME NEW E, NEW done \in Seq(E), NEW item \in E
    PROVE  /\ Append(done, item) \in Seq(E)
           /\ Len(done) \in Nat /\ DOMAIN done = 1..Len(done)
           /\ DOMAIN Append(done, item) = 1..(Len(done) + 1)
           /\ Append(done, item)[Len(done) + 1] = item
           /\ \A i \in 1..Len(done) : Append(done, item)[i] = done[i] /\ done[i] \in E
OBVIOUS

\* An element that leaves the front of one sequence for the end of another stays
\* where it is in the two together.
LEMMA Shifted ==
    ASSUME NEW S, NEW s \in Seq(S), NEW t \in Seq(S), NEW u \in Seq(S), t # <<>>,
           Len(u) = Len(s) + 1, \A i \in 1..Len(s) : u[i] = s[i], u[Len(s) + 1] = Head(t)
    PROVE  u \o Tail(t) = s \o t
<1>1. /\ Tail(t) \in Seq(S) /\ Len(t) \in Nat /\ Len(t) > 0 /\ Len(Tail(t)) = Len(t) - 1
      /\ \A i \in 1..(Len(t) - 1) : Tail(t)[i] = t[i + 1]
      /\ Head(t) = t[1] /\ Len(s) \in Nat
  OBVIOUS
<1>2. PICK v : v = Tail(t)
  OBVIOUS
<1>3. /\ v \in Seq(S) /\ Len(v) = Len(t) - 1
      /\ \A i \in 1..(Len(t) - 1) : v[i] = t[i + 1]
  BY <1>1, <1>2
<1>4. /\ u \o v \in Seq(S) /\ Len(u \o v) = Len(u) + Len(v)
      /\ \A i \in 1..(Len(u) + Len(v)) :
            (u \o v)[i] = IF i <= Len(u) THEN u[i] ELSE v[i - Len(u)]
  BY <1>3, ConcatProperties
<1>5. /\ s \o t \in Seq(S) /\ Len(s \o t) = Len(s) + Len(t)
      /\ \A i \in 1..(Len(s) + Len(t)) :
            (s \o t)[i] = IF i <= Len(s) THEN s[i] ELSE t[i - Len(s)]
  BY ConcatProperties
<1>6. Len(u) + Len(v) = Len(s) + Len(t)
  BY <1>1, <1>3
<1>7. ASSUME NEW i \in 1..(Len(s) + Len(t))
      PROVE  (IF i <= Len(u) THEN u[i] ELSE v[i - Len(u)])
                = (IF i <= Len(s) THEN s[i] ELSE t[i - Len(s)])
  <2>1. CASE i <= Len(s)
    BY <1>1, <2>1
  <2>2. CASE i = Len(s) + 1
    BY <1>1, <2>2
  <2>3. CASE i > Len(s) + 1
    <3>1. i - Len(u) \in 1..(Len(t) - 1) /\ (i - Len(u)) + 1 = i - Len(s)
      BY <1>1, <2>3
    <3>2. v[i - Len(u)] = t[i - Len(s)]
      BY <1>3, <3>1
    <3>3. QED
      BY <1>1, <2>3, <3>2
  <2>4. QED
    BY <1>1, <2>1, <2>2, <2>3
<1>8. u \o v = s \o t
  <2>1. \A i \in 1..Len(u \o v) : (u \o v)[i] = (s \o t)[i]
    BY <1>4, <1>5, <1>6, <1>7
  <2>2. Len(u \o v) = Len(s \o t)
    BY <1>4, <1>5, <1>6
  <2>3. PICK x \in Seq(S) : x = u \o v
    BY <1>4
  <2>4. PICK y \in Seq(S) : y = s \o t
    BY <1>5
  <2>5. x = y
    BY <2>1, <2>2, <2>3, <2>4, SeqEqual
  <2>6. QED
    BY <2>3, <2>4, <2>5
<1>9. QED
  BY <1>2, <1>8

\* The findings of the review are there, in order, and there is room for spare
\* experiments beside those that were asked for and those that may still be.
Room(m, reported, prove, spare) ==
    /\ FilesOf(m.settled) \o m.queue = reported
    /\ Put(m.settled) \subseteq Foretold(m.settled, m.answers)
    /\ Cardinality(Put(m.settled)) + m.left + spare = prove
    /\ m.left + spare > 0 => Put(m.settled) = Foretold(m.settled, m.answers)
    /\ InTurn(m.settled, m.answers, prove)
    /\ \A i \in DOMAIN m.settled : Graded(m.settled[i])
    /\ m.queue # <<>>

\* One more at the end of a list is put to an experiment in its turn, if the room
\* there was for it says so.
LEMMA NextInTurn ==
    ASSUME NEW done \in Seq(Entries), NEW item \in Entries, NEW answers, NEW prove \in Nat,
           InTurn(done, answers, prove),
           item.how # "skipped" <=>
               /\ answers[item.file] \in Predicted
               /\ Cardinality(Foretold(done, answers)) < prove
    PROVE  InTurn(Append(done, item), answers, prove)
<1>1. PICK more : more = Append(done, item)
  OBVIOUS
<1>2. /\ Len(done) \in Nat /\ DOMAIN done = 1..Len(done)
      /\ DOMAIN more = 1..(Len(done) + 1) /\ more[Len(done) + 1] = item
      /\ \A i \in 1..Len(done) : more[i] = done[i]
  BY <1>1, Appended
<1>3. PICK n \in Nat : n = Len(done)
  BY <1>2
<1> DEFINE before(list, i) == {j \in 1..(i - 1) : answers[list[j].file] \in Predicted}
<1>4. ASSUME NEW i \in 1..n
      PROVE  i \in Put(more) <=> /\ answers[more[i].file] \in Predicted
                                 /\ Cardinality(before(more, i)) < prove
  <2>1. before(more, i) = before(done, i)
    BY <1>2, <1>3, <1>4
  <2>2. i \in Put(more) <=> i \in Put(done)
    BY <1>2, <1>3 DEF Put
  <2>3. i \in Put(done) <=> /\ answers[done[i].file] \in Predicted
                            /\ Cardinality(before(done, i)) < prove
    BY <1>2, <1>3 DEF InTurn
  <2>4. more[i] = done[i]
    BY <1>2, <1>3
  <2> HIDE DEF before
  <2>5. QED
    BY <2>1, <2>2, <2>3, <2>4
<1>5. n + 1 \in Put(more) <=> /\ answers[more[n + 1].file] \in Predicted
                              /\ Cardinality(before(more, n + 1)) < prove
  <2>1. (n + 1) - 1 = n
    OBVIOUS
  <2>2. before(more, n + 1) = Foretold(done, answers)
    BY <1>2, <1>3, <2>1 DEF Foretold
  <2>3. n + 1 \in Put(more) <=> item.how # "skipped"
    BY <1>2, <1>3 DEF Put
  <2>4. more[n + 1] = item
    BY <1>2, <1>3
  <2> HIDE DEF before
  <2>5. QED
    BY <2>2, <2>3, <2>4
<1>6. DOMAIN more = 1..n \cup {n + 1}
  BY <1>2, <1>3
<1>7. InTurn(more, answers, prove)
  BY <1>4, <1>5, <1>6 DEF InTurn
<1>8. QED
  BY <1>1, <1>7

\* The first finding of the queue goes to the list, where its place was kept.
LEMMA KeepBench ==
    ASSUME NEW m \in Memory, NEW reported, NEW prove \in Nat, NEW spare \in 0..1,
           NEW proof \in {None} \cup Proofs,
           NEW how \in {"skipped", "refused", "ended", "killed"},
           proof # None <=> how \in {"ended", "killed"},
           how = "killed" => proof.value = None,
           Room(m, reported, prove, spare),
           how = "skipped" =>
               spare = 0 /\ (m.left = 0 \/ m.answers[Head(m.queue)] \notin Predicted),
           how # "skipped" => spare = 1 /\ m.answers[Head(m.queue)] \in Predicted
    PROVE  /\ Keep(m, proof, how) \in Memory
           /\ Settles(Keep(m, proof, how), reported, prove)
           /\ Keep(m, proof, how).answers = m.answers
<1> DEFINE item == [file |-> Head(m.queue), proof |-> proof, how |-> how]
           n == Keep(m, proof, how)
<1>1. /\ m.queue \in Seq(Files) /\ m.settled \in Seq(Entries) /\ m.left \in Nat
      /\ m.answers \in [Files -> Answers \cup {None}] /\ m.queue # <<>>
  BY DEF Memory, Room
<1>2. Head(m.queue) \in Files /\ Tail(m.queue) \in Seq(Files)
  BY <1>1
<1>3. item \in Entries
  BY <1>2 DEF Entries
<1>4. PICK done \in Seq(Entries) : done = m.settled
  BY <1>1
<1>5. PICK more \in Seq(Entries) : more = Append(done, item)
  BY <1>3, <1>4, Appended
<1>6. /\ n.queue = Tail(m.queue) /\ n.child = "none" /\ n.settled = more
      /\ n.answers = m.answers /\ n.left = m.left
  BY <1>4, <1>5 DEF Keep, Memory
<1>7. n \in Memory
  <2>1. n = [m EXCEPT !.queue = Tail(m.queue), !.child = "none", !.settled = more]
    BY <1>4, <1>5 DEF Keep, Memory
  <2>2. QED
    BY <1>2, <2>1 DEF Memory
<1>8. /\ Len(done) \in Nat /\ DOMAIN done = 1..Len(done)
      /\ DOMAIN more = 1..(Len(done) + 1) /\ more[Len(done) + 1] = item
      /\ \A i \in 1..Len(done) : more[i] = done[i] /\ done[i] \in Entries
  <2> HIDE DEF item
  <2>1. QED
    BY <1>3, <1>5, Appended
<1>9. FilesOf(more) \o Tail(m.queue) = FilesOf(done) \o m.queue
  <2>1. /\ FilesOf(done) \in Seq(Files) /\ Len(FilesOf(done)) = Len(done)
        /\ \A i \in 1..Len(done) : FilesOf(done)[i] = done[i].file
    BY <1>8 DEF FilesOf, Entries
  <2>2. /\ FilesOf(more) \in Seq(Files) /\ Len(FilesOf(more)) = Len(done) + 1
        /\ \A i \in 1..(Len(done) + 1) : FilesOf(more)[i] = more[i].file
    BY <1>3, <1>8 DEF FilesOf, Entries
  <2>3. /\ \A i \in 1..Len(done) : FilesOf(more)[i] = FilesOf(done)[i]
        /\ FilesOf(more)[Len(done) + 1] = Head(m.queue)
    <3>1. item.file = Head(m.queue)
      OBVIOUS
    <3> HIDE DEF item
    <3>2. ASSUME NEW i \in 1..Len(done)
          PROVE  FilesOf(more)[i] = FilesOf(done)[i]
      <4>1. i \in 1..(Len(done) + 1) /\ more[i] = done[i]
        BY <1>8
      <4>2. QED
        BY <2>1, <2>2, <4>1
    <3>3. Len(done) + 1 \in 1..(Len(done) + 1)
      BY <1>8
    <3>4. QED
      BY <1>8, <2>2, <3>1, <3>2, <3>3
  <2>4. PICK s \in Seq(Files) : s = FilesOf(done)
    BY <2>1
  <2>5. PICK u \in Seq(Files) : u = FilesOf(more)
    BY <2>2
  <2>6. PICK t \in Seq(Files) : t = m.queue
    BY <1>1
  <2>7. /\ t # <<>> /\ Len(u) = Len(s) + 1 /\ \A i \in 1..Len(s) : u[i] = s[i]
        /\ u[Len(s) + 1] = Head(t)
    BY <1>1, <2>1, <2>2, <2>3, <2>4, <2>5, <2>6
  <2>8. u \o Tail(t) = s \o t
    BY <2>7, Shifted
  <2>9. QED
    BY <2>4, <2>5, <2>6, <2>8
<1>10. PICK put, told, left, next : /\ put = Put(done) /\ told = Foretold(done, m.answers)
                                    /\ left = m.left /\ next = Len(done) + 1
  OBVIOUS
<1>11. /\ put \subseteq told /\ IsFiniteSet(put) /\ IsFiniteSet(told)
       /\ Cardinality(put) \in Nat /\ Cardinality(told) \in Nat /\ left \in Nat
       /\ Cardinality(put) + left + spare = prove
       /\ left + spare > 0 => put = told
       /\ next \notin told
  <2>1. next \notin 1..Len(done)
    BY <1>8, <1>10
  <2>2. QED
    BY <1>1, <1>4, <1>10, <2>1, PutFinite DEF Room
<1>12. Cardinality(put) <= Cardinality(told)
  BY <1>11, FS_Subset
<1>13. PICK c, d \in Nat : c = Cardinality(put) /\ d = Cardinality(told)
  BY <1>11
<1>14. item.how = how /\ item.file = Head(m.queue) /\ item.proof = proof
  OBVIOUS
<1>15. Put(more) = IF how = "skipped" THEN put ELSE put \cup {next}
  <2> HIDE DEF item
  <2>1. QED
    BY <1>8, <1>10, <1>14 DEF Put
<1>16. Foretold(more, m.answers) =
          IF m.answers[Head(m.queue)] \in Predicted THEN told \cup {next} ELSE told
  <2> HIDE DEF item
  <2>1. QED
    BY <1>8, <1>10, <1>14 DEF Foretold
<1>17. InTurn(more, m.answers, prove)
  <2>1. InTurn(done, m.answers, prove)
    BY <1>4 DEF Room
  <2>2. how # "skipped" => d < prove
    BY <1>11, <1>13
  <2>3. how = "skipped" /\ left = 0 => ~(d < prove)
    BY <1>11, <1>12, <1>13
  <2>4. item.how # "skipped" <=>
               /\ m.answers[item.file] \in Predicted
               /\ Cardinality(Foretold(done, m.answers)) < prove
    BY <1>10, <1>13, <1>14, <2>2, <2>3
  <2> HIDE DEF item
  <2>5. QED
    BY <1>3, <1>5, <2>1, <2>4, NextInTurn
<1>18. Put(more) \subseteq Foretold(more, m.answers)
  BY <1>11, <1>15, <1>16
<1>19. Cardinality(Put(more)) + left = prove
  <2>1. CASE how = "skipped"
    BY <1>11, <1>15, <2>1
  <2>2. CASE how # "skipped"
    <3>1. next \notin put
      BY <1>11
    <3>2. Cardinality(put \cup {next}) = c + 1
      BY <1>11, <1>13, <3>1, FS_AddElement
    <3>3. Put(more) = put \cup {next}
      BY <1>15, <2>2
    <3>4. c + left + 1 = prove
      BY <1>11, <1>13, <2>2
    <3>5. (c + 1) + left = prove
      BY <1>11, <3>4
    <3>6. QED
      BY <3>2, <3>3, <3>5
  <2>3. QED
    BY <2>1, <2>2
<1>20. left > 0 => Put(more) = Foretold(more, m.answers)
  <2>1. SUFFICES ASSUME left > 0 PROVE Put(more) = Foretold(more, m.answers)
    OBVIOUS
  <2>2. put = told /\ left # 0
    BY <1>11, <2>1
  <2>3. CASE how = "skipped"
    <3>1. m.answers[Head(m.queue)] \notin Predicted
      BY <1>10, <2>2, <2>3
    <3>2. QED
      BY <1>15, <1>16, <2>2, <2>3, <3>1
  <2>4. CASE how # "skipped"
    BY <1>15, <1>16, <2>2, <2>4
  <2>5. QED
    BY <2>3, <2>4
<1>21. \A i \in DOMAIN more : Graded(more[i])
  <2>1. Graded(item)
    BY <1>14 DEF Graded
  <2>2. \A i \in 1..Len(done) : Graded(more[i])
    BY <1>4, <1>8 DEF Room
  <2> HIDE DEF item
  <2>3. QED
    BY <1>8, <2>1, <2>2
<1>22. FilesOf(more) \o Tail(m.queue) = reported
  BY <1>4, <1>9 DEF Room
<1> HIDE DEF n, item
<1>23. Settles(n, reported, prove)
  <2>1. Running(n) = 0
    BY <1>6 DEF Running
  <2>2. Cardinality(Put(n.settled)) + n.left + Running(n) = prove
    <3>1. n.left = left /\ n.settled = more /\ prove \in Nat /\ left \in Nat
      BY <1>6, <1>10, <1>11
    <3>2. PICK e : e = Cardinality(Put(more))
      OBVIOUS
    <3>3. e \in Nat
      BY <3>2, PutFinite
    <3>4. e + left + 0 = prove
      BY <1>19, <3>1, <3>2, <3>3
    <3>5. QED
      BY <2>1, <3>1, <3>2, <3>4
  <2>3. n.left + Running(n) > 0 => Put(n.settled) = Foretold(n.settled, n.answers)
    <3>1. n.left + Running(n) = left
      BY <1>6, <1>10, <1>11, <2>1
    <3>2. QED
      BY <1>6, <1>20, <3>1
  <2>4. QED
    BY <1>6, <1>17, <1>18, <1>21, <1>22, <2>2, <2>3 DEF Settles
<1>24. QED
  BY <1>6, <1>7, <1>23 DEF n

\* What an experiment's end proves is a measurement, or none.
LEMMA ProofType ==
    /\ \A code \in 0..1, numbers \in {<<>>, <<1, 2>>} : Proof(code, numbers, "other") \in Proofs
    /\ Proof(None, <<>>, "nothing") \in Proofs /\ Proof(None, <<>>, "nothing").value = None
    /\ None \notin Proofs
<1>1. Diagnose("other") = "tail"
  BY DEF Diagnose
<1>2. Last(<<1, 2>>) = 2 /\ <<1, 2>> # <<>>
  BY DEF Last
<1>3. /\ [value |-> None, why |-> "tail"] \in Proofs
      /\ [value |-> None, why |-> "timed out"] \in Proofs
      /\ [value |-> 2, why |-> "explained"] \in Proofs
  BY DEF Proofs
<1>4. Proof(None, <<>>, "nothing") = [value |-> None, why |-> "timed out"]
  <2>1. None # 0
    BY CommandAssumption
  <2>2. QED
    BY ONLY <2>1 DEF Proof
<1>5. ASSUME NEW code \in 0..1, NEW numbers \in {<<>>, <<1, 2>>}
      PROVE  Proof(code, numbers, "other") \in Proofs
  <2>1. code # None
    BY CommandAssumption
  <2>2. CASE code # 0 \/ numbers = <<>>
    <3>1. Proof(code, numbers, "other") = [value |-> None, why |-> "tail"]
      BY <1>1, <2>1, <2>2 DEF Proof
    <3>2. QED
      BY <1>3, <3>1
  <2>3. CASE code = 0 /\ numbers = <<1, 2>>
    <3>1. Proof(code, numbers, "other") = [value |-> Last(numbers), why |-> "explained"]
      BY <1>2, <2>1, <2>3 DEF Proof
    <3>2. QED
      BY <1>2, <1>3, <2>3, <3>1
  <2>4. QED
    BY <2>2, <2>3
<1>6. Proof(None, <<>>, "nothing").value = None
  <2>1. [value |-> None, why |-> "timed out"].value = None
    OBVIOUS
  <2>2. QED
    BY <1>4, <2>1
<1>7. None \notin Proofs
  BY CommandAssumption
<1>8. QED
  BY <1>3, <1>4, <1>5, <1>6, <1>7

\* The steps that settle, one finding each, and those around them.
LEMMA SettleBench ==
    ASSUME Shape, Costed, NEW p \in Procs, BenchOf(p),
           Reviewed(p) \/ Skip(p) \/ Generate(p) \/ Measure(p) \/ Deadline(p) \/ Settled(p)
    PROVE  BenchOf(p)'
<1> DEFINE m == my[p]
           prove == run[p].prove
<1>1. /\ m \in Memory /\ DOMAIN my = Procs /\ DOMAIN pc = Procs
      /\ run' = run /\ CostedOf(p)
  BY DEF BenchOf, Shape, Costed, Reviewed, Skip, Generate, Measure, Deadline, Settled
<1>2. pc[p] \in {"review", "settle"} /\ prove \in Nat
  <2>1. pc[p] \in {"review", "settle"}
    BY DEF Reviewed, Skip, Generate, Measure, Deadline, Settled, Settling
  <2>2. QED
    BY <2>1 DEF BenchOf, Working, Alive
<1>3. pc[p] = "settle" => Settles(m, Reported(p), prove)
  BY DEF BenchOf, Late
<1>4. ASSUME my'[p] \in Memory, Settles(my'[p], Reported(p), prove), pc'[p] \in {"settle", "write"},
             my'[p].answers = m.answers
      PROVE  BenchOf(p)'
  <2>1. Reported(p)' = Reported(p)
    BY <1>4 DEF Reported
  <2>2. QED
    BY <1>1, <1>2, <1>4, <2>1 DEF BenchOf, Late
<1>5. CASE Reviewed(p)
  <2>1. Clear(m) /\ pc'[p] = "settle"
    BY <1>1, <1>5 DEF BenchOf, Late, Reviewed, Goto
  <2>2. Reported(p) \in Seq(Files) /\ m.usage \in Nat
    BY <1>1, ReportedIsSeq DEF Memory
  <2>3. my'[p] = [m EXCEPT !.queue = Reported(p), !.left = prove, !.usd = m.usage,
                           !.before = m.usage]
    BY <1>1, <1>5 DEF Reviewed
  <2> DEFINE reported == Reported(p)
             cost == m.usage
  <2>4. reported \in Seq(Files) /\ cost \in Nat
        /\ my'[p] = [m EXCEPT !.queue = reported, !.left = prove, !.usd = cost, !.before = cost]
    BY <1>1, <2>2, <2>3
  <2> HIDE DEF reported, cost, m, prove
  <2>5. /\ my'[p] \in Memory /\ my'[p].queue = reported /\ my'[p].settled = <<>>
        /\ my'[p].left = prove /\ my'[p].child = "none" /\ my'[p].answers = m.answers
    BY <1>1, <1>2, <2>1, <2>4 DEF Memory, Clear
  <2>6. /\ FilesOf(<<>>) = <<>> /\ <<>> \o reported = reported /\ Put(<<>>) = {}
        /\ \A answers : Foretold(<<>>, answers) = {} /\ InTurn(<<>>, answers, prove)
    BY <2>4 DEF FilesOf, Put, Foretold, InTurn
  <2>7. Settles(my'[p], reported, prove)
    <3>1. Running(my'[p]) = 0 /\ Cardinality(Put(my'[p].settled)) = 0
      BY <2>5, <2>6, FS_EmptySet DEF Running
    <3>2. Cardinality(Put(my'[p].settled)) + my'[p].left + Running(my'[p]) = prove
      BY <1>2, <2>5, <3>1
    <3>3. PICK n : n = my'[p]
      OBVIOUS
    <3>4. FilesOf(n.settled) \o n.queue = reported /\ DOMAIN n.settled = {} /\ n.child = "none"
      <4>1. n.settled = <<>> /\ n.queue = reported /\ n.child = "none"
        BY <2>5, <3>3
      <4>2. DOMAIN <<>> = {}
        OBVIOUS
      <4> HIDE DEF reported
      <4>3. QED
        BY <2>6, <4>1, <4>2
    <3>5. Put(n.settled) = {} /\ Foretold(n.settled, n.answers) = {}
          /\ InTurn(n.settled, n.answers, prove)
      BY <2>5, <2>6, <3>3
    <3>6. Settles(n, reported, prove)
      BY <3>2, <3>3, <3>4, <3>5 DEF Settles
    <3>7. QED
      BY <3>3, <3>6
  <2>8. QED
    BY <1>4, <2>1, <2>5, <2>7 DEF reported
<1>6. CASE Skip(p)
  <2>1. /\ my'[p] = Keep(m, None, "skipped") /\ pc'[p] = "settle" /\ pc[p] = "settle"
        /\ m.queue # <<>> /\ Running(m) = 0
        /\ m.left = 0 \/ m.answers[Head(m.queue)] \notin Predicted
    <3>1. m.left \in Nat
      BY <1>1 DEF Memory
    <3>2. QED
      BY <1>1, <1>6, <3>1 DEF Skip, Settling, Running, Testable
  <2>2. Room(m, Reported(p), prove, 0)
    <3> HIDE DEF m, prove
    <3>1. QED
      BY <1>3, <2>1 DEF Settles, Room
  <2> HIDE DEF m, prove
  <2>3. /\ Keep(m, None, "skipped") \in Memory
        /\ Settles(Keep(m, None, "skipped"), Reported(p), prove)
        /\ Keep(m, None, "skipped").answers = m.answers
    BY <1>1, <1>2, <2>1, <2>2, KeepBench
  <2>4. QED
    BY <1>4, <2>1, <2>3
<1>7. ASSUME NEW proof \in Proofs, NEW how \in {"ended", "killed"},
             how = "killed" => proof.value = None,
             my' = [my EXCEPT ![p] = Keep(@, proof, how)],
             Settling(p), m.child # "none", pc' = pc
      PROVE  BenchOf(p)'
  <2>1. my'[p] = Keep(m, proof, how) /\ pc'[p] = "settle" /\ pc[p] = "settle" /\ m.queue # <<>>
        /\ Running(m) = 1
    BY <1>1, <1>7 DEF Settling, Running
  <2>2. Room(m, Reported(p), prove, 1) /\ m.answers[Head(m.queue)] \in Predicted
    <3> HIDE DEF m, prove
    <3>1. QED
      BY <1>3, <1>7, <2>1 DEF Settles, Room
  <2>3. proof # None
    BY <1>7, ProofType
  <2> HIDE DEF m, prove
  <2>4. /\ Keep(m, proof, how) \in Memory /\ Settles(Keep(m, proof, how), Reported(p), prove)
        /\ Keep(m, proof, how).answers = m.answers
    BY <1>1, <1>2, <1>7, <2>1, <2>2, <2>3, KeepBench
  <2>5. QED
    BY <1>4, <2>1, <2>4
<1>8. CASE Measure(p)
  <2>1. PICK code \in 0..1, numbers \in {<<>>, <<1, 2>>} :
           my' = [my EXCEPT ![p] = Keep(@, Proof(code, numbers, "other"), "ended")]
    BY <1>8 DEF Measure
  <2>2. PICK proof \in Proofs : proof = Proof(code, numbers, "other")
    BY ProofType
  <2>3. my' = [my EXCEPT ![p] = Keep(@, proof, "ended")]
    BY <2>1, <2>2
  <2>4. Settling(p) /\ m.child # "none" /\ pc' = pc
    BY <1>8 DEF Measure
  <2>5. QED
    BY <1>7, <2>3, <2>4
<1>9. CASE Deadline(p)
  <2>1. PICK proof \in Proofs : proof = Proof(None, <<>>, "nothing") /\ proof.value = None
    BY ProofType
  <2>2. my' = [my EXCEPT ![p] = Keep(@, proof, "killed")]
    BY <1>9, <2>1 DEF Deadline
  <2>3. Settling(p) /\ m.child # "none" /\ pc' = pc
    BY <1>9 DEF Deadline
  <2>4. QED
    BY <1>7, <2>1, <2>2, <2>3
<1>10. CASE Generate(p)
  <2>1. PICK cost \in Nat, raised \in BOOLEAN : Generated(p, cost, raised)
    BY <1>10, GenerateAsks
  <2>2. m.usage \in Nat /\ m.left \in Nat
    BY <1>1 DEF Memory
  <2>3. PICK usage \in Nat : usage = m.usage + Seen(p, cost, raised)
    BY <2>2 DEF Seen
  <2>4. PICK asked : asked = Asked(m, usage)
    OBVIOUS
  <2>5. /\ pc[p] = "settle" /\ pc'[p] = "settle" /\ m.queue # <<>> /\ m.child = "none"
        /\ m.left > 0 /\ m.answers[Head(m.queue)] \in Predicted
        /\ \/ my'[p] = KeepUntested(asked)
           \/ \E child \in {"local", "compose"} : my'[p] = [asked EXCEPT !.child = child]
    <3>1. /\ pc[p] = "settle" /\ pc'[p] = "settle" /\ m.queue # <<>> /\ m.child = "none"
          /\ m.left > 0 /\ m.answers[Head(m.queue)] \in Predicted
      BY <1>10 DEF Generate, Settling, Testable
    <3>2. \/ my' = [my EXCEPT ![p] = KeepUntested(asked)]
          \/ \E child \in {"local", "compose"} :
                my' = [my EXCEPT ![p] = [asked EXCEPT !.child = child]]
      BY <2>1, <2>3, <2>4 DEF Generated
    <3>3. QED
      BY <1>1, <3>1, <3>2
  <2>6. /\ asked \in Memory /\ asked.queue = m.queue /\ asked.settled = m.settled
        /\ asked.answers = m.answers /\ asked.left = m.left - 1 /\ asked.left \in Nat
        /\ asked.child = m.child
    <3>1. PICK left \in Nat : left = m.left - 1
      <4>1. PICK n \in Nat : n = m.left /\ n > 0
        BY <2>2, <2>5
      <4>2. n - 1 \in Nat
        BY <4>1
      <4>3. QED
        BY <4>1, <4>2
    <3>2. asked = [m EXCEPT !.left = left, !.usage = usage]
      BY <2>4, <3>1 DEF Asked
    <3> HIDE DEF m
    <3>3. QED
      BY <1>1, <3>1, <3>2 DEF Memory
  <2>7. Room(asked, Reported(p), prove, 1)
    <3>1. Running(m) = 0
      BY <2>5 DEF Running
    <3> HIDE DEF m, prove
    <3>2. Settles(m, Reported(p), prove)
      BY <1>3, <2>5
    <3>3. m.settled \in Seq(Entries)
      BY <1>1 DEF Memory
    <3>4. PICK c \in Nat : c = Cardinality(Put(m.settled))
      BY <3>3, PutFinite
    <3>5. c + m.left + 0 = prove
      BY <3>1, <3>2, <3>4 DEF Settles
    <3>6. PICK left, less \in Nat : left = m.left /\ less = asked.left /\ less = left - 1
      BY <2>2, <2>6
    <3>7. c + less + 1 = prove
      BY <3>5, <3>6
    <3>8. Put(m.settled) = Foretold(m.settled, m.answers)
      <4>1. m.left + Running(m) > 0
        BY <2>2, <2>5, <3>1
      <4>2. QED
        BY <3>2, <4>1 DEF Settles
    <3>9. Cardinality(Put(asked.settled)) + asked.left + 1 = prove
      BY <2>6, <3>4, <3>6, <3>7
    <3>10. QED
      BY <2>5, <2>6, <3>2, <3>8, <3>9 DEF Settles, Room
  <2>8. CASE my'[p] = KeepUntested(asked)
    <3>1. my'[p] = Keep(asked, None, "refused")
      BY <2>8 DEF KeepUntested
    <3>2. asked.answers[Head(asked.queue)] \in Predicted
      BY <2>5, <2>6
    <3>3. /\ Keep(asked, None, "refused") \in Memory
          /\ Settles(Keep(asked, None, "refused"), Reported(p), prove)
          /\ Keep(asked, None, "refused").answers = asked.answers
      <4> HIDE DEF m, prove
      <4>1. QED
        BY <1>2, <2>6, <2>7, <3>2, KeepBench
    <3>4. QED
      BY <1>4, <2>5, <2>6, <3>1, <3>3
  <2>9. CASE \E child \in {"local", "compose"} : my'[p] = [asked EXCEPT !.child = child]
    <3>1. PICK child \in {"local", "compose"} : my'[p] = [asked EXCEPT !.child = child]
      BY <2>9
    <3>2. /\ my'[p] \in Memory /\ my'[p].queue = m.queue /\ my'[p].settled = m.settled
          /\ my'[p].answers = m.answers /\ my'[p].left = asked.left /\ my'[p].child = child
      BY ONLY <2>6, <3>1, child \in {"local", "compose"} DEF Memory
    <3>3. Settles(my'[p], Reported(p), prove)
      <4> HIDE DEF m, prove
      <4>1. Running(my'[p]) = 1
        BY <3>2 DEF Running
      <4>2. QED
        BY <2>5, <2>6, <2>7, <3>2, <4>1 DEF Settles, Room
    <3>4. QED
      BY <1>4, <2>5, <3>2, <3>3
  <2>10. QED
    BY <2>5, <2>8, <2>9
<1>11. CASE Settled(p)
  <2> DEFINE cost == WithProving(p)
  <2>1. pc[p] = "settle" /\ pc'[p] = "write" /\ my' = [my EXCEPT ![p].usd = cost]
        /\ m.usd = m.before
    BY <1>1, <1>11 DEF Settled, Goto, CostedOf
  <2>2. cost \in Nat
    <3>1. m.usd \in Nat /\ m.before \in Nat /\ m.usage \in Nat
      BY <1>1 DEF Memory
    <3>2. QED
      BY <2>1, <3>1 DEF WithProving
  <2> HIDE DEF cost
  <2>3. my'[p] = [m EXCEPT !.usd = cost]
    BY <1>1, <2>1
  <2> HIDE DEF m, prove
  <2>4. /\ my'[p] \in Memory /\ my'[p].queue = m.queue /\ my'[p].settled = m.settled
        /\ my'[p].answers = m.answers /\ my'[p].left = m.left /\ my'[p].child = m.child
    BY <1>1, <2>2, <2>3 DEF Memory
  <2>5. Settles(my'[p], Reported(p), prove)
    BY <1>3, <2>1, <2>4 DEF Settles, Running
  <2>6. QED
    BY <1>4, <2>1, <2>4, <2>5
<1>12. QED
  BY <1>5, <1>6, <1>8, <1>9, <1>10, <1>11

\* The shape of a process gives the types of what it holds.
LEMMA HeldTypes ==
    ASSUME NEW p, ShapeOf(p)'
    PROVE  /\ my'[p].answers \in [Files -> Answers \cup {None}] /\ my'[p].todo \in SUBSET Files
           /\ my'[p].storing \in {"no", "open", "fill", "move"} \X (Files \cup {None})
<1>1. my'[p].storing = Idle \/ my'[p].storing \in {"open", "fill", "move"} \X Files
  BY DEF ShapeOf
<1>2. my'[p].storing \in {"no", "open", "fill", "move"} \X (Files \cup {None})
  BY <1>1 DEF Idle
<1>3. QED
  BY <1>2 DEF ShapeOf

\* Every step keeps what is known of the experiments of a process.
LEMMA BenchStep ==
    ASSUME Shape, FiledUnderItsModel, Costed, Benches, NEW p \in Procs, Act(p)
    PROVE  Benches'
<1>1. OwnOnly(p) /\ ShapeOf(p) /\ BenchOf(p) /\ DOMAIN my = Procs /\ DOMAIN pc = Procs
      /\ DOMAIN run = Procs
  BY Locality DEF Shape, Benches
<1>2. ASSUME NEW q \in Procs \ {p} PROVE BenchOf(q)'
  <2>1. my'[q] = my[q] /\ pc'[q] = pc[q] /\ run'[q] = run[q] /\ BenchOf(q)
    BY <1>1 DEF OwnOnly, Benches
  <2>2. Reported(q)' = Reported(q)
    BY <2>1 DEF Reported
  <2>3. QED
    BY <2>1, <2>2 DEF BenchOf
<1>3. SUFFICES BenchOf(p)'
  BY <1>2 DEF Benches
<1>4. ASSUME NEW how \in Ends, Exit(p, how) PROVE BenchOf(p)'
  <2>1. my'[p] = Fresh /\ pc'[p] = how /\ how \notin Working /\ how \notin Late
    BY <1>1, <1>4 DEF Exit, Goto, Ends, Working, Alive, Late
  <2>2. QED
    BY <2>1, FreshBench DEF BenchOf
<1>5. CASE Start(p)
  <2>1. PICK s \in Setups[p] :
           LET settings == Load(Filled(Flagged(s.env, s.flags), s.dotenv))
           IN  /\ run' = [run EXCEPT ![p] = Options(s, settings)]
               /\ Goto(p, IF settings.ok THEN "begin" ELSE "refused")
    BY <1>5 DEF Start
  <2> DEFINE settings == Load(Filled(Flagged(s.env, s.flags), s.dotenv))
  <2>2. run'[p] = Options(s, settings) /\ pc'[p] = IF settings.ok THEN "begin" ELSE "refused"
    BY <1>1, <2>1 DEF Goto
  <2> HIDE DEF settings
  <2>3. settings.ok => run'[p].prove \in Nat
    BY <2>2, CommandAssumption DEF Options
  <2>4. my'[p] = my[p] /\ Clear(my[p]) /\ my[p] \in Memory
    BY <1>1, <1>5 DEF Start, BenchOf, Late
  <2>5. QED
    BY <2>2, <2>3, <2>4 DEF BenchOf, Late, Working, Alive
<1>6. CASE Begin(p)
  <2>1. my'[p] = my[p] /\ pc[p] = "begin" /\ pc'[p] = "review" /\ run'[p] = run[p]
    BY <1>1, <1>6 DEF Begin, Goto
  <2>2. QED
    BY <1>1, <2>1 DEF BenchOf, Late, Working, Alive
<1>7. CASE Write(p)
  <2>1. my' = my /\ my'[p] = my[p] /\ pc[p] = "write" /\ pc'[p] = "finish" /\ run'[p] = run[p]
    BY <1>1, <1>7 DEF Write, Goto
  <2>2. Reported(p)' = Reported(p)
    BY <2>1 DEF Reported
  <2>3. QED
    BY <1>1, <2>1, <2>2 DEF BenchOf, Late, Working, Alive
<1>8. ASSUME NEW f \in Files, Recall(p, f) \/ Ask(p, f) PROVE BenchOf(p)'
  <2>1. Asks(p, f) /\ UNCHANGED <<pc, run>>
    BY <1>8 DEF Recall, Ask
  <2>2. ShapeOf(p)'
    BY <1>8, AnswerShape
  <2>3. my[p].usage \in Nat /\ DOMAIN my[p] = Fields /\ DOMAIN my[p].answers = Files
    BY <1>1 DEF BenchOf, Memory, ShapeOf
  <2>4. PICK a, storing, usage :
           /\ usage \in Nat
           /\ my'[p] = [my[p] EXCEPT !.answers[f] = a, !.todo = @ \ {f}, !.storing = storing,
                                     !.usage = usage]
    <3>1. CASE Recall(p, f)
      <4> DEFINE a == Kept(MemoPath(p, f))
      <4>1. my' = [my EXCEPT ![p].answers[f] = a, ![p].todo = @ \ {f}]
        BY <3>1 DEF Recall
      <4> HIDE DEF a
      <4>2. my'[p] = [my[p] EXCEPT !.answers[f] = a, !.todo = @ \ {f}]
        BY <1>1, <4>1
      <4>3. my'[p] = [my[p] EXCEPT !.answers[f] = a, !.todo = @ \ {f}, !.storing = my[p].storing,
                                   !.usage = my[p].usage]
        BY <2>3, <4>2 DEF Fields
      <4>4. QED
        BY <2>3, <4>3
    <3>2. CASE Ask(p, f)
      <4>1. PICK a, cost, keeps : Answered(p, f, a, cost, keeps)
        BY <3>2, AskAnswers
      <4> DEFINE storing == IF keeps THEN <<"open", f>> ELSE my[p].storing
                 usage == my[p].usage + Seen(p, cost, a = None)
      <4>2. my'[p] = [my[p] EXCEPT !.answers[f] = a, !.todo = @ \ {f}, !.storing = storing,
                                   !.usage = usage]
        BY <1>1, <4>1 DEF Answered
      <4>3. usage \in Nat
        BY <2>3, <4>1 DEF Answered, Seen
      <4> HIDE DEF storing, usage
      <4>4. QED
        BY <4>2, <4>3
    <3>3. QED
      BY <1>8, <3>1, <3>2
  <2>5. my'[p].answers = [my[p].answers EXCEPT ![f] = a] /\ my'[p].storing = storing
        /\ my'[p].todo = my[p].todo \ {f}
    BY <2>3, <2>4 DEF Fields
  <2>6. /\ my'[p].answers \in [Files -> Answers \cup {None}] /\ my'[p].todo \in SUBSET Files
        /\ my'[p].storing \in {"no", "open", "fill", "move"} \X (Files \cup {None})
    BY <2>2, HeldTypes
  <2>7. my'[p] = [my[p] EXCEPT !.answers = my'[p].answers, !.todo = my'[p].todo,
                               !.storing = my'[p].storing, !.usage = usage]
    BY <2>3, <2>4, <2>5 DEF Fields
  <2>8. pc[p] = "review" /\ pc'[p] = "review" /\ run'[p] = run[p]
    BY <2>1 DEF Asks
  <2>9. PICK answers, todo, kept : answers = my'[p].answers /\ todo = my'[p].todo
                                    /\ kept = my'[p].storing
    OBVIOUS
  <2>10. /\ answers \in [Files -> Answers \cup {None}] /\ todo \in SUBSET Files
         /\ kept \in {"no", "open", "fill", "move"} \X (Files \cup {None}) /\ usage \in Nat
         /\ my'[p] = Reviewing(my[p], answers, todo, kept, usage)
    BY <2>4, <2>6, <2>7, <2>9 DEF Reviewing
  <2>11. QED
    BY <1>1, <2>8, <2>10, EarlyBench
<1>9. CASE Remember(p) \/ CannotRemember(p)
  <2>1. pc[p] = "review" /\ pc' = pc /\ run' = run /\ my[p].storing # Idle
    BY <1>1, <1>9 DEF Remember, CannotRemember, ShapeOf, Idle
  <2>2. /\ my'[p].storing \in {"no", "open", "fill", "move"} \X (Files \cup {None})
        /\ my'[p].answers \in [Files -> Answers \cup {None}]
    BY <1>9, RememberShape, CannotRememberShape, HeldTypes
  <2>3. my[p] \in Memory /\ my[p].usage \in Nat /\ my[p].todo \in SUBSET Files
    BY <1>1 DEF BenchOf, Memory
  <2>4. my'[p] = [my[p] EXCEPT !.answers = my'[p].answers, !.todo = my[p].todo,
                               !.storing = my'[p].storing, !.usage = my[p].usage]
    <3>1. CASE \E storing : my' = [my EXCEPT ![p].storing = storing]
      <4>1. PICK storing : my'[p] = [my[p] EXCEPT !.storing = storing]
        BY <1>1, <3>1
      <4>2. QED
        BY <2>3, <4>1 DEF Memory
    <3>2. CASE my' = [my EXCEPT ![p] = Unkept(@, my[p].storing[2], run[p].record)]
      <4>1. /\ my'[p] = [my[p] EXCEPT !.answers = my'[p].answers, !.todo = my[p].todo,
                                      !.storing = Idle]
            /\ my'[p].storing = Idle
        BY <2>1, <3>2, UnkeptFacts
      <4>2. QED
        BY <2>3, <4>1 DEF Memory
    <3>3. QED
      BY <1>9, <3>1, <3>2 DEF Remember, CannotRemember
  <2>5. PICK answers, todo, kept, usage : answers = my'[p].answers /\ todo = my[p].todo
                                           /\ kept = my'[p].storing /\ usage = my[p].usage
    OBVIOUS
  <2>6. /\ answers \in [Files -> Answers \cup {None}] /\ todo \in SUBSET Files
        /\ kept \in {"no", "open", "fill", "move"} \X (Files \cup {None}) /\ usage \in Nat
        /\ my'[p] = Reviewing(my[p], answers, todo, kept, usage)
    BY <2>2, <2>3, <2>4, <2>5 DEF Reviewing
  <2>7. pc[p] = "review" /\ pc'[p] = "review" /\ run'[p] = run[p]
    BY <2>1
  <2>8. QED
    BY <1>1, <2>6, <2>7, EarlyBench
<1>10. CASE ReviewFails(p) \/ CannotWrite(p) \/ Die(p) \/ Finish(p)
  BY <1>4, <1>10 DEF ReviewFails, CannotWrite, Die, Finish, Ends
<1>11. CASE Reviewed(p) \/ Skip(p) \/ Generate(p) \/ Measure(p) \/ Deadline(p) \/ Settled(p)
  BY <1>1, <1>11, SettleBench
<1>12. QED
  BY <1>5, <1>6, <1>7, <1>8, <1>9, <1>10, <1>11 DEF Act, Step

\* Every step changes at most the entry of its process.
LEMMA TablesStep ==
    ASSUME Tables, NEW p \in Procs, Act(p)
    PROVE  Tables'
<1>1. ASSUME NEW v, NEW w, pc' = pc \/ pc' = [pc EXCEPT ![p] = v],
             fd' = fd \/ fd' = [fd EXCEPT ![p] = w]
      PROVE  Tables'
  BY <1>1 DEF Tables
<1>2. ASSUME NEW how, Exit(p, how) PROVE Tables'
  BY <1>1, <1>2 DEF Exit, Goto
<1>3. CASE Start(p)
  BY <1>1, <1>3 DEF Start, Goto, memoVars
<1>4. CASE Begin(p) \/ Write(p) \/ Reviewed(p) \/ Settled(p)
  BY <1>1, <1>4 DEF Begin, Write, Reviewed, Settled, Goto, memoVars
<1>5. CASE (\E f \in Files : Recall(p, f) \/ Ask(p, f)) \/ Skip(p) \/ Generate(p) \/ Measure(p)
           \/ Deadline(p)
  <2>1. UNCHANGED <<pc, fd>>
    BY <1>5 DEF Recall, Ask, Skip, Generate, Measure, Deadline, memoVars
  <2>2. QED
    BY <1>1, <2>1
<1>6. CASE Remember(p) \/ CannotRemember(p)
  <2>1. pc' = pc
    BY <1>6 DEF Remember, CannotRemember
  <2>2. \E w : fd' = fd \/ fd' = [fd EXCEPT ![p] = w]
    BY <1>6 DEF Remember, CannotRemember, Open, Fill, Replace
  <2>3. QED
    BY <1>1, <2>1, <2>2
<1>7. CASE ReviewFails(p) \/ CannotWrite(p) \/ Die(p) \/ Finish(p)
  BY <1>2, <1>7 DEF ReviewFails, CannotWrite, Die, Finish
<1>8. QED
  BY <1>3, <1>4, <1>5, <1>6, <1>7 DEF Act, Step

-----------------------------------------------------------------------------
\* The invariant holds before any command has started.
LEMMA CommandInit == Init => CommandIInv
<1> SUFFICES ASSUME Init PROVE CommandIInv
  OBVIOUS
<1>1. PICK left \in Shipped : MemoInit(left)
  BY DEF Init
<1>2. /\ pc = [p \in Procs |-> "new"] /\ run = [p \in Procs |-> Refused]
      /\ my = [p \in Procs |-> Fresh] /\ fd = [p \in Procs |-> Closed]
      /\ billed = [p \in Procs |-> 0] /\ unseen = [p \in Procs |-> 0]
      /\ finished = [p \in Procs |-> None] /\ contested = {} /\ overlapped = {}
  BY <1>1 DEF Init, MemoInit
<1>3. /\ left \in [Keys -> Answers \cup {NoFile}]
      /\ \A k \in Keys : left[k] # NoFile => By[left[k]] = k[2]
      /\ NoFile \notin Procs /\ Earlier \notin Procs /\ Earlier # NoFile /\ Half \notin Answers
  BY CommandAssumption
<1>4. /\ entry = [k \in Keys |-> IF left[k] = NoFile THEN NoFile ELSE Earlier]
      /\ partial = [k \in Keys |-> NoFile]
      /\ content = [k \in Keys |-> [i \in Inodes |->
                       IF i = Earlier /\ left[k] # NoFile THEN left[k] ELSE Half]]
  BY <1>1 DEF MemoInit
<1>5. \A p \in Procs : ShapeOf(p)
  BY <1>2, FreshShape DEF ShapeOf, Alive, Working
<1>6. Shape
  <2>1. /\ DOMAIN pc = Procs /\ DOMAIN run = Procs /\ DOMAIN my = Procs /\ DOMAIN fd = Procs
        /\ DOMAIN finished = Procs /\ billed \in [Procs -> Nat] /\ unseen \in [Procs -> Nat]
    BY <1>2
  <2>2. entry \in [Keys -> Inodes \cup {NoFile}] /\ partial \in [Keys -> Procs \cup {NoFile}]
    BY <1>4 DEF Inodes
  <2>3. content \in [Keys -> [Inodes -> Answers \cup {Half}]]
    BY <1>3, <1>4
  <2>4. QED
    BY <1>5, <2>1, <2>2, <2>3 DEF Shape
<1>7. FiledUnderItsModel
  BY <1>3, <1>4 DEF FiledUnderItsModel
<1>8. \A p \in Procs : /\ \A f \in Files : my[p].answers[f] = None
                       /\ my[p].storing = Idle /\ my[p].storing[1] = "no"
  BY <1>2, FreshShape
<1>9. NoFalseCredit /\ RecordingsDecide /\ OneAsker /\ overlapped \subseteq contested
  BY <1>2, <1>8 DEF NoFalseCredit, RecordingsDecide, OneAsker, Holding
<1>10. Costed
  BY <1>2 DEF Costed, CostedOf, Working, Alive
<1>11. Unnamed
  BY <1>3, <1>4 DEF Unnamed
<1>12. OneWriter
  <2>1. \A p \in Procs, k \in Keys : ~Storing(p, k)
    BY <1>8 DEF Storing
  <2>2. ASSUME NEW k \in Keys, Lies(k) PROVE Kept(k) # Half
    <3>1. left[k] # NoFile /\ entry[k] = Earlier
      BY <1>4, <2>2 DEF Lies
    <3>2. content[k][Earlier] = left[k]
      BY <1>4, <3>1 DEF Inodes
    <3>3. QED
      BY <1>3, <3>1, <3>2 DEF Kept
  <2>3. QED
    BY <1>4, <2>1, <2>2 DEF OneWriter
<1>13. Benches
  BY <1>2, FreshBench DEF Benches, BenchOf, Late, Working
<1>14. Tables
  BY <1>2 DEF Tables
<1>15. QED
  BY <1>6, <1>7, <1>9, <1>10, <1>11, <1>12, <1>13, <1>14 DEF CommandIInv

\* Every step of every process keeps the invariant.
LEMMA CommandNext == CommandIInv /\ [Next]_vars => CommandIInv'
<1> SUFFICES ASSUME CommandIInv, [Next]_vars PROVE CommandIInv'
  OBVIOUS
<1>1. Shape /\ Credit /\ Costed /\ Whole /\ Solo /\ Benches /\ Tables /\ FiledUnderItsModel
  BY DEF CommandIInv, Credit, Whole, Solo
<1>2. ASSUME NEW p \in Procs, Act(p) PROVE CommandIInv'
  <2>1. Shape' /\ Credit' /\ Costed' /\ Whole' /\ Solo' /\ Benches' /\ Tables'
    BY <1>1, <1>2, ShapeStep, CreditStep, CostedStep, WholeStep, SoloStep, BenchStep, TablesStep
  <2>2. QED
    BY <2>1 DEF CommandIInv, Credit, Whole, Solo
<1>3. CASE UNCHANGED vars
  <2>1. /\ pc' = pc /\ run' = run /\ my' = my /\ billed' = billed /\ unseen' = unseen
        /\ finished' = finished /\ contested' = contested /\ overlapped' = overlapped
        /\ entry' = entry /\ partial' = partial /\ content' = content /\ fd' = fd
    BY <1>3 DEF vars, memoVars
  <2>2. Shape'
    BY <1>1, <2>1 DEF Shape, ShapeOf, Of, MemoPath, CassettePath, Key
  <2>3. FiledUnderItsModel' /\ NoFalseCredit'
    BY <1>1, <2>1 DEF Credit, FiledUnderItsModel, NoFalseCredit
  <2>4. Costed'
    BY <1>1, <2>1 DEF Costed, CostedOf
  <2>5. Unnamed'
    BY <1>1, <2>1 DEF Whole, Unnamed, MayOpen, Of, MemoPath, CassettePath, Key
  <2>6. OneWriter'
    BY <1>1, <2>1 DEF Whole, OneWriter, Storing, Lies, Kept, Of, MemoPath, CassettePath, Key
  <2>7. (overlapped \subseteq contested)' /\ OneAsker'
    BY <1>1, <2>1 DEF Solo, OneAsker, Holding, Lies, Of, MemoPath, CassettePath, Key
  <2>8. RecordingsDecide'
    BY <1>1, <2>1 DEF Solo, RecordingsDecide, Cassettes, Lies, Kept, CassettePath, Key
  <2>9. Benches'
    BY <1>1, <2>1 DEF Benches, BenchOf, Reported
  <2>10. Tables'
    BY <1>1, <2>1 DEF Tables
  <2>11. QED
    BY <2>2, <2>3, <2>4, <2>5, <2>6, <2>7, <2>8, <2>9, <2>10 DEF CommandIInv
<1>4. QED
  BY <1>2, <1>3 DEF Next, Act

\* What runs over one repository owe to each other holds however many there are
\* and wherever each of them is killed.
THEOREM CommandInvariance == Spec => []CommandIInv
BY CommandInit, CommandNext, PTL DEF Spec

\* No run is credited with an answer of a model it did not use, whatever the
\* memo and the recordings of its machine held before it and hold meanwhile.
THEOREM NobodyIsCreditedFalsely == Spec => []NoFalseCredit
<1>1. CommandIInv => NoFalseCredit
  BY DEF CommandIInv
<1>2. QED
  BY <1>1, CommandInvariance, PTL

\* A run that records or replays says what is recorded, and goes on saying it
\* whatever is recorded beside it, as long as no two runs ask one question at once.
\* Where two do it promises nothing: each may miss the other's recording, ask for
\* itself, and replace it.
THEOREM WhatIsRecordedIsSaid == Spec => []RecordingsDecide
<1>1. CommandIInv => RecordingsDecide
  BY DEF CommandIInv
<1>2. QED
  BY <1>1, CommandInvariance, PTL

\* The memo and the recordings keep a torn answer only for a question two runs
\* were writing at once: a run killed between two calls of the file system leaves
\* every file whole.
THEOREM OneWriterTearsNothing == Spec => []TornOnlyByOverlap
<1>1. CommandIInv => TornOnlyByOverlap
  BY DEF CommandIInv, OneWriter, TornOnlyByOverlap
<1>2. QED
  BY <1>1, CommandInvariance, PTL

\* The history remembers a finished run by what the provider charged for it, less
\* what the raised calls of a run that records cost: those are in no usage, and
\* there are none in a run that does not record.
THEOREM EveryCentIsPublished == Spec => []PaidIsPublished
<1>1. ASSUME CommandIInv, NEW p \in Procs
      PROVE  /\ finished[p] # None => finished[p] + unseen[p] = billed[p]
             /\ unseen[p] > 0 /\ pc[p] \in Alive => run[p].record
  <2>1. CostedOf(p) /\ unseen[p] \in Nat
    BY <1>1 DEF CommandIInv, Costed, Shape
  <2>2. unseen[p] > 0 /\ pc[p] \in Alive => pc[p] \in Working
    BY <2>1 DEF CostedOf, Working
  <2>3. QED
    BY <2>1, <2>2 DEF CostedOf
<1>2. CommandIInv => PaidIsPublished
  BY <1>1 DEF PaidIsPublished
<1>3. QED
  BY <1>2, CommandInvariance, PTL

\* Settling loses no finding, puts the first that carry a prediction to an
\* experiment, as many as were asked for and no other, and invents no measurement,
\* however many findings there are, whatever becomes of each experiment and
\* wherever a run is killed.
THEOREM NoFindingIsLost == Spec => []SettlingKeepsFindings
<1>1. ASSUME CommandIInv, NEW p \in Procs, pc[p] \in Late
      PROVE  LET done == my[p].settled
                 predicted(i) == my[p].answers[done[i].file] \in Predicted
                 before(i) == {j \in 1..(i - 1) : predicted(j)}
             IN  /\ [i \in DOMAIN done |-> done[i].file] \o my[p].queue = Reported(p)
                 /\ \A i \in DOMAIN done :
                       /\ done[i].how # "skipped"
                             <=> predicted(i) /\ Cardinality(before(i)) < run[p].prove
                       /\ done[i].proof # None <=> done[i].how \in {"ended", "killed"}
                       /\ done[i].how = "killed" => done[i].proof.value = None
  <2>1. Settles(my[p], Reported(p), run[p].prove)
    BY <1>1 DEF CommandIInv, Benches, BenchOf
  <2>2. PICK done, answers : done = my[p].settled /\ answers = my[p].answers
    OBVIOUS
  <2>3. FilesOf(done) \o my[p].queue = Reported(p)
    BY <2>1, <2>2 DEF Settles
  <2>4. ASSUME NEW i \in DOMAIN done
        PROVE  /\ done[i].how # "skipped" <=>
                     /\ answers[done[i].file] \in Predicted
                     /\ Cardinality({j \in 1..(i - 1) : answers[done[j].file] \in Predicted})
                           < run[p].prove
               /\ Graded(done[i])
    BY <2>1, <2>2 DEF Settles, InTurn, Put
  <2>5. QED
    BY <2>2, <2>3, <2>4 DEF FilesOf, Graded
<1>2. CommandIInv => SettlingKeepsFindings
  BY <1>1 DEF SettlingKeepsFindings, Late
<1>3. QED
  BY <1>2, CommandInvariance, PTL

\* Each process and the files of the memo and the recordings keep their types.
THEOREM CommandTypeCorrect == Spec => []TypeOK
<1>1. ASSUME CommandIInv PROVE TypeOK
  <2>1. Shape /\ Benches
    BY <1>1 DEF CommandIInv
  <2>2. \A p \in Procs : pc[p] \in Alive \cup Ends /\ my[p] \in Memory
    BY <2>1 DEF Shape, ShapeOf, Benches, BenchOf
  <2>3. ASSUME NEW p \in Procs PROVE fd[p] \in {Closed} \cup (Keys \X Procs)
    <3>1. CASE my[p].storing[1] = "fill"
      <4>1. PICK q \in Procs : fd[p] = <<Of(p, my[p].storing[2]), q>>
        BY <2>1, <3>1 DEF Shape, ShapeOf
      <4>2. my[p].storing[2] \in Files /\ pc[p] \in Working
        BY <2>1, <3>1 DEF Shape, ShapeOf, Idle, Working, Alive
      <4>3. Of(p, my[p].storing[2]) \in Keys
        BY <2>1, <4>2, QuestionIsKey
      <4>4. QED
        BY <4>1, <4>3
    <3>2. CASE my[p].storing[1] # "fill"
      BY <2>1, <3>2 DEF Shape, ShapeOf
    <3>3. QED
      BY <3>1, <3>2
  <2>4. Tables
    BY <1>1 DEF CommandIInv
  <2>5. pc \in [Procs -> Alive \cup Ends]
    BY <2>2, <2>4 DEF Tables
  <2>6. fd \in [Procs -> {Closed} \cup (Keys \X Procs)]
    BY <2>3, <2>4 DEF Tables
  <2>7. \A k \in Keys : entry[k] \in Inodes \cup {NoFile} /\ partial[k] \in Procs \cup {NoFile}
    BY <2>1 DEF Shape
  <2>8. QED
    BY <2>2, <2>5, <2>6, <2>7 DEF TypeOK
<1>2. QED
  BY <1>1, CommandInvariance, PTL
=============================================================================

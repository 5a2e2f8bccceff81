-------------------------- MODULE Pipeline_proofs --------------------------
(***************************************************************************)
(* What is proved of a review: what it advises of a deployment, what its   *)
(* coverage counts, what its steps do to the screen of a viewer, and how   *)
(* deep the path it draws is.                                              *)
(***************************************************************************)
EXTENDS Pipeline, Basics_proofs, FunctionTheorems, SequenceTheorems

(* The advice about a service's workers. *)

\* Division rounds down.
LEMMA Divided ==
    ASSUME NEW n \in Int, NEW k \in Int, k >= 1
    PROVE  /\ n \div k \in Int
           /\ (n \div k) * k <= n
           /\ n < (n \div k + 1) * k
PROOF OBVIOUS

\* The larger of two integers.
LEMMA Larger ==
    ASSUME NEW a \in Int, NEW b \in Int, a <= b
    PROVE  Max({a, b}) = b
<1>1. \A x \in {a, b} : (\A y \in {a, b} : x >= y) => x = b
  OBVIOUS
<1>2. b \in {a, b} /\ \A y \in {a, b} : b >= y
  OBVIOUS
<1>. QED  BY <1>1, <1>2 DEF Max

\* What a service opens, as so many times what one worker of each replica does.
LEMMA Opened ==
    ASSUME NEW r \in Int, NEW w \in Int, NEW e \in Int
    PROVE  r * w * e = w * (r * e) /\ r * e \in Int /\ w * (r * e) \in Int
PROOF OBVIOUS

\* The arithmetic of one service, whatever the numbers.
LEMMA Fits ==
    ASSUME NEW k \in Int, k >= 1, NEW w \in Int, NEW budget \in Int
    PROVE  LET advised == budget \div Max({1, k})
           IN  /\ advised \in Int
               /\ advised * k <= budget /\ (advised + 1) * k > budget
<1>1. Max({1, k}) = k
  BY Larger
<1>. QED  BY <1>1, Divided

\* A count times what is nothing, or less, is no more than nothing.
LEMMA NoMoreThanNothing ==
    ASSUME NEW w \in Int, NEW k \in Int, w >= 0, k <= 0
    PROVE  w * k <= 0
PROOF OBVIOUS

\* A service that declares its factors is reported exactly when it may open too
\* many backends, and is then told the most workers that fit.
LEMMA OneServiceFits ==
    ASSUME NEW name \in DOMAIN Repositories,
           NEW file \in {f \in ToSet(Repositories[name].files) : f.is = "compose"},
           NEW spec \in {s \in ToSet(file.content) : Declares(s)}
    PROVE  LET budget == Allows(file.content) - SuperuserReserved
               advice == ConnectionFindings(file, spec, file.content)
           IN  /\ (advice # {}) = (WorstCase(spec, Workers(spec)) > budget)
               /\ \A a \in advice : /\ WorstCase(spec, a.workers) <= budget
                                    /\ WorstCase(spec, a.workers + 1) > budget
<1>. DEFINE r == Replicas(spec)
            w == Workers(spec)
            e == PerWorker(spec)
            k == r * e
            budget == Allows(file.content) - SuperuserReserved
            advice == ConnectionFindings(file, spec, file.content)
            advised == budget \div Max({1, k})
<1>1. /\ r \in Int /\ w \in Int /\ e \in Int /\ budget \in Int /\ k \in Int
      /\ w >= 0 /\ (budget >= 0 \/ k >= 1)
  <2>1. Allows(file.content) \in Int
    BY FactorsAreCounts
  <2>2. /\ Workers(spec) \in Int /\ FirstStated(spec.pool) \in Int /\ Replicas(spec) \in Int
        /\ OrElse(FirstStated(spec.overflow), 0) \in Int
        /\ Workers(spec) >= 0
        /\ Allows(file.content) >= SuperuserReserved \/ Replicas(spec) * PerWorker(spec) >= 1
    BY FactorsAreCounts
  <2>3. PerWorker(spec) \in Int
    BY <2>2 DEF PerWorker
  <2>. QED  BY <2>1, <2>2, <2>3 DEF SuperuserReserved
<1>2. \A x \in Int : WorstCase(spec, x) = x * k
  <2>1. \A x : WorstCase(spec, x) = r * x * e
    BY DEF WorstCase, PerWorker
  <2>. HIDE DEF r, e
  <2>. QED  BY <1>1, <2>1, Opened
<1>3. advice = IF r * w * e <= budget THEN {}
               ELSE {[rule |-> "quota-without-replicas-arithmetic", path |-> file.path,
                      line |-> spec.line, workers |-> advised,
                      pool |-> Max({0, (budget \div Max({1, r * w}))
                                          - OrElse(FirstStated(spec.overflow), 0)})]}
  BY DEF ConnectionFindings, EachWorker
<1>4. \A a \in advice : a.workers = advised
  <2>. HIDE DEF advised, r, w, e, budget, advice
  <2>. QED  BY <1>3
<1>5. r * w * e = WorstCase(spec, w) /\ WorstCase(spec, w) = w * k /\ WorstCase(spec, w) \in Int
  <2>. HIDE DEF r, w, e
  <2>. QED  BY <1>1, <1>2, Opened
<1>6. (advice # {}) = (WorstCase(spec, w) > budget)
  <2>. HIDE DEF advised, r, w, e, k, budget, advice
  <2>1. advice # {} <=> ~(r * w * e <= budget)
    BY <1>3
  <2>. QED  BY <1>1, <1>5, <2>1
<1>7. ASSUME k >= 1
      PROVE  advised \in Int /\ advised * k <= budget /\ (advised + 1) * k > budget
  <2>1. k \in Int
    BY <1>1
  <2>. HIDE DEF r, e, k, budget
  <2>. QED  BY <1>1, <1>7, <2>1, Fits
<1>8. ASSUME ~(k >= 1)
      PROVE  advice = {}
  <2>. HIDE DEF advised, r, w, e, k, budget, advice
  <2>1. w * k <= 0
    BY <1>1, <1>8, NoMoreThanNothing
  <2>2. r * w * e <= budget
    BY <1>1, <1>5, <1>8, <2>1
  <2>. QED  BY <1>3, <2>2
<1>9. \A a \in advice : /\ WorstCase(spec, a.workers) <= budget
                        /\ WorstCase(spec, a.workers + 1) > budget
  <2>. HIDE DEF advised, k, budget, advice
  <2>1. CASE k >= 1
    BY <1>2, <1>4, <1>7, <2>1
  <2>2. CASE ~(k >= 1)
    BY <1>8, <2>2
  <2>. QED  BY <2>1, <2>2
<1>. QED  BY <1>6, <1>9

\* The review is of the repository it began with.
OneRepository == repo \in DOMAIN Repositories

\* The repository never changes while it is reviewed.
LEMMA RepositoryStays == Spec => []OneRepository
<1>1. Init => OneRepository
  BY DEF Init, OneRepository
<1>2. OneRepository /\ [Next]_vars => OneRepository'
  <2>1. [Next]_vars => repo' = repo
    BY DEF Next, vars, Break, Refuse, EndFailed, SurveyStep, MapStep, AuditAsks, PoolAnswers,
           AuditEnds, Deliver, Search, Searched, Announce, Select, Read, Route, Lose, Answer, Fail,
           Conclude, Observe, Complete
  <2>. QED  BY <2>1 DEF OneRepository
<1>. QED  BY <1>1, <1>2, PTL DEF Spec

\* The connection arithmetic (checks.py, _connection_arithmetic): a service of a
\* compose file is reported exactly when its worst case is over the budget, and
\* the number of workers advised fits with no room for another.
THEOREM AdviceAlwaysFits == Spec => []WorkersAdviceFits
<1>1. OneRepository => WorkersAdviceFits
  BY OneServiceFits DEF OneRepository, WorkersAdviceFits
<1>. QED  BY <1>1, RepositoryStays, PTL

-----------------------------------------------------------------------------
(* What saying steps one after the other does to the screen. *)

\* The recursion the fold of a sequence satisfies, on the sets of its places.
FoldStep(base, seq, g, s) == IF s = {} THEN base ELSE Fold(g[s \ {Max(s)}], seq[Max(s)])
FoldOn(base, seq, S) == CHOOSE g : g = [s \in SUBSET S |-> FoldStep(base, seq, g, s)]

\* The screen a sequence of steps makes of a screen.
Shown(base, seq) == FoldLeft(Fold, base, seq)

\* The fold of the page's steps is that recursion, on the set of all places.
LEMMA FoldUnfolds ==
    ASSUME NEW base, NEW seq
    PROVE  Shown(base, seq) = FoldOn(base, seq, DOMAIN seq)[DOMAIN seq]
PROOF BY DEF Shown, FoldLeft, MapThenFoldSet, FoldOn, FoldStep

\* There is a function that satisfies it.
LEMMA FoldUpTo ==
    ASSUME NEW base, NEW seq, NEW n \in Nat
    PROVE  \E g : g = [s \in SUBSET (1..n) |-> FoldStep(base, seq, g, s)]
<1>. DEFINE Solved == {k \in Nat : \E g : g = [s \in Small(1..n, k) |-> FoldStep(base, seq, g, s)]}
            S == 1..n
<1>0. IsFiniteSet(S) /\ Cardinality(S) = n
  BY FS_Interval
<1>1. \A t \in SUBSET S : IsFiniteSet(t) /\ Cardinality(t) \in Nat /\ (Cardinality(t) = 0 <=> t = {})
  BY <1>0, FS_Subset, FS_CardinalityType, FS_EmptySet
<1>2. \A t \in SUBSET S : t # {} =>
         /\ Max(t) \in t /\ t \ {Max(t)} \in SUBSET S
         /\ Cardinality(t \ {Max(t)}) = Cardinality(t) - 1
  BY <1>1, FS_RemoveElement, LargestMember
<1>3. 0 \in Solved
  <2>. DEFINE g == [s \in Small(S, 0) |-> base]
  <2>1. \A s \in Small(S, 0) : s = {}
    BY <1>1 DEF Small
  <2>2. \A s \in Small(S, 0) : FoldStep(base, seq, g, s) = base
    BY <2>1 DEF FoldStep
  <2>3. g = [s \in Small(S, 0) |-> FoldStep(base, seq, g, s)]
    BY <2>2
  <2>. HIDE DEF g
  <2>4. \E h : h = [s \in Small(S, 0) |-> FoldStep(base, seq, h, s)]
    BY <2>3
  <2>. QED  BY <2>4
<1>4. ASSUME NEW k \in Nat, k \in Solved PROVE k + 1 \in Solved
  <2>1. PICK g : g = [s \in Small(S, k) |-> FoldStep(base, seq, g, s)]
    BY <1>4
  <2>. DEFINE h == [s \in Small(S, k + 1) |-> FoldStep(base, seq, g, s)]
  <2>2. \A s \in Small(S, k) : s \in Small(S, k + 1)
    BY <1>1 DEF Small
  <2>3. \A s \in Small(S, k) : h[s] = g[s]
    <3>1. \A s \in Small(S, k) : g[s] = FoldStep(base, seq, g, s)
      BY <2>1
    <3>. QED  BY <2>2, <3>1
  <2>4. \A s \in Small(S, k + 1) : s # {} => s \ {Max(s)} \in Small(S, k)
    BY <1>1, <1>2 DEF Small
  <2>5. \A s \in Small(S, k + 1) : FoldStep(base, seq, g, s) = FoldStep(base, seq, h, s)
    <3>. HIDE DEF h
    <3>. QED  BY <2>3, <2>4 DEF FoldStep
  <2>6. h = [s \in Small(S, k + 1) |-> FoldStep(base, seq, h, s)]
    <3>1. h = [s \in Small(S, k + 1) |-> FoldStep(base, seq, g, s)]
      OBVIOUS
    <3>. HIDE DEF h
    <3>. QED  BY <2>5, <3>1
  <2>7. \E q : q = [s \in Small(S, k + 1) |-> FoldStep(base, seq, q, s)]
    <3>. HIDE DEF h
    <3>. QED  BY <2>6
  <2>. QED  BY <2>7
<1>5. Nat \subseteq Solved
  <2>. HIDE DEF Solved
  <2>. QED  BY <1>3, <1>4, CountInduction
<1>6. \E g : g = [s \in Small(S, n) |-> FoldStep(base, seq, g, s)]
  BY <1>5
<1>7. Small(S, n) = SUBSET S
  <2>1. \A t \in SUBSET S : Cardinality(t) <= n
    BY <1>0, FS_Subset
  <2>. QED  BY <2>1 DEF Small
<1>. QED  BY <1>6, <1>7

\* The screens from first to last, one step apart.
Trace(v, base, seq, n) ==
    /\ v[0] = base
    /\ \A i \in 1..n : v[i] = Fold(v[i - 1], seq[i])
    /\ Shown(base, seq) = v[n]

\* So what a viewer is shown after n steps is reached one step at a time.
LEMMA FoldTrace ==
    ASSUME NEW base, NEW seq, NEW n \in Nat, DOMAIN seq = 1..n
    PROVE  \E v : Trace(v, base, seq, n)
<1>. DEFINE g == FoldOn(base, seq, 1..n)
            v == [i \in 0..n |-> g[1..i]]
<1>1. g = [s \in SUBSET (1..n) |-> FoldStep(base, seq, g, s)]
  BY FoldUpTo DEF FoldOn
<1>2. \A s \in SUBSET (1..n) : g[s] = FoldStep(base, seq, g, s)
  <2>. HIDE DEF g
  <2>. QED  BY <1>1
<1>. HIDE DEF g
<1>3. v[0] = base
  <2>1. 1..0 = {} /\ 0 \in 0..n
    OBVIOUS
  <2>2. g[{}] = FoldStep(base, seq, g, {})
    BY <1>2
  <2>3. g[{}] = base
    BY <2>2 DEF FoldStep
  <2>4. v[0] = g[{}]
    BY <2>1
  <2>. QED  BY <2>3, <2>4
<1>4. ASSUME NEW i \in 1..n PROVE v[i] = Fold(v[i - 1], seq[i])
  <2>1. 1..i # {} /\ 1..i \in SUBSET (1..n)
    OBVIOUS
  <2>2. Max(1..i) = i
    <3>1. Max(1..i) \in 1..i /\ \A j \in 1..i : j <= Max(1..i)
      BY <2>1, LargestMember
    <3>2. i \in 1..i
      OBVIOUS
    <3>. DEFINE top == Max(1..i)
    <3>3. top \in 1..i /\ i <= top
      BY <3>1, <3>2
    <3>. HIDE DEF top
    <3>4. top = i
      BY <3>3
    <3>. QED  BY <3>4 DEF top
  <2>3. (1..i) \ {i} = 1..(i - 1)
    OBVIOUS
  <2>4. g[1..i] = Fold(g[1..(i - 1)], seq[i])
    BY <1>2, <2>1, <2>2, <2>3 DEF FoldStep
  <2>. QED  BY <2>4
<1>5. Shown(base, seq) = v[n]
  BY FoldUnfolds DEF g
<1>6. \A i \in 1..n : v[i] = Fold(v[i - 1], seq[i])
  BY <1>4
<1>. HIDE DEF v
<1>7. Trace(v, base, seq, n)
  BY <1>3, <1>5, <1>6 DEF Trace
<1>. QED  BY <1>7

-----------------------------------------------------------------------------
(* The lines a page keeps. *)

IsPage(steps) == IsList(steps) /\ Len(steps) <= Window

\* A line more moves those there are up by none or, on a full page, by one.
Slid(steps, line, next, up) ==
    /\ Len(next) = Len(steps) + 1 - up
    /\ up = 1 <=> Len(steps) = Window
    /\ \A j \in 1..Len(next) : IF j = Len(next) THEN next[j] = line
                               ELSE j + up \in 1..Len(steps) /\ next[j] = steps[j + up]
    /\ \A i \in 1..Len(steps) : i > up => i - up \in 1..Len(next) /\ i - up < Len(next) /\ next[i - up] = steps[i]

LEMMA PageSlides ==
    ASSUME NEW steps, IsPage(steps), NEW line
    PROVE  LET next == Recent(Append(steps, line))
           IN  IsPage(next) /\ \E up \in {0, 1} : Slid(steps, line, next, up)
<1>. DEFINE S == ToSet(steps) \cup {line}
            more == Append(steps, line)
<1>1. steps \in Seq(S) /\ line \in S /\ Len(steps) <= Window /\ Window \in Nat \ {0}
  <2>1. ToSet(steps) \subseteq S
    OBVIOUS
  <2>2. steps \in Seq(ToSet(steps))
    BY DEF IsPage, IsList
  <2>. HIDE DEF S
  <2>3. steps \in Seq(S)
    BY <2>1, <2>2
  <2>. QED  BY <2>3, ThePageKeepsSteps DEF S, IsPage
<1>. HIDE DEF S
<1>2. /\ more \in Seq(S) /\ Len(more) = Len(steps) + 1 /\ Len(steps) \in Nat
      /\ \A i \in 1..Len(steps) : more[i] = steps[i]
      /\ more[Len(steps) + 1] = line
  BY <1>1
<1>3. PICK m \in Seq(S) : m = more
  BY <1>2
<1>. HIDE DEF more
<1>4. PICK k \in Nat : k = Len(steps)
  BY <1>2
<1>5. Len(m) = k + 1 /\ (\A i \in 1..k : m[i] = steps[i]) /\ m[k + 1] = line /\ k <= Window
  BY <1>1, <1>2, <1>3, <1>4
<1>6. CASE k = Window
  <2>1. PICK next \in Seq(S) : next = Tail(m)
    <3>1. m # <<>> /\ m \in Seq(S)
      BY <1>3, <1>5
    <3>2. Tail(m) \in Seq(S)
      BY <3>1
    <3>. QED  BY <3>2
  <2>2. Len(next) = k /\ \A j \in 1..k : next[j] = m[j + 1]
    BY <1>5, <2>1
  <2>3. Recent(more) = next
    <3>1. Len(m) > Window
      BY <1>1, <1>5, <1>6
    <3>. QED  BY <1>3, <2>1, <3>1 DEF Recent
  <2>4. Slid(steps, line, next, 1)
    BY <1>1, <1>4, <1>5, <1>6, <2>2 DEF Slid
  <2>5. IsList(next)
    BY <2>1, ListIs
  <2>. QED  BY <1>1, <1>4, <1>6, <2>2, <2>3, <2>4, <2>5 DEF IsPage, more
<1>7. CASE k # Window
  <2>1. Recent(more) = m
    <3>1. ~(Len(m) > Window)
      BY <1>1, <1>5, <1>7
    <3>. QED  BY <1>3, <3>1 DEF Recent
  <2>2. Slid(steps, line, m, 0)
    BY <1>1, <1>4, <1>5, <1>7 DEF Slid
  <2>3. IsList(m)
    BY <1>3, ListIs
  <2>4. Len(m) <= Window
    BY <1>1, <1>5, <1>7
  <2>. QED  BY <2>1, <2>2, <2>3, <2>4 DEF IsPage, more
<1>. QED  BY <1>6, <1>7

\* What a page says of a package: nothing, that it is asked about, or that it
\* was, and what was found.
Unsaid(steps, n) == AskedIn(steps, n) = {} /\ AnsweredIn(steps, n) = {}
Waiting(steps, n) ==
    /\ AnsweredIn(steps, n) = {}
    /\ \A i, j \in AskedIn(steps, n) : i = j
    /\ Len(steps) < Window => AskedIn(steps, n) # {}
Settled(steps, n, found) ==
    /\ \A i, j \in AskedIn(steps, n) : i = j
    /\ \A i, j \in AnsweredIn(steps, n) : i = j
    /\ \A i \in AskedIn(steps, n) : \E j \in AnsweredIn(steps, n) : i < j
    /\ \A j \in AnsweredIn(steps, n) : steps[j].found = found
    /\ Len(steps) < Window => AskedIn(steps, n) # {}

\* A line that says nothing of a package.
Silent(line, n) ==
    /\ line # LookedUp(n, "pypi.org")
    /\ \A found \in BOOLEAN : line # Answered(n, "pypi.org", found)

\* Where the lines about a package are once the page has slid.
LEMMA SlidPlaces ==
    ASSUME NEW steps, IsPage(steps), NEW line, NEW next, IsPage(next), NEW up \in {0, 1},
           Slid(steps, line, next, up), NEW n
    PROVE  /\ DOMAIN next = 1..Len(next) /\ DOMAIN steps = 1..Len(steps)
           /\ Len(next) \in Nat /\ Len(steps) \in Nat
           /\ \A j \in AskedIn(next, n) : j \in 1..Len(next) /\
                 IF j = Len(next) THEN line = LookedUp(n, "pypi.org") ELSE j + up \in AskedIn(steps, n)
           /\ \A j \in AnsweredIn(next, n) : j \in 1..Len(next) /\
                 IF j = Len(next) THEN \E found \in BOOLEAN : line = Answered(n, "pypi.org", found)
                 ELSE j + up \in AnsweredIn(steps, n) /\ next[j] = steps[j + up]
           /\ \A i \in AskedIn(steps, n) : i > up => i - up \in AskedIn(next, n)
           /\ \A i \in AnsweredIn(steps, n) : i > up => i - up \in AnsweredIn(next, n)
           /\ \A i \in AskedIn(steps, n) \cup AnsweredIn(steps, n) : i \in 1..Len(steps)
<1>1. /\ DOMAIN next = 1..Len(next) /\ DOMAIN steps = 1..Len(steps)
      /\ Len(next) \in Nat /\ Len(steps) \in Nat
  BY DEF IsPage, IsList
<1>2. \A j \in AskedIn(next, n) : j \in 1..Len(next) /\
                 IF j = Len(next) THEN line = LookedUp(n, "pypi.org") ELSE j + up \in AskedIn(steps, n)
  BY <1>1 DEF AskedIn, Slid
<1>3. \A j \in AnsweredIn(next, n) : j \in 1..Len(next) /\
                 IF j = Len(next) THEN \E found \in BOOLEAN : line = Answered(n, "pypi.org", found)
                 ELSE j + up \in AnsweredIn(steps, n) /\ next[j] = steps[j + up]
  BY <1>1 DEF AnsweredIn, Slid
<1>4. \A i \in AskedIn(steps, n) : i > up => i - up \in AskedIn(next, n)
  BY <1>1 DEF AskedIn, Slid
<1>5. \A i \in AnsweredIn(steps, n) : i > up => i - up \in AnsweredIn(next, n)
  BY <1>1 DEF AnsweredIn, Slid
<1>6. \A i \in AskedIn(steps, n) \cup AnsweredIn(steps, n) : i \in 1..Len(steps)
  BY <1>1 DEF AskedIn, AnsweredIn
<1>. QED  BY <1>1, <1>2, <1>3, <1>4, <1>5, <1>6

\* What a page says of a package stands when a line about something else comes.
Stays(steps, next, n) ==
    /\ Unsaid(steps, n) => Unsaid(next, n)
    /\ Waiting(steps, n) => Waiting(next, n)
    /\ \A found \in BOOLEAN : Settled(steps, n, found) => Settled(next, n, found)

LEMMA OthersStay ==
    ASSUME NEW steps, IsPage(steps), NEW line, NEW next, IsPage(next), NEW up \in {0, 1},
           Slid(steps, line, next, up), NEW n, Silent(line, n)
    PROVE  Stays(steps, next, n)
<1>. DEFINE asks == AskedIn(steps, n)
            answers == AnsweredIn(steps, n)
            asks2 == AskedIn(next, n)
            answers2 == AnsweredIn(next, n)
<1>1. PICK k \in Nat, l \in Nat : k = Len(steps) /\ l = Len(next)
  BY SlidPlaces
<1>2. \A j \in asks2 : j \in 1..l /\ j # l /\ j + up \in asks
  BY <1>1, SlidPlaces DEF Silent
<1>3. \A j \in answers2 : j \in 1..l /\ j # l /\ j + up \in answers /\ next[j] = steps[j + up]
  BY <1>1, SlidPlaces DEF Silent
<1>4. \A i \in asks : i \in 1..k /\ (i > up => i - up \in asks2)
  BY <1>1, SlidPlaces
<1>5. \A i \in answers : i \in 1..k /\ (i > up => i - up \in answers2)
  BY <1>1, SlidPlaces
<1>6. l = k + 1 - up /\ (up = 1 <=> k = Window) /\ k <= Window /\ Window \in Nat
  BY <1>1, ThePageKeepsSteps DEF Slid, IsPage
<1>. HIDE DEF asks, answers, asks2, answers2
<1>7. (\A i, j \in asks : i = j) => \A i, j \in asks2 : i = j
  BY <1>2
<1>8. (\A i, j \in answers : i = j) => \A i, j \in answers2 : i = j
  BY <1>3
<1>9. l < Window => k < Window /\ up = 0
  BY <1>6
<1>10. (k < Window => asks # {}) => (l < Window => asks2 # {})
  <2>1. SUFFICES ASSUME l < Window, asks # {} PROVE asks2 # {}
    BY <1>9
  <2>2. PICK i \in asks : i \in 1..k
    BY <1>4, <2>1
  <2>3. i > up
    BY <1>9, <2>1, <2>2
  <2>. QED  BY <1>4, <2>2, <2>3
<1>11. (\A i \in asks : \E j \in answers : i < j) => \A i \in asks2 : \E j \in answers2 : i < j
  <2>1. SUFFICES ASSUME \A i \in asks : \E j \in answers : i < j, NEW i \in asks2
                 PROVE  \E j \in answers2 : i < j
    OBVIOUS
  <2>2. i \in 1..l /\ i + up \in asks
    BY <1>2
  <2>3. PICK j \in answers : i + up < j
    BY <2>1, <2>2
  <2>4. j \in 1..k
    BY <1>5
  <2>5. j > up
    BY <2>2, <2>3, <2>4
  <2>6. j - up \in answers2 /\ i < j - up
    BY <1>5, <2>2, <2>3, <2>4, <2>5
  <2>. QED  BY <2>6
<1>12. \A found : (\A j \in answers : steps[j].found = found) => \A j \in answers2 : next[j].found = found
  BY <1>3
<1>13. (asks = {} => asks2 = {}) /\ (answers = {} => answers2 = {})
  BY <1>2, <1>3
<1>. QED  BY <1>1, <1>7, <1>8, <1>10, <1>11, <1>12, <1>13 DEF Stays, Unsaid, Waiting, Settled, asks, answers, asks2, answers2

\* A question about a package nothing was said of.
LEMMA QuestionWaits ==
    ASSUME NEW steps, IsPage(steps), NEW n, NEW next, IsPage(next), NEW up \in {0, 1},
           Slid(steps, LookedUp(n, "pypi.org"), next, up), Unsaid(steps, n),
           \A found \in BOOLEAN : LookedUp(n, "pypi.org") # Answered(n, "pypi.org", found)
    PROVE  Waiting(next, n)
<1>0. PICK k \in Nat, l \in Nat : k = Len(steps) /\ l = Len(next) /\ DOMAIN next = 1..l
  BY SlidPlaces
<1>1. l \in Nat /\ l >= 1 /\ l = Len(next)
  <2>1. l = k + 1 - up /\ (up = 1 => k >= 1)
    BY <1>0, ThePageKeepsSteps DEF Slid
  <2>. QED  BY <1>0, <2>1
<1>2. AnsweredIn(next, n) = {}
  BY SlidPlaces DEF Unsaid
<1>3. \A j \in AskedIn(next, n) : j = l
  BY <1>1, SlidPlaces DEF Unsaid
<1>4. l \in 1..l /\ next[l] = LookedUp(n, "pypi.org")
  BY <1>1 DEF Slid
<1>5. l \in AskedIn(next, n)
  BY <1>0, <1>4 DEF AskedIn
<1>. QED  BY <1>2, <1>3, <1>5 DEF Waiting

\* An answer about a package that is asked about.
LEMMA AnswerSettles ==
    ASSUME NEW steps, IsPage(steps), NEW n, NEW found \in BOOLEAN, NEW next, IsPage(next), NEW up \in {0, 1},
           NEW line, line = Answered(n, "pypi.org", found), line.found = found,
           Slid(steps, line, next, up), Waiting(steps, n), line # LookedUp(n, "pypi.org")
    PROVE  Settled(next, n, found)
<1>1. PICK k \in Nat, l \in Nat : k = Len(steps) /\ l = Len(next) /\ DOMAIN next = 1..l
  BY SlidPlaces
<1>2. l = k + 1 - up /\ (up = 1 <=> k = Window) /\ Window \in Nat /\ Window >= 1 /\ k <= Window
  BY <1>1, ThePageKeepsSteps DEF Slid, IsPage
<1>3. l >= 1 /\ l \in 1..l
  BY <1>2
<1>4. next[l] = line
  BY <1>1, <1>3 DEF Slid
<1>5. l \in AnsweredIn(next, n)
  BY <1>1, <1>3, <1>4 DEF AnsweredIn
<1>6. \A j \in AnsweredIn(next, n) : j = l
  BY <1>1, SlidPlaces DEF Waiting
<1>7. \A j \in AskedIn(next, n) : j \in 1..l /\ j # l /\ j + up \in AskedIn(steps, n)
  BY <1>1, SlidPlaces
<1>8. \A i, j \in AskedIn(next, n) : i = j
  <2>1. SUFFICES ASSUME NEW i, i \in AskedIn(next, n), NEW j, j \in AskedIn(next, n) PROVE i = j
    OBVIOUS
  <2>2. i + up = j + up /\ i \in 1..l /\ j \in 1..l
    BY <1>7, <2>1 DEF Waiting
  <2>. QED  BY <2>2
<1>9. \A i \in AskedIn(next, n) : i < l
  BY <1>7
<1>10. l < Window => AskedIn(next, n) # {}
  <2>1. SUFFICES ASSUME l < Window PROVE AskedIn(next, n) # {}
    OBVIOUS
  <2>2. up = 0 /\ k < Window
    BY <1>2, <2>1
  <2>3. PICK i \in AskedIn(steps, n) : i \in 1..k
    BY <1>1, <2>2, SlidPlaces DEF Waiting
  <2>4. i > up
    BY <2>2, <2>3
  <2>5. i - up \in AskedIn(next, n)
    BY <2>3, <2>4, SlidPlaces
  <2>. QED  BY <2>5
<1>. QED  BY <1>1, <1>4, <1>5, <1>6, <1>8, <1>9, <1>10 DEF Settled

\* No line of a page says anything new of a package.
Passed(steps, next) == IsPage(next) /\ \A n : Stays(steps, next, n)

LEMMA PassesOn ==
    ASSUME NEW first, NEW second, NEW third, Passed(first, second), Passed(second, third)
    PROVE  Passed(first, third)
PROOF BY DEF Passed, Stays

LEMMA PassesNone ==
    ASSUME NEW steps, IsPage(steps)
    PROVE  Passed(steps, steps)
PROOF BY DEF Passed, Stays

LEMMA LinePasses ==
    ASSUME NEW steps, IsPage(steps), NEW line, \A n : Silent(line, n)
    PROVE  Passed(steps, Recent(Append(steps, line)))
<1>1. PICK next : next = Recent(Append(steps, line))
  OBVIOUS
<1>2. IsPage(next) /\ \E up \in {0, 1} : Slid(steps, line, next, up)
  BY <1>1, PageSlides
<1>3. PICK up \in {0, 1} : Slid(steps, line, next, up)
  BY <1>2
<1>4. \A n : Stays(steps, next, n)
  BY <1>2, <1>3, OthersStay
<1>. QED  BY <1>1, <1>2, <1>4 DEF Passed

\* A step that is not about a lookup is a line that says nothing of a package.
LEMMA OtherIsSilent == \A n : Silent(Event("other"), n)
<1>1. TAKE n
<1>2. PICK line : line = Event("other")
  OBVIOUS
<1>3. line.event = "other"
  BY <1>2 DEF Event
<1>4. PICK asks : asks = LookedUp(n, "pypi.org")
  OBVIOUS
<1>5. asks.event = "research.started"
  BY <1>4 DEF LookedUp
<1>6. \A found : Answered(n, "pypi.org", found).event = "research.finished"
  BY DEF Answered
<1>7. \A found : Answered(n, "pypi.org", found) # line
  BY <1>3, <1>6
<1>. QED  BY <1>2, <1>3, <1>4, <1>5, <1>7 DEF Silent

-----------------------------------------------------------------------------
(* A step on the page. *)

\* What a screen shows of a run.
Fields == {"stages", "files", "findings", "steps", "tiers", "over"}
IsScreen(shown) == DOMAIN shown = Fields /\ DOMAIN shown.stages = 1..5 /\ IsPage(shown.steps)

\* The stage each event proves.
LEMMA StageNumbers ==
    /\ DOMAIN StageOf = {"scout.started", "service.detected",
                         "language.detected", "structure.discovered", "model.built",
                         "research.started", "research.finished",
                         "agent.started", "agent.handoff", "agent.finished",
                         "coverage.computed", "prediction.generated"}
    /\ \A e \in {"scout.started", "service.detected"} : StageOf[e] = 1
    /\ \A e \in {"language.detected", "structure.discovered", "model.built"} : StageOf[e] = 2
    /\ \A e \in {"research.started", "research.finished"} : StageOf[e] = 3
    /\ \A e \in {"agent.started", "agent.handoff", "agent.finished"} : StageOf[e] = 4
    /\ \A e \in {"coverage.computed", "prediction.generated"} : StageOf[e] = 5
<1>1. DOMAIN Proves = 1..5
  BY DEF Proves
<1>2. /\ Proves[1] = {"scout.started", "service.detected"}
      /\ Proves[2] = {"language.detected", "structure.discovered", "model.built"}
      /\ Proves[3] = {"research.started", "research.finished"}
      /\ Proves[4] = {"agent.started", "agent.handoff", "agent.finished"}
      /\ Proves[5] = {"coverage.computed", "prediction.generated"}
  BY DEF Proves
<1>3. UNION ToSet(Proves) = UNION {Proves[s] : s \in 1..5}
  BY <1>1 DEF ToSet
<1>4. \A s \in 1..5 : s = 1 \/ s = 2 \/ s = 3 \/ s = 4 \/ s = 5
  OBVIOUS
<1>5. \A s, t \in 1..5 : s # t => Proves[s] \cap Proves[t] = {}
  BY <1>2, <1>4
<1>6. \A s \in 1..5 : \A e \in Proves[s] : StageOf[e] = s
  <2>1. TAKE s \in 1..5
  <2>2. TAKE e \in Proves[s]
  <2>3. e \in UNION ToSet(Proves)
    BY <1>3
  <2>4. StageOf[e] = CHOOSE t \in 1..5 : e \in Proves[t]
    BY <1>1, <2>3 DEF StageOf
  <2>5. \A t \in 1..5 : e \in Proves[t] => t = s
    BY <1>5
  <2>. QED  BY <2>4, <2>5
<1>7. DOMAIN StageOf = UNION {Proves[s] : s \in 1..5}
  BY <1>3 DEF StageOf
<1>8. UNION {Proves[s] : s \in 1..5} = Proves[1] \cup Proves[2] \cup Proves[3] \cup Proves[4] \cup Proves[5]
  BY <1>4
<1>9. 1 \in 1..5 /\ 2 \in 1..5 /\ 3 \in 1..5 /\ 4 \in 1..5 /\ 5 \in 1..5
  OBVIOUS
<1>10. DOMAIN StageOf = {"scout.started", "service.detected",
                         "language.detected", "structure.discovered", "model.built",
                         "research.started", "research.finished",
                         "agent.started", "agent.handoff", "agent.finished",
                         "coverage.computed", "prediction.generated"}
  BY <1>2, <1>7, <1>8
<1>11. /\ \A e \in Proves[1] : StageOf[e] = 1
       /\ \A e \in Proves[2] : StageOf[e] = 2
       /\ \A e \in Proves[3] : StageOf[e] = 3
       /\ \A e \in Proves[4] : StageOf[e] = 4
       /\ \A e \in Proves[5] : StageOf[e] = 5
  BY <1>6, <1>9
<1>. QED  BY <1>2, <1>10, <1>11

\* What one step changes on screen, but for its line.
Colour(shown, step, next) ==
    LET e == step.event
    IN  /\ IsScreen(next)
        /\ next.findings = IF e = "finding.detected" THEN shown.findings \cup {step.at}
                           ELSE shown.findings
        /\ next.steps = shown.steps
        /\ e # "review.completed" =>
              next.stages = IF e \in DOMAIN StageOf THEN Reached(shown.stages, StageOf[e])
                            ELSE shown.stages

\* Every step has that effect, whatever the screen was.
LEMMA PaintedStep ==
    ASSUME NEW shown, IsScreen(shown), NEW step
    PROVE  Colour(shown, step, Painted(shown, step))
<1>. DEFINE next == Painted(shown, step)
            e == step.event
            marks == DOMAIN StageOf
<1>1. \A x \in {"review.completed", "review.failed", "finding.detected", "scheduler"} : x \notin marks
  BY StageNumbers
<1>2. \A k : DOMAIN Reached(shown.stages, k) = 1..5
  BY DEF IsScreen, Reached
<1>3. DOMAIN Stages = 1..5
  BY DEF Stages
<1>. HIDE DEF marks
<1>. USE DEF IsScreen, Fields
<1>4. ASSUME e = "review.completed" PROVE Colour(shown, step, next)
  <2>1. next = [shown EXCEPT !.stages = [s \in DOMAIN Stages |-> "done"],
                   !.files = [m \in DOMAIN @ |-> IF @[m] = "reading" THEN "read" ELSE @[m]],
                   !.over = "completed"]
    BY <1>1, <1>4 DEF Painted, marks
  <2>. HIDE DEF next
  <2>. QED  BY <1>1, <1>3, <1>4, <2>1 DEF marks, Colour
<1>5. ASSUME e = "review.failed" PROVE Colour(shown, step, next)
  <2>1. next = [shown EXCEPT !.over = "failed"]
    BY <1>1, <1>5 DEF Painted, marks
  <2>. HIDE DEF next
  <2>. QED  BY <1>1, <1>5, <2>1 DEF marks, Colour
<1>6. ASSUME e = "finding.detected" PROVE Colour(shown, step, next)
  <2>1. next = [shown EXCEPT !.files = With(@, step.at[1], "flagged"), !.findings = @ \cup {step.at}]
    BY <1>1, <1>6 DEF Painted, marks
  <2>. HIDE DEF next
  <2>. QED  BY <1>1, <1>6, <2>1 DEF marks, Colour
<1>7. ASSUME e = "scheduler" PROVE Colour(shown, step, next)
  <2>1. next = [shown EXCEPT !.files = With(@, step.module, "reading")]
    BY <1>1, <1>7 DEF Painted, marks
  <2>. HIDE DEF next
  <2>. QED  BY <1>1, <1>7, <2>1 DEF marks, Colour
<1>8. ASSUME e \in marks PROVE Colour(shown, step, next)
  <2>1. next = [shown EXCEPT
                 !.stages = Reached(@, StageOf[e]),
                 !.files = IF e = "agent.started" THEN With(@, step.module, "reading") ELSE @,
                 !.tiers = IF e = "model.built" THEN step.layers ELSE @]
    BY <1>1, <1>8 DEF Painted, marks
  <2>. HIDE DEF next
  <2>2. /\ DOMAIN next = DOMAIN shown
        /\ next.stages = Reached(shown.stages, StageOf[e])
        /\ next.findings = shown.findings
        /\ next.steps = shown.steps
    BY <2>1
  <2>3. e # "finding.detected" /\ e # "review.completed"
    BY <1>1, <1>8
  <2>. QED  BY <1>2, <1>8, <2>2, <2>3 DEF marks, Colour
<1>9. ASSUME e \notin marks \cup {"review.completed", "review.failed", "finding.detected", "scheduler"} PROVE Colour(shown, step, next)
  <2>1. next = shown
    BY <1>9 DEF Painted, marks
  <2>. HIDE DEF next
  <2>. QED  BY <1>1, <1>9, <2>1 DEF marks, Colour
<1>10. Colour(shown, step, next)
  BY <1>4, <1>5, <1>6, <1>7, <1>8, <1>9
<1>. QED  BY <1>10

\* What one step does to the screen.
Effect(shown, step, next) ==
    LET e == step.event
    IN  /\ IsScreen(next)
        /\ next.findings = IF e = "finding.detected" THEN shown.findings \cup {step.at}
                           ELSE shown.findings
        /\ next.steps = Recent(Append(shown.steps, Line(step)))
        /\ e # "review.completed" =>
              next.stages = IF e \in DOMAIN StageOf THEN Reached(shown.stages, StageOf[e])
                            ELSE shown.stages

\* The line a step leaves changes nothing else.
LEMMA NotedStep ==
    ASSUME NEW shown, IsScreen(shown), NEW step
    PROVE  LET base == Noted(shown, step)
           IN  /\ IsScreen(base)
               /\ base.stages = shown.stages /\ base.findings = shown.findings
               /\ base.tiers = shown.tiers /\ base.files = shown.files /\ base.over = shown.over
               /\ base.steps = Recent(Append(shown.steps, Line(step)))
<1>1. PICK kept : kept = Recent(Append(shown.steps, Line(step)))
  OBVIOUS
<1>2. IsPage(kept)
  <2>1. IsPage(shown.steps)
    BY DEF IsScreen
  <2>. QED  BY <1>1, <2>1, PageSlides
<1>3. PICK base : base = Noted(shown, step)
  OBVIOUS
<1>4. base = [shown EXCEPT !.steps = kept]
  BY <1>1, <1>3 DEF Noted
<1>5. /\ DOMAIN base = Fields /\ base.steps = kept
      /\ base.stages = shown.stages /\ base.findings = shown.findings
      /\ base.tiers = shown.tiers /\ base.files = shown.files /\ base.over = shown.over
  BY <1>4 DEF IsScreen, Fields
<1>. QED  BY <1>1, <1>2, <1>3, <1>5 DEF IsScreen

\* What one step of the page's fold does to the screen, whatever it was.
LEMMA OneStep ==
    ASSUME NEW shown, IsScreen(shown), NEW step
    PROVE  Effect(shown, step, Fold(shown, step))
<1>1. PICK base : base = Noted(shown, step)
  OBVIOUS
<1>2. /\ IsScreen(base) /\ base.stages = shown.stages /\ base.findings = shown.findings
      /\ base.steps = Recent(Append(shown.steps, Line(step)))
  BY <1>1, NotedStep
<1>3. PICK next : next = Painted(base, step)
  OBVIOUS
<1>4. Colour(base, step, next)
  BY <1>2, <1>3, PaintedStep
<1>5. Effect(shown, step, next)
  BY <1>2, <1>4 DEF Colour, Effect
<1>. QED  BY <1>1, <1>3, <1>5 DEF Fold

\* A step that neither completes the review nor is about a lookup, and proves
\* no stage but one of those from low to high.
Quiet(step, low, high) ==
    /\ step.event \notin {"review.completed", "research.started", "research.finished"}
    /\ step.event \in DOMAIN StageOf => StageOf[step.event] \in low..high

\* Of the first n steps, where the findings among them are.
PlacesOn(seq, n) == {seq[i].at : i \in {j \in 1..n : seq[j].event = "finding.detected"}}

\* What saying n quiet steps leaves of a screen.
Told(base, seq, n, low, high, next) ==
    /\ IsScreen(next)
    /\ Passed(base.steps, next.steps)
    /\ next.findings = base.findings \cup PlacesOn(seq, n)
    /\ \A s \in 1..5 : s < low /\ base.stages[s] = "done" => next.stages[s] = "done"
    /\ \A s \in 1..5 : next.stages[s] = "done" => s < high \/ base.stages[s] = "done"

\* A quiet step more keeps what is told of the steps before it.
LEMMA OneMore ==
    ASSUME NEW base, NEW seq, NEW n \in Nat, NEW low \in Int, NEW high \in Int,
           NEW shown, Told(base, seq, n, low, high, shown), Quiet(seq[n + 1], low, high)
    PROVE  Told(base, seq, n + 1, low, high, Fold(shown, seq[n + 1]))
<1>. DEFINE step == seq[n + 1]
            next == Fold(shown, step)
<1>1. IsScreen(shown) /\ Effect(shown, step, next)
  BY OneStep DEF Told
<1>. HIDE DEF next
<1>2. IsScreen(next) /\ Passed(base.steps, next.steps)
  <2>1. Line(step) = Event("other")
    BY DEF Quiet, Line
  <2>2. next.steps = Recent(Append(shown.steps, Event("other"))) /\ IsPage(shown.steps) /\ IsScreen(next)
    BY <1>1, <2>1 DEF Effect, IsScreen
  <2>3. Passed(shown.steps, next.steps)
    BY <2>2, LinePasses, OtherIsSilent
  <2>4. Passed(base.steps, shown.steps)
    BY DEF Told
  <2>. QED  BY <2>2, <2>3, <2>4, PassesOn
<1>3. PlacesOn(seq, n + 1) = PlacesOn(seq, n) \cup (IF step.event = "finding.detected" THEN {step.at} ELSE {})
  <2>1. 1..(n + 1) = 1..n \cup {n + 1}
    OBVIOUS
  <2>. QED  BY <2>1 DEF PlacesOn
<1>4. next.findings = base.findings \cup PlacesOn(seq, n + 1)
  <2>1. next.findings = shown.findings \cup (IF step.event = "finding.detected" THEN {step.at} ELSE {})
    BY <1>1 DEF Effect
  <2>2. shown.findings = base.findings \cup PlacesOn(seq, n)
    BY DEF Told
  <2>. HIDE DEF step
  <2>. QED  BY <1>3, <2>1, <2>2
<1>5. /\ \A s \in 1..5 : s < low /\ base.stages[s] = "done" => next.stages[s] = "done"
      /\ \A s \in 1..5 : next.stages[s] = "done" => s < high \/ base.stages[s] = "done"
  <2>1. CASE step.event \in DOMAIN StageOf
    <3>. DEFINE k == StageOf[step.event]
    <3>1. k \in low..high /\ next.stages = Reached(shown.stages, k)
      BY <1>1, <2>1 DEF Effect, Quiet
    <3>2. \A s \in 1..5 : next.stages[s] = IF s < k THEN "done" ELSE IF s = k THEN "running" ELSE shown.stages[s]
      BY <1>1, <3>1 DEF Reached, IsScreen
    <3>. HIDE DEF k
    <3>. QED  BY <3>1, <3>2 DEF Told
  <2>2. CASE step.event \notin DOMAIN StageOf
    <3>1. next.stages = shown.stages
      BY <1>1, <2>2 DEF Effect, Quiet
    <3>. QED  BY <3>1 DEF Told
  <2>. QED  BY <2>1, <2>2
<1>6. Told(base, seq, n + 1, low, high, next)
  BY <1>2, <1>4, <1>5 DEF Told
<1>. QED  BY <1>6 DEF next

\* What a list of quiet steps tells, one step after the other.
LEMMA Saying ==
    ASSUME NEW base, IsScreen(base), NEW seq, NEW n \in Nat, DOMAIN seq = 1..n,
           NEW low \in Int, NEW high \in Int, \A i \in 1..n : Quiet(seq[i], low, high)
    PROVE  Told(base, seq, n, low, high, Shown(base, seq))
<1>1. PICK v : Trace(v, base, seq, n)
  BY FoldTrace
<1>. DEFINE Reaches == {i \in Nat : i <= n => Told(base, seq, i, low, high, v[i])}
<1>2. 0 \in Reaches
  <2>1. PlacesOn(seq, 0) = {}
    BY DEF PlacesOn
  <2>2. Passed(base.steps, base.steps)
    BY PassesNone DEF IsScreen
  <2>3. Told(base, seq, 0, low, high, base)
    BY <2>1, <2>2 DEF Told
  <2>. QED  BY <1>1, <2>3 DEF Trace
<1>3. ASSUME NEW i \in Nat, i \in Reaches PROVE i + 1 \in Reaches
  <2>1. SUFFICES ASSUME i + 1 <= n PROVE Told(base, seq, i + 1, low, high, v[i + 1])
    OBVIOUS
  <2>2. i + 1 \in 1..n /\ (i + 1) - 1 = i /\ i <= n
    BY <2>1
  <2>3. v[i + 1] = Fold(v[i], seq[i + 1])
    BY <1>1, <2>2 DEF Trace
  <2>4. Told(base, seq, i, low, high, v[i]) /\ Quiet(seq[i + 1], low, high)
    BY <1>3, <2>2
  <2>5. Told(base, seq, i + 1, low, high, Fold(v[i], seq[i + 1]))
    BY <2>4, OneMore
  <2>. QED  BY <2>3, <2>5
<1>4. Nat \subseteq Reaches
  <2>. HIDE DEF Reaches
  <2>. QED  BY <1>2, <1>3, CountInduction
<1>5. Told(base, seq, n, low, high, v[n])
  BY <1>4
<1>. QED  BY <1>1, <1>5 DEF Trace

\* A step leaves the path on screen alone, unless it says the path.
LEMMA PathTold ==
    ASSUME NEW shown, IsScreen(shown), NEW step
    PROVE  /\ IsScreen(Fold(shown, step))
           /\ step.event # "model.built" => Fold(shown, step).tiers = shown.tiers
           /\ step.event = "model.built" => Fold(shown, step).tiers = step.layers
<1>1. PICK next : next = Fold(shown, step)
  OBVIOUS
<1>2. IsScreen(next)
  <2>1. Effect(shown, step, Fold(shown, step))
    BY OneStep
  <2>. QED  BY <1>1, <2>1 DEF Effect
<1>3. PICK base : /\ base = Noted(shown, step) /\ next = Painted(base, step)
                  /\ DOMAIN base = Fields /\ base.tiers = shown.tiers
  <2>1. Fold(shown, step) = Painted(Noted(shown, step), step)
    BY DEF Fold
  <2>2. IsScreen(Noted(shown, step)) /\ Noted(shown, step).tiers = shown.tiers
    BY NotedStep
  <2>. QED  BY <1>1, <2>1, <2>2 DEF IsScreen
<1>4. /\ "model.built" \in DOMAIN StageOf
      /\ \A e \in {"review.completed", "review.failed", "finding.detected", "scheduler"} :
            e \notin DOMAIN StageOf /\ e # "model.built"
  BY StageNumbers
<1>5. CASE step.event = "review.completed"
  <2>1. next = [base EXCEPT !.stages = [s \in DOMAIN Stages |-> "done"],
                   !.files = [m \in DOMAIN @ |-> IF @[m] = "reading" THEN "read" ELSE @[m]],
                   !.over = "completed"]
    BY <1>3, <1>4, <1>5 DEF Painted
  <2>. QED  BY <1>1, <1>2, <1>3, <1>5, <2>1 DEF Fields
<1>6. CASE step.event = "review.failed"
  <2>1. next = [base EXCEPT !.over = "failed"]
    BY <1>3, <1>4, <1>6 DEF Painted
  <2>. QED  BY <1>1, <1>2, <1>3, <1>6, <2>1 DEF Fields
<1>7. CASE step.event = "finding.detected"
  <2>1. next = [base EXCEPT !.files = With(@, step.at[1], "flagged"), !.findings = @ \cup {step.at}]
    BY <1>3, <1>4, <1>7 DEF Painted
  <2>. QED  BY <1>1, <1>2, <1>3, <1>7, <2>1 DEF Fields
<1>8. CASE step.event = "scheduler"
  <2>1. next = [base EXCEPT !.files = With(@, step.module, "reading")]
    BY <1>3, <1>4, <1>8 DEF Painted
  <2>. QED  BY <1>1, <1>2, <1>3, <1>8, <2>1 DEF Fields
<1>9. CASE step.event \in DOMAIN StageOf
  <2>1. next = [base EXCEPT
               !.stages = Reached(@, StageOf[step.event]),
               !.files = IF step.event = "agent.started" THEN With(@, step.module, "reading") ELSE @,
               !.tiers = IF step.event = "model.built" THEN step.layers ELSE @]
    BY <1>3, <1>4, <1>9 DEF Painted
  <2>2. next.tiers = IF step.event = "model.built" THEN step.layers ELSE base.tiers
    BY <1>3, <2>1 DEF Fields
  <2>. QED  BY <1>1, <1>2, <1>3, <2>2
<1>10. CASE step.event \notin DOMAIN StageOf \cup {"review.completed", "review.failed",
                                                   "finding.detected", "scheduler"}
  <2>1. next = base
    BY <1>3, <1>10 DEF Painted
  <2>. QED  BY <1>1, <1>2, <1>3, <1>4, <1>10, <2>1
<1>. QED  BY <1>1, <1>2, <1>5, <1>6, <1>7, <1>8, <1>9, <1>10

\* What saying steps one after the other leaves of the path of a request: what
\* it was, unless they say the path, and what the last says if that does.
LEMMA TiersTold ==
    ASSUME NEW base, IsScreen(base), NEW seq, NEW n \in Nat, DOMAIN seq = 1..n
    PROVE  /\ (\A i \in 1..n : seq[i].event # "model.built") => Shown(base, seq).tiers = base.tiers
           /\ n # 0 /\ seq[n].event = "model.built" => Shown(base, seq).tiers = seq[n].layers
<1>1. PICK v : Trace(v, base, seq, n)
  BY FoldTrace
<1>. DEFINE Q == {i \in Nat : i <= n =>
                    /\ IsScreen(v[i])
                    /\ (\A j \in 1..i : seq[j].event # "model.built") => v[i].tiers = base.tiers}
<1>3. 0 \in Q
  <2>1. v[0] = base /\ IsScreen(v[0])
    BY <1>1 DEF Trace
  <2>. QED  BY <2>1
<1>4. ASSUME NEW i \in Nat, i \in Q PROVE i + 1 \in Q
  <2>1. SUFFICES ASSUME i + 1 <= n
                 PROVE  /\ IsScreen(v[i + 1])
                        /\ (\A j \in 1..(i + 1) : seq[j].event # "model.built")
                              => v[i + 1].tiers = base.tiers
    OBVIOUS
  <2>2. i + 1 \in 1..n /\ i + 1 \in 1..(i + 1) /\ (i + 1) - 1 = i /\ i <= n
        /\ \A j \in 1..i : j \in 1..(i + 1)
    BY <2>1
  <2>3. v[i + 1] = Fold(v[i], seq[i + 1])
    BY <1>1, <2>2 DEF Trace
  <2>4. IsScreen(v[i]) /\ ((\A j \in 1..i : seq[j].event # "model.built") => v[i].tiers = base.tiers)
    BY <1>4, <2>2
  <2>5. PICK shown : shown = v[i]
    OBVIOUS
  <2>6. PICK step : step = seq[i + 1]
    OBVIOUS
  <2>7. /\ IsScreen(Fold(shown, step))
        /\ step.event # "model.built" => Fold(shown, step).tiers = shown.tiers
    BY <2>4, <2>5, PathTold
  <2>. QED  BY <2>2, <2>3, <2>4, <2>5, <2>6, <2>7
<1>5. Nat \subseteq Q
  <2>. HIDE DEF Q
  <2>. QED  BY <1>3, <1>4, CountInduction
<1>6. (\A i \in 1..n : seq[i].event # "model.built") => Shown(base, seq).tiers = base.tiers
  BY <1>1, <1>5 DEF Trace
<1>7. ASSUME n # 0, seq[n].event = "model.built" PROVE Shown(base, seq).tiers = seq[n].layers
  <2>1. n \in 1..n /\ n - 1 \in Nat /\ n - 1 <= n
    BY <1>7
  <2>2. PICK shown : shown = v[n - 1]
    OBVIOUS
  <2>3. IsScreen(shown) /\ v[n] = Fold(shown, seq[n])
    BY <1>1, <1>5, <2>1, <2>2 DEF Trace
  <2>4. PICK step : step = seq[n]
    OBVIOUS
  <2>5. step.event = "model.built" /\ IsScreen(shown)
    BY <1>7, <2>3, <2>4
  <2>6. Fold(shown, step).tiers = step.layers
    BY <2>5, PathTold
  <2>. QED  BY <1>1, <2>3, <2>4, <2>6 DEF Trace
<1>. QED  BY <1>6, <1>7

\* Saying one step, and saying none.
LEMMA SayingOne ==
    ASSUME NEW base, NEW step
    PROVE  Shown(base, <<step>>) = Fold(base, step)
<1>1. PICK seq : seq = <<step>>
  OBVIOUS
<1>2. PICK n \in Nat : n = 1
  OBVIOUS
<1>3. DOMAIN seq = 1..n /\ seq[1] = step
  BY <1>1, <1>2
<1>4. PICK v : Trace(v, base, seq, n)
  BY <1>3, FoldTrace
<1>5. v[1] = Fold(v[1 - 1], seq[1])
  BY <1>2, <1>4 DEF Trace
<1>6. v[1] = Fold(base, step)
  BY <1>3, <1>4, <1>5 DEF Trace
<1>. QED  BY <1>1, <1>2, <1>4, <1>6 DEF Trace

-----------------------------------------------------------------------------
(* The inductive invariant. *)

\* Where the coroutine may be.
Auditing == {"audit", "lookups", "audited"}
Before == {"survey", "map"} \cup Auditing \cup {"changelogs", "searching"}
Turns == Before \cup {"review", "reading", "synthesis", "write", "over"}

\* The steps of one package's lookup, and what the second says.
Asks(n) == LookedUp(n, "pypi.org")
Learnt(n) == Answered(n, "pypi.org", seen[n] # NoFacts)
Verdict(n) == seen[n] # NoFacts

\* The packages of the audit in progress.
Pending == IF at \in {"lookups", "audited"} THEN wanted ELSE {}

\* The audits go through the bases in turn, and ask about every package the
\* cache does not hold.
Turning ==
    /\ at \in Turns /\ repo \in DOMAIN Repositories
    /\ at \in Auditing => place \in DOMAIN Bases
    /\ at \in {"survey", "map"} => place = 1
    /\ IsFiniteSet(wanted) /\ asking \subseteq wanted
    /\ at # "lookups" => asking = {}
    /\ Pending \subseteq DOMAIN seen \cup asking
    /\ at \in Auditing => \A b \in DOMAIN Bases : b < place => DOMAIN Pinned(b) \subseteq DOMAIN seen
    /\ at \in {"lookups", "audited"} => DOMAIN Pinned(place) \subseteq DOMAIN seen \cup wanted
    /\ at \notin {"survey", "map", "over"} \cup Auditing =>
          \A b \in DOMAIN Bases : DOMAIN Pinned(b) \subseteq DOMAIN seen

\* The loop's queue: what was asked before what was learnt, each once, and the
\* coroutine's own turn behind both.
Queued ==
    /\ handed \in Seq({Asks(n) : n \in wanted} \cup {Learnt(n) : n \in wanted \cap DOMAIN seen} \cup {Audited})
    /\ at \notin {"lookups", "audited"} => handed = <<>>
    /\ at = "audited" => handed # <<>> /\ handed[Len(handed)] = Audited
    /\ at = "lookups" => \A i \in DOMAIN handed : handed[i] \in {Asks(n) : n \in wanted}
    /\ \A i \in DOMAIN handed : handed[i] = Audited => i = Len(handed)
    /\ \A i, j \in DOMAIN handed : handed[i] = handed[j] => i = j
    /\ \A n \in wanted \cap DOMAIN seen : \A i, j \in DOMAIN handed :
          handed[i] = Asks(n) /\ handed[j] = Learnt(n) => i < j

\* What the screen says of one package whose audit is in progress.
Following(n) ==
    IF Asks(n) \in ToSet(handed)
    THEN Unsaid(screen.steps, n) /\ (at = "audited" => Learnt(n) \in ToSet(handed))
    ELSE IF at = "audited" /\ Learnt(n) \notin ToSet(handed)
         THEN Settled(screen.steps, n, Verdict(n)) ELSE Waiting(screen.steps, n)

\* The screen and the cache agree, but for what is in the queue, and nothing is
\* said of a package no audit has come to.
Agreeing ==
    /\ \A n \in DOMAIN seen \ Pending : Settled(screen.steps, n, Verdict(n))
    /\ \A n \in Pending : Following(n)
    /\ \A n : n \notin DOMAIN seen \cup Pending => Unsaid(screen.steps, n)

\* The stage the coroutine is in; no later one is shown as done.
Low == CASE at = "survey" -> 1
         [] at = "map" -> 2
         [] at \in Auditing \cup {"changelogs", "searching"} -> 3
         [] at \in {"review", "reading"} -> 4
         [] OTHER -> 5

Staged ==
    /\ IsScreen(screen)
    /\ at # "over" => \A s \in 1..5 : screen.stages[s] = "done" => s < Low

\* What is on screen is what was found so far.
Deterministic == {KeyOfSchema(f) : f \in ToSet(checks.schema)}
                 \cup {KeyOfPackage(f) : f \in ToSet(dependencies)}

Announcing ==
    /\ IsList(dependencies)
    /\ at \notin {"survey", "map", "over"} => IsList(checks.schema)
    /\ at \in Before => screen.findings = {}
    /\ at \in {"review", "reading"} => screen.findings = Deterministic
    /\ DOMAIN report # {} =>
          screen.findings = {KeyOf(f) : f \in ToSet(report.findings)} \cup Deterministic

\* A module is put to the specialists it raises, and they alone are heard.
Routing ==
    /\ \A m \in batch : m \in Mapped /\ Allowed(m) # {}
    /\ DOMAIN asked \subseteq batch /\ DOMAIN heard = DOMAIN asked /\ DOMAIN routed \subseteq DOMAIN asked
    /\ at \in Before \cup {"review"} => DOMAIN asked = {}
    /\ \A m \in DOMAIN asked : \A l \in asked[m] \cup DOMAIN heard[m] : m \in DOMAIN routed /\ l \in routed[m]
    /\ \A m \in DOMAIN routed : routed[m] \subseteq Allowed(m)

\* A report's rows count what Row counts.
Counting ==
    /\ at \in Before \cup {"review", "reading"} => DOMAIN report = {}
    /\ DOMAIN report # {} =>
          /\ {"rows", "findings"} \subseteq DOMAIN report /\ DOMAIN asked = batch
          /\ \A l \in DOMAIN Concerns :
                report.rows[l].reviewed = {p \in RaisedBy[l] \cap Analysed :
                                              p \in DOMAIN routed /\ l \in routed[p]}

\* The map is the repository's, and a review goes on with one.
Charted ==
    /\ map = Mapping
    /\ at \notin {"survey", "map", "over"} => DOMAIN map # {}

\* What was heard is lists.
Hearing == \A m \in DOMAIN heard : \A l \in DOMAIN heard[m] : IsList(heard[m][l])

\* All of it, but for the lookups on screen; and all of it.
Showing == Turning /\ Queued /\ Routing /\ Counting /\ Charted /\ Hearing /\ Staged /\ Announcing
IInv == Showing /\ Agreeing

-----------------------------------------------------------------------------
(* The audits and the loop's queue. *)

\* What is true of every repository that is read.
LEMMA ReadOf ==
    ASSUME Turning
    PROVE  /\ Bases \in Seq(ToSet(Bases)) /\ 1 \in DOMAIN Bases /\ DOMAIN Bases = 1..Len(Bases)
           /\ Len(Bases) \in Nat
           /\ IsList(Services(Compose))
           /\ \A b \in DOMAIN Bases : /\ IsFiniteSet(DOMAIN Pinned(b))
                                      /\ IsList(SchemaFindings(Operations(b)))
<1>1. /\ IsList(Services(Compose)) /\ IsList(Bases) /\ Bases # <<>>
      /\ \A b \in DOMAIN Bases : /\ IsFiniteSet(DOMAIN Pinned(b))
                                 /\ IsList(SchemaFindings(Operations(b)))
  BY RepositoriesAreRead DEF Turning, Compose, Bases, Pinned, Operations
<1>2. Bases \in Seq(ToSet(Bases))
  BY <1>1 DEF IsList
<1>. QED  BY <1>1, <1>2

\* The steps of a lookup are told apart.
LEMMA StepsApart ==
    /\ \A m : Asks(m) # Audited
    /\ \A m, found : Answered(m, "pypi.org", found) # Audited
    /\ \A m, n, found : Asks(m) # Answered(n, "pypi.org", found)
    /\ \A m, n : Asks(m) = Asks(n) => m = n
    /\ \A m, n, found, again :
          Answered(m, "pypi.org", found) = Answered(n, "pypi.org", again) => m = n /\ again = found
<1>1. \A m : Asks(m).event = "research.started" /\ Asks(m).of[1] = m
  BY DEF Asks, LookedUp
<1>2. \A m, found : /\ Answered(m, "pypi.org", found).event = "research.finished"
                    /\ Answered(m, "pypi.org", found).of[1] = m
                    /\ Answered(m, "pypi.org", found).found = found
  BY DEF Answered
<1>3. Audited.event = "audited"
  BY DEF Audited, Event
<1>. QED  BY <1>1, <1>2, <1>3

\* What is read of a repository depends on the repository alone.
LEMMA SameRepository ==
    ASSUME repo' = repo
    PROVE  /\ Compose' = Compose /\ Bases' = Bases
           /\ \A b : Pinned(b)' = Pinned(b) /\ Operations(b)' = Operations(b)
PROOF BY DEF Compose, Bases, Pinned, Operations

\* A review begins with no audit under way and nothing in the queue.
LEMMA AuditBegins == Init => Turning /\ Queued
<1>. SUFFICES ASSUME Init PROVE Turning /\ Queued
  OBVIOUS
<1>1. handed = <<>> /\ at = "survey" /\ wanted = {} /\ asking = {} /\ repo \in DOMAIN Repositories /\ place = 1
  BY DEF Init
<1>2. Turning
  <2>1. Pending = {}
    BY <1>1 DEF Pending
  <2>. QED  BY <1>1, <2>1, FS_EmptySet DEF Turning, Turns, Before, Auditing
<1>3. Queued
  BY <1>1 DEF Queued
<1>. QED  BY <1>2, <1>3

\* Where the coroutine goes outside its audits, the loop's queue being empty.
Moves == {<<"survey", "map">>, <<"map", "audit">>, <<"changelogs", "searching">>,
          <<"searching", "changelogs">>, <<"changelogs", "review">>, <<"review", "reading">>,
          <<"reading", "reading">>, <<"reading", "synthesis">>, <<"synthesis", "write">>}
         \cup ({"survey", "map", "audit", "changelogs", "review", "reading", "write"} \X {"over"})

Aside ==
    /\ repo' = repo /\ UNCHANGED <<wanted, asking, seen, handed>>
    /\ <<at, at'>> \in Moves
    /\ at \in {"survey", "map"} => place' = place

\* A step that leaves audits and queue alone keeps what is known of them.
LEMMA AsideFromAudit ==
    ASSUME Turning, Queued, Aside
    PROVE  Turning' /\ Queued'
<1>1. /\ at \notin {"lookups", "audited"} /\ at' \notin {"lookups", "audited"} /\ at' \in Turns
      /\ at' \in Auditing => at = "map" /\ at' = "audit"
      /\ at' \in {"survey", "map"} => at = "survey"
      /\ at' \notin {"survey", "map", "over"} \cup Auditing =>
            at \notin {"survey", "map", "over"} \cup Auditing
  BY DEF Aside, Moves, Turns, Before, Auditing
<1>2. handed' = <<>> /\ asking = {} /\ asking' = {} /\ Pending' = {}
  BY <1>1 DEF Aside, Queued, Turning, Pending
<1>3. Queued'
  BY <1>1, <1>2 DEF Queued
<1>4. Bases' = Bases /\ \A b : Pinned(b)' = Pinned(b)
  BY SameRepository DEF Aside
<1>5. repo' = repo /\ wanted' = wanted /\ seen' = seen
  BY DEF Aside
<1>6. at' \in Auditing => place' = 1 /\ place' \in DOMAIN Bases' /\ \A b \in DOMAIN Bases' : b >= 1
  BY <1>1, <1>4, ReadOf DEF Aside, Turning
<1>7. at' \in {"survey", "map"} => place' = 1
  BY <1>1 DEF Aside, Turning
<1>8. at' \in Auditing => \A b \in DOMAIN Bases' : b < place' => DOMAIN Pinned(b)' \subseteq DOMAIN seen'
  <2>1. at' \in Auditing => \A b \in DOMAIN Bases' : b \in Nat
    BY <1>4, ReadOf
  <2>. QED  BY <1>6, <2>1
<1>9. at' \notin {"survey", "map", "over"} \cup Auditing =>
          \A b \in DOMAIN Bases' : DOMAIN Pinned(b)' \subseteq DOMAIN seen'
  BY <1>1, <1>4, <1>5 DEF Turning
<1>10. Turning'
  BY <1>1, <1>2, <1>5, <1>6, <1>7, <1>8, <1>9 DEF Turning
<1>. QED  BY <1>3, <1>10

\* The worker asks: what the cache does not hold is announced.
LEMMA AskingAudits ==
    ASSUME Turning, Queued, AuditAsks
    PROVE  Turning' /\ Queued' /\ ToSet(handed') = {Asks(n) : n \in wanted'}
<1>. DEFINE M == Missing(place)
            S == {LookedUp(n, "pypi.org") : n \in M}
            q == SetToSeq(S)
<1>1. /\ at = "audit" /\ at' = "lookups" /\ wanted' = M /\ asking' = M /\ handed' = Behind(handed, q)
      /\ repo' = repo /\ place' = place /\ seen' = seen
  BY DEF AuditAsks
<1>2. handed = <<>> /\ place \in DOMAIN Bases
  BY <1>1 DEF Queued, Turning, Auditing
<1>3. IsFiniteSet(M)
  <2>1. IsFiniteSet(DOMAIN Pinned(place))
    BY <1>2, ReadOf
  <2>. QED  BY <2>1, FS_Subset DEF Missing
<1>4. IsFiniteSet(S)
  <2>. DEFINE f == [n \in M |-> LookedUp(n, "pypi.org")]
  <2>1. DOMAIN f = M /\ S = {f[n] : n \in DOMAIN f}
    OBVIOUS
  <2>. HIDE DEF f, M, S
  <2>. QED  BY <1>3, <2>1, FiniteImage
<1>5. /\ q \in Seq(S) /\ DOMAIN q = 1..Len(q) /\ Len(q) \in Nat /\ ToSet(q) = S
      /\ \A i, j \in DOMAIN q : q[i] = q[j] => i = j
  <2>. HIDE DEF S
  <2>. QED  BY <1>4, Listed
<1>6. handed' = q
  <2>. HIDE DEF S, q
  <2>. QED  BY <1>1, <1>2, <1>5 DEF Behind
<1>7. Turning'
  <2>1. /\ Bases' = Bases /\ \A b : Pinned(b)' = Pinned(b)
    BY <1>1, SameRepository
  <2>2. Pending' = M
    BY <1>1 DEF Pending
  <2>3. DOMAIN Pinned(place) \subseteq DOMAIN seen \cup M
    BY DEF Missing
  <2>4. \A b \in DOMAIN Bases : b < place => DOMAIN Pinned(b) \subseteq DOMAIN seen
    BY <1>1 DEF Turning, Auditing
  <2>. HIDE DEF M
  <2>5. repo' \in DOMAIN Repositories
    BY <1>1 DEF Turning
  <2>. QED  BY <1>1, <1>2, <1>3, <2>1, <2>2, <2>3, <2>4, <2>5 DEF Turning, Turns, Before, Auditing
<1>8. Queued'
  <2>. DEFINE A == {Asks(n) : n \in wanted'}
  <2>1. \A i \in DOMAIN handed' : handed'[i] \in A
    <3>1. S = A
      BY <1>1 DEF Asks
    <3>. HIDE DEF S, q, A
    <3>. QED  BY <1>5, <1>6, <3>1
  <2>2. \A i \in DOMAIN handed' : handed'[i] # Audited
    <3>. HIDE DEF q, S, M
    <3>. QED  BY <2>1, StepsApart
  <2>3. \A n : \A i \in DOMAIN handed' : handed'[i] # Learnt(n)'
    <3>1. \A n : Learnt(n)' \in {Answered(n, "pypi.org", found) : found \in {(seen[n] # NoFacts)'}}
      BY DEF Learnt
    <3>. HIDE DEF q, S, M
    <3>. QED  BY <2>1, <3>1, StepsApart
  <2>4. handed' \in Seq(A)
    <3>. HIDE DEF S, q, A
    <3>. QED  BY <1>5, <1>6, <2>1, Narrowed
  <2>5. handed' \in Seq({Asks(n)' : n \in wanted'} \cup {Learnt(n)' : n \in wanted' \cap DOMAIN seen'} \cup {Audited})
    <3>1. A = {Asks(n)' : n \in wanted'}
      BY DEF Asks
    <3>. HIDE DEF A
    <3>2. \A T : \A i \in DOMAIN handed' : handed'[i] \in A \cup T
      BY <2>1
    <3>. QED  BY <2>4, <3>1, <3>2, Narrowed
  <2>6. \A i, j \in DOMAIN handed' : handed'[i] = handed'[j] => i = j
    <3>. HIDE DEF q
    <3>. QED  BY <1>5, <1>6
  <2>7. \A i \in DOMAIN handed' : handed'[i] \in {Asks(n)' : n \in wanted'}
    BY <2>1 DEF Asks
  <2>. HIDE DEF q, S, M, A
  <2>. QED  BY <1>1, <2>2, <2>3, <2>5, <2>6, <2>7 DEF Queued
<1>9. ToSet(handed') = {Asks(n) : n \in wanted'}
  <2>1. S = {Asks(n) : n \in wanted'}
    BY <1>1 DEF Asks
  <2>. HIDE DEF S, q
  <2>. QED  BY <1>5, <1>6, <2>1
<1>. QED  BY <1>7, <1>8, <1>9

\* A thread of the pool answers: the cache holds one of the packages more.
LEMMA AnsweringPool ==
    ASSUME Turning, Queued, NEW n \in asking, PoolAnswers(n)
    PROVE  /\ Turning' /\ Queued' /\ at = "lookups" /\ at' = "lookups"
           /\ DOMAIN seen' = DOMAIN seen \cup {n} /\ \A m \in DOMAIN seen \ {n} : seen'[m] = seen[m]
           /\ \A i \in DOMAIN handed : handed[i] \in {Asks(m) : m \in wanted}
<1>1. /\ at' = at /\ wanted' = wanted /\ asking' = asking \ {n} /\ handed' = handed
      /\ repo' = repo /\ place' = place
  BY DEF PoolAnswers
<1>2. at = "lookups"
  BY DEF Turning
<1>3. DOMAIN seen' = DOMAIN seen \cup {n} /\ \A m \in DOMAIN seen \ {n} : seen'[m] = seen[m]
  BY DEF PoolAnswers, With
<1>4. \A i \in DOMAIN handed : handed[i] \in {Asks(m) : m \in wanted}
  BY <1>2 DEF Queued
<1>5. Turning'
  <2>1. Bases' = Bases /\ \A b : Pinned(b)' = Pinned(b)
    BY <1>1, SameRepository
  <2>2. Pending' \subseteq DOMAIN seen' \cup asking'
    BY <1>1, <1>2, <1>3 DEF Turning, Pending
  <2>. QED  BY <1>1, <1>2, <1>3, <2>1, <2>2 DEF Turning, Turns, Before, Auditing
<1>6. Queued'
  <2>1. \A i \in DOMAIN handed : handed[i] # Audited /\ \A m : handed[i] # Learnt(m)'
    <3>1. \A m : Learnt(m)' \in {Answered(m, "pypi.org", found) : found \in {(seen[m] # NoFacts)'}}
      BY DEF Learnt
    <3>. QED  BY <1>4, <3>1, StepsApart
  <2>2. \A T : handed \in Seq({Asks(m) : m \in wanted} \cup T)
    <3>1. \A T : \A i \in DOMAIN handed : handed[i] \in {Asks(m) : m \in wanted} \cup T
      BY <1>4
    <3>2. \E S : handed \in Seq(S)
      BY DEF Queued
    <3>. QED  BY <3>1, <3>2, Narrowed
  <2>3. handed' \in Seq({Asks(m)' : m \in wanted'}
                        \cup {Learnt(m)' : m \in wanted' \cap DOMAIN seen'} \cup {Audited})
    <3>. DEFINE A == {Asks(m) : m \in wanted}
                T == {Learnt(m)' : m \in wanted' \cap DOMAIN seen'} \cup {Audited}
    <3>1. A = {Asks(m)' : m \in wanted'}
      BY <1>1 DEF Asks
    <3>2. handed \in Seq(A \cup T)
      BY <2>2
    <3>3. A \cup {Learnt(m)' : m \in wanted' \cap DOMAIN seen'} \cup {Audited} = A \cup T
      OBVIOUS
    <3>. HIDE DEF A
    <3>. QED  BY <1>1, <3>1, <3>2, <3>3
  <2>4. \A i \in DOMAIN handed' : handed'[i] \in {Asks(m)' : m \in wanted'}
    BY <1>1, <1>4 DEF Asks
  <2>. QED  BY <1>1, <1>2, <2>1, <2>3, <2>4 DEF Queued
<1>. QED  BY <1>1, <1>2, <1>3, <1>4, <1>5, <1>6

\* A queue with more behind it, and one thing behind that.
LEMMA ThreeParts ==
    ASSUME NEW S, NEW T, NEW h \in Seq(S), NEW r \in Seq(T), NEW x, NEW q, q = (h \o r) \o <<x>>
    PROVE  /\ q \in Seq((S \cup T) \cup {x}) /\ Len(q) = Len(h) + Len(r) + 1 /\ DOMAIN q = 1..Len(q)
           /\ Len(h) \in Nat /\ Len(r) \in Nat
           /\ DOMAIN h = 1..Len(h) /\ DOMAIN r = 1..Len(r)
           /\ \A i \in 1..Len(h) : q[i] = h[i]
           /\ \A i \in (Len(h) + 1)..(Len(h) + Len(r)) : i - Len(h) \in 1..Len(r) /\ q[i] = r[i - Len(h)]
           /\ q[Len(q)] = x
<1>. DEFINE U == (S \cup T) \cup {x}
<1>1. /\ Len(h) \in Nat /\ Len(r) \in Nat /\ DOMAIN h = 1..Len(h) /\ DOMAIN r = 1..Len(r)
      /\ \A i \in DOMAIN h : h[i] \in S
      /\ \A i \in DOMAIN r : r[i] \in T
  OBVIOUS
<1>2. h \in Seq(U) /\ r \in Seq(U) /\ <<x>> \in Seq(U)
  BY <1>1, Narrowed
<1>3. PICK a \in Seq(U) : a = h \o r
  <2>. HIDE DEF U
  <2>1. h \o r \in Seq(U)
    BY <1>2
  <2>. QED  BY <2>1
<1>4. /\ Len(a) = Len(h) + Len(r) /\ DOMAIN a = 1..Len(a)
      /\ \A i \in 1..Len(h) : a[i] = h[i]
      /\ \A i \in (Len(h) + 1)..(Len(h) + Len(r)) : a[i] = r[i - Len(h)]
  <2>1. Len(a) = Len(h) + Len(r)
    BY <1>2, <1>3
  <2>2. \A i \in 1..Len(a) : a[i] = IF i <= Len(h) THEN h[i] ELSE r[i - Len(h)]
    BY <1>2, <1>3, ConcatProperties
  <2>. QED  BY <1>1, <2>1, <2>2
<1>5. q = a \o <<x>> /\ q \in Seq(U)
  BY <1>2, <1>3
<1>6. Len(q) = Len(a) + 1 /\ DOMAIN q = 1..Len(q)
  BY <1>2, <1>5
<1>7. \A i \in 1..Len(q) : q[i] = IF i <= Len(a) THEN a[i] ELSE x
  <2>1. PICK z \in Seq(U) : z = <<x>>
    BY <1>2
  <2>2. Len(z) = 1 /\ z[1] = x
    BY <2>1
  <2>3. \A i \in 1..Len(q) : q[i] = IF i <= Len(a) THEN a[i] ELSE z[i - Len(a)]
    BY <1>5, <2>1, ConcatProperties
  <2>4. Len(a) \in Nat
    OBVIOUS
  <2>5. \A i \in 1..Len(q) : i <= Len(a) \/ i - Len(a) = 1
    BY <1>6, <2>4
  <2>. QED  BY <2>2, <2>3, <2>5
<1>. HIDE DEF U
<1>8. q \in Seq((S \cup T) \cup {x})
  BY <1>5 DEF U
<1>. QED  BY <1>1, <1>4, <1>6, <1>7, <1>8

\* The queue once the pool is done: what was asked, what was learnt, the end.
EndsQueue(h, r, q) ==
    /\ h = handed /\ r \in Seq({Learnt(n) : n \in wanted})
    /\ ToSet(r) = {Learnt(n) : n \in wanted}
    /\ \A i, j \in DOMAIN r : r[i] = r[j] => i = j
    /\ q = (h \o r) \o <<Audited>>

\* When an audit ends, its answers go behind its questions, and "audited" behind
\* both: nothing of the audit can come later.
LEMMA EndsInThreeParts ==
    ASSUME Turning, Queued, AuditEnds
    PROVE  /\ \E r : EndsQueue(handed, r, handed')
           /\ at = "lookups" /\ at' = "audited" /\ wanted \subseteq DOMAIN seen
           /\ UNCHANGED <<repo, place, wanted, asking, seen, screen>>
           /\ handed \in Seq({Asks(n) : n \in wanted})
<1>. DEFINE S == {Answered(n, "pypi.org", seen[n] # NoFacts) : n \in wanted}
            r == SetToSeq(S)
<1>1. /\ at = "lookups" /\ at' = "audited" /\ asking = {}
      /\ UNCHANGED <<repo, place, wanted, asking, seen, screen>>
      /\ handed' = Behind(Behind(handed, r), <<Audited>>)
  BY DEF AuditEnds
<1>2. wanted \subseteq DOMAIN seen
  BY <1>1 DEF Turning, Pending
<1>3. S = {Learnt(n) : n \in wanted}
  BY DEF Learnt
<1>4. IsFiniteSet(S)
  <2>. DEFINE f == [n \in wanted |-> Answered(n, "pypi.org", seen[n] # NoFacts)]
  <2>1. DOMAIN f = wanted /\ S = {f[n] : n \in DOMAIN f}
    OBVIOUS
  <2>2. IsFiniteSet(wanted)
    BY DEF Turning
  <2>. HIDE DEF f, S
  <2>. QED  BY <2>1, <2>2, FiniteImage
<1>5. /\ r \in Seq(S) /\ ToSet(r) = S
      /\ \A i, j \in DOMAIN r : r[i] = r[j] => i = j
  <2>. HIDE DEF S
  <2>. QED  BY <1>4, Listed
<1>6. handed' = (handed \o r) \o <<Audited>>
  <2>. HIDE DEF r
  <2>. QED  BY <1>1 DEF Behind
<1>7. EndsQueue(handed, r, handed')
  <2>. HIDE DEF r, S
  <2>. QED  BY <1>3, <1>5, <1>6 DEF EndsQueue
<1>8. handed \in Seq({Asks(n) : n \in wanted})
  <2>1. \A i \in DOMAIN handed : handed[i] \in {Asks(n) : n \in wanted}
    BY <1>1 DEF Queued
  <2>2. \E T : handed \in Seq(T)
    BY DEF Queued
  <2>. QED  BY <2>1, <2>2, Narrowed
<1>. HIDE DEF r
<1>. QED  BY <1>1, <1>2, <1>7, <1>8

\* The end of an audit keeps what is known of audits and queue.
LEMMA EndingAudits ==
    ASSUME Turning, Queued, AuditEnds
    PROVE  Turning' /\ Queued'
<1>1. /\ at = "lookups" /\ at' = "audited" /\ wanted \subseteq DOMAIN seen
      /\ UNCHANGED <<repo, place, wanted, asking, seen, screen>>
      /\ handed \in Seq({Asks(n) : n \in wanted})
  BY EndsInThreeParts
<1>2. asking = {}
  BY DEF AuditEnds
<1>3. PICK r : EndsQueue(handed, r, handed')
  BY EndsInThreeParts
<1>. DEFINE A == {Asks(n) : n \in wanted}
            L == {Learnt(n) : n \in wanted}
<1>4. PICK h \in Seq(A) : h = handed
  BY <1>1
<1>5. PICK q : q = handed'
  OBVIOUS
<1>6. r \in Seq(L) /\ q = (h \o r) \o <<Audited>>
  BY <1>3, <1>4, <1>5 DEF EndsQueue
<1>7. /\ q \in Seq((A \cup L) \cup {Audited}) /\ Len(q) = Len(h) + Len(r) + 1 /\ DOMAIN q = 1..Len(q)
      /\ Len(h) \in Nat /\ Len(r) \in Nat
      /\ DOMAIN h = 1..Len(h) /\ DOMAIN r = 1..Len(r)
      /\ \A i \in 1..Len(h) : q[i] = h[i]
      /\ \A i \in (Len(h) + 1)..(Len(h) + Len(r)) : i - Len(h) \in 1..Len(r) /\ q[i] = r[i - Len(h)]
      /\ q[Len(q)] = Audited
  <2>. HIDE DEF A, L
  <2>. QED  BY <1>6, ThreeParts
<1>8. /\ \A i \in 1..Len(h) : q[i] \in A
      /\ \A i \in (Len(h) + 1)..(Len(h) + Len(r)) : q[i] \in L
  <2>1. \A i \in DOMAIN h : h[i] \in A
    <3>. HIDE DEF A
    <3>. QED  OBVIOUS
  <2>2. \A i \in DOMAIN r : r[i] \in L
    <3>. HIDE DEF L
    <3>. QED  BY <1>6
  <2>. HIDE DEF A, L
  <2>. QED  BY <1>7, <2>1, <2>2
<1>9. Audited \notin A /\ Audited \notin L /\ A \cap L = {}
  BY StepsApart DEF Learnt
<1>10. \A i \in DOMAIN q : \/ i \in 1..Len(h)
                           \/ i \in (Len(h) + 1)..(Len(h) + Len(r))
                           \/ i = Len(q)
  <2>. DEFINE x == Len(h)
              y == Len(r)
              z == Len(q)
  <2>1. x \in Nat /\ y \in Nat /\ z = x + y + 1 /\ DOMAIN q = 1..z
    BY <1>7
  <2>. HIDE DEF A, L, x, y, z
  <2>2. \A i \in 1..z : i \in 1..x \/ i \in (x + 1)..(x + y) \/ i = z
    BY <2>1
  <2>. QED  BY <2>1, <2>2 DEF x, y, z
<1>11. \A i \in DOMAIN q : q[i] = Audited => i = Len(q)
  <2>. HIDE DEF A, L
  <2>. QED  BY <1>8, <1>9, <1>10
<1>12. \A i, j \in DOMAIN q : q[i] = q[j] => i = j
  <2>1. /\ \A i, j \in DOMAIN h : h[i] = h[j] => i = j
        /\ \A i, j \in DOMAIN r : r[i] = r[j] => i = j
    BY <1>3, <1>4 DEF Queued, EndsQueue
  <2>. HIDE DEF A, L
  <2>2. SUFFICES ASSUME NEW i \in DOMAIN q, NEW j \in DOMAIN q, q[i] = q[j] PROVE i = j
    OBVIOUS
  <2>3. CASE i \in 1..Len(h)
    <3>1. q[j] \in A
      BY <1>8, <2>2, <2>3
    <3>2. j \in 1..Len(h)
      BY <1>7, <1>8, <1>9, <1>10, <3>1
    <3>. QED  BY <1>7, <2>1, <2>2, <2>3, <3>2
  <2>4. CASE i \in (Len(h) + 1)..(Len(h) + Len(r))
    <3>1. q[j] \in L
      BY <1>8, <2>2, <2>4
    <3>2. j \in (Len(h) + 1)..(Len(h) + Len(r))
      BY <1>7, <1>8, <1>9, <1>10, <3>1
    <3>3. r[i - Len(h)] = r[j - Len(h)] /\ i - Len(h) \in DOMAIN r /\ j - Len(h) \in DOMAIN r
      BY <1>7, <2>2, <2>4, <3>2
    <3>4. i - Len(h) = j - Len(h)
      BY <2>1, <3>3
    <3>. QED  BY <1>7, <2>4, <3>2, <3>4
  <2>5. CASE i = Len(q)
    <3>1. q[j] = Audited
      BY <1>7, <2>2, <2>5
    <3>. QED  BY <1>11, <2>5, <3>1
  <2>. QED  BY <1>10, <2>3, <2>4, <2>5
<1>13. \A i, j \in DOMAIN q : q[i] \in A /\ q[j] \in L => i < j
  <2>. HIDE DEF A, L
  <2>1. SUFFICES ASSUME NEW i \in DOMAIN q, NEW j \in DOMAIN q, q[i] \in A, q[j] \in L PROVE i < j
    OBVIOUS
  <2>2. i \in 1..Len(h)
    BY <1>7, <1>8, <1>9, <1>10, <2>1
  <2>3. j \in (Len(h) + 1)..(Len(h) + Len(r))
    BY <1>7, <1>8, <1>9, <1>10, <2>1
  <2>. QED  BY <1>7, <2>2, <2>3
<1>14. /\ \A n : Asks(n)' = Asks(n) /\ Learnt(n)' = Learnt(n)
       /\ A = {Asks(n)' : n \in wanted'} /\ L = {Learnt(n)' : n \in wanted' \cap DOMAIN seen'}
  <2>1. \A n : Asks(n)' = Asks(n) /\ Learnt(n)' = Learnt(n)
    BY <1>1 DEF Asks, Learnt
  <2>2. wanted' \cap DOMAIN seen' = wanted
    BY <1>1
  <2>. QED  BY <1>1, <2>1, <2>2
<1>15. \A n \in wanted : Asks(n) \in A /\ Learnt(n) \in L
  OBVIOUS
<1>16. Queued'
  <2>. HIDE DEF A, L
  <2>1. /\ handed' \in Seq({Asks(n)' : n \in wanted'}
                           \cup {Learnt(n)' : n \in wanted' \cap DOMAIN seen'} \cup {Audited})
    <3>1. q \in Seq((A \cup L) \cup {Audited})
      BY <1>7
    <3>. QED  BY <1>5, <1>14, <3>1
  <2>2. handed' # <<>> /\ handed'[Len(handed')] = Audited
    <3>1. Len(q) # 0
      BY <1>7
    <3>2. q # <<>>
      BY <3>1
    <3>. QED  BY <1>5, <1>7, <3>2
  <2>3. \A n \in wanted' \cap DOMAIN seen' : \A i, j \in DOMAIN handed' :
          handed'[i] = Asks(n)' /\ handed'[j] = Learnt(n)' => i < j
    BY <1>1, <1>5, <1>13, <1>14, <1>15
  <2>. QED  BY <1>1, <1>5, <1>11, <1>12, <2>1, <2>2, <2>3 DEF Queued
<1>17. Turning'
  <2>1. Bases' = Bases /\ \A b : Pinned(b)' = Pinned(b)
    BY <1>1, SameRepository
  <2>2. Pending' = wanted
    BY <1>1 DEF Pending
  <2>. QED  BY <1>1, <1>2, <2>1, <2>2 DEF Turning, Turns, Before, Auditing
<1>. QED  BY <1>16, <1>17

\* The loop takes the first of its queue.
Taken(x) ==
    /\ handed # <<>> /\ x = handed[1] /\ at \in {"lookups", "audited"}
    /\ Len(handed) \in Nat /\ DOMAIN handed = 1..Len(handed) /\ 1 \in DOMAIN handed
    /\ DOMAIN handed' = 1..(Len(handed) - 1) /\ Len(handed') = Len(handed) - 1
    /\ \A i \in DOMAIN handed' : i + 1 \in DOMAIN handed /\ handed'[i] = handed[i + 1]
    /\ ToSet(handed') = ToSet(handed) \ {x}
    /\ \A S : handed \in Seq(S) => handed' \in Seq(S)

\* A delivery takes the first of the queue and leaves the rest in order.
LEMMA TakingFirst ==
    ASSUME Turning, Queued, Deliver
    PROVE  Taken(Head(handed))
<1>. DEFINE x == Head(handed)
<1>1. handed # <<>> /\ handed' = Tail(handed)
  BY DEF Deliver
<1>2. PICK S : handed \in Seq(S)
  BY DEF Queued
<1>3. /\ Len(handed) \in Nat /\ Len(handed) >= 1 /\ DOMAIN handed = 1..Len(handed)
      /\ x = handed[1] /\ 1 \in DOMAIN handed
  BY <1>1, <1>2
<1>4. DOMAIN handed' = 1..(Len(handed) - 1) /\ Len(handed') = Len(handed) - 1
  BY <1>1, <1>2
<1>5. \A i \in DOMAIN handed' : i + 1 \in DOMAIN handed /\ handed'[i] = handed[i + 1]
  BY <1>1, <1>2, <1>3, <1>4
<1>6. ToSet(handed') = ToSet(handed) \ {x}
  <2>1. ToSet(handed') \subseteq ToSet(handed) \ {x}
    <3>1. \A i \in DOMAIN handed' : handed'[i] # x
      <4>1. \A i \in DOMAIN handed' : i + 1 # 1
        BY <1>4
      <4>2. \A i, j \in DOMAIN handed : handed[i] = handed[j] => i = j
        BY DEF Queued
      <4>. HIDE DEF x
      <4>. QED  BY <1>3, <1>5, <4>1, <4>2
    <3>. QED  BY <1>5, <3>1 DEF ToSet
  <2>2. ToSet(handed) \ {x} \subseteq ToSet(handed')
    <3>1. SUFFICES ASSUME NEW j \in DOMAIN handed, handed[j] # x PROVE handed[j] \in ToSet(handed')
      BY DEF ToSet
    <3>2. j # 1 /\ j - 1 \in 1..(Len(handed) - 1)
      BY <1>3, <3>1
    <3>3. handed'[j - 1] = handed[j]
      <4>1. handed'[j - 1] = handed[(j - 1) + 1]
        BY <1>4, <1>5, <3>2
      <4>2. (j - 1) + 1 = j
        BY <1>3
      <4>. QED  BY <4>1, <4>2
    <3>. QED  BY <1>4, <3>2, <3>3 DEF ToSet
  <2>. QED  BY <2>1, <2>2
<1>7. at \in {"lookups", "audited"}
  BY <1>1 DEF Queued
<1>8. \A T : handed \in Seq(T) => handed' \in Seq(T)
  BY <1>1
<1>. HIDE DEF x
<1>9. Taken(x)
  BY <1>1, <1>3, <1>4, <1>5, <1>6, <1>7, <1>8 DEF Taken
<1>. QED  BY <1>9 DEF x

\* What it takes is the turn of the coroutine, the last of the queue, or a step
\* of a lookup of this audit.
LEMMA TakenIs ==
    ASSUME Turning, Queued, NEW x, Taken(x)
    PROVE  /\ x = Audited => at = "audited" /\ Len(handed) = 1 /\ wanted \subseteq DOMAIN seen
           /\ x # Audited => \/ x \in {Asks(n) : n \in wanted}
                             \/ at = "audited" /\ x \in {Learnt(n) : n \in wanted \cap DOMAIN seen}
<1>. DEFINE A == {Asks(n) : n \in wanted}
            L == {Learnt(n) : n \in wanted \cap DOMAIN seen}
<1>1. handed[1] \in A \cup L \cup {Audited} /\ 1 \in DOMAIN handed /\ x = handed[1]
  <2>1. handed \in Seq(A \cup L \cup {Audited})
    BY DEF Queued
  <2>. HIDE DEF A, L
  <2>. QED  BY <2>1 DEF Taken
<1>2. at = "lookups" => x \in A
  BY <1>1 DEF Queued
<1>3. at = "lookups" \/ at = "audited"
  BY DEF Taken
<1>4. Audited \notin A
  BY StepsApart
<1>5. x = Audited => at = "audited" /\ 1 = Len(handed)
  <2>1. \A i \in DOMAIN handed : handed[i] = Audited => i = Len(handed)
    BY DEF Queued
  <2>. HIDE DEF A
  <2>. QED  BY <1>1, <1>2, <1>3, <1>4, <2>1
<1>6. at = "audited" => wanted \subseteq DOMAIN seen
  BY DEF Turning, Pending
<1>. QED  BY <1>1, <1>2, <1>3, <1>5, <1>6

\* The coroutine's turn: the next base, or the end of the audits.
LEMMA Woken ==
    ASSUME Turning, Queued, Deliver, Head(handed) = Audited
    PROVE  Turning' /\ Queued' /\ at' \in {"audit", "changelogs"}
<1>1. Taken(Audited)
  BY TakingFirst
<1>2. at = "audited" /\ Len(handed) = 1 /\ wanted \subseteq DOMAIN seen
  BY <1>1, TakenIs
<1>3. /\ repo' = repo /\ wanted' = wanted /\ asking' = asking /\ seen' = seen
      /\ \/ place < Len(Bases) /\ at' = "audit" /\ place' = place + 1
         \/ ~(place < Len(Bases)) /\ at' = "changelogs"
  BY DEF Deliver
<1>4. handed' = <<>>
  <2>1. PICK S : handed \in Seq(S)
    BY DEF Queued
  <2>2. handed' \in Seq(S) /\ Len(handed') = 0
    BY <1>1, <1>2, <2>1 DEF Taken
  <2>. QED  BY <2>2
<1>5. /\ Bases' = Bases /\ \A b : Pinned(b)' = Pinned(b)
      /\ DOMAIN Bases = 1..Len(Bases) /\ Len(Bases) \in Nat
  BY <1>3, SameRepository, ReadOf
<1>6. /\ place \in 1..Len(Bases) /\ DOMAIN Pinned(place) \subseteq DOMAIN seen
      /\ \A b \in 1..Len(Bases) : b < place => DOMAIN Pinned(b) \subseteq DOMAIN seen
  BY <1>2, <1>5 DEF Turning, Auditing
<1>7. \A b \in 1..Len(Bases) : b < place + 1 => DOMAIN Pinned(b) \subseteq DOMAIN seen
  <2>1. \A b \in 1..Len(Bases) : b < place + 1 => b < place \/ b = place
    BY <1>6
  <2>. QED  BY <1>6, <2>1
<1>8. ~(place < Len(Bases)) => \A b \in 1..Len(Bases) : b < place + 1
  BY <1>5, <1>6
<1>9. asking = {} /\ Pending' = {}
  BY <1>2, <1>3 DEF Turning, Pending
<1>10. at' \in {"audit", "changelogs"}
  BY <1>3
<1>11. /\ at' = "audit" => place' \in DOMAIN Bases' /\ place' = place + 1
       /\ at' = "changelogs" => \A b \in DOMAIN Bases' : DOMAIN Pinned(b)' \subseteq DOMAIN seen'
       /\ at' = "audit" => \A b \in DOMAIN Bases' : b < place' => DOMAIN Pinned(b)' \subseteq DOMAIN seen'
  <2>1. place < Len(Bases) => place + 1 \in 1..Len(Bases)
    BY <1>5, <1>6
  <2>. QED  BY <1>3, <1>5, <1>7, <1>8, <2>1
<1>12. Turning'
  <2>1. repo' \in DOMAIN Repositories /\ IsFiniteSet(wanted') /\ asking' \subseteq wanted'
    BY <1>3 DEF Turning
  <2>. QED  BY <1>3, <1>9, <1>10, <1>11, <2>1 DEF Turning, Turns, Before, Auditing
<1>13. Queued'
  BY <1>4, <1>10 DEF Queued
<1>. QED  BY <1>10, <1>12, <1>13

\* A step of a lookup.
LEMMA Delivered ==
    ASSUME Turning, Queued, Deliver, Head(handed) # Audited
    PROVE  Turning' /\ Queued' /\ at' = at /\ UNCHANGED <<repo, wanted, seen, dependencies>>
<1>1. PICK x : x = Head(handed)
  OBVIOUS
<1>2. Taken(x) /\ x # Audited
  BY <1>1, TakingFirst
<1>3. UNCHANGED <<repo, at, place, wanted, asking, seen, dependencies>>
  BY DEF Deliver
<1>4. Turning'
  <2>1. Bases' = Bases /\ \A b : Pinned(b)' = Pinned(b)
    BY <1>3, SameRepository
  <2>2. Pending' = Pending
    BY <1>3 DEF Pending
  <2>. QED  BY <1>3, <2>1, <2>2 DEF Turning
<1>5. at = "audited" => Len(handed) # 1
  BY <1>2 DEF Taken, Queued
<1>6. at = "audited" => handed' # <<>> /\ handed'[Len(handed')] = Audited
  <2>1. SUFFICES ASSUME at = "audited" PROVE handed' # <<>> /\ handed'[Len(handed')] = Audited
    OBVIOUS
  <2>2. Len(handed) - 1 \in 1..(Len(handed) - 1)
    BY <1>2, <1>5, <2>1 DEF Taken
  <2>3. handed'[Len(handed) - 1] = handed[(Len(handed) - 1) + 1]
    BY <1>2, <2>2 DEF Taken
  <2>4. (Len(handed) - 1) + 1 = Len(handed) /\ handed[Len(handed)] = Audited
    BY <1>2, <2>1 DEF Taken, Queued
  <2>5. handed' # <<>>
    <3>1. DOMAIN handed' # {}
      BY <1>2, <2>2 DEF Taken
    <3>. QED  BY <3>1
  <2>. QED  BY <1>2, <2>3, <2>4, <2>5 DEF Taken
<1>7. \A i \in DOMAIN handed' : handed'[i] = Audited => i = Len(handed')
  <2>1. SUFFICES ASSUME NEW i \in DOMAIN handed', handed'[i] = Audited PROVE i = Len(handed')
    OBVIOUS
  <2>2. i + 1 \in DOMAIN handed /\ handed[i + 1] = Audited
    BY <1>2, <2>1 DEF Taken
  <2>3. i + 1 = Len(handed)
    BY <2>2 DEF Queued
  <2>. QED  BY <1>2, <2>3 DEF Taken
<1>8. \A i, j \in DOMAIN handed' : handed'[i] = handed'[j] => i = j
  <2>1. SUFFICES ASSUME NEW i \in DOMAIN handed', NEW j \in DOMAIN handed', handed'[i] = handed'[j]
                 PROVE  i = j
    OBVIOUS
  <2>2. i + 1 \in DOMAIN handed /\ j + 1 \in DOMAIN handed /\ handed[i + 1] = handed[j + 1]
    BY <1>2, <2>1 DEF Taken
  <2>3. i + 1 = j + 1
    BY <2>2 DEF Queued
  <2>. QED  BY <1>2, <2>3 DEF Taken
<1>9. \A n : Asks(n)' = Asks(n) /\ Learnt(n)' = Learnt(n)
  BY <1>3 DEF Asks, Learnt
<1>10. \A n \in wanted \cap DOMAIN seen : \A i, j \in DOMAIN handed' :
          handed'[i] = Asks(n) /\ handed'[j] = Learnt(n) => i < j
  <2>1. SUFFICES ASSUME NEW n \in wanted \cap DOMAIN seen,
                        NEW i \in DOMAIN handed', NEW j \in DOMAIN handed',
                        handed'[i] = Asks(n), handed'[j] = Learnt(n)
                 PROVE  i < j
    OBVIOUS
  <2>2. /\ i + 1 \in DOMAIN handed /\ j + 1 \in DOMAIN handed
        /\ handed[i + 1] = Asks(n) /\ handed[j + 1] = Learnt(n)
    BY <1>2, <2>1 DEF Taken
  <2>3. i + 1 < j + 1
    BY <2>2 DEF Queued
  <2>. QED  BY <1>2, <2>3 DEF Taken
<1>11. /\ handed' \in Seq({Asks(n)' : n \in wanted'}
                          \cup {Learnt(n)' : n \in wanted' \cap DOMAIN seen'} \cup {Audited})
       /\ at = "lookups" => \A i \in DOMAIN handed' : handed'[i] \in {Asks(n)' : n \in wanted'}
  <2>. DEFINE A == {Asks(n) : n \in wanted}
              L == {Learnt(n) : n \in wanted \cap DOMAIN seen}
  <2>1. A = {Asks(n)' : n \in wanted'} /\ L = {Learnt(n)' : n \in wanted' \cap DOMAIN seen'}
    BY <1>3, <1>9
  <2>2. /\ handed \in Seq(A \cup L \cup {Audited})
        /\ at = "lookups" => \A i \in DOMAIN handed : handed[i] \in A
    BY DEF Queued
  <2>. HIDE DEF A, L
  <2>. QED  BY <1>2, <2>1, <2>2 DEF Taken
<1>12. at = "lookups" \/ at = "audited"
  BY <1>2 DEF Taken
<1>13. Queued'
  BY <1>3, <1>6, <1>7, <1>8, <1>9, <1>10, <1>11, <1>12 DEF Queued
<1>. QED  BY <1>3, <1>4, <1>13

\* Every action but those of the audit leaves it alone.
LEMMA AsideActions ==
    /\ Break \/ Refuse \/ SurveyStep \/ MapStep \/ Search \/ Searched \/ Announce \/ Select => Aside
    /\ \A m : Read(m) => Aside
    /\ Conclude \/ Observe \/ Complete => Aside
<1>. USE DEF Aside, Moves, auditing
<1>1. Break => Aside
  BY DEF Break, EndFailed
<1>2. Refuse => Aside
  BY DEF Refuse, EndFailed
<1>3. SurveyStep => Aside
  BY DEF SurveyStep
<1>4. MapStep => Aside
  BY DEF MapStep
<1>5. Search => Aside
  BY DEF Search
<1>6. Searched => Aside
  BY DEF Searched
<1>7. Announce => Aside
  BY DEF Announce
<1>8. Select => Aside
  BY DEF Select
<1>9. \A m : Read(m) => Aside
  <2>1. \A m : Route(m) => Aside
    BY DEF Route
  <2>2. \A m : Lose(m) => Aside
    BY DEF Lose
  <2>3. \A m, l : Answer(m, l) => Aside
    BY DEF Answer
  <2>4. \A m, l : Fail(m, l) => Aside
    BY DEF Fail
  <2>. QED  BY <2>1, <2>2, <2>3, <2>4 DEF Read
<1>10. Conclude => Aside
  BY DEF Conclude
<1>11. Observe => Aside
  BY DEF Observe
<1>12. Complete => Aside
  BY DEF Complete
<1>. QED  BY <1>1, <1>2, <1>3, <1>4, <1>5, <1>6, <1>7, <1>8, <1>9, <1>10, <1>11, <1>12

\* Every step keeps what is known of audits and queue.
LEMMA AuditKept ==
    ASSUME Turning, Queued, [Next]_vars
    PROVE  Turning' /\ Queued'
<1>1. ASSUME Aside PROVE Turning' /\ Queued'
  BY <1>1, AsideFromAudit
<1>2. CASE AuditAsks
  BY <1>2, AskingAudits
<1>3. ASSUME NEW n \in asking, PoolAnswers(n) PROVE Turning' /\ Queued'
  BY <1>3, AnsweringPool
<1>4. CASE AuditEnds
  BY <1>4, EndingAudits
<1>5. CASE Deliver
  BY <1>5, Woken, Delivered
<1>6. CASE UNCHANGED vars
  BY <1>6 DEF vars, auditing, Turning, Queued, Pending, Bases, Pinned, Asks, Learnt
<1>. QED  BY <1>1, <1>2, <1>3, <1>4, <1>5, <1>6, AsideActions DEF Next

\* So it is known at every moment of a review.
LEMMA AuditInvariance == Spec => [](Turning /\ Queued)
<1>1. Turning /\ Queued /\ [Next]_vars => (Turning /\ Queued)'
  BY AuditKept
<1>. QED  BY <1>1, AuditBegins, PTL DEF Spec

-----------------------------------------------------------------------------
(* The coverage. *)

\* A step that reads no module and makes no report.
Reads == /\ UNCHANGED <<map, batch, asked, heard, routed, report>>
         /\ at' \in Before \cup {"review"} => at \in Before
         /\ at' \in Before \cup {"review", "reading"} => at \in Before \cup {"review", "reading"}

\* Every step is of that kind, or one of the steps that read and report.
LEMMA NothingRead ==
    ASSUME Turning, Queued, Next
    PROVE  \/ Reads \/ Select \/ Conclude \/ Observe \/ Complete
           \/ \E m \in batch : \/ Route(m) \/ Lose(m)
                               \/ \E l \in DOMAIN Concerns : Answer(m, l) \/ Fail(m, l)
<1>. USE DEF Reads, reading, Before, Auditing
<1>1. Break => Reads
  BY DEF Break, EndFailed
<1>2. Refuse => Reads
  BY DEF Refuse, EndFailed
<1>3. SurveyStep => Reads
  BY DEF SurveyStep
<1>4. MapStep => Reads
  BY DEF MapStep
<1>5. AuditAsks => Reads
  BY DEF AuditAsks
<1>6. \A n \in asking : PoolAnswers(n) => Reads
  <2>1. \A n \in asking : PoolAnswers(n) => at' = at /\ UNCHANGED <<map, batch, asked, heard, routed, report>>
    BY DEF PoolAnswers
  <2>2. asking # {} => at = "lookups"
    BY DEF Turning
  <2>. QED  BY <2>1, <2>2
<1>7. AuditEnds => Reads
  BY DEF AuditEnds
<1>8. Deliver => Reads
  <2>1. Deliver => /\ UNCHANGED <<map, batch, asked, heard, routed, report>>
                   /\ at' \in {at, "audit", "changelogs"} /\ handed # <<>>
    BY DEF Deliver
  <2>2. handed # <<>> => at \in {"lookups", "audited"}
    BY DEF Queued
  <2>. QED  BY <2>1, <2>2
<1>9. Search => Reads
  BY DEF Search
<1>10. Searched => Reads
  BY DEF Searched
<1>11. Announce => Reads
  BY DEF Announce
<1>. HIDE DEF Reads, reading, Before, Auditing
<1>. QED  BY <1>1, <1>2, <1>3, <1>4, <1>5, <1>6, <1>7, <1>8, <1>9, <1>10, <1>11 DEF Next, Read

\* What may be read depends on the map alone.
LEMMA SameMap ==
    ASSUME map' = map
    PROVE  /\ Mapped' = Mapped /\ RaisedBy' = RaisedBy
           /\ \A m : Allowed(m)' = Allowed(m)
PROOF BY DEF Mapped, IdOf, RaisedBy, Allowed, PlaceOf

\* While a batch is read there is no report.
LEMMA ReadingRoutes ==
    ASSUME Routing, Counting, NEW m \in batch, Read(m)
    PROVE  Routing' /\ Counting'
<1>1. /\ at = "reading" /\ at' = at /\ batch' = batch /\ report' = report /\ map' = map
  BY DEF Read, Route, Lose, Answer, Fail
<1>2. Counting'
  <2>1. DOMAIN report' = {}
    BY <1>1 DEF Counting
  <2>. QED  BY <2>1 DEF Counting
<1>3. Mapped' = Mapped /\ \A p : Allowed(p)' = Allowed(p)
  BY <1>1, SameMap
<1>4. at' \notin Before \cup {"review"}
  BY <1>1 DEF Before, Auditing
<1>5. CASE Route(m)
  <2>1. PICK named : /\ asked' = With(asked, m, Chosen(m, named))
                     /\ routed' = IF Chosen(m, named) = {} THEN routed ELSE With(routed, m, Chosen(m, named))
    BY <1>5 DEF Route
  <2>2. heard' = With(heard, m, <<>>) /\ m \notin DOMAIN asked
    BY <1>5 DEF Route
  <2>. DEFINE chosen == Chosen(m, named)
  <2>3. chosen \subseteq Allowed(m)
    BY DEF Chosen
  <2>. HIDE DEF chosen
  <2>4. /\ DOMAIN asked' = DOMAIN asked \cup {m} /\ asked'[m] = chosen
        /\ \A p \in DOMAIN asked : asked'[p] = asked[p]
    BY <2>1, <2>2 DEF With, chosen
  <2>5. /\ DOMAIN heard' = DOMAIN heard \cup {m} /\ DOMAIN heard'[m] = {}
        /\ \A p \in DOMAIN asked : heard'[p] = heard[p]
    BY <2>2 DEF With, Routing
  <2>6. /\ DOMAIN routed' = IF chosen = {} THEN DOMAIN routed ELSE DOMAIN routed \cup {m}
        /\ \A p \in DOMAIN routed : routed'[p] = routed[p]
        /\ chosen # {} => routed'[m] = chosen
    <3>1. m \notin DOMAIN routed
      BY <2>2 DEF Routing
    <3>2. routed' = IF chosen = {} THEN routed ELSE With(routed, m, chosen)
      BY <2>1 DEF chosen
    <3>. QED  BY <3>1, <3>2 DEF With
  <2>7. \A p \in DOMAIN asked' : \A l \in asked'[p] \cup DOMAIN heard'[p] : p \in DOMAIN routed' /\ l \in routed'[p]
    <3>1. \A p \in DOMAIN asked : \A l \in asked'[p] \cup DOMAIN heard'[p] : p \in DOMAIN routed' /\ l \in routed'[p]
      BY <2>4, <2>5, <2>6 DEF Routing
    <3>2. \A l \in asked'[m] \cup DOMAIN heard'[m] : m \in DOMAIN routed' /\ l \in routed'[m]
      BY <2>4, <2>5, <2>6
    <3>. QED  BY <2>4, <3>1, <3>2
  <2>8. \A p \in DOMAIN routed' : routed'[p] \subseteq Allowed(p)
    BY <2>3, <2>6 DEF Routing
  <2>. QED  BY <1>1, <1>2, <1>3, <1>4, <2>4, <2>5, <2>6, <2>7, <2>8 DEF Routing
<1>6. CASE Lose(m)
  <2>1. /\ asked' = With(asked, m, {}) /\ heard' = With(heard, m, <<>>) /\ routed' = routed
        /\ m \notin DOMAIN asked
    BY <1>6 DEF Lose
  <2>2. /\ DOMAIN asked' = DOMAIN asked \cup {m} /\ asked'[m] = {}
        /\ DOMAIN heard' = DOMAIN heard \cup {m} /\ DOMAIN heard'[m] = {}
        /\ \A p \in DOMAIN asked : asked'[p] = asked[p] /\ heard'[p] = heard[p]
    BY <2>1 DEF With, Routing
  <2>. QED  BY <1>1, <1>2, <1>3, <1>4, <2>1, <2>2 DEF Routing
<1>7. CASE \E l \in DOMAIN Concerns : Answer(m, l) \/ Fail(m, l)
  <2>1. PICK l \in DOMAIN Concerns : Answer(m, l) \/ Fail(m, l)
    BY <1>7
  <2>2. /\ m \in DOMAIN asked /\ l \in asked[m] /\ routed' = routed
        /\ asked' = [asked EXCEPT ![m] = @ \ {l}]
    BY <2>1 DEF Answer, Fail
  <2>3. DOMAIN heard' = DOMAIN heard /\ \A p \in DOMAIN heard : DOMAIN heard'[p] \subseteq DOMAIN heard[p] \cup (IF p = m THEN {l} ELSE {})
    <3>1. ASSUME Answer(m, l) PROVE \E drafts : heard' = [heard EXCEPT ![m] = With(@, l, drafts)]
      BY <3>1 DEF Answer
    <3>2. ASSUME Fail(m, l) PROVE heard' = heard
      BY <3>2 DEF Fail
    <3>3. \A drafts : DOMAIN With(heard[m], l, drafts) = DOMAIN heard[m] \cup {l}
      BY DEF With
    <3>. QED  BY <2>1, <3>1, <3>2, <3>3
  <2>4. DOMAIN asked' = DOMAIN asked /\ \A p \in DOMAIN asked : asked'[p] \subseteq asked[p]
    BY <2>2
  <2>5. \A p \in DOMAIN asked : \A k \in asked'[p] \cup DOMAIN heard'[p] : k \in asked[p] \cup DOMAIN heard[p]
    BY <2>2, <2>3, <2>4 DEF Routing
  <2>. QED  BY <1>1, <1>2, <1>3, <1>4, <2>2, <2>3, <2>4, <2>5 DEF Routing
<1>. QED  BY <1>5, <1>6, <1>7 DEF Read

\* The report's rows, when it is made.
LEMMA ConcludingCounts ==
    ASSUME Routing, Counting, Conclude
    PROVE  Routing' /\ Counting'
<1>1. /\ at = "reading" /\ AllBack /\ at' = "synthesis" /\ map' = map /\ UNCHANGED <<batch, asked, heard, routed>>
  BY DEF Conclude, reading
<1>2. PICK made : report' = [findings |-> made.findings, dropped |-> made.dropped,
                         rows |-> Pass!Rows(Analysed, routed, made.findings),
                         unattributed |-> Pass!Unattributed(made.findings),
                         pressures |-> Forecasts(made.findings), synthesis |-> <<>>,
                         architecture |-> <<>>, deployment |-> {}]
  BY DEF Conclude
<1>3. Mapped' = Mapped /\ RaisedBy' = RaisedBy /\ \A p : Allowed(p)' = Allowed(p)
  BY <1>1, SameMap
<1>4. at' \notin Before \cup {"review", "reading"}
  BY <1>1 DEF Before, Auditing
<1>5. Routing'
  BY <1>1, <1>3, <1>4 DEF Routing
<1>6. Analysed' = Analysed
  BY <1>1 DEF Analysed
<1>7. \A l \in DOMAIN Concerns :
         Pass!Rows(Analysed, routed, made.findings)[l].reviewed
             = {p \in RaisedBy[l] \cap Analysed : p \in DOMAIN routed /\ l \in routed[p]}
  <2>1. DOMAIN RaisedBy = DOMAIN Concerns
    BY DEF RaisedBy
  <2>2. \A l \in DOMAIN Concerns : Pass!Rows(Analysed, routed, made.findings)[l]
                                      = Pass!Row(l, Analysed, routed, made.findings)
    BY <2>1 DEF Pass!Rows
  <2>3. \A l \in DOMAIN Concerns : Pass!Row(l, Analysed, routed, made.findings).reviewed
              = {p \in RaisedBy[l] \cap Analysed : p \in DOMAIN routed /\ l \in routed[p]}
    BY DEF Pass!Row
  <2>. QED  BY <2>2, <2>3
<1>8. /\ {"rows", "findings"} \subseteq DOMAIN report'
      /\ report'.rows = Pass!Rows(Analysed, routed, made.findings)
  BY <1>2
<1>9. Counting'
  BY <1>1, <1>3, <1>4, <1>6, <1>7, <1>8 DEF Counting, AllBack
<1>. QED  BY <1>5, <1>9

\* Every step keeps what is known of what was routed and read.
LEMMA CoverageKept ==
    ASSUME Turning, Queued, Routing, Counting, [Next]_vars
    PROVE  Routing' /\ Counting'
<1>1. CASE Reads
  <2>1. UNCHANGED <<map, batch, asked, heard, routed, report>>
    BY <1>1 DEF Reads
  <2>2. Mapped' = Mapped /\ RaisedBy' = RaisedBy /\ Analysed' = Analysed /\ \A p : Allowed(p)' = Allowed(p)
    BY <2>1, SameMap DEF Analysed
  <2>. QED  BY <1>1, <2>1, <2>2 DEF Routing, Counting, Reads
<1>2. CASE Select
  <2>1. /\ at = "review" /\ at' = "reading" /\ UNCHANGED <<map, asked, heard, routed, report>>
        /\ \A m \in batch' : m \in Mapped /\ Allowed(m) # {}
    BY <1>2 DEF Select, Signalled
  <2>2. DOMAIN asked = {} /\ DOMAIN report = {}
    BY <2>1 DEF Routing, Counting
  <2>3. Mapped' = Mapped /\ \A p : Allowed(p)' = Allowed(p)
    BY <2>1, SameMap
  <2>. QED  BY <2>1, <2>2, <2>3 DEF Routing, Counting
<1>3. CASE Conclude
  BY <1>3, ConcludingCounts
<1>4. ASSUME Observe \/ Complete PROVE Routing' /\ Counting'
  <2>1. /\ at' \in {"write", "over"} /\ at \in {"synthesis", "write"}
        /\ UNCHANGED <<map, batch, asked, heard, routed>>
    BY <1>4 DEF Observe, Complete, reading
  <2>2. \/ \E x : report' = [report EXCEPT !.synthesis = x]
        \/ \E x, y : report' = [report EXCEPT !.architecture = x, !.deployment = y]
    BY <1>4 DEF Observe, Complete
  <2>3. /\ DOMAIN report' = DOMAIN report
        /\ {"rows", "findings"} \subseteq DOMAIN report => report'.rows = report.rows
    BY <2>2
  <2>4. Mapped' = Mapped /\ RaisedBy' = RaisedBy /\ Analysed' = Analysed /\ \A p : Allowed(p)' = Allowed(p)
    BY <2>1, SameMap DEF Analysed
  <2>5. at' \notin Before \cup {"review", "reading"}
    BY <2>1 DEF Before, Auditing
  <2>. QED  BY <2>1, <2>3, <2>4, <2>5 DEF Routing, Counting
<1>5. ASSUME NEW m \in batch, Read(m) PROVE Routing' /\ Counting'
  BY <1>5, ReadingRoutes
<1>6. CASE UNCHANGED vars
  <2>1. UNCHANGED <<at, map, batch, asked, heard, routed, report>>
    BY <1>6 DEF vars, reading
  <2>2. Mapped' = Mapped /\ RaisedBy' = RaisedBy /\ Analysed' = Analysed /\ \A p : Allowed(p)' = Allowed(p)
    BY <2>1, SameMap DEF Analysed
  <2>. QED  BY <2>1, <2>2 DEF Routing, Counting
<1>. QED  BY <1>1, <1>2, <1>3, <1>4, <1>5, <1>6, NothingRead DEF Read

\* Nothing is routed or read to begin with.
LEMMA CoverageBegins == Init => Routing /\ Counting
<1>1. SUFFICES ASSUME Init PROVE Routing /\ Counting
  OBVIOUS
<1>2. batch = {} /\ asked = <<>> /\ heard = <<>> /\ routed = <<>> /\ report = <<>>
  BY <1>1 DEF Init
<1>3. DOMAIN asked = {} /\ DOMAIN heard = {} /\ DOMAIN routed = {} /\ DOMAIN report = {}
  BY <1>2
<1>. QED  BY <1>2, <1>3 DEF Routing, Counting

\* So what was routed and read is known at every moment of a review.
LEMMA CoverageInvariance == Spec => [](Turning /\ Queued /\ Routing /\ Counting)
<1>1. Init => Routing /\ Counting
  BY CoverageBegins
<1>2. Turning /\ Queued /\ Routing /\ Counting /\ [Next]_vars => (Turning /\ Queued /\ Routing /\ Counting)'
  BY AuditKept, CoverageKept
<1>. QED  BY <1>1, <1>2, AuditBegins, PTL DEF Spec

\* What a report says was read (coverage.py, engineering_coverage): whatever
\* triage asked and whichever specialists failed, a row counts every module its
\* specialist was heard about, and none that was not put to it.
THEOREM CoverageAlwaysBounded == Spec => []CoverageIsBounded
<1>1. Routing /\ Counting => CoverageIsBounded
  <2>1. SUFFICES ASSUME Routing, Counting, DOMAIN report # {}, NEW l \in DOMAIN Concerns
                 PROVE  LET reviewed == report.rows[l].reviewed
                        IN  /\ {m \in batch : l \in DOMAIN heard[m]} \subseteq reviewed
                            /\ reviewed \subseteq {m \in Analysed : l \in routed[m]}
    BY DEF CoverageIsBounded
  <2>2. report.rows[l].reviewed = {p \in RaisedBy[l] \cap Analysed : p \in DOMAIN routed /\ l \in routed[p]}
    BY <2>1 DEF Counting
  <2>3. ASSUME NEW m \in batch, l \in DOMAIN heard[m]
        PROVE  m \in RaisedBy[l] \cap Analysed /\ m \in DOMAIN routed /\ l \in routed[m]
    <3>1. m \in DOMAIN routed /\ l \in routed[m]
      BY <2>1, <2>3 DEF Routing, Counting
    <3>2. m \in Mapped /\ l \in Allowed(m)
      BY <2>1, <3>1 DEF Routing
    <3>. QED  BY <2>3, <3>1, <3>2 DEF RaisedBy, Analysed
  <2>. QED  BY <2>2, <2>3
<1>. QED  BY <1>1, CoverageInvariance, PTL

-----------------------------------------------------------------------------
(* What the review makes of its answers is lists, and so is what it says. *)

\* FlattenSeq is the same in the instance of Passes.
LEMMA Flattens ==
    ASSUME NEW seqs
    PROVE  Pass!FlattenSeq(seqs) = FlattenSeq(seqs)
PROOF BY DEF FlattenSeq, Pass!FlattenSeq

\* The passes count as we do, and what they build by counting is a list.
LEMMA Counted ==
    ASSUME NEW S
    PROVE  Pass!Cardinality(S) = Cardinality(S)
PROOF BY DEF Pass!Cardinality, Cardinality

\* What has a place for each member of a finite set is a list.
LEMMA ListOfSome ==
    ASSUME NEW D, IsFiniteSet(D), NEW P, P \subseteq D,
           NEW s, DOMAIN s = 1..Pass!Cardinality(P), s = [i \in DOMAIN s |-> s[i]]
    PROVE  IsList(s) /\ IsFiniteSet(DOMAIN s)
<1>1. Pass!Cardinality(P) \in Nat
  BY Counted, FS_Subset, FS_CardinalityType
<1>2. PICK n \in Nat : n = Pass!Cardinality(P)
  BY <1>1
<1>. QED  BY <1>2, ListOf

\* What is sorted by the places modules and specialists have is a list of them.
LEMMA SortedIsList ==
    ASSUME NEW S, IsFiniteSet(S)
    PROVE  /\ IsList(InOrder(S)) /\ Len(InOrder(S)) = Cardinality(S)
           /\ S \subseteq DOMAIN Order => \A i \in DOMAIN InOrder(S) : InOrder(S)[i] \in S
<1>. DEFINE n == Cardinality(S)
            q == InOrder(S)
            below(x) == {y \in S : Order[y] < Order[x]}
<1>1. n \in Nat
  BY FS_CardinalityType
<1>2. DOMAIN q = 1..Pass!Cardinality(S) /\ q = [i \in DOMAIN q |-> q[i]]
  BY DEF InOrder, Pass!Sorted
<1>3. Pass!Cardinality(S) = n
  BY Counted
<1>4. IsList(q) /\ Len(q) = n
  <2>. HIDE DEF q, n
  <2>. QED  BY <1>1, <1>2, <1>3, ListOf
<1>5. ASSUME S \subseteq DOMAIN Order, NEW i \in 1..n PROVE q[i] \in S
  <2>1. /\ \A x \in S : Order[x] \in Int
        /\ \A x, y \in S : Order[x] = Order[y] => x = y
    BY <1>5, ReviewsAreRead
  <2>. DEFINE rank == [x \in S |-> Cardinality(below(x)) + 1]
  <2>2. \A x \in S : /\ below(x) \subseteq S \ {x} /\ IsFiniteSet(below(x)) /\ Cardinality(below(x)) \in Nat
                     /\ Cardinality(below(x)) <= n - 1
    <3>1. TAKE x \in S
    <3>2. below(x) \subseteq S \ {x}
      BY <2>1
    <3>3. IsFiniteSet(S \ {x}) /\ Cardinality(S \ {x}) = n - 1
      BY FS_RemoveElement
    <3>. HIDE DEF below
    <3>. QED  BY <3>2, <3>3, FS_Subset, FS_CardinalityType
  <2>3. \A x, y \in S : Order[x] < Order[y] => Cardinality(below(x)) < Cardinality(below(y))
    <3>1. SUFFICES ASSUME NEW x \in S, NEW y \in S, Order[x] < Order[y]
                   PROVE  Cardinality(below(x)) < Cardinality(below(y))
      OBVIOUS
    <3>2. below(x) \subseteq below(y) \ {x} /\ x \in below(y)
      BY <2>1, <3>1
    <3>. HIDE DEF below
    <3>3. IsFiniteSet(below(y) \ {x}) /\ Cardinality(below(y) \ {x}) = Cardinality(below(y)) - 1
      BY <2>2, <3>2, FS_RemoveElement
    <3>4. Cardinality(below(x)) <= Cardinality(below(y) \ {x})
      BY <3>2, <3>3, FS_Subset
    <3>. QED  BY <2>2, <3>3, <3>4
  <2>. HIDE DEF below
  <2>4. \A x \in S : Cardinality(below(x)) + 1 \in 1..n
    BY <1>1, <2>2
  <2>5. rank \in [S -> 1..n]
    BY <2>4
  <2>6. \A x, y \in S : rank[x] = rank[y] => x = y
    <3>1. \A x, y \in S : Cardinality(below(x)) = Cardinality(below(y)) => x = y
      BY <2>1, <2>2, <2>3
    <3>2. \A x, y \in S : Cardinality(below(x)) + 1 = Cardinality(below(y)) + 1 => Cardinality(below(x)) = Cardinality(below(y))
      BY <2>2
    <3>. QED  BY <3>1, <3>2
  <2>7. rank \in Injection(S, 1..n)
    <3>. HIDE DEF rank
    <3>. QED  BY <2>5, <2>6, Fun_IsInj
  <2>8. IsFiniteSet(1..n) /\ Cardinality(1..n) = n
    BY <1>1, FS_Interval
  <2>9. rank \in Surjection(S, 1..n)
    <3>. HIDE DEF rank
    <3>. QED  BY <2>7, <2>8, FS_Injection
  <2>10. \E x \in S : rank[x] = i
    <3>. HIDE DEF rank
    <3>. QED  BY <2>9 DEF Surjection
  <2>11. PICK x \in S : Cardinality(below(x)) + 1 = i
    BY <2>10
  <2>12. Cardinality(below(x)) = i - 1
    BY <2>2, <2>11
  <2>13. q[i] = CHOOSE y \in S : Pass!Cardinality(below(y)) = i - 1
    BY <1>3 DEF InOrder, Pass!Sorted, below
  <2>14. \A y : Pass!Cardinality(below(y)) = Cardinality(below(y))
    BY Counted
  <2>. QED  BY <2>12, <2>13, <2>14
<1>. HIDE DEF q, n
<1>6. DOMAIN q = 1..n
  BY <1>2, <1>3
<1>. QED  BY <1>4, <1>5, <1>6 DEF q, n

\* The drafts about one construct are as many as they may be, in a list.
LEMMA SplitIsList ==
    ASSUME NEW group, IsFiniteSet(DOMAIN group)
    PROVE  IsList(Pass!Split(group))
<1>. DEFINE prose == Pass!Kept(group, LAMBDA d : Pass!Metric(d) = "")
            claims == Pass!Kept(group, LAMBDA d : Pass!Metric(d) # "")
            byMetric == Pass!Grouped(claims, Pass!Metric)
            members == IF Pass!Len(byMetric) = 1 THEN << byMetric[1] \o prose >>
                       ELSE IF prose = <<>> THEN byMetric ELSE Append(byMetric, prose)
<1>1. Pass!Split(group) = [i \in DOMAIN members |-> Pass!Merge(members[i])]
  BY DEF Pass!Split
<1>2. DOMAIN claims = 1..Pass!Cardinality({i \in DOMAIN group : Pass!Metric(group[i]) # ""})
  BY DEF Pass!Kept, Pass!Sorted
<1>3. claims = [i \in DOMAIN claims |-> claims[i]]
  BY DEF Pass!Kept, Pass!Sorted
<1>4. IsList(claims) /\ IsFiniteSet(DOMAIN claims)
  <2>. HIDE DEF claims
  <2>. QED  BY <1>2, <1>3, ListOfSome
<1>. HIDE DEF claims
<1>5. DOMAIN byMetric = 1..Pass!Cardinality({i \in DOMAIN claims :
          \A j \in 1..(i - 1) : Pass!Metric(claims[j]) # Pass!Metric(claims[i])})
  BY DEF Pass!Grouped, Pass!Sorted
<1>6. byMetric = [i \in DOMAIN byMetric |-> byMetric[i]]
  BY DEF Pass!Grouped, Pass!Sorted
<1>. HIDE DEF byMetric
<1>7. IsList(byMetric)
  BY <1>4, <1>5, <1>6, ListOfSome
<1>. HIDE DEF prose
<1>8. members = << byMetric[1] \o prose >> \/ members = byMetric \/ members = Append(byMetric, prose)
  OBVIOUS
<1>. HIDE DEF members
<1>9. \E n \in Nat : DOMAIN members = 1..n
  <2>1. CASE members = << byMetric[1] \o prose >>
    BY <2>1
  <2>2. CASE members = byMetric
    BY <1>7, <2>2, ListHas
  <2>3. CASE members = Append(byMetric, prose)
    <3>1. PICK S : S = ToSet(byMetric) \cup {prose}
      OBVIOUS
    <3>2. byMetric \in Seq(S) /\ prose \in S
      BY <1>7, <3>1, ListHas
    <3>3. members \in Seq(S)
      BY <2>3, <3>2
    <3>4. DOMAIN members = 1..Len(members) /\ Len(members) \in Nat
      BY <3>3
    <3>. QED  BY <3>4
  <2>. QED  BY <1>8, <2>1, <2>2, <2>3
<1>10. PICK n \in Nat : DOMAIN members = 1..n
  BY <1>9
<1>11. PICK s : s = [i \in DOMAIN members |-> Pass!Merge(members[i])]
  OBVIOUS
<1>12. DOMAIN s = 1..n /\ s = [i \in DOMAIN s |-> s[i]]
  BY <1>10, <1>11
<1>13. IsList(s)
  BY <1>12, ListOf
<1>. QED  BY <1>1, <1>11, <1>13

\* What is left of one module's drafts is a list.
LEMMA ReconcileIsList ==
    ASSUME NEW drafts, IsFiniteSet(DOMAIN drafts)
    PROVE  IsList(Pass!Reconcile(drafts))
<1>. DEFINE groups == Pass!Grouped(drafts, LAMBDA d : << d.path, d.symbol >>)
            each == [i \in DOMAIN groups |-> Pass!Split(groups[i])]
<1>1. Pass!Reconcile(drafts) = Pass!FlattenSeq(each)
  BY DEF Pass!Reconcile
<1>2. DOMAIN groups = 1..Pass!Cardinality({ i \in DOMAIN drafts :
          \A j \in 1..(i - 1) : <<drafts[j].path, drafts[j].symbol>> # <<drafts[i].path, drafts[i].symbol>> })
  BY DEF Pass!Grouped, Pass!Sorted
<1>3. \A i \in DOMAIN groups : \E o :
         DOMAIN groups[i] = 1..Pass!Cardinality({j \in DOMAIN drafts :
             <<drafts[j].path, drafts[j].symbol>> = <<drafts[o].path, drafts[o].symbol>>})
  BY DEF Pass!Grouped, Pass!Sorted, Pass!Kept
<1>4. groups = [i \in DOMAIN groups |-> groups[i]]
  BY DEF Pass!Grouped, Pass!Sorted
<1>. HIDE DEF groups
<1>5. \A P \in SUBSET DOMAIN drafts : Pass!Cardinality(P) \in Nat
  BY Counted, FS_Subset, FS_CardinalityType
<1>6. \A i \in DOMAIN groups : \E k \in Nat : DOMAIN groups[i] = 1..k
  BY <1>3, <1>5
<1>7. \A i \in DOMAIN groups : IsFiniteSet(DOMAIN groups[i])
  <2>1. \A k \in Nat : IsFiniteSet(1..k)
    BY FS_Interval
  <2>. QED  BY <1>6, <2>1
<1>8. \A i \in DOMAIN groups : IsList(Pass!Split(groups[i]))
  BY <1>7, SplitIsList
<1>9. IsList(groups)
  BY <1>2, <1>4, ListOfSome
<1>10. PICK n \in Nat : DOMAIN groups = 1..n
  BY <1>9, ListHas
<1>11. DOMAIN each = 1..n /\ each = [i \in DOMAIN each |-> each[i]] /\ \A i \in DOMAIN each : IsList(each[i])
  BY <1>8, <1>10
<1>. HIDE DEF each
<1>12. IsList(each)
  BY <1>11, ListOf
<1>. QED  BY <1>1, <1>11, <1>12, FlattenedIsList, Flattens

\* What is left after the collapse is a list.
LEMMA CollapseIsList ==
    ASSUME NEW findings, IsFiniteSet(DOMAIN findings)
    PROVE  IsList(Pass!Collapse(findings).findings)
<1>. DEFINE many == Pass!Kept(findings, Pass!Comparable)
            few == Pass!Kept(findings, LAMBDA f : ~ Pass!Comparable(f))
            groups == Pass!Grouped(many, LAMBDA f : << f.layers, Pass!Shape(f) >>)
            order == Pass!Sorted({ i \in DOMAIN many : \A j \in 1..(i - 1) :
                <<many[j].layers, Pass!Shape(many[j])>> # <<many[i].layers, Pass!Shape(many[i])>> }, <)
            alike(i) == {j \in DOMAIN many : <<many[j].layers, Pass!Shape(many[j])>>
                             = <<many[order[i]].layers, Pass!Shape(many[order[i]])>>}
            inner(i) == Pass!Sorted(alike(i), <)
            each == [i \in DOMAIN groups |-> Pass!Collapsed(groups[i])]
            left == [i \in DOMAIN each |-> each[i].findings]
<1>1. Pass!Collapse(findings).findings = few \o Pass!FlattenSeq(left)
  BY DEF Pass!Collapse
<1>2. DOMAIN many = 1..Pass!Cardinality({i \in DOMAIN findings : Pass!Comparable(findings[i])})
  BY DEF Pass!Kept, Pass!Sorted
<1>3. many = [i \in DOMAIN many |-> many[i]]
  BY DEF Pass!Kept, Pass!Sorted
<1>4. DOMAIN few = 1..Pass!Cardinality({i \in DOMAIN findings : ~ Pass!Comparable(findings[i])})
  BY DEF Pass!Kept, Pass!Sorted
<1>5. few = [i \in DOMAIN few |-> few[i]]
  BY DEF Pass!Kept, Pass!Sorted
<1>6. IsList(many) /\ IsFiniteSet(DOMAIN many)
  <2>. HIDE DEF many
  <2>. QED  BY <1>2, <1>3, ListOfSome
<1>7. IsList(few)
  <2>. HIDE DEF few
  <2>. QED  BY <1>4, <1>5, ListOfSome
<1>. HIDE DEF many, few
<1>8. DOMAIN groups = 1..Pass!Cardinality({ i \in DOMAIN many : \A j \in 1..(i - 1) :
          <<many[j].layers, Pass!Shape(many[j])>> # <<many[i].layers, Pass!Shape(many[i])>> })
  BY DEF Pass!Grouped, Pass!Sorted
<1>9. groups = [i \in DOMAIN groups |-> groups[i]]
  BY DEF Pass!Grouped, Pass!Sorted
<1>10a. \A i \in DOMAIN groups : DOMAIN groups[i] = 1..Pass!Cardinality(alike(i))
  BY DEF Pass!Grouped, Pass!Sorted, Pass!Kept
<1>10b. \A i \in DOMAIN groups : groups[i] = [n \in DOMAIN inner(i) |-> many[inner(i)[n]]]
  BY DEF Pass!Grouped, Pass!Sorted, Pass!Kept
<1>. HIDE DEF groups, inner
<1>11. IsList(groups)
  BY <1>6, <1>8, <1>9, ListOfSome
<1>12. ASSUME NEW i \in DOMAIN groups PROVE IsList(groups[i])
  <2>1. alike(i) \subseteq DOMAIN many
    OBVIOUS
  <2>. HIDE DEF alike
  <2>2. PICK g : g = groups[i]
    OBVIOUS
  <2>3. PICK P : P = alike(i)
    OBVIOUS
  <2>4. PICK D : D = DOMAIN inner(i)
    OBVIOUS
  <2>5. g = [n \in D |-> many[inner(i)[n]]]
    BY <1>10b, <2>2, <2>4
  <2>6. DOMAIN g = 1..Pass!Cardinality(P) /\ g = [n \in DOMAIN g |-> g[n]]
    BY <1>10a, <2>2, <2>3, <2>5
  <2>7. IsList(g)
    BY <1>6, <2>1, <2>3, <2>6, ListOfSome
  <2>. QED  BY <2>2, <2>7
<1>13. ASSUME NEW group, IsList(group) PROVE IsList(Pass!Collapsed(group).findings)
  <2>1. \/ Pass!Collapsed(group).findings = group
        \/ \E x : Pass!Collapsed(group).findings = <<x>>
    BY DEF Pass!Collapsed
  <2>2. \A x : IsList(<<x>>)
    <3>1. TAKE x
    <3>2. PICK S : S = {x}
      OBVIOUS
    <3>3. <<x>> \in Seq(S)
      BY <3>2
    <3>. QED  BY <3>3, ListIs
  <2>. QED  BY <1>13, <2>1, <2>2
<1>14. DOMAIN left = DOMAIN groups /\ \A i \in DOMAIN groups : left[i] = Pass!Collapsed(groups[i]).findings
  OBVIOUS
<1>15. left = [i \in DOMAIN left |-> left[i]]
  OBVIOUS
<1>. HIDE DEF left
<1>16. PICK n \in Nat : DOMAIN groups = 1..n
  BY <1>11, ListHas
<1>17. IsList(left) /\ \A i \in DOMAIN left : IsList(left[i])
  BY <1>12, <1>13, <1>14, <1>15, <1>16, ListOf
<1>18. PICK q : q = Pass!FlattenSeq(left)
  OBVIOUS
<1>19. IsList(q)
  BY <1>17, <1>18, FlattenedIsList, Flattens
<1>20. PICK all : all = few \o q
  OBVIOUS
<1>. QED  BY <1>1, <1>7, <1>18, <1>19, <1>20, ListsJoin

\* What is returned of the drafts that were heard is a list.
LEMMA FinishedIsList ==
    ASSUME NEW drafts, IsFiniteSet(DOMAIN drafts)
    PROVE  IsList(Pass!Finished(drafts).findings)
<1>. DEFINE makes == Pass!Kept(drafts, Pass!Makes)
            made == Pass!ToReport(drafts).findings
            anchored == [i \in DOMAIN made |-> Pass!Cap(made[i])]
            true == Pass!Kept(anchored, LAMBDA f : ~ Pass!Contradicted(f))
            kept == IF Pass!Indexed = {} THEN anchored ELSE true
            found == Pass!Collapse(kept).findings
<1>1. DOMAIN makes = 1..Pass!Cardinality({i \in DOMAIN drafts : Pass!Makes(drafts[i])})
  BY DEF Pass!Kept, Pass!Sorted
<1>2. makes = [i \in DOMAIN makes |-> makes[i]]
  BY DEF Pass!Kept, Pass!Sorted
<1>3. IsFiniteSet(DOMAIN makes)
  <2>. HIDE DEF makes
  <2>. QED  BY <1>1, <1>2, ListOfSome
<1>4. DOMAIN anchored = DOMAIN makes
  BY DEF Pass!ToReport
<1>5. DOMAIN true = 1..Pass!Cardinality({i \in DOMAIN anchored : ~ Pass!Contradicted(anchored[i])})
  <2>. HIDE DEF anchored
  <2>. QED  BY DEF Pass!Kept, Pass!Sorted
<1>6. true = [i \in DOMAIN true |-> true[i]]
  <2>. HIDE DEF anchored
  <2>. QED  BY DEF Pass!Kept, Pass!Sorted
<1>7. IsFiniteSet(DOMAIN true)
  <2>. HIDE DEF true, anchored, makes
  <2>. QED  BY <1>3, <1>4, <1>5, <1>6, ListOfSome
<1>8. IsFiniteSet(DOMAIN kept)
  <2>. HIDE DEF true, anchored, makes
  <2>. QED  BY <1>3, <1>4, <1>7
<1>9. Pass!Finished(drafts).findings = Pass!Rank(found)
  BY DEF Pass!Finished
<1>10. IsList(found)
  <2>. HIDE DEF kept
  <2>. QED  BY <1>8, CollapseIsList
<1>. HIDE DEF found
<1>11. PICK ranked : ranked = Pass!Rank(found)
  OBVIOUS
<1>12. DOMAIN Pass!Rank(found) = 1..Pass!Cardinality(DOMAIN found)
  BY DEF Pass!Rank, Pass!Sorted
<1>13. LET r == Pass!Rank(found) IN r = [i \in DOMAIN r |-> r[i]]
  BY DEF Pass!Rank, Pass!Sorted
<1>14. ranked = [i \in DOMAIN ranked |-> ranked[i]]
  BY <1>11, <1>13
<1>15. IsList(ranked)
  BY <1>10, <1>11, <1>12, <1>14, ListHas, ListOfSome
<1>. QED  BY <1>9, <1>11, <1>15

-----------------------------------------------------------------------------
(* What the specialists say of the modules of the map. *)

\* A map there is has finitely many modules, each with lists for opinions.
LEMMA MapIsRead ==
    ASSUME Turning, Charted, DOMAIN map # {}
    PROVE  /\ IsFiniteSet(map.modules) /\ IsFiniteSet(Mapped) /\ IsFiniteSet(DOMAIN LanguagesIn)
           /\ \A m \in Mapped : \A l \in Allowed(m) :
                 /\ l \in DOMAIN Concerns /\ m \in DOMAIN Order
                 /\ \A drafts \in Opinions[<<m, l>>] : IsList(drafts)
<1>1. map = MapOf(Repositories[repo]) /\ repo \in DOMAIN Repositories
  BY DEF Charted, Mapping, Turning
<1>2. IsFiniteSet(map.modules)
  BY <1>1, RepositoriesAreRead
<1>3. IsFiniteSet(Mapped)
  <2>. DEFINE f == [i \in map.modules |-> IdOf(i)]
  <2>1. DOMAIN f = map.modules /\ Mapped = {f[i] : i \in DOMAIN f}
    BY DEF Mapped
  <2>. HIDE DEF f
  <2>. QED  BY <1>2, <2>1, FiniteImage
<1>4. IsFiniteSet(DOMAIN LanguagesIn)
  <2>. DEFINE f == [i \in map.modules |-> LanguageOf[map.sources[i].ext]]
  <2>1. DOMAIN f = map.modules /\ DOMAIN LanguagesIn = {f[i] : i \in DOMAIN f}
    BY DEF LanguagesIn
  <2>. HIDE DEF f
  <2>. QED  BY <1>2, <2>1, FiniteImage
<1>5. \A i \in map.modules : \A l \in DOMAIN Concerns :
         Concerns[l] \cap map.sources[i].signals # {} =>
             /\ map.sources[i].id \in DOMAIN Order
             /\ \A drafts \in Opinions[<<map.sources[i].id, l>>] : IsList(drafts)
  BY <1>1, ReviewsAreRead
<1>6. ASSUME NEW m \in Mapped, NEW l \in Allowed(m)
      PROVE  /\ l \in DOMAIN Concerns /\ m \in DOMAIN Order
             /\ \A drafts \in Opinions[<<m, l>>] : IsList(drafts)
  <2>1. PlaceOf(m) \in map.modules /\ IdOf(PlaceOf(m)) = m
    BY <1>6 DEF Mapped, PlaceOf
  <2>2. l \in DOMAIN Concerns /\ Concerns[l] \cap map.sources[PlaceOf(m)].signals # {}
    BY <1>6 DEF Allowed
  <2>3. map.sources[PlaceOf(m)].id = m
    BY <2>1 DEF IdOf
  <2>. HIDE DEF PlaceOf
  <2>. QED  BY <1>5, <2>1, <2>2, <2>3
<1>. QED  BY <1>2, <1>3, <1>4, <1>6

\* What was heard of a module is a list of findings.
LEMMA SaidIsList ==
    ASSUME Turning, Charted, DOMAIN map # {}, Routing, Hearing, NEW m \in DOMAIN heard
    PROVE  IsList(Said(m))
<1>. DEFINE D == DOMAIN heard[m]
            q == InOrder(D)
            each == [i \in DOMAIN q |-> heard[m][q[i]]]
<1>1. D \subseteq DOMAIN Concerns
  <2>1. m \in Mapped
    BY DEF Routing
  <2>2. \A l \in D : l \in Allowed(m)
    BY DEF Routing
  <2>. QED  BY <2>1, <2>2, MapIsRead
<1>2. IsFiniteSet(D) /\ D \subseteq DOMAIN Order
  BY <1>1, ReviewsAreRead, FS_Subset
<1>3. \A l \in D : IsList(heard[m][l])
  BY DEF Hearing
<1>. HIDE DEF D
<1>4. IsList(q) /\ \A i \in DOMAIN q : q[i] \in D
  BY <1>2, SortedIsList
<1>5. Said(m) = Pass!Reconcile(FlattenSeq(each))
  BY DEF Said, D
<1>. HIDE DEF q
<1>6. PICK n \in Nat : DOMAIN q = 1..n
  BY <1>4, ListHas
<1>7. DOMAIN each = 1..n /\ each = [i \in DOMAIN each |-> each[i]] /\ \A i \in DOMAIN each : IsList(each[i])
  BY <1>3, <1>4, <1>6
<1>. HIDE DEF each
<1>8. IsList(each)
  BY <1>7, ListOf
<1>9. IsList(FlattenSeq(each))
  BY <1>7, <1>8, FlattenedIsList
<1>10. IsFiniteSet(DOMAIN FlattenSeq(each))
  BY <1>9, ListHas
<1>. QED  BY <1>5, <1>10, ReconcileIsList

\* What was heard of the whole batch is a list of findings.
LEMMA DraftsAreList ==
    ASSUME Turning, Charted, DOMAIN map # {}, Routing, Hearing, AllBack
    PROVE  IsList(Drafts)
<1>. DEFINE q == InOrder(batch)
            each == [i \in DOMAIN q |-> Said(q[i])]
<1>1. batch = DOMAIN heard
  BY DEF Routing, AllBack
<1>2. batch \subseteq Mapped /\ batch \subseteq DOMAIN Order
  <2>1. \A m \in batch : m \in Mapped /\ \E l \in Allowed(m) : TRUE
    BY DEF Routing
  <2>. QED  BY <2>1, MapIsRead
<1>3. IsFiniteSet(batch)
  BY <1>2, MapIsRead, FS_Subset
<1>4. IsList(q) /\ \A i \in DOMAIN q : q[i] \in batch
  BY <1>2, <1>3, SortedIsList
<1>5. Drafts = FlattenSeq(each)
  BY DEF Drafts
<1>. HIDE DEF q
<1>6. PICK n \in Nat : DOMAIN q = 1..n
  BY <1>4, ListHas
<1>7. DOMAIN each = 1..n /\ each = [i \in DOMAIN each |-> each[i]] /\ \A i \in DOMAIN each : IsList(each[i])
  <2>1. DOMAIN each = 1..n /\ each = [i \in DOMAIN each |-> each[i]]
    BY <1>6
  <2>2. \A i \in DOMAIN q : IsList(Said(q[i]))
    BY <1>1, <1>4, SaidIsList
  <2>. QED  BY <2>1, <2>2
<1>. HIDE DEF each
<1>8. IsList(each)
  BY <1>7, ListOf
<1>. QED  BY <1>5, <1>7, <1>8, FlattenedIsList

-----------------------------------------------------------------------------
(* What each action says. *)

\* Where the findings among some steps are.
Among(steps) == {step.at : step \in {x \in steps : x.event = "finding.detected"}}

\* The screen after steps that prove no stage but those from low to high, and
\* that announce what was found.
Spoken(low, high, found) ==
    /\ IsScreen(screen') /\ Passed(screen.steps, screen'.steps)
    /\ screen'.findings = screen.findings \cup found
    /\ \A s \in 1..5 : s < low /\ screen.stages[s] = "done" => screen'.stages[s] = "done"
    /\ \A s \in 1..5 : screen'.stages[s] = "done" => s < high \/ screen.stages[s] = "done"

\* Saying a list of quiet steps shows the findings among them, and moves no
\* stage outside its bounds.
LEMMA SayList ==
    ASSUME IsScreen(screen), NEW q, IsList(q), Say(q), NEW low \in Int, NEW high \in Int,
           \A x \in ToSet(q) : Quiet(x, low, high)
    PROVE  Spoken(low, high, Among(ToSet(q)))
<1>1. PICK base : base = screen
  OBVIOUS
<1>2. PICK next : next = screen'
  OBVIOUS
<1>3. next = Shown(base, q)
  BY <1>1, <1>2 DEF Say, Shown
<1>4. PICK n \in Nat : DOMAIN q = 1..n
  BY ListHas
<1>5. \A i \in 1..n : Quiet(q[i], low, high)
  BY <1>4 DEF ToSet
<1>6. Told(base, q, n, low, high, next)
  BY <1>1, <1>3, <1>4, <1>5, Saying
<1>7. PlacesOn(q, n) = Among(ToSet(q))
  <2>1. \A x : x \in PlacesOn(q, n) <=> \E i \in 1..n : q[i].event = "finding.detected" /\ x = q[i].at
    BY DEF PlacesOn
  <2>2. \A x : x \in Among(ToSet(q)) <=> \E i \in 1..n : q[i].event = "finding.detected" /\ x = q[i].at
    BY <1>4 DEF Among, ToSet
  <2>. QED  BY <2>1, <2>2
<1>. QED  BY <1>1, <1>2, <1>6, <1>7 DEF Told, Spoken

\* The steps that are quiet.
LEMMA QuietSteps ==
    \A x : /\ x.event \in {"review.started", "review.failed", "scheduler", "finding.detected"} =>
                 \A low, high : Quiet(x, low, high)
           /\ x.event \in {"review.started", "scout.started", "service.detected"} => Quiet(x, 1, 1)
           /\ x.event \in {"language.detected", "structure.discovered", "model.built"} => Quiet(x, 2, 2)
           /\ x.event \in {"agent.started", "agent.handoff", "agent.finished"} => Quiet(x, 4, 4)
           /\ x.event \in {"finding.detected", "coverage.computed", "prediction.generated"} => Quiet(x, 5, 5)
<1>1. 1 \in 1..1 /\ 2 \in 2..2 /\ 4 \in 4..4 /\ 5 \in 5..5
  OBVIOUS
<1>2. \A e \in {"review.started", "review.failed", "scheduler", "finding.detected"} : e \notin DOMAIN StageOf
  BY StageNumbers
<1>. QED  BY <1>1, <1>2, StageNumbers DEF Quiet

\* Short lists.
LEMMA Short ==
    /\ IsList(<<>>) /\ ToSet(<<>>) = {}
    /\ \A x : IsList(<<x>>) /\ ToSet(<<x>>) = {x}
    /\ \A x, y : IsList(<<x, y>>) /\ ToSet(<<x, y>>) = {x, y}
<1>1. IsList(<<>>) /\ ToSet(<<>>) = {}
  BY DEF IsList, ToSet
<1>2. ASSUME NEW x PROVE IsList(<<x>>) /\ ToSet(<<x>>) = {x}
  <2>1. ToSet(<<x>>) = {x}
    BY DEF ToSet
  <2>. QED  BY <2>1 DEF IsList
<1>3. ASSUME NEW x, NEW y PROVE IsList(<<x, y>>) /\ ToSet(<<x, y>>) = {x, y}
  <2>1. ToSet(<<x, y>>) = {x, y}
    <3>1. PICK q : q = <<x, y>>
      OBVIOUS
    <3>2. DOMAIN q = {1, 2} /\ q[1] = x /\ q[2] = y
      BY <3>1
    <3>3. ToSet(q) = {x, y}
      BY <3>2 DEF ToSet
    <3>. QED  BY <3>1, <3>3
  <2>. QED  BY <2>1 DEF IsList
<1>. QED  BY <1>1, <1>2, <1>3

\* A list of one step for each number.
LEMMA Repeated ==
    ASSUME NEW n \in Nat, NEW q, DOMAIN q = 1..n, q = [i \in DOMAIN q |-> q[i]],
           NEW S, \A i \in 1..n : q[i] \in S
    PROVE  IsList(q) /\ ToSet(q) \subseteq S
PROOF BY ListOf DEF ToSet

\* Two lists of steps of some kind are one.
LEMMA JoinedOf ==
    ASSUME NEW S, NEW s, IsList(s), ToSet(s) \subseteq S, NEW t, IsList(t), ToSet(t) \subseteq S
    PROVE  IsList(s \o t) /\ ToSet(s \o t) \subseteq S
<1>1. PICK q : q = s \o t
  OBVIOUS
<1>2. IsList(q) /\ ToSet(q) = ToSet(s) \cup ToSet(t)
  BY <1>1, ListsJoin
<1>. QED  BY <1>1, <1>2

\* Steps that announce nothing.
LEMMA SayNothing ==
    ASSUME IsScreen(screen), NEW q, IsList(q), Say(q), NEW low \in Int, NEW high \in Int,
           \A x \in ToSet(q) : Quiet(x, low, high) /\ x.event # "finding.detected"
    PROVE  Spoken(low, high, {})
<1>1. Among(ToSet(q)) = {}
  BY DEF Among
<1>2. Spoken(low, high, Among(ToSet(q)))
  BY SayList
<1>. QED  BY <1>1, <1>2

\* What the survey says.
LEMMA SurveySaid ==
    ASSUME Turning, SurveyStep
    PROVE  \E q : /\ IsList(q) /\ Say(q)
                 /\ \A x \in ToSet(q) :
                       x.event \in {"review.started", "scout.started", "service.detected"}
<1>. DEFINE known == [s \in DOMAIN Services(Compose) |-> Event("service.detected")]
            S == {Event("review.started"), Event("scout.started"), Event("service.detected")}
<1>1. Say(<<Event("review.started"), Event("scout.started")>> \o known)
  BY DEF SurveyStep
<1>2. PICK n \in Nat : DOMAIN Services(Compose) = 1..n
  BY ReadOf, ListHas
<1>3. IsList(known) /\ ToSet(known) \subseteq S
  <2>1. DOMAIN known = 1..n /\ known = [i \in DOMAIN known |-> known[i]] /\ \A i \in 1..n : known[i] \in S
    BY <1>2
  <2>. HIDE DEF known, S
  <2>. QED  BY <2>1, Repeated
<1>. HIDE DEF known
<1>4. PICK first : first = <<Event("review.started"), Event("scout.started")>>
  OBVIOUS
<1>5. IsList(first) /\ ToSet(first) \subseteq S
  BY <1>4, Short
<1>6. \A x \in S : x.event \in {"review.started", "scout.started", "service.detected"}
  BY DEF Event
<1>7. PICK second : second = known
  OBVIOUS
<1>. HIDE DEF S
<1>8. PICK q : q = first \o second
  OBVIOUS
<1>9. IsList(q) /\ ToSet(q) \subseteq S
  BY <1>3, <1>5, <1>7, <1>8, JoinedOf
<1>10. Say(q)
  BY <1>1, <1>4, <1>7, <1>8
<1>. QED  BY <1>6, <1>9, <1>10

\* It speaks of the first stage only.
LEMMA SurveySays ==
    ASSUME Turning, IsScreen(screen), SurveyStep
    PROVE  Spoken(1, 1, {})
<1>1. PICK q : /\ IsList(q) /\ Say(q)
               /\ \A x \in ToSet(q) :
                     x.event \in {"review.started", "scout.started", "service.detected"}
  BY SurveySaid
<1>2. \A x \in ToSet(q) : Quiet(x, 1, 1) /\ x.event # "finding.detected"
  BY <1>1, QuietSteps
<1>. QED  BY <1>1, <1>2, SayNothing

\* The steps of the map: what it found, and behind that the path of a request.
PathSteps == IF DOMAIN Tiers = {} THEN <<>> ELSE <<[event |-> "model.built", layers |-> Tiers]>>

LEMMA MapSaid ==
    ASSUME Turning, Charted, MapStep
    PROVE  \E q : /\ IsList(q) /\ Say(q \o PathSteps)
                 /\ \A x \in ToSet(q) : x.event \in {"language.detected", "structure.discovered"}
<1>. DEFINE spoken == [i \in 1..Cardinality(DOMAIN LanguagesIn) |-> Event("language.detected")]
            S == {Event("structure.discovered"), Event("language.detected")}
<1>1. Say((<<Event("structure.discovered")>> \o spoken) \o PathSteps) /\ DOMAIN map # {}
  BY DEF MapStep, PathSteps
<1>2. PICK n \in Nat : n = Cardinality(DOMAIN LanguagesIn)
  BY <1>1, MapIsRead, FS_CardinalityType
<1>3. IsList(spoken) /\ ToSet(spoken) \subseteq S
  <2>1. DOMAIN spoken = 1..n /\ spoken = [i \in DOMAIN spoken |-> spoken[i]] /\ \A i \in 1..n : spoken[i] \in S
    BY <1>2
  <2>. HIDE DEF spoken, S
  <2>. QED  BY <2>1, Repeated
<1>. HIDE DEF spoken
<1>4. PICK first : first = <<Event("structure.discovered")>>
  OBVIOUS
<1>5. IsList(first) /\ ToSet(first) \subseteq S
  BY <1>4, Short
<1>6. \A x \in S : x.event \in {"language.detected", "structure.discovered"}
  BY DEF Event
<1>. HIDE DEF S
<1>7. PICK second : second = spoken
  OBVIOUS
<1>8. PICK q : q = first \o second
  OBVIOUS
<1>9. IsList(q) /\ ToSet(q) \subseteq S
  BY <1>3, <1>5, <1>7, <1>8, JoinedOf
<1>10. Say(q \o PathSteps)
  BY <1>1, <1>4, <1>7, <1>8
<1>. QED  BY <1>6, <1>9, <1>10

\* It speaks of the second stage only.
LEMMA MapSays ==
    ASSUME Turning, Charted, IsScreen(screen), MapStep
    PROVE  Spoken(2, 2, {})
<1>1. PICK q : /\ IsList(q) /\ Say(q \o PathSteps)
               /\ \A x \in ToSet(q) : x.event \in {"language.detected", "structure.discovered"}
  BY MapSaid
<1>2. PICK path : path = PathSteps
  OBVIOUS
<1>3. IsList(path) /\ \A x \in ToSet(path) : x.event = "model.built"
  <2>1. PICK last : last = [event |-> "model.built", layers |-> Tiers]
    OBVIOUS
  <2>2. path = <<>> \/ path = <<last>>
    BY <1>2, <2>1 DEF PathSteps
  <2>3. last.event = "model.built"
    BY <2>1
  <2>. QED  BY <2>2, <2>3, Short
<1>4. PICK r : r = q \o path
  OBVIOUS
<1>5. IsList(r) /\ ToSet(r) = ToSet(q) \cup ToSet(path)
  BY <1>1, <1>3, <1>4, ListsJoin
<1>6. \A x \in ToSet(r) : Quiet(x, 2, 2) /\ x.event # "finding.detected"
  BY <1>1, <1>3, <1>5, QuietSteps
<1>7. Say(r)
  BY <1>1, <1>2, <1>4
<1>. QED  BY <1>5, <1>6, <1>7, SayNothing

\* A list of announcements, and what it announces.
LEMMA Announced ==
    ASSUME NEW n \in Nat, NEW keys, NEW q, DOMAIN q = 1..n, q = [i \in DOMAIN q |-> q[i]],
           \A i \in 1..n : q[i] = Detected(keys[i])
    PROVE  /\ IsList(q) /\ \A x \in ToSet(q) : x.event = "finding.detected"
           /\ Among(ToSet(q)) = {keys[i] : i \in 1..n}
<1>1. IsList(q)
  BY ListOf
<1>2. \A i \in 1..n : q[i].event = "finding.detected" /\ q[i].at = keys[i]
  BY DEF Detected
<1>3. \A x : x \in ToSet(q) <=> \E i \in 1..n : x = q[i]
  BY DEF ToSet
<1>4. \A y : y \in Among(ToSet(q)) <=> \E i \in 1..n : y = keys[i]
  BY <1>2, <1>3 DEF Among
<1>5. Among(ToSet(q)) = {keys[i] : i \in 1..n}
  BY <1>4
<1>. QED  BY <1>1, <1>2, <1>3, <1>5

\* The findings among two sets of steps.
LEMMA AmongBoth ==
    ASSUME NEW A, NEW B
    PROVE  Among(A \cup B) = Among(A) \cup Among(B)
PROOF BY DEF Among

\* The announcements show the findings of the deterministic checks, and move no stage.
LEMMA AnnounceSays ==
    ASSUME IsScreen(screen), Announce, IsList(checks.schema), IsList(dependencies)
    PROVE  Spoken(6, 0, Deterministic)
<1>. DEFINE schema == [i \in DOMAIN checks.schema |-> KeyOfSchema(checks.schema[i])]
            packages == [i \in DOMAIN dependencies |-> KeyOfPackage(dependencies[i])]
            one == [i \in DOMAIN checks.schema |-> Detected(KeyOfSchema(checks.schema[i]))]
            two == [i \in DOMAIN dependencies |-> Detected(KeyOfPackage(dependencies[i]))]
<1>1. Say(one \o two)
  BY DEF Announce
<1>2. PICK n \in Nat : DOMAIN checks.schema = 1..n
  BY ListHas
<1>3. PICK m \in Nat : DOMAIN dependencies = 1..m
  BY ListHas
<1>4. /\ IsList(one) /\ \A x \in ToSet(one) : x.event = "finding.detected"
      /\ Among(ToSet(one)) = {schema[i] : i \in 1..n}
  <2>1. DOMAIN one = 1..n /\ one = [i \in DOMAIN one |-> one[i]] /\ \A i \in 1..n : one[i] = Detected(schema[i])
    BY <1>2
  <2>. HIDE DEF one, schema
  <2>. QED  BY <2>1, Announced
<1>5. /\ IsList(two) /\ \A x \in ToSet(two) : x.event = "finding.detected"
      /\ Among(ToSet(two)) = {packages[i] : i \in 1..m}
  <2>1. DOMAIN two = 1..m /\ two = [i \in DOMAIN two |-> two[i]] /\ \A i \in 1..m : two[i] = Detected(packages[i])
    BY <1>3
  <2>. HIDE DEF two, packages
  <2>. QED  BY <2>1, Announced
<1>6. Deterministic = {schema[i] : i \in 1..n} \cup {packages[i] : i \in 1..m}
  <2>1. {schema[i] : i \in 1..n} = {KeyOfSchema(f) : f \in ToSet(checks.schema)}
    BY <1>2 DEF ToSet
  <2>2. {packages[i] : i \in 1..m} = {KeyOfPackage(f) : f \in ToSet(dependencies)}
    BY <1>3 DEF ToSet
  <2>. QED  BY <2>1, <2>2 DEF Deterministic
<1>. HIDE DEF one, two, schema, packages
<1>7. PICK a : a = one
  OBVIOUS
<1>8. PICK b : b = two
  OBVIOUS
<1>9. PICK q : q = a \o b
  OBVIOUS
<1>10. IsList(q) /\ ToSet(q) = ToSet(a) \cup ToSet(b)
  BY <1>4, <1>5, <1>7, <1>8, <1>9, ListsJoin
<1>11. Among(ToSet(q)) = Deterministic
  BY <1>4, <1>5, <1>6, <1>7, <1>8, <1>10, AmongBoth
<1>12. PICK low \in Int : low = 6
  OBVIOUS
<1>13. PICK high \in Int : high = 0
  OBVIOUS
<1>14. \A x \in ToSet(q) : Quiet(x, low, high)
  BY <1>4, <1>5, <1>7, <1>8, <1>10, QuietSteps
<1>15. Say(q)
  BY <1>1, <1>7, <1>8, <1>9
<1>16. Spoken(low, high, Deterministic)
  BY <1>10, <1>11, <1>14, <1>15, SayList
<1>. QED  BY <1>12, <1>13, <1>16

\* The selection of the modules shows no finding and moves no stage.
LEMMA SelectSays ==
    ASSUME Turning, Charted, IsScreen(screen), Select
    PROVE  Spoken(6, 0, {})
<1>1. PICK picked \in SUBSET Signalled :
         Say([i \in DOMAIN InOrder(picked) |-> [event |-> "scheduler", module |-> InOrder(picked)[i]]])
  BY DEF Select
<1>2. DOMAIN map # {}
  BY DEF Charted, Select
<1>3. IsFiniteSet(picked)
  <2>1. picked \subseteq Mapped
    BY DEF Signalled
  <2>. QED  BY <1>2, <2>1, MapIsRead, FS_Subset
<1>4. PICK n \in Nat : DOMAIN InOrder(picked) = 1..n
  BY <1>3, SortedIsList, ListHas
<1>5. PICK q : q = [i \in DOMAIN InOrder(picked) |-> [event |-> "scheduler", module |-> InOrder(picked)[i]]]
  OBVIOUS
<1>6. DOMAIN q = 1..n /\ q = [i \in DOMAIN q |-> q[i]] /\ \A i \in 1..n : q[i].event = "scheduler"
  BY <1>4, <1>5
<1>7. IsList(q) /\ \A x \in ToSet(q) : x.event = "scheduler"
  BY <1>6, ListOf DEF ToSet
<1>8. PICK low \in Int : low = 6
  OBVIOUS
<1>9. PICK high \in Int : high = 0
  OBVIOUS
<1>10. \A x \in ToSet(q) : Quiet(x, low, high) /\ x.event # "finding.detected"
  BY <1>7, QuietSteps
<1>11. Spoken(low, high, {})
  BY <1>1, <1>5, <1>7, <1>10, SayNothing
<1>. QED  BY <1>8, <1>9, <1>11

\* Routing speaks of the specialists' stage only.
LEMMA RouteSays ==
    ASSUME IsScreen(screen), NEW m, Route(m)
    PROVE  Spoken(4, 4, {})
<1>1. PICK named : Say(IF Chosen(m, named) = {} THEN <<>>
                 ELSE <<Event("agent.handoff")>> \o SetToSeq(
                        {[event |-> "agent.started", layer |-> l, module |-> m] : l \in Chosen(m, named)}))
  BY DEF Route
<1>. DEFINE S == {[event |-> "agent.started", layer |-> l, module |-> m] : l \in Chosen(m, named)}
            started == SetToSeq(S)
<1>2. IsFiniteSet(S)
  <2>. DEFINE f == [l \in Chosen(m, named) |-> [event |-> "agent.started", layer |-> l, module |-> m]]
  <2>1. DOMAIN f = Chosen(m, named) /\ S = {f[l] : l \in DOMAIN f}
    OBVIOUS
  <2>2. IsFiniteSet(Chosen(m, named))
    <3>1. Chosen(m, named) \subseteq DOMAIN Concerns
      BY DEF Chosen, Allowed
    <3>. QED  BY <3>1, ReviewsAreRead, FS_Subset
  <2>. HIDE DEF f, S
  <2>. QED  BY <2>1, <2>2, FiniteImage
<1>3. started \in Seq(S) /\ ToSet(started) = S
  <2>. HIDE DEF S
  <2>. QED  BY <1>2, Listed
<1>4. IsList(started)
  <2>. HIDE DEF started, S
  <2>. QED  BY <1>3, ListIs
<1>5. \A x \in S \cup {Event("agent.handoff")} : x.event \in {"agent.started", "agent.handoff"}
  BY DEF Event
<1>6. PICK T : T = S \cup {Event("agent.handoff")}
  OBVIOUS
<1>7. PICK first : first = <<Event("agent.handoff")>>
  OBVIOUS
<1>8. PICK second : second = started
  OBVIOUS
<1>9. Say(IF Chosen(m, named) = {} THEN <<>> ELSE first \o second)
  BY <1>1, <1>7, <1>8
<1>. HIDE DEF started, S
<1>10. PICK joined : joined = first \o second
  OBVIOUS
<1>11. IsList(joined) /\ ToSet(joined) \subseteq T
  <2>1. IsList(first) /\ ToSet(first) \subseteq T
    BY <1>6, <1>7, Short
  <2>2. IsList(second) /\ ToSet(second) \subseteq T
    BY <1>3, <1>4, <1>6, <1>8
  <2>. QED  BY <1>10, <2>1, <2>2, JoinedOf
<1>12. PICK q : q = IF Chosen(m, named) = {} THEN <<>> ELSE joined
  OBVIOUS
<1>13. IsList(q) /\ ToSet(q) \subseteq T
  BY <1>11, <1>12, Short
<1>14. \A x \in ToSet(q) : Quiet(x, 4, 4) /\ x.event # "finding.detected"
  BY <1>5, <1>6, <1>13, QuietSteps
<1>15. Say(q)
  BY <1>9, <1>10, <1>12
<1>. QED  BY <1>13, <1>14, <1>15, SayNothing

\* An answer speaks of the specialists' stage only.
LEMMA AnswerSays ==
    ASSUME IsScreen(screen), NEW m, NEW l, Answer(m, l)
    PROVE  Spoken(4, 4, {})
<1>1. PICK q \in {<<>>, <<Event("agent.finished")>>} : Say(q)
  BY DEF Answer
<1>2. IsList(q) /\ ToSet(q) \subseteq {Event("agent.finished")}
  BY <1>1, Short
<1>3. Event("agent.finished").event = "agent.finished"
  BY DEF Event
<1>4. \A x \in ToSet(q) : Quiet(x, 4, 4) /\ x.event # "finding.detected"
  BY <1>2, <1>3, QuietSteps
<1>. QED  BY <1>1, <1>2, <1>4, SayNothing

\* The conclusion shows the findings of the report, and speaks of the last stage only.
LEMMA ConcludeSays ==
    ASSUME Turning, Charted, Routing, Hearing, IsScreen(screen), Conclude
    PROVE  /\ Spoken(5, 5, {KeyOf(f) : f \in ToSet(report'.findings)})
           /\ DOMAIN report' # {}
<1>1. /\ AllBack
      /\ report' = [findings |-> Pass!Finished(Drafts).findings, dropped |-> Pass!Finished(Drafts).dropped,
                         rows |-> Pass!Rows(Analysed, routed, Pass!Finished(Drafts).findings),
                         unattributed |-> Pass!Unattributed(Pass!Finished(Drafts).findings),
                         pressures |-> Forecasts(Pass!Finished(Drafts).findings), synthesis |-> <<>>,
                         architecture |-> <<>>, deployment |-> {}]
      /\ Say([i \in DOMAIN Pass!Finished(Drafts).findings |-> Detected(KeyOf(Pass!Finished(Drafts).findings[i]))]
             \o <<Event("coverage.computed"), Event("prediction.generated")>>)
  BY DEF Conclude
<1>2. DOMAIN map # {}
  BY DEF Charted, Conclude
<1>3. PICK found : found = Pass!Finished(Drafts).findings
  OBVIOUS
<1>4. IsList(found)
  <2>1. IsFiniteSet(DOMAIN Drafts)
    BY <1>1, <1>2, DraftsAreList, ListHas
  <2>. QED  BY <1>3, <2>1, FinishedIsList
<1>5. report'.findings = found /\ DOMAIN report' # {}
  BY <1>1, <1>3
<1>6. PICK n \in Nat : DOMAIN found = 1..n
  BY <1>4, ListHas
<1>7. PICK keys : keys = [i \in 1..n |-> KeyOf(found[i])]
  OBVIOUS
<1>8. PICK one : one = [i \in DOMAIN found |-> Detected(KeyOf(found[i]))]
  OBVIOUS
<1>9. PICK two : two = <<Event("coverage.computed"), Event("prediction.generated")>>
  OBVIOUS
<1>10. Say(one \o two)
  BY <1>1, <1>3, <1>8, <1>9
<1>11. /\ IsList(one) /\ \A x \in ToSet(one) : x.event = "finding.detected"
       /\ Among(ToSet(one)) = {keys[i] : i \in 1..n}
  <2>1. DOMAIN one = 1..n /\ one = [i \in DOMAIN one |-> one[i]] /\ \A i \in 1..n : one[i] = Detected(keys[i])
    BY <1>6, <1>7, <1>8
  <2>. QED  BY <2>1, Announced
<1>12. IsList(two) /\ \A x \in ToSet(two) : x.event \in {"coverage.computed", "prediction.generated"}
  <2>1. \A x \in {Event("coverage.computed"), Event("prediction.generated")} : x.event \in {"coverage.computed", "prediction.generated"}
    BY DEF Event
  <2>. QED  BY <1>9, <2>1, Short
<1>13. Among(ToSet(two)) = {}
  BY <1>12 DEF Among
<1>14. PICK q : q = one \o two
  OBVIOUS
<1>15. IsList(q) /\ ToSet(q) = ToSet(one) \cup ToSet(two)
  BY <1>11, <1>12, <1>14, ListsJoin
<1>16. Among(ToSet(q)) = {keys[i] : i \in 1..n}
  BY <1>11, <1>13, <1>15, AmongBoth
<1>17. \A x \in ToSet(q) : Quiet(x, 5, 5)
  BY <1>11, <1>12, <1>15, QuietSteps
<1>18. {keys[i] : i \in 1..n} = {KeyOf(f) : f \in ToSet(found)}
  BY <1>6, <1>7 DEF ToSet
<1>19. Say(q)
  BY <1>10, <1>14
<1>20. Spoken(5, 5, Among(ToSet(q)))
  BY <1>15, <1>17, <1>19, SayList
<1>. QED  BY <1>5, <1>16, <1>18, <1>20

\* The end of a failed review shows no finding and moves no stage back.
LEMMA EndSays ==
    ASSUME IsScreen(screen), EndFailed
    PROVE  Spoken(6, 0, {})
<1>1. PICK q : q = <<Event("review.failed")>>
  OBVIOUS
<1>2. Say(q)
  BY <1>1 DEF EndFailed
<1>3. IsList(q) /\ \A x \in ToSet(q) : x.event = "review.failed"
  BY <1>1, Short DEF Event
<1>4. PICK low \in Int : low = 6
  OBVIOUS
<1>5. PICK high \in Int : high = 0
  OBVIOUS
<1>6. \A x \in ToSet(q) : Quiet(x, low, high) /\ x.event # "finding.detected"
  BY <1>3, QuietSteps
<1>7. Spoken(low, high, {})
  BY <1>2, <1>3, <1>6, SayNothing
<1>. QED  BY <1>4, <1>5, <1>7

\* A step of a lookup.
LEMMA Researched ==
    ASSUME IsScreen(screen), NEW step, Say(<<step>>), step.event \in {"research.started", "research.finished"}
    PROVE  /\ IsScreen(screen') /\ screen'.findings = screen.findings
           /\ screen'.steps = Recent(Append(screen.steps, step))
           /\ screen'.stages = Reached(screen.stages, 3)
<1>1. PICK base : base = screen
  OBVIOUS
<1>2. PICK next : next = screen'
  OBVIOUS
<1>3. next = Fold(base, step)
  BY <1>1, <1>2, SayingOne DEF Say, Shown
<1>4. Effect(base, step, next)
  BY <1>1, <1>3, OneStep
<1>5. step.event \in DOMAIN StageOf /\ StageOf[step.event] = 3
  BY StageNumbers
<1>6. IsScreen(next) /\ next.findings = base.findings
  BY <1>4 DEF Effect
<1>7. next.steps = Recent(Append(base.steps, step))
  BY <1>4 DEF Effect, Line
<1>8. next.stages = Reached(base.stages, 3)
  BY <1>4, <1>5 DEF Effect
<1>. QED  BY <1>1, <1>2, <1>6, <1>7, <1>8

\* The end of a review.
LEMMA CompleteSays ==
    ASSUME IsScreen(screen), Complete
    PROVE  /\ IsScreen(screen') /\ screen'.findings = screen.findings
           /\ Passed(screen.steps, screen'.steps)
           /\ \A s \in 1..5 : screen'.stages[s] = "done"
<1>1. PICK base : base = screen
  OBVIOUS
<1>2. PICK next : next = screen'
  OBVIOUS
<1>3. PICK step : step = Event("review.completed")
  OBVIOUS
<1>4. next = Fold(base, step)
  BY <1>1, <1>2, <1>3, SayingOne DEF Complete, Say, Shown
<1>5. Effect(base, step, next)
  BY <1>1, <1>4, OneStep
<1>6. step.event = "review.completed"
  BY <1>3 DEF Event
<1>7. IsScreen(next) /\ next.findings = base.findings /\ Passed(base.steps, next.steps)
  <2>1. Line(step) = Event("other")
    BY <1>6 DEF Line
  <2>2. IsScreen(next) /\ next.findings = base.findings /\ next.steps = Recent(Append(base.steps, Event("other")))
    BY <1>5, <1>6, <2>1 DEF Effect
  <2>3. IsPage(base.steps)
    BY <1>1 DEF IsScreen
  <2>. QED  BY <2>2, <2>3, LinePasses, OtherIsSilent
<1>8. PICK shown : shown = Noted(base, step) /\ IsScreen(shown)
  BY <1>1, NotedStep
<1>9. next.stages = [s \in DOMAIN Stages |-> "done"]
  <2>1. step.event \notin DOMAIN StageOf
    BY <1>6, StageNumbers
  <2>2. next = Painted(shown, step)
    BY <1>4, <1>8 DEF Fold
  <2>3. next = [shown EXCEPT !.stages = [s \in DOMAIN Stages |-> "done"],
                   !.files = [m \in DOMAIN @ |-> IF @[m] = "reading" THEN "read" ELSE @[m]],
                   !.over = "completed"]
    BY <1>6, <2>1, <2>2 DEF Painted
  <2>. QED  BY <1>8, <2>3 DEF IsScreen, Fields
<1>10. DOMAIN Stages = 1..5
  BY DEF Stages
<1>. QED  BY <1>1, <1>2, <1>7, <1>9, <1>10

-----------------------------------------------------------------------------
(* The stages on screen. *)

\* What is shown as done stays so.
Advance == \A s \in 1..5 : screen.stages[s] = "done" => screen'.stages[s] = "done"

\* The stage a line of the review is in.
LEMMA LowIs ==
    /\ at \in Turns => Low \in 1..5
    /\ at = "survey" => Low = 1
    /\ at = "map" => Low = 2
    /\ at \in Auditing \cup {"changelogs", "searching"} => Low = 3
    /\ at \in {"review", "reading"} => Low = 4
    /\ at \in {"synthesis", "write", "over"} => Low = 5
PROOF BY DEF Low, Turns, Before, Auditing

\* The same, of the line it is at next.
LEMMA LowWillBe ==
    /\ at' = "map" => Low' = 2
    /\ at' \in Auditing \cup {"changelogs", "searching"} => Low' = 3
    /\ at' \in {"review", "reading"} => Low' = 4
    /\ at' \in {"synthesis", "write", "over"} => Low' = 5
PROOF BY DEF Low, Auditing

\* A step that speaks of no stage before the one it is in takes none back.
LEMMA SpokenAdvances ==
    ASSUME Staged, at \in Turns \ {"over"}, NEW low \in Int, NEW high \in Int, NEW found,
           Spoken(low, high, found), Low <= low,
           at' # "over" => Low' \in Int /\ Low <= Low' /\ high <= Low'
    PROVE  Staged' /\ Advance
<1>1. Low \in Int
  BY LowIs
<1>2. \A s \in 1..5 : screen.stages[s] = "done" => s < Low
  BY DEF Staged
<1>3. Advance
  BY <1>1, <1>2 DEF Spoken, Advance
<1>4. at' # "over" => \A s \in 1..5 : screen'.stages[s] = "done" => s < Low'
  BY <1>1, <1>2 DEF Spoken
<1>5. IsScreen(screen')
  BY DEF Spoken
<1>. QED  BY <1>3, <1>4, <1>5 DEF Staged

\* A step that says nothing takes no stage back.
LEMMA SilenceAdvances ==
    ASSUME Staged, at \in Turns \ {"over"}, screen' = screen, Low' \in Int, Low <= Low'
    PROVE  Staged' /\ Advance
<1>1. Low \in Int
  BY LowIs
<1>. QED  BY <1>1 DEF Staged, Advance

\* A step of the audit, delivered while the third stage lasts, takes none back.
LEMMA ResearchAdvances ==
    ASSUME Staged, at \in Turns, Low = 3, Low' = 3, IsScreen(screen'),
           screen'.stages = Reached(screen.stages, 3)
    PROVE  Staged' /\ Advance
<1>1. at # "over"
  BY LowIs
<1>2. \A s \in 1..5 : screen.stages[s] = "done" => s < 3
  BY <1>1 DEF Staged
<1>3. \A s \in 1..5 : screen'.stages[s] =
         IF s < 3 THEN "done" ELSE IF s = 3 THEN "running" ELSE screen.stages[s]
  BY DEF Staged, IsScreen, Reached
<1>4. \A s \in 1..5 : screen'.stages[s] = "done" => s < 3
  BY <1>2, <1>3
<1>5. Advance
  BY <1>2, <1>3 DEF Advance
<1>. QED  BY <1>4, <1>5 DEF Staged

\* No step takes a stage back.
LEMMA StagesKept ==
    ASSUME Turning, Queued, Charted, Routing, Hearing, Announcing, Staged, Next
    PROVE  Staged' /\ Advance
<1>0. at \in Turns /\ IsScreen(screen)
  BY DEF Turning, Staged
<1>. USE <1>0
<1>1. ASSUME EndFailed, at # "over" PROVE Staged' /\ Advance
  <2>1. Spoken(6, 0, {}) /\ at' = "over"
    BY <1>1, EndSays DEF EndFailed
  <2>2. PICK low \in Int : low = 6
    OBVIOUS
  <2>3. PICK high \in Int : high = 0
    OBVIOUS
  <2>4. Spoken(low, high, {}) /\ Low <= low
    BY <2>1, <2>2, <2>3, LowIs
  <2>. QED  BY <1>1, <2>1, <2>4, SpokenAdvances
<1>2. CASE SurveyStep
  <2>1. Spoken(1, 1, {}) /\ at = "survey" /\ at' = "map"
    BY <1>2, SurveySays DEF SurveyStep
  <2>2. Low = 1 /\ Low' = 2
    BY <2>1, LowIs, LowWillBe
  <2>3. PICK low \in Int : low = 1
    OBVIOUS
  <2>4. Spoken(low, low, {})
    BY <2>1, <2>3
  <2>. QED  BY <2>1, <2>2, <2>3, <2>4, SpokenAdvances
<1>3. CASE MapStep
  <2>1. Spoken(2, 2, {}) /\ at = "map" /\ at' = "audit"
    BY <1>3, MapSays DEF MapStep
  <2>2. Low = 2 /\ Low' = 3
    BY <2>1, LowIs, LowWillBe DEF Auditing
  <2>3. PICK low \in Int : low = 2
    OBVIOUS
  <2>4. Spoken(low, low, {})
    BY <2>1, <2>3
  <2>. QED  BY <2>1, <2>2, <2>3, <2>4, SpokenAdvances
<1>4. ASSUME AuditAsks \/ AuditEnds \/ (\E n \in asking : PoolAnswers(n)) PROVE Staged' /\ Advance
  <2>1. at \in Auditing /\ at' \in Auditing /\ screen' = screen
    <3>1. AuditAsks => at \in Auditing /\ at' \in Auditing /\ screen' = screen
      BY DEF AuditAsks, Auditing
    <3>2. AuditEnds => at \in Auditing /\ at' \in Auditing /\ screen' = screen
      BY DEF AuditEnds, Auditing
    <3>3. ASSUME NEW n \in asking, PoolAnswers(n) PROVE at \in Auditing /\ at' \in Auditing /\ screen' = screen
      BY <3>3 DEF PoolAnswers, Auditing, Turning
    <3>. QED  BY <1>4, <3>1, <3>2, <3>3
  <2>2. Low = 3 /\ Low' = 3 /\ at # "over"
    BY <2>1, LowIs, LowWillBe DEF Auditing
  <2>. QED  BY <2>1, <2>2, SilenceAdvances
<1>5. CASE Deliver
  <2>1. at \in Auditing /\ at' \in Auditing \cup {"changelogs"}
    BY <1>5, Woken, Delivered DEF Deliver, Queued, Auditing
  <2>2. Low = 3 /\ Low' = 3 /\ at # "over"
    BY <2>1, LowIs, LowWillBe DEF Auditing
  <2>3. CASE Head(handed) = Audited
    <3>1. screen' = screen
      BY <1>5, <2>3 DEF Deliver
    <3>. QED  BY <2>2, <3>1, SilenceAdvances
  <2>4. CASE Head(handed) # Audited
    <3>1. PICK x : x = Head(handed)
      OBVIOUS
    <3>2. Say(<<x>>) /\ Taken(x)
      BY <1>5, <2>4, <3>1, TakingFirst DEF Deliver
    <3>3. x.event \in {"research.started", "research.finished"}
      BY <2>4, <3>1, <3>2, TakenIs DEF Asks, LookedUp, Learnt, Answered
    <3>4. IsScreen(screen') /\ screen'.stages = Reached(screen.stages, 3)
      BY <3>2, <3>3, Researched
    <3>. QED  BY <2>2, <3>4, ResearchAdvances
  <2>. QED  BY <2>3, <2>4
<1>6. ASSUME Search \/ Searched PROVE Staged' /\ Advance
  <2>1. /\ at \in {"changelogs", "searching"} /\ at' \in {"changelogs", "searching"}
        /\ \E x : Say(<<x>>) /\ x.event \in {"research.started", "research.finished"}
    <3>1. ASSUME Search PROVE \E x : Say(<<x>>) /\ x.event \in {"research.started", "research.finished"}
      <4>1. PICK x : x = LookedUp(Stale[place].subject, "duckduckgo")
        OBVIOUS
      <4>. QED  BY <3>1, <4>1 DEF Search, LookedUp
    <3>2. ASSUME Searched PROVE \E x : Say(<<x>>) /\ x.event \in {"research.started", "research.finished"}
      <4>1. PICK results : Say(<<Answered(Stale[place].subject, "duckduckgo", Notes(results) # <<>>)>>)
        BY <3>2 DEF Searched
      <4>2. PICK x : x = Answered(Stale[place].subject, "duckduckgo", Notes(results) # <<>>)
        OBVIOUS
      <4>. QED  BY <4>1, <4>2 DEF Answered
    <3>3. at \in {"changelogs", "searching"} /\ at' \in {"changelogs", "searching"}
      BY <1>6 DEF Search, Searched
    <3>. QED  BY <1>6, <3>1, <3>2, <3>3
  <2>2. Low = 3 /\ Low' = 3
    BY <2>1, LowIs, LowWillBe
  <2>3. IsScreen(screen') /\ screen'.stages = Reached(screen.stages, 3)
    BY <2>1, Researched
  <2>. QED  BY <2>2, <2>3, ResearchAdvances
<1>7. CASE Announce
  <2>1. at = "changelogs" /\ at' = "review" /\ Spoken(6, 0, Deterministic)
    BY <1>7, AnnounceSays DEF Announce, Announcing
  <2>2. Low = 3 /\ Low' = 4
    BY <2>1, LowIs, LowWillBe
  <2>3. PICK low \in Int : low = 6
    OBVIOUS
  <2>4. PICK high \in Int : high = 0
    OBVIOUS
  <2>5. Spoken(low, high, Deterministic) /\ Low <= low /\ high <= Low' /\ Low <= Low'
    BY <2>1, <2>2, <2>3, <2>4
  <2>. QED  BY <2>1, <2>2, <2>5, SpokenAdvances
<1>8. CASE Select
  <2>1. at = "review" /\ at' = "reading" /\ Spoken(6, 0, {})
    BY <1>8, SelectSays DEF Select
  <2>2. Low = 4 /\ Low' = 4
    BY <2>1, LowIs, LowWillBe
  <2>3. PICK low \in Int : low = 6
    OBVIOUS
  <2>4. PICK high \in Int : high = 0
    OBVIOUS
  <2>5. Spoken(low, high, {}) /\ Low <= low /\ high <= Low' /\ Low <= Low'
    BY <2>1, <2>2, <2>3, <2>4
  <2>. QED  BY <2>1, <2>2, <2>5, SpokenAdvances
<1>9. ASSUME NEW m \in batch, Read(m) PROVE Staged' /\ Advance
  <2>1. at = "reading" /\ at' = "reading" /\ (Spoken(4, 4, {}) \/ screen' = screen)
    <3>1. Route(m) => at = "reading" /\ at' = "reading" /\ Spoken(4, 4, {})
      BY RouteSays DEF Route
    <3>2. Lose(m) => at = "reading" /\ at' = "reading" /\ screen' = screen
      BY DEF Lose
    <3>3. \A l : Answer(m, l) => at = "reading" /\ at' = "reading" /\ Spoken(4, 4, {})
      BY AnswerSays DEF Answer
    <3>4. \A l : Fail(m, l) => at = "reading" /\ at' = "reading" /\ screen' = screen
      BY DEF Fail
    <3>. QED  BY <1>9, <3>1, <3>2, <3>3, <3>4 DEF Read
  <2>2. Low = 4 /\ Low' = 4
    BY <2>1, LowIs, LowWillBe
  <2>3. PICK low \in Int : low = 4
    OBVIOUS
  <2>4. Spoken(low, low, {}) \/ screen' = screen
    BY <2>1, <2>3
  <2>. QED  BY <2>1, <2>2, <2>3, <2>4, SpokenAdvances, SilenceAdvances
<1>10. CASE Conclude
  <2>1. PICK found : found = {KeyOf(f) : f \in ToSet(report'.findings)}
    OBVIOUS
  <2>2. at = "reading" /\ at' = "synthesis" /\ Spoken(5, 5, found)
    BY <1>10, <2>1, ConcludeSays DEF Conclude
  <2>3. Low = 4 /\ Low' = 5
    BY <2>2, LowIs, LowWillBe
  <2>4. PICK low \in Int : low = 5
    OBVIOUS
  <2>5. Spoken(low, low, found) /\ Low <= low /\ low <= Low' /\ Low <= Low'
    BY <2>2, <2>3, <2>4
  <2>. QED  BY <2>2, <2>3, <2>5, SpokenAdvances
<1>11. CASE Observe
  <2>1. at = "synthesis" /\ at' = "write" /\ screen' = screen
    BY <1>11 DEF Observe
  <2>2. Low = 5 /\ Low' = 5
    BY <2>1, LowIs, LowWillBe
  <2>. QED  BY <2>1, <2>2, SilenceAdvances
<1>12. CASE Complete
  <2>1. at' = "over" /\ IsScreen(screen') /\ \A s \in 1..5 : screen'.stages[s] = "done"
    BY <1>12, CompleteSays DEF Complete
  <2>. QED  BY <2>1 DEF Staged, Advance
<1>13. Break => EndFailed /\ at # "over"
  BY DEF Break
<1>14. Refuse => EndFailed /\ at # "over"
  BY DEF Refuse
<1>. QED  BY <1>1, <1>2, <1>3, <1>4, <1>5, <1>6, <1>7, <1>8, <1>9, <1>10, <1>11, <1>12, <1>13, <1>14 DEF Next

-----------------------------------------------------------------------------
(* The map, what is heard, and what is announced. *)

\* Repository and map are settled before the review begins.
LEMMA MapStays ==
    ASSUME Next
    PROVE  repo' = repo /\ map' = map
<1>1. Break \/ Refuse => repo' = repo /\ map' = map
  BY DEF Break, Refuse, EndFailed
<1>2. SurveyStep \/ MapStep \/ AuditAsks \/ AuditEnds => repo' = repo /\ map' = map
  BY DEF SurveyStep, MapStep, AuditAsks, AuditEnds
<1>3. \A n : PoolAnswers(n) => repo' = repo /\ map' = map
  BY DEF PoolAnswers
<1>4. Deliver => repo' = repo /\ map' = map
  BY DEF Deliver
<1>5. Search \/ Searched \/ Announce \/ Select => repo' = repo /\ map' = map
  BY DEF Search, Searched, Announce, Select
<1>6. \A m : Read(m) => repo' = repo /\ map' = map
  BY DEF Read, Route, Lose, Answer, Fail
<1>7. Conclude \/ Observe \/ Complete => repo' = repo /\ map' = map
  BY DEF Conclude, Observe, Complete
<1>. QED  BY <1>1, <1>2, <1>3, <1>4, <1>5, <1>6, <1>7 DEF Next

\* Every step keeps what is known of the map.
LEMMA ChartKept ==
    ASSUME Turning, Queued, Charted, Next
    PROVE  Charted'
<1>1. repo' = repo /\ map' = map
  BY MapStays
<1>2. map' = Mapping'
  BY <1>1 DEF Charted, Mapping
<1>3. at' \notin {"survey", "map", "over"} => at \notin {"survey", "map", "over"} \/ DOMAIN map # {}
  <2>1. ASSUME Aside PROVE at' \notin {"survey", "map", "over"} => at \notin {"survey", "map", "over"} \/ (at = "map" /\ at' = "audit")
    BY <2>1 DEF Aside, Moves
  <2>2. at = "map" /\ at' = "audit" => MapStep \/ ~Aside
    <3>1. Break \/ Refuse => at' = "over"
      BY DEF Break, Refuse, EndFailed
    <3>2. SurveyStep => at' = "map"
      BY DEF SurveyStep
    <3>3. Search \/ Searched \/ Announce \/ Select => at # "map"
      BY DEF Search, Searched, Announce, Select
    <3>4. \A m : Read(m) => at # "map"
      BY DEF Read, Route, Lose, Answer, Fail
    <3>5. Conclude \/ Observe \/ Complete => at # "map"
      BY DEF Conclude, Observe, Complete
    <3>6. AuditAsks \/ AuditEnds => at # "map"
      BY DEF AuditAsks, AuditEnds
    <3>7. \A n \in asking : PoolAnswers(n) => at # "map"
      BY DEF Turning
    <3>8. Deliver => at # "map"
      BY DEF Deliver, Queued
    <3>. QED  BY <3>1, <3>2, <3>3, <3>4, <3>5, <3>6, <3>7, <3>8 DEF Next
  <2>3. MapStep => DOMAIN map # {}
    BY DEF MapStep
  <2>4. AuditAsks \/ AuditEnds => at \notin {"survey", "map", "over"}
    BY DEF AuditAsks, AuditEnds
  <2>5. \A n \in asking : PoolAnswers(n) => at \notin {"survey", "map", "over"}
    BY DEF Turning
  <2>6. Deliver => at \notin {"survey", "map", "over"}
    BY DEF Deliver, Queued
  <2>. QED  BY <2>1, <2>2, <2>3, <2>4, <2>5, <2>6, AsideActions DEF Next
<1>. QED  BY <1>1, <1>2, <1>3 DEF Charted

\* Every step keeps what is known of what was heard.
LEMMA HearingKept ==
    ASSUME Turning, Queued, Charted, Routing, Hearing, Next
    PROVE  Hearing'
<1>1. ASSUME NEW m \in batch, NEW l, Answer(m, l) PROVE Hearing'
  <2>1. PICK drafts \in Opinions[<<m, l>>] : heard' = [heard EXCEPT ![m] = With(@, l, drafts)]
    BY <1>1 DEF Answer
  <2>2. at = "reading" /\ m \in DOMAIN asked /\ l \in asked[m]
    BY <1>1 DEF Answer
  <2>3. m \in Mapped /\ l \in Allowed(m)
    BY <2>2 DEF Routing
  <2>4. IsList(drafts)
    BY <2>2, <2>3, MapIsRead DEF Charted
  <2>5. DOMAIN heard' = DOMAIN heard /\ m \in DOMAIN heard
    BY <2>1, <2>2 DEF Routing
  <2>6. \A p \in DOMAIN heard : p # m => heard'[p] = heard[p]
    BY <2>1
  <2>7. heard'[m] = With(heard[m], l, drafts)
    BY <2>1, <2>5
  <2>8. \A k \in DOMAIN heard'[m] : \/ heard'[m][k] = drafts
                                    \/ k \in DOMAIN heard[m] /\ heard'[m][k] = heard[m][k]
    BY <2>7 DEF With
  <2>9. \A k \in DOMAIN heard'[m] : IsList(heard'[m][k])
    BY <2>4, <2>5, <2>8 DEF Hearing
  <2>10. \A p \in DOMAIN heard : p # m => \A k \in DOMAIN heard'[p] : IsList(heard'[p][k])
    BY <2>6 DEF Hearing
  <2>. QED  BY <2>5, <2>9, <2>10 DEF Hearing
<1>2. ASSUME NEW m, Route(m) \/ Lose(m) PROVE Hearing'
  <2>1. heard' = With(heard, m, <<>>)
    BY <1>2 DEF Route, Lose
  <2>2. \A p \in DOMAIN heard' : \/ p = m /\ DOMAIN heard'[p] = {}
                                 \/ p \in DOMAIN heard /\ heard'[p] = heard[p]
    BY <2>1 DEF With
  <2>. QED  BY <2>2 DEF Hearing
<1>3. ASSUME heard' = heard PROVE Hearing'
  BY <1>3 DEF Hearing
<1>4. Select \/ Conclude \/ Observe \/ Complete => heard' = heard
  BY DEF Select, Conclude, Observe, Complete, reading
<1>5. \A m, l : Fail(m, l) => heard' = heard
  BY DEF Fail
<1>6. Reads => heard' = heard
  BY DEF Reads
<1>. QED  BY <1>1, <1>2, <1>3, <1>4, <1>5, <1>6, NothingRead

\* An audit finds finitely much.
LEMMA AuditIsFinite ==
    ASSUME NEW pinned, NEW known, IsFiniteSet(DOMAIN pinned)
    PROVE  IsFiniteSet(Audit(pinned, known).findings)
<1>. DEFINE one == [n \in DOMAIN pinned |-> [rule |-> "dependency-unpinned", subject |-> n]]
            two == [n \in DOMAIN pinned |-> [rule |-> "dependency-major-versions-behind", subject |-> n]]
            A == {one[n] : n \in DOMAIN pinned}
            B == {two[n] : n \in DOMAIN pinned}
<1>1. DOMAIN one = DOMAIN pinned /\ DOMAIN two = DOMAIN pinned
  OBVIOUS
<1>2. IsFiniteSet({one[n] : n \in DOMAIN one}) /\ IsFiniteSet({two[n] : n \in DOMAIN two})
  <2>. HIDE DEF one, two
  <2>. QED  BY <1>1, FiniteImage
<1>3. IsFiniteSet(A \cup B)
  <2>1. IsFiniteSet(A) /\ IsFiniteSet(B)
    <3>. HIDE DEF one, two
    <3>. QED  BY <1>1, <1>2
  <2>. HIDE DEF A, B
  <2>. QED  BY <2>1, FS_Union
<1>4. \A n \in DOMAIN pinned : \A r \in Rule(pinned[n], known[n]) : [rule |-> r, subject |-> n] \in A \cup B
  BY DEF Rule
<1>5. Audit(pinned, known).findings = UNION {{[rule |-> r, subject |-> n] : r \in Rule(pinned[n], known[n])} :
                              n \in DOMAIN pinned}
  BY DEF Audit
<1>6. Audit(pinned, known).findings \subseteq A \cup B
  <2>. HIDE DEF A, B
  <2>. QED  BY <1>4, <1>5
<1>. QED  BY <1>3, <1>6, FS_Subset

\* Every step keeps what is on screen and what is reported the same.
LEMMA AnnouncingKept ==
    ASSUME Turning, Queued, Charted, Routing, Counting, Hearing, Staged, Announcing, Next
    PROVE  Announcing'
<1>0. IsScreen(screen)
  BY DEF Staged
<1>. USE <1>0
<1>1. ASSUME Spoken(6, 0, {}) \/ Spoken(4, 4, {}) \/ Spoken(1, 1, {}) \/ screen' = screen \/ screen'.findings = screen.findings
      PROVE  screen'.findings = screen.findings
  BY <1>1 DEF Spoken
<1>2. ASSUME screen'.findings = screen.findings, UNCHANGED <<checks, dependencies, report>>,
             at' \in Before => at \in Before, at' \in {"review", "reading"} => at \in {"review", "reading"},
             at' \notin {"survey", "map", "over"} => at \notin {"survey", "map", "over"}
      PROVE  Announcing'
  <2>1. Deterministic' = Deterministic
    BY <1>2 DEF Deterministic
  <2>. QED  BY <1>2, <2>1 DEF Announcing, KeyOf
<1>3. ASSUME EndFailed PROVE Announcing'
  <2>1. /\ screen'.findings = screen.findings /\ at' = "over" /\ UNCHANGED <<checks, dependencies, report>>
    BY <1>1, <1>3, EndSays DEF EndFailed, auditing
  <2>. QED  BY <1>2, <2>1 DEF Before, Auditing
<1>4. CASE SurveyStep
  <2>1. /\ screen'.findings = screen.findings /\ at = "survey" /\ at' = "map" /\ UNCHANGED <<checks, dependencies, report>>
    BY <1>1, <1>4, SurveySays DEF SurveyStep, auditing
  <2>. QED  BY <1>2, <2>1 DEF Before
<1>5. CASE MapStep
  <2>1. /\ Spoken(2, 2, {}) /\ at = "map" /\ at' = "audit" /\ UNCHANGED <<dependencies, report>> /\ checks' = Checks
    BY <1>5, MapSays DEF MapStep, auditing
  <2>2. screen'.findings = screen.findings
    BY <2>1 DEF Spoken
  <2>3. IsList(checks'.schema)
    <3>. DEFINE each == [b \in DOMAIN Bases |-> SchemaFindings(Operations(b))]
    <3>1. checks'.schema = FlattenSeq(each)
      BY <2>1 DEF Checks
    <3>2. PICK n \in Nat : DOMAIN Bases = 1..n
      BY ReadOf
    <3>3. DOMAIN each = 1..n /\ each = [b \in DOMAIN each |-> each[b]] /\ \A b \in DOMAIN each : IsList(each[b])
      BY <3>2, ReadOf
    <3>. HIDE DEF each
    <3>4. IsList(each)
      BY <3>3, ListOf
    <3>. QED  BY <3>1, <3>3, <3>4, FlattenedIsList
  <2>4. at \in Before /\ DOMAIN report' = {}
    BY <2>1 DEF Before, Counting
  <2>. QED  BY <2>1, <2>2, <2>3, <2>4 DEF Announcing
<1>6. ASSUME AuditAsks \/ AuditEnds \/ (\E n \in asking : PoolAnswers(n)) PROVE Announcing'
  <2>1. at \in Auditing /\ at' \in Auditing /\ screen' = screen /\ UNCHANGED <<checks, dependencies, report>>
    <3>1. AuditAsks => at \in Auditing /\ at' \in Auditing /\ screen' = screen /\ UNCHANGED <<checks, dependencies, report>>
      BY DEF AuditAsks, Auditing
    <3>2. AuditEnds => at \in Auditing /\ at' \in Auditing /\ screen' = screen /\ UNCHANGED <<checks, dependencies, report>>
      BY DEF AuditEnds, Auditing
    <3>3. ASSUME NEW n \in asking, PoolAnswers(n)
          PROVE  at \in Auditing /\ at' \in Auditing /\ screen' = screen /\ UNCHANGED <<checks, dependencies, report>>
      BY <3>3 DEF PoolAnswers, Auditing, Turning
    <3>. QED  BY <1>6, <3>1, <3>2, <3>3
  <2>. QED  BY <1>2, <2>1 DEF Before, Auditing
<1>7. CASE Deliver
  <2>1. at \in Auditing /\ at' \in Auditing \cup {"changelogs"} /\ UNCHANGED <<checks, report>>
    BY <1>7, Woken, Delivered DEF Deliver, Queued, Auditing
  <2>2. CASE Head(handed) = Audited
    <3>1. screen' = screen /\ dependencies' = dependencies \o SetToSeq(Audit(Pinned(place), seen).findings)
      BY <1>7, <2>2 DEF Deliver
    <3>2. IsFiniteSet(Audit(Pinned(place), seen).findings)
      <4>1. place \in DOMAIN Bases
        BY <2>1 DEF Turning
      <4>. QED  BY <4>1, ReadOf, AuditIsFinite
    <3>3. PICK more : more = SetToSeq(Audit(Pinned(place), seen).findings)
      OBVIOUS
    <3>4. IsList(more)
      BY <3>2, <3>3, Listed, ListIs
    <3>5. PICK all : all = dependencies \o more
      OBVIOUS
    <3>6. IsList(dependencies) /\ IsList(checks.schema)
      BY <2>1 DEF Announcing, Auditing
    <3>7. IsList(dependencies')
      BY <3>1, <3>3, <3>4, <3>5, <3>6, ListsJoin
    <3>8. at \in Before /\ DOMAIN report' = {}
      BY <2>1 DEF Before, Counting
    <3>9. at' \notin {"review", "reading"}
      BY <2>1 DEF Auditing
    <3>. QED  BY <2>1, <3>1, <3>6, <3>7, <3>8, <3>9 DEF Announcing
  <2>3. CASE Head(handed) # Audited
    <3>1. PICK x : x = Head(handed)
      OBVIOUS
    <3>2. Say(<<x>>) /\ Taken(x) /\ UNCHANGED dependencies
      BY <1>7, <2>3, <3>1, TakingFirst DEF Deliver
    <3>3. x.event \in {"research.started", "research.finished"}
      BY <2>3, <3>1, <3>2, TakenIs DEF Asks, LookedUp, Learnt, Answered
    <3>4. screen'.findings = screen.findings
      BY <3>2, <3>3, Researched
    <3>. QED  BY <1>2, <2>1, <3>2, <3>4 DEF Before, Auditing
  <2>. QED  BY <2>2, <2>3
<1>8. ASSUME Search \/ Searched PROVE Announcing'
  <2>1. /\ at \in {"changelogs", "searching"} /\ at' \in {"changelogs", "searching"}
        /\ UNCHANGED <<checks, dependencies, report>>
        /\ \E x : Say(<<x>>) /\ x.event \in {"research.started", "research.finished"}
    <3>1. ASSUME Search PROVE \E x : Say(<<x>>) /\ x.event \in {"research.started", "research.finished"}
      <4>1. PICK x : x = LookedUp(Stale[place].subject, "duckduckgo")
        OBVIOUS
      <4>. QED  BY <3>1, <4>1 DEF Search, LookedUp
    <3>2. ASSUME Searched PROVE \E x : Say(<<x>>) /\ x.event \in {"research.started", "research.finished"}
      <4>1. PICK results : Say(<<Answered(Stale[place].subject, "duckduckgo", Notes(results) # <<>>)>>)
        BY <3>2 DEF Searched
      <4>2. PICK x : x = Answered(Stale[place].subject, "duckduckgo", Notes(results) # <<>>)
        OBVIOUS
      <4>. QED  BY <4>1, <4>2 DEF Answered
    <3>3. /\ at \in {"changelogs", "searching"} /\ at' \in {"changelogs", "searching"}
          /\ UNCHANGED <<checks, dependencies, report>>
      BY <1>8 DEF Search, Searched, auditing
    <3>. QED  BY <1>8, <3>1, <3>2, <3>3
  <2>2. screen'.findings = screen.findings
    BY <2>1, Researched
  <2>. QED  BY <1>2, <2>1, <2>2 DEF Before
<1>9. CASE Announce
  <2>1. /\ at = "changelogs" /\ at' = "review" /\ UNCHANGED <<checks, dependencies, report>>
    BY <1>9 DEF Announce, auditing
  <2>2. IsList(checks.schema) /\ IsList(dependencies) /\ screen.findings = {}
    BY <2>1 DEF Announcing, Before
  <2>3. Spoken(6, 0, Deterministic)
    BY <1>9, <2>2, AnnounceSays
  <2>4. screen'.findings = Deterministic /\ Deterministic' = Deterministic
    BY <2>1, <2>2, <2>3 DEF Spoken, Deterministic
  <2>5. DOMAIN report' = {} /\ at' \notin Before
    BY <2>1 DEF Counting, Before, Auditing
  <2>. QED  BY <2>1, <2>2, <2>4, <2>5 DEF Announcing
<1>10. CASE Select
  <2>1. /\ screen'.findings = screen.findings /\ at = "review" /\ at' = "reading"
        /\ UNCHANGED <<checks, dependencies, report>>
    BY <1>1, <1>10, SelectSays DEF Select, auditing
  <2>. QED  BY <1>2, <2>1 DEF Before, Auditing
<1>11. ASSUME NEW m \in batch, Read(m) PROVE Announcing'
  <2>1. at = "reading" /\ at' = "reading" /\ (Spoken(4, 4, {}) \/ screen' = screen) /\ UNCHANGED <<checks, dependencies, report>>
    <3>1. Route(m) => at = "reading" /\ at' = "reading" /\ Spoken(4, 4, {}) /\ UNCHANGED <<checks, dependencies, report>>
      BY RouteSays DEF Route, auditing
    <3>2. Lose(m) => at = "reading" /\ at' = "reading" /\ screen' = screen /\ UNCHANGED <<checks, dependencies, report>>
      BY DEF Lose, auditing
    <3>3. \A l : Answer(m, l) => at = "reading" /\ at' = "reading" /\ Spoken(4, 4, {}) /\ UNCHANGED <<checks, dependencies, report>>
      BY AnswerSays DEF Answer, auditing
    <3>4. \A l : Fail(m, l) => at = "reading" /\ at' = "reading" /\ screen' = screen /\ UNCHANGED <<checks, dependencies, report>>
      BY DEF Fail, auditing
    <3>. QED  BY <1>11, <3>1, <3>2, <3>3, <3>4 DEF Read
  <2>2. screen'.findings = screen.findings
    BY <1>1, <2>1
  <2>. QED  BY <1>2, <2>1, <2>2
<1>12. CASE Conclude
  <2>1. PICK found : found = {KeyOf(f) : f \in ToSet(report'.findings)}
    OBVIOUS
  <2>2. /\ at = "reading" /\ at' = "synthesis" /\ Spoken(5, 5, found)
        /\ UNCHANGED <<checks, dependencies>>
    BY <1>12, <2>1, ConcludeSays DEF Conclude, auditing
  <2>3. screen.findings = Deterministic /\ IsList(dependencies) /\ IsList(checks.schema)
    BY <2>2 DEF Announcing
  <2>4. screen'.findings = found \cup Deterministic /\ Deterministic' = Deterministic
    BY <2>2, <2>3 DEF Spoken, Deterministic
  <2>5. at' \notin Before \cup {"review", "reading"}
    BY <2>2 DEF Before, Auditing
  <2>. QED  BY <2>1, <2>2, <2>3, <2>4, <2>5 DEF Announcing, KeyOf
<1>13. ASSUME Observe \/ Complete PROVE Announcing'
  <2>1. /\ at' \in {"write", "over"} /\ at \in {"synthesis", "write"}
        /\ UNCHANGED <<checks, dependencies>> /\ screen'.findings = screen.findings
    <3>1. Observe => screen' = screen
      BY DEF Observe
    <3>. QED  BY <1>13, <3>1, CompleteSays DEF Observe, Complete, auditing
  <2>2. \/ \E x : report' = [report EXCEPT !.synthesis = x]
        \/ \E x, y : report' = [report EXCEPT !.architecture = x, !.deployment = y]
    BY <1>13 DEF Observe, Complete
  <2>3. /\ DOMAIN report' = DOMAIN report
        /\ "findings" \in DOMAIN report => report'.findings = report.findings
    BY <2>2
  <2>4. Deterministic' = Deterministic
    BY <2>1 DEF Deterministic
  <2>5. at' \notin Before \cup {"review", "reading"} /\ at \notin {"survey", "map", "over"}
    BY <2>1 DEF Before, Auditing
  <2>6. DOMAIN report' # {} => screen'.findings = {KeyOf(f) : f \in ToSet(report'.findings)} \cup Deterministic
    BY <2>1, <2>3 DEF Announcing, Counting
  <2>. QED  BY <2>1, <2>4, <2>5, <2>6 DEF Announcing, KeyOf
<1>14. Break \/ Refuse => EndFailed
  BY DEF Break, Refuse
<1>. QED  BY <1>3, <1>4, <1>5, <1>6, <1>7, <1>8, <1>9, <1>10, <1>11, <1>12, <1>13, <1>14 DEF Next

\* A review begins with nothing on screen.
LEMMA ScreenBegins == Init => Charted /\ Hearing /\ Staged /\ Announcing
<1>. SUFFICES ASSUME Init PROVE Charted /\ Hearing /\ Staged /\ Announcing
  OBVIOUS
<1>0. heard = <<>> /\ report = <<>>
  BY DEF Init
<1>1. /\ map = Mapping /\ at = "survey" /\ dependencies = <<>>
      /\ screen = [stages |-> [s \in DOMAIN Stages |-> "waiting"], files |-> <<>>, findings |-> {},
                   steps |-> <<>>, tiers |-> <<>>, over |-> ""]
  BY DEF Init
<1>2. DOMAIN heard = {} /\ DOMAIN report = {}
  BY <1>0
<1>3. DOMAIN screen = Fields /\ screen.stages = [s \in DOMAIN Stages |-> "waiting"] /\ screen.findings = {}
  BY <1>1 DEF Fields
<1>4. DOMAIN screen.stages = 1..5 /\ \A s \in 1..5 : screen.stages[s] # "done"
  <2>1. DOMAIN Stages = 1..5
    BY DEF Stages
  <2>. QED  BY <1>3, <2>1
<1>4a. IsPage(screen.steps)
  <2>1. screen.steps = <<>>
    BY <1>1
  <2>2. Len(<<>>) = 0 /\ 0 <= Window
    BY ThePageKeepsSteps
  <2>. QED  BY <2>1, <2>2, Short DEF IsPage
<1>5. Staged
  BY <1>3, <1>4, <1>4a DEF Staged, IsScreen
<1>6. Announcing
  <2>1. IsList(dependencies)
    BY <1>1, Short
  <2>. QED  BY <1>1, <1>2, <1>3, <2>1 DEF Announcing
<1>. QED  BY <1>1, <1>2, <1>5, <1>6 DEF Charted, Hearing

\* Where nothing changes, nothing of this changes.
LEMMA ScreenStays ==
    ASSUME Charted, Hearing, Staged, Announcing, UNCHANGED vars
    PROVE  Charted' /\ Hearing' /\ Staged' /\ Announcing'
<1>1. UNCHANGED <<repo, map, at, checks, dependencies, heard, report, screen>>
  BY DEF vars, auditing, reading
<1>2. Charted' /\ Hearing'
  BY <1>1 DEF Charted, Mapping, Hearing
<1>3. Staged'
  <2>1. Low' = Low
    BY <1>1 DEF Low
  <2>. QED  BY <1>1, <2>1 DEF Staged
<1>4. Announcing'
  <2>1. Deterministic' = Deterministic
    BY <1>1 DEF Deterministic
  <2>. QED  BY <1>1, <2>1 DEF Announcing, KeyOf
<1>. QED  BY <1>2, <1>3, <1>4

\* Every step keeps the whole of it.
LEMMA ShowingKept ==
    ASSUME Showing, [Next]_vars
    PROVE  Showing'
<1>1. Turning' /\ Queued' /\ Routing' /\ Counting'
  BY AuditKept, CoverageKept DEF Showing
<1>2. CASE Next
  BY <1>1, <1>2, ChartKept, HearingKept, StagesKept, AnnouncingKept DEF Showing
<1>3. CASE UNCHANGED vars
  BY <1>1, <1>3, ScreenStays DEF Showing
<1>. QED  BY <1>2, <1>3

\* So it holds at every moment of a review.
LEMMA ScreenInvariance == Spec => []Showing
<1>1. Init => Showing
  <2>1. Init => Routing /\ Counting
    BY CoverageBegins
  <2>. QED  BY <2>1, AuditBegins, ScreenBegins DEF Showing
<1>2. Showing /\ [Next]_vars => Showing'
  BY ShowingKept
<1>. QED  BY <1>1, <1>2, PTL DEF Spec

\* The stages a viewer sees (useRun.ts, reach): one that is shown as done is
\* never shown as running again, for whatever the audit's threads hand over
\* is handed over before the coroutine moves on.
THEOREM StagesAlwaysAdvance == Spec => StagesAdvance
<1>1. Showing /\ [Next]_vars => [Advance]_screen
  <2>1. SUFFICES ASSUME Showing, [Next]_vars PROVE [Advance]_screen
    OBVIOUS
  <2>2. UNCHANGED vars => UNCHANGED screen
    BY DEF vars
  <2>. QED  BY <2>1, <2>2, StagesKept DEF Showing
<1>2. [Advance]_screen => [\A s \in DOMAIN Stages : screen.stages[s] = "done" => screen'.stages[s] = "done"]_screen
  <2>1. DOMAIN Stages = 1..5
    BY DEF Stages
  <2>. QED  BY <2>1 DEF Advance
<1>. QED  BY <1>1, <1>2, ScreenInvariance, PTL DEF Spec, StagesAdvance

\* What a viewer is left with (app.py, _review; useRun.ts, fold): the findings
\* on screen are the ones the report keeps, with those of the schema and of
\* the packages, whatever the passes withdrew, collapsed or merged.
THEOREM AnnouncedIsAlwaysReported == Spec => []AnnouncedIsReported
<1>1. Showing => AnnouncedIsReported
  <2>1. SUFFICES ASSUME Showing, DOMAIN report # {}
                 PROVE  screen.findings = {KeyOf(f) : f \in ToSet(report.findings)}
                          \cup {KeyOfSchema(f) : f \in ToSet(checks.schema)}
                          \cup {KeyOfPackage(f) : f \in ToSet(dependencies)}
    BY DEF AnnouncedIsReported
  <2>2. screen.findings = {KeyOf(f) : f \in ToSet(report.findings)} \cup Deterministic
    BY <2>1 DEF Showing, Announcing
  <2>. QED  BY <2>2 DEF Deterministic
<1>. QED  BY <1>1, ScreenInvariance, PTL

-----------------------------------------------------------------------------
(* The lookups on screen. *)

\* A step that says nothing new of any package, between audits.
Stands ==
    /\ seen' = seen /\ Pending = {} /\ Pending' = {}
    /\ \A n : Stays(screen.steps, screen'.steps, n)

\* Where nothing new is said of a package, what is shown still agrees.
LEMMA StandingAgrees ==
    ASSUME Agreeing, Stands
    PROVE  Agreeing'
<1>1. \A n : Verdict(n)' = Verdict(n) /\ Verdict(n) \in BOOLEAN
  BY DEF Stands, Verdict
<1>2. \A n \in DOMAIN seen' \ Pending' : Settled(screen'.steps, n, Verdict(n)')
  BY <1>1 DEF Agreeing, Stands, Stays
<1>3. \A n : n \notin DOMAIN seen' \cup Pending' => Unsaid(screen'.steps, n)
  BY DEF Agreeing, Stands, Stays
<1>4. Pending' = {}
  BY DEF Stands
<1>. QED  BY <1>2, <1>3, <1>4 DEF Agreeing

\* A line that says nothing of a package leaves what is said of it.
LEMMA SilentStays ==
    ASSUME NEW steps, IsPage(steps), NEW line, NEW next, next = Recent(Append(steps, line)),
           NEW n, Silent(line, n)
    PROVE  Stays(steps, next, n)
<1>1. IsPage(next) /\ \E up \in {0, 1} : Slid(steps, line, next, up)
  BY PageSlides
<1>2. PICK up \in {0, 1} : Slid(steps, line, next, up)
  BY <1>1
<1>. QED  BY <1>1, <1>2, OthersStay

\* A search is not a question to the registry.
LEMMA SearchIsSilent ==
    ASSUME NEW x, x.of[2] = "duckduckgo", NEW n
    PROVE  Silent(x, n)
<1>1. PICK asks : asks = LookedUp(n, "pypi.org")
  OBVIOUS
<1>2. asks.of[2] = "pypi.org"
  <2>1. asks.of = <<n, "pypi.org">>
    BY <1>1 DEF LookedUp
  <2>. QED  BY <2>1
<1>3. ASSUME NEW found PROVE x # Answered(n, "pypi.org", found)
  <2>1. PICK answer : answer = Answered(n, "pypi.org", found)
    OBVIOUS
  <2>2. answer.of = <<n, "pypi.org">>
    BY <2>1 DEF Answered
  <2>3. answer.of[2] = "pypi.org"
    BY <2>2
  <2>. QED  BY <2>1, <2>3
<1>. QED  BY <1>1, <1>2, <1>3 DEF Silent

\* Every action but those of the audits leaves the packages as they are shown.
LEMMA AsideStands ==
    ASSUME Turning, Queued, Charted, Routing, Hearing, Announcing, Staged, Next,
           ~AuditAsks, \A n \in asking : ~PoolAnswers(n), ~AuditEnds, ~Deliver
    PROVE  Stands
<1>0. IsScreen(screen)
  BY DEF Staged
<1>. USE <1>0
<1>1. Aside
  BY AsideActions DEF Next
<1>2. seen' = seen /\ Pending = {} /\ Pending' = {}
  BY <1>1 DEF Aside, Moves, Pending
<1>3. ASSUME screen' = screen \/ Passed(screen.steps, screen'.steps) PROVE Stands
  <2>1. Passed(screen.steps, screen.steps)
    BY PassesNone DEF IsScreen
  <2>2. Passed(screen.steps, screen'.steps)
    BY <1>3, <2>1
  <2>. QED  BY <1>2, <2>2 DEF Stands, Passed
<1>4. ASSUME NEW low, NEW high, NEW found, Spoken(low, high, found) PROVE Stands
  BY <1>3, <1>4 DEF Spoken
<1>5. ASSUME Break \/ Refuse PROVE Stands
  BY <1>4, <1>5, EndSays DEF Break, Refuse
<1>6. CASE SurveyStep
  BY <1>4, <1>6, SurveySays
<1>7. CASE MapStep
  BY <1>4, <1>7, MapSays
<1>8. ASSUME Search \/ Searched PROVE Stands
  <2>1. PICK x : Say(<<x>>) /\ x.event \in {"research.started", "research.finished"} /\ x.of[2] = "duckduckgo"
    <3>1. ASSUME Search PROVE \E x : Say(<<x>>) /\ x.event \in {"research.started", "research.finished"} /\ x.of[2] = "duckduckgo"
      <4>1. PICK x : x = LookedUp(Stale[place].subject, "duckduckgo")
        OBVIOUS
      <4>2. x.event = "research.started" /\ x.of = <<Stale[place].subject, "duckduckgo">>
        BY <4>1 DEF LookedUp
      <4>3. x.of[2] = "duckduckgo"
        BY <4>2
      <4>4. Say(<<x>>)
        BY <3>1, <4>1 DEF Search
      <4>. QED  BY <4>2, <4>3, <4>4
    <3>2. ASSUME Searched PROVE \E x : Say(<<x>>) /\ x.event \in {"research.started", "research.finished"} /\ x.of[2] = "duckduckgo"
      <4>1. PICK results : Say(<<Answered(Stale[place].subject, "duckduckgo", Notes(results) # <<>>)>>)
        BY <3>2 DEF Searched
      <4>2. PICK x : x = Answered(Stale[place].subject, "duckduckgo", Notes(results) # <<>>)
        OBVIOUS
      <4>3. x.event = "research.finished" /\ x.of = <<Stale[place].subject, "duckduckgo">>
        BY <4>2 DEF Answered
      <4>4. x.of[2] = "duckduckgo"
        BY <4>3
      <4>5. Say(<<x>>)
        BY <4>1, <4>2
      <4>. QED  BY <4>3, <4>4, <4>5
    <3>. QED  BY <1>8, <3>1, <3>2
  <2>2. screen'.steps = Recent(Append(screen.steps, x)) /\ IsPage(screen.steps)
    BY <2>1, Researched DEF IsScreen
  <2>3. \A n : Silent(x, n)
    BY <2>1, SearchIsSilent
  <2>4. \A n : Stays(screen.steps, screen'.steps, n)
    BY <2>2, <2>3, SilentStays
  <2>. QED  BY <1>2, <2>4 DEF Stands
<1>9. CASE Announce
  <2>1. Spoken(6, 0, Deterministic)
    BY <1>9, AnnounceSays DEF Announce, Announcing
  <2>. QED  BY <1>4, <2>1
<1>10. CASE Select
  BY <1>4, <1>10, SelectSays
<1>11. ASSUME NEW m \in batch, Read(m) PROVE Stands
  <2>1. Route(m) => Spoken(4, 4, {})
    BY RouteSays
  <2>2. \A l : Answer(m, l) => Spoken(4, 4, {})
    BY AnswerSays
  <2>3. Lose(m) => screen' = screen
    BY DEF Lose
  <2>4. \A l : Fail(m, l) => screen' = screen
    BY DEF Fail
  <2>. QED  BY <1>3, <1>4, <1>11, <2>1, <2>2, <2>3, <2>4 DEF Read
<1>12. CASE Conclude
  <2>1. PICK found : found = {KeyOf(f) : f \in ToSet(report'.findings)}
    OBVIOUS
  <2>2. Spoken(5, 5, found)
    BY <1>12, <2>1, ConcludeSays
  <2>. QED  BY <1>4, <2>2
<1>13. CASE Observe
  BY <1>3, <1>13 DEF Observe
<1>14. CASE Complete
  BY <1>3, <1>14, CompleteSays
<1>. QED  BY <1>5, <1>6, <1>7, <1>8, <1>9, <1>10, <1>11, <1>12, <1>13, <1>14 DEF Next

\* The worker's questions: no package of them is on screen yet.
LEMMA AskingAgrees ==
    ASSUME Turning, Queued, Agreeing, AuditAsks
    PROVE  Agreeing'
<1>1. /\ at = "audit" /\ at' = "lookups" /\ wanted' = Missing(place) /\ screen' = screen /\ seen' = seen
  BY DEF AuditAsks
<1>2. Pending = {} /\ Pending' = wanted' /\ wanted' \cap DOMAIN seen = {}
  BY <1>1 DEF Pending, Missing
<1>3. \A n : Verdict(n)' = Verdict(n) /\ Asks(n)' = Asks(n)
  BY <1>1 DEF Verdict, Asks
<1>4. ToSet(handed') = {Asks(n) : n \in wanted'}
  BY AskingAudits
<1>5. \A n \in wanted' : Following(n)'
  <2>1. TAKE n \in wanted'
  <2>2. Asks(n)' \in ToSet(handed')
    BY <1>3, <1>4
  <2>3. Unsaid(screen.steps, n)
    BY <1>2 DEF Agreeing
  <2>. QED  BY <1>1, <2>2, <2>3 DEF Following
<1>6. \A n : n \notin DOMAIN seen' \cup Pending' => Unsaid(screen'.steps, n)
  BY <1>1, <1>2 DEF Agreeing
<1>7. \A n \in DOMAIN seen' \ Pending' : Settled(screen'.steps, n, Verdict(n)')
  BY <1>1, <1>2, <1>3 DEF Agreeing
<1>. QED  BY <1>2, <1>5, <1>6, <1>7 DEF Agreeing

\* A thread of the pool says nothing itself.
LEMMA AnsweringAgrees ==
    ASSUME Turning, Queued, Agreeing, NEW n \in asking, PoolAnswers(n)
    PROVE  Agreeing'
<1>1. /\ at = "lookups" /\ at' = "lookups" /\ n \in wanted
      /\ DOMAIN seen' = DOMAIN seen \cup {n} /\ \A m \in DOMAIN seen \ {n} : seen'[m] = seen[m]
      /\ UNCHANGED <<wanted, handed, screen>>
  BY AnsweringPool DEF PoolAnswers, Turning
<1>2. Pending = wanted /\ Pending' = wanted
  BY <1>1 DEF Pending
<1>3. \A m : Asks(m)' = Asks(m)
  BY DEF Asks
<1>4. \A m \in DOMAIN seen' \ Pending' : m \in DOMAIN seen \ Pending /\ Verdict(m)' = Verdict(m)
  BY <1>1, <1>2 DEF Verdict
<1>5. \A m \in wanted : Following(m)'
  BY <1>1, <1>2, <1>3 DEF Agreeing, Following
<1>6. \A m : m \notin DOMAIN seen' \cup Pending' => Unsaid(screen'.steps, m)
  BY <1>1, <1>2 DEF Agreeing
<1>7. \A m \in DOMAIN seen' \ Pending' : Settled(screen'.steps, m, Verdict(m)')
  BY <1>1, <1>4 DEF Agreeing
<1>. QED  BY <1>2, <1>5, <1>6, <1>7 DEF Agreeing

\* What a queue with more behind it holds.
LEMMA EndsHold ==
    ASSUME Turning, Queued, AuditEnds
    PROVE  ToSet(handed') = (ToSet(handed) \cup {Learnt(n) : n \in wanted}) \cup {Audited}
<1>. DEFINE A == {Asks(n) : n \in wanted}
            L == {Learnt(n) : n \in wanted}
<1>1. PICK r : EndsQueue(handed, r, handed')
  BY EndsInThreeParts
<1>2. PICK h \in Seq(A) : h = handed
  BY EndsInThreeParts
<1>3. PICK q : q = handed'
  OBVIOUS
<1>4. r \in Seq(L) /\ q = (h \o r) \o <<Audited>> /\ ToSet(r) = L
  BY <1>1, <1>2, <1>3 DEF EndsQueue
<1>. HIDE DEF A, L
<1>5. IsList(h) /\ IsList(r)
  BY <1>4, ListIs
<1>6. PICK first : first = h \o r
  OBVIOUS
<1>7. PICK end : end = <<Audited>>
  OBVIOUS
<1>8. IsList(first) /\ ToSet(first) = ToSet(h) \cup ToSet(r)
  BY <1>5, <1>6, ListsJoin
<1>9. IsList(end) /\ ToSet(end) = {Audited}
  BY <1>7, Short
<1>10. q = first \o end
  BY <1>4, <1>6, <1>7
<1>11. ToSet(q) = ToSet(first) \cup ToSet(end)
  BY <1>8, <1>9, <1>10, ListsJoin
<1>. QED  BY <1>2, <1>3, <1>4, <1>8, <1>9, <1>11 DEF L

\* What is shown agrees while the answers of an audit wait in the queue.
LEMMA EndingAgrees ==
    ASSUME Turning, Queued, Agreeing, AuditEnds
    PROVE  Agreeing'
<1>1. /\ at = "lookups" /\ at' = "audited" /\ UNCHANGED <<wanted, seen, screen>>
  BY EndsInThreeParts
<1>2. Pending = wanted /\ Pending' = wanted
  BY <1>1 DEF Pending
<1>3. \A n : Asks(n)' = Asks(n) /\ Learnt(n)' = Learnt(n) /\ Verdict(n)' = Verdict(n)
  BY <1>1 DEF Asks, Learnt, Verdict
<1>4. \A n \in wanted : Following(n)'
  <2>1. TAKE n \in wanted
  <2>2. Learnt(n)' \in ToSet(handed')
    BY <1>3, EndsHold
  <2>3. Asks(n)' \in ToSet(handed') <=> Asks(n) \in ToSet(handed)
    <3>1. Asks(n) # Audited /\ \A m : Asks(n) # Learnt(m)
      BY StepsApart DEF Learnt
    <3>. QED  BY <1>3, <3>1, EndsHold
  <2>4. Following(n)
    BY <1>2 DEF Agreeing
  <2>. QED  BY <1>1, <1>3, <2>2, <2>3, <2>4 DEF Following
<1>5. \A n : n \notin DOMAIN seen' \cup Pending' => Unsaid(screen'.steps, n)
  BY <1>1, <1>2 DEF Agreeing
<1>6. \A n \in DOMAIN seen' \ Pending' : Settled(screen'.steps, n, Verdict(n)')
  BY <1>1, <1>2, <1>3 DEF Agreeing
<1>. QED  BY <1>2, <1>4, <1>5, <1>6 DEF Agreeing

\* The coroutine's turn comes when every step before it has been said.
LEMMA WakingAgrees ==
    ASSUME Turning, Queued, Agreeing, Deliver, Head(handed) = Audited
    PROVE  Agreeing'
<1>1. Taken(Audited)
  BY TakingFirst
<1>2. at = "audited" /\ Len(handed) = 1 /\ wanted \subseteq DOMAIN seen
  BY <1>1, TakenIs
<1>3. at' \in {"audit", "changelogs"} /\ screen' = screen /\ seen' = seen
  BY Woken DEF Deliver
<1>4. Pending = wanted /\ Pending' = {}
  BY <1>2, <1>3 DEF Pending
<1>5. ToSet(handed) = {Audited}
  BY <1>1, <1>2 DEF Taken, ToSet
<1>6. \A n : Asks(n) \notin ToSet(handed) /\ Learnt(n) \notin ToSet(handed)
  BY <1>5, StepsApart DEF Learnt
<1>7. \A n : Verdict(n)' = Verdict(n)
  BY <1>3 DEF Verdict
<1>8. \A n \in DOMAIN seen : Settled(screen.steps, n, Verdict(n))
  BY <1>2, <1>4, <1>6 DEF Agreeing, Following
<1>9. \A n : n \notin DOMAIN seen' \cup Pending' => Unsaid(screen'.steps, n)
  BY <1>2, <1>3, <1>4 DEF Agreeing
<1>10. \A n \in DOMAIN seen' \ Pending' : Settled(screen'.steps, n, Verdict(n)')
  BY <1>3, <1>7, <1>8
<1>. QED  BY <1>4, <1>9, <1>10 DEF Agreeing

\* A step of one package's lookup says nothing of another.
LEMMA AnotherIsSilent ==
    ASSUME NEW x, NEW m, x.of = <<m, "pypi.org">>, NEW n, n # m
    PROVE  Silent(x, n)
<1>1. <<n, "pypi.org">> # x.of
  OBVIOUS
<1>2. PICK asks : asks = LookedUp(n, "pypi.org")
  OBVIOUS
<1>3. asks.of = <<n, "pypi.org">>
  BY <1>2 DEF LookedUp
<1>4. ASSUME NEW found PROVE x # Answered(n, "pypi.org", found)
  <2>1. PICK answer : answer = Answered(n, "pypi.org", found)
    OBVIOUS
  <2>2. answer.of = <<n, "pypi.org">>
    BY <2>1 DEF Answered
  <2>. QED  BY <1>1, <2>1, <2>2
<1>. QED  BY <1>1, <1>2, <1>3, <1>4 DEF Silent

\* A step of a lookup is said: its package's, and no other's, is shown anew.
LEMMA SayingAgrees ==
    ASSUME Turning, Queued, Agreeing, Staged, Deliver, Head(handed) # Audited
    PROVE  Agreeing'
<1>1. PICK x : x = Head(handed)
  OBVIOUS
<1>2. Taken(x) /\ x # Audited /\ Say(<<x>>)
  BY <1>1, TakingFirst DEF Deliver
<1>3. UNCHANGED <<at, wanted, seen>>
  BY Delivered
<1>4. ToSet(handed') = ToSet(handed) \ {x} /\ x \in ToSet(handed)
  BY <1>2 DEF Taken, ToSet
<1>5. at = "lookups" \/ at = "audited"
  BY <1>2 DEF Taken
<1>6. Pending = wanted /\ Pending' = wanted
  BY <1>3, <1>5 DEF Pending
<1>7. \A n : Asks(n)' = Asks(n) /\ Learnt(n)' = Learnt(n) /\ Verdict(n)' = Verdict(n)
  BY <1>3 DEF Asks, Learnt, Verdict
<1>8. PICK m \in wanted : x = Asks(m) \/ (at = "audited" /\ m \in DOMAIN seen /\ x = Learnt(m))
  BY <1>2, TakenIs
<1>9. x.event \in {"research.started", "research.finished"} /\ x.of = <<m, "pypi.org">>
  BY <1>8 DEF Asks, LookedUp, Learnt, Answered
<1>10. PICK steps, next : /\ steps = screen.steps /\ next = screen'.steps
                         /\ IsPage(steps) /\ next = Recent(Append(steps, x))
  BY <1>2, <1>9, Researched DEF Staged, IsScreen
<1>10a. IsPage(next) /\ \E up \in {0, 1} : Slid(steps, x, next, up)
  BY <1>10, PageSlides
<1>10b. PICK up \in {0, 1} : Slid(steps, x, next, up)
  BY <1>10a
<1>11. \A n : n # m => Silent(x, n)
  BY <1>9, AnotherIsSilent
<1>12. \A n : n # m => Stays(steps, next, n)
  BY <1>10, <1>11, SilentStays
<1>13. \A n : n # m => /\ Asks(n) \in ToSet(handed') <=> Asks(n) \in ToSet(handed)
                       /\ Learnt(n) \in ToSet(handed') <=> Learnt(n) \in ToSet(handed)
  <2>1. \A n : n # m => Asks(n) # x /\ Learnt(n) # x
    BY <1>8, StepsApart DEF Learnt
  <2>. QED  BY <1>4, <2>1
<1>13a. \A n : Verdict(n) \in BOOLEAN
  BY DEF Verdict
<1>14. \A n \in wanted : n # m => Following(n)'
  BY <1>3, <1>6, <1>7, <1>10, <1>12, <1>13, <1>13a DEF Agreeing, Following, Stays
<1>15. Following(m)
  BY <1>6 DEF Agreeing
<1>15a. Asks(m) # Learnt(m) /\ \A found : Asks(m) # Answered(m, "pypi.org", found)
  BY StepsApart DEF Learnt
<1>16. Following(m)'
  <2>1. CASE x = Asks(m)
    <3>1. Unsaid(steps, m) /\ (at = "audited" => Learnt(m) \in ToSet(handed))
      BY <1>4, <1>10, <1>15, <2>1 DEF Following
    <3>2. Slid(steps, LookedUp(m, "pypi.org"), next, up)
      BY <1>10b, <2>1 DEF Asks
    <3>3. Waiting(next, m)
      BY <1>10, <1>10a, <1>15a, <3>1, <3>2, QuestionWaits DEF Asks
    <3>4. Asks(m) \notin ToSet(handed') /\ (at = "audited" => Learnt(m) \in ToSet(handed'))
      BY <1>4, <1>15a, <2>1, <3>1
    <3>. QED  BY <1>3, <1>7, <1>10, <3>3, <3>4 DEF Following
  <2>2. CASE at = "audited" /\ m \in DOMAIN seen /\ x = Learnt(m)
    <3>1. Asks(m) \notin ToSet(handed)
      <4>1. SUFFICES ASSUME NEW i \in DOMAIN handed, handed[i] = Asks(m) PROVE FALSE
        BY DEF ToSet
      <4>2. 1 \in DOMAIN handed /\ handed[1] = Learnt(m) /\ DOMAIN handed = 1..Len(handed) /\ Len(handed) \in Nat
        BY <1>2, <2>2 DEF Taken
      <4>3. i < 1
        BY <2>2, <4>1, <4>2 DEF Queued
      <4>. QED  BY <4>2, <4>3
    <3>2. Waiting(steps, m)
      BY <1>4, <1>10, <1>15, <2>2, <3>1 DEF Following
    <3>3. x = Answered(m, "pypi.org", Verdict(m)) /\ x.found = Verdict(m)
      BY <2>2 DEF Learnt, Answered, Verdict
    <3>4. x # LookedUp(m, "pypi.org")
      BY <1>15a, <2>2 DEF Asks
    <3>5. Settled(next, m, Verdict(m))
      <4>1. PICK found \in BOOLEAN : found = Verdict(m)
        BY <1>13a
      <4>2. x = Answered(m, "pypi.org", found) /\ x.found = found
        BY <3>3, <4>1
      <4>3. Settled(next, m, found)
        BY <1>10, <1>10a, <1>10b, <3>2, <3>4, <4>2, AnswerSettles
      <4>. QED  BY <4>1, <4>3
    <3>6. Asks(m) \notin ToSet(handed') /\ Learnt(m) \notin ToSet(handed')
      BY <1>4, <2>2, <3>1
    <3>. QED  BY <1>3, <1>7, <1>10, <2>2, <3>5, <3>6 DEF Following
  <2>. QED  BY <1>8, <2>1, <2>2
<1>17. \A n : n \notin DOMAIN seen' \cup Pending' => Unsaid(screen'.steps, n)
  <2>1. TAKE n
  <2>2. SUFFICES ASSUME n \notin DOMAIN seen \cup wanted PROVE Unsaid(next, n)
    BY <1>3, <1>6, <1>10
  <2>3. n # m /\ Unsaid(steps, n)
    BY <1>6, <1>10, <2>2 DEF Agreeing
  <2>. QED  BY <1>12, <2>3 DEF Stays
<1>18. \A n \in DOMAIN seen' \ Pending' : Settled(screen'.steps, n, Verdict(n)')
  <2>1. TAKE n \in DOMAIN seen' \ Pending'
  <2>2. n # m /\ n \in DOMAIN seen \ Pending
    BY <1>3, <1>6
  <2>3. Settled(steps, n, Verdict(n))
    BY <1>10, <2>2 DEF Agreeing
  <2>. QED  BY <1>7, <1>10, <1>12, <1>13a, <2>2, <2>3 DEF Stays
<1>. QED  BY <1>6, <1>14, <1>16, <1>17, <1>18 DEF Agreeing

\* Every step keeps what is shown of packages and what is known of them the same.
LEMMA AgreeingKept ==
    ASSUME Showing, Agreeing, [Next]_vars
    PROVE  Agreeing'
<1>. USE DEF Showing
<1>1. CASE AuditAsks
  BY <1>1, AskingAgrees
<1>2. ASSUME NEW n \in asking, PoolAnswers(n) PROVE Agreeing'
  BY <1>2, AnsweringAgrees
<1>3. CASE AuditEnds
  BY <1>3, EndingAgrees
<1>4. CASE Deliver
  BY <1>4, WakingAgrees, SayingAgrees
<1>5. CASE UNCHANGED vars
  <2>1. UNCHANGED <<at, wanted, seen, handed, screen>>
    BY <1>5 DEF vars, auditing
  <2>2. Pending' = Pending /\ \A n : Verdict(n)' = Verdict(n) /\ (Following(n)' <=> Following(n))
    BY <2>1 DEF Pending, Verdict, Following, Asks, Learnt
  <2>. QED  BY <2>1, <2>2 DEF Agreeing
<1>6. ASSUME Next, ~AuditAsks, \A n \in asking : ~PoolAnswers(n), ~AuditEnds, ~Deliver PROVE Agreeing'
  BY <1>6, AsideStands, StandingAgrees
<1>. QED  BY <1>1, <1>2, <1>3, <1>4, <1>5, <1>6

\* A review begins with no package on screen.
LEMMA AgreeingBegins == Init => Agreeing
<1>1. SUFFICES ASSUME Init PROVE Agreeing
  OBVIOUS
<1>2. seen = <<>>
  BY <1>1 DEF Init
<1>3. at = "survey"
  BY <1>1 DEF Init
<1>4. PICK shown : shown = screen
  OBVIOUS
<1>5. shown = [stages |-> [s \in DOMAIN Stages |-> "waiting"], files |-> <<>>, findings |-> {},
               steps |-> <<>>, tiers |-> <<>>, over |-> ""]
  BY <1>1, <1>4 DEF Init
<1>6. shown.steps = <<>>
  BY <1>5
<1>7. \A n : Unsaid(screen.steps, n)
  BY <1>4, <1>6 DEF Unsaid, AskedIn, AnsweredIn
<1>8. DOMAIN seen = {} /\ Pending = {}
  BY <1>2, <1>3 DEF Pending
<1>. QED  BY <1>7, <1>8 DEF Agreeing

\* The inductive invariant of a review.
LEMMA PipelineInvariance == Spec => []IInv
<1>1. Init => IInv
  <2>1. Init => Agreeing
    BY AgreeingBegins
  <2>2. Init => Routing /\ Counting
    BY CoverageBegins
  <2>. QED  BY <2>1, <2>2, AuditBegins, ScreenBegins DEF Showing, IInv
<1>2. IInv /\ [Next]_vars => IInv'
  BY ShowingKept, AgreeingKept DEF IInv
<1>. QED  BY <1>1, <1>2, PTL DEF Spec

\* What a viewer is told of the packages (registry.py, facts_for_many; app.py,
\* on_event; useRun.ts, fold): once the audits are over, of each declared one the
\* page still shows what it should of its one lookup, however many steps it
\* keeps, although the pool's threads learn it while the loop is still saying
\* what was asked.
THEOREM LookupsAlwaysPair == Spec => []LookupsPair
<1>1. IInv => LookupsPair
  <2>1. SUFFICES ASSUME IInv, at \notin {"survey", "map", "audit", "lookups", "audited", "over"},
                        NEW b \in DOMAIN Bases, NEW n \in DOMAIN Pinned(b)
                 PROVE  Settled(screen.steps, n, seen[n] # NoFacts)
    BY DEF LookupsPair, Settled
  <2>2. n \in DOMAIN seen
    BY <2>1 DEF IInv, Showing, Turning, Auditing
  <2>3. Pending = {}
    BY <2>1 DEF Pending
  <2>. QED  BY <2>1, <2>2, <2>3 DEF IInv, Agreeing, Verdict
<1>. QED  BY <1>1, PipelineInvariance, PTL

-----------------------------------------------------------------------------
(* How many hops a module is from where a request begins. *)

\* A walk of d imports from where a request begins to a module.
Path(modules, imports, begun, i, d) ==
    \E w \in [0..d -> modules] :
        /\ w[0] \in begun /\ w[d] = i
        /\ \A k \in 0..(d - 1) : w[k + 1] \in imports[w[k]]

\* Without an import a walk is where it begins.
LEMMA PathOfNone ==
    ASSUME NEW modules, NEW imports, NEW begun, begun \subseteq modules, NEW i
    PROVE  Path(modules, imports, begun, i, 0) <=> i \in begun
<1>1. Path(modules, imports, begun, i, 0) => i \in begun
  BY DEF Path
<1>2. ASSUME i \in begun PROVE Path(modules, imports, begun, i, 0)
  <2>1. PICK w : w = [k \in 0..0 |-> i]
    OBVIOUS
  <2>2. w \in [0..0 -> modules] /\ w[0] = i /\ \A k \in 0..(0 - 1) : FALSE
    BY <1>2, <2>1
  <2>3. \A k \in 0..(0 - 1) : w[k + 1] \in imports[w[k]]
    BY <2>2
  <2>. QED  BY <1>2, <2>2, <2>3 DEF Path
<1>. QED  BY <1>1, <1>2

\* A walk of an import more goes on from a walk to what imports the module.
LEMMA PathOneMore ==
    ASSUME NEW modules, NEW imports, NEW begun, NEW i, NEW d \in Nat
    PROVE  Path(modules, imports, begun, i, d + 1) <=>
              i \in modules /\ \E j : Path(modules, imports, begun, j, d) /\ i \in imports[j]
<1>1. ASSUME Path(modules, imports, begun, i, d + 1)
      PROVE  i \in modules /\ \E j : Path(modules, imports, begun, j, d) /\ i \in imports[j]
  <2>1. PICK w \in [0..(d + 1) -> modules] :
            /\ w[0] \in begun /\ w[d + 1] = i
            /\ \A k \in 0..((d + 1) - 1) : w[k + 1] \in imports[w[k]]
    BY <1>1 DEF Path
  <2>2. \A k \in 0..d : k \in 0..(d + 1) /\ w[k + 1] \in imports[w[k]]
    BY <2>1
  <2>3. PICK v : v = [k \in 0..d |-> w[k]]
    OBVIOUS
  <2>4. v \in [0..d -> modules] /\ \A k \in 0..d : v[k] = w[k]
    BY <2>1, <2>2, <2>3
  <2>5. 0 \in 0..d /\ d \in 0..d /\ \A k \in 0..(d - 1) : k \in 0..d /\ k + 1 \in 0..d
    OBVIOUS
  <2>6. v[0] \in begun /\ \A k \in 0..(d - 1) : v[k + 1] \in imports[v[k]]
    BY <2>1, <2>2, <2>4, <2>5
  <2>7. Path(modules, imports, begun, v[d], d)
    BY <2>4, <2>6 DEF Path
  <2>8. i \in imports[v[d]] /\ i \in modules
    <3>1. d + 1 \in 0..(d + 1)
      OBVIOUS
    <3>. QED  BY <2>1, <2>2, <2>4, <2>5, <3>1
  <2>. QED  BY <2>7, <2>8
<1>2. ASSUME i \in modules, NEW j, Path(modules, imports, begun, j, d), i \in imports[j]
      PROVE  Path(modules, imports, begun, i, d + 1)
  <2>1. PICK w \in [0..d -> modules] :
            /\ w[0] \in begun /\ w[d] = j
            /\ \A k \in 0..(d - 1) : w[k + 1] \in imports[w[k]]
    BY <1>2 DEF Path
  <2>2. PICK v : v = [k \in 0..(d + 1) |-> IF k = d + 1 THEN i ELSE w[k]]
    OBVIOUS
  <2>3. /\ \A k \in 0..(d + 1) : k = d + 1 \/ k \in 0..d
        /\ \A k \in 0..d : k \in 0..(d + 1) /\ k # d + 1
        /\ d + 1 \in 0..(d + 1) /\ 0 \in 0..d /\ d \in 0..d
    OBVIOUS
  <2>4. v \in [0..(d + 1) -> modules]
    BY <1>2, <2>1, <2>2, <2>3
  <2>5. v[d + 1] = i /\ \A k \in 0..d : v[k] = w[k]
    BY <2>2, <2>3
  <2>6. ASSUME NEW k \in 0..((d + 1) - 1) PROVE v[k + 1] \in imports[v[k]]
    <3>1. CASE k = d
      BY <1>2, <2>1, <2>3, <2>5, <3>1
    <3>2. CASE k # d
      <4>1. k \in 0..(d - 1) /\ k \in 0..d /\ k + 1 \in 0..d
        BY <3>2
      <4>. QED  BY <2>1, <2>5, <4>1
    <3>. QED  BY <3>1, <3>2
  <2>7. v[0] \in begun
    BY <2>1, <2>3, <2>5
  <2>. QED  BY <2>4, <2>5, <2>6, <2>7 DEF Path
<1>. QED  BY <1>1, <1>2

\* What k levels have reached is what walks of no more than k imports lead to,
\* each at the length of the shortest, and the frontier is the last of them.
Leads(modules, imports, begun, i, k) == \E d \in 0..k : Path(modules, imports, begun, i, d)
Shortest(modules, imports, begun, i, d) ==
    /\ Path(modules, imports, begun, i, d)
    /\ \A e \in 0..(d - 1) : ~ Path(modules, imports, begun, i, e)
Levels(modules, imports, begun, walk, k) ==
    /\ walk.level = k
    /\ \A i : i \in DOMAIN walk.depth <=> Leads(modules, imports, begun, i, k)
    /\ \A i \in DOMAIN walk.depth : /\ walk.depth[i] \in 0..k
                                    /\ Shortest(modules, imports, begun, i, walk.depth[i])
    /\ \A i : i \in walk.frontier <=> i \in DOMAIN walk.depth /\ walk.depth[i] = k

\* One level more reaches what a walk of one import more leads to.
LEMMA LevelsDeepen ==
    ASSUME NEW modules, NEW imports, NEW begun, NEW k \in Nat, NEW walk,
           Levels(modules, imports, begun, walk, k),
           NEW deeper, deeper = Level(modules, imports, walk)
    PROVE  Levels(modules, imports, begun, deeper, k + 1)
<1>1. PICK next : next = (modules \cap UNION {imports[i] : i \in walk.frontier}) \ DOMAIN walk.depth
  OBVIOUS
<1>2. PICK depth : depth = [i \in DOMAIN walk.depth \cup next |->
                               IF i \in next THEN walk.level + 1 ELSE walk.depth[i]]
  OBVIOUS
<1>3. deeper = [frontier |-> next, depth |-> depth, level |-> walk.level + 1]
  BY <1>1, <1>2, Zenon DEF Level, Deeper
<1>4. deeper.frontier = next /\ deeper.depth = depth /\ deeper.level = k + 1
  BY <1>3 DEF Levels
<1>5. PICK D : D = DOMAIN walk.depth
  OBVIOUS
<1>6. /\ DOMAIN depth = D \cup next /\ \A i \in next : depth[i] = k + 1 /\ i \notin D
      /\ \A i \in D : depth[i] = walk.depth[i]
  BY <1>1, <1>2, <1>5 DEF Levels
<1>7. \A x : x \in next <=> /\ x \in modules /\ x \notin D
                              /\ \E y : y \in walk.frontier /\ x \in imports[y]
  BY <1>1, <1>5
<1>8. ASSUME NEW i \in next PROVE Shortest(modules, imports, begun, i, k + 1)
  <2>1. PICK j \in walk.frontier : i \in imports[j] /\ i \in modules
    BY <1>7
  <2>2. Path(modules, imports, begun, j, k)
    BY <2>1 DEF Levels, Shortest
  <2>3. Path(modules, imports, begun, i, k + 1)
    BY <2>1, <2>2, PathOneMore
  <2>4. ~ Leads(modules, imports, begun, i, k)
    BY <1>5, <1>6 DEF Levels
  <2>5. (k + 1) - 1 = k
    OBVIOUS
  <2>. QED  BY <2>3, <2>4, <2>5 DEF Leads, Shortest
<1>9. ASSUME NEW i, Path(modules, imports, begun, i, k + 1), i \notin D PROVE i \in next
  <2>1. PICK j : Path(modules, imports, begun, j, k) /\ i \in imports[j] /\ i \in modules
    BY <1>9, PathOneMore
  <2>2. j \in D
    BY <1>5, <2>1 DEF Levels, Leads
  <2>3. PICK d \in 0..k : d = walk.depth[j] /\ Path(modules, imports, begun, j, d)
    BY <1>5, <2>2 DEF Levels, Shortest
  <2>4. d = k
    <3>1. Path(modules, imports, begun, i, d + 1)
      BY <2>1, <2>3, PathOneMore
    <3>2. d + 1 \notin 0..k
      BY <1>5, <1>9, <3>1 DEF Levels, Leads
    <3>. QED  BY <3>2
  <2>5. j \in walk.frontier
    BY <1>5, <2>2, <2>3, <2>4 DEF Levels
  <2>. QED  BY <1>9, <1>7, <2>1, <2>5
<1>10. ASSUME NEW i PROVE i \in DOMAIN depth <=> Leads(modules, imports, begun, i, k + 1)
  <2>1. Leads(modules, imports, begun, i, k + 1)
           <=> Leads(modules, imports, begun, i, k) \/ Path(modules, imports, begun, i, k + 1)
    <3>1. 0..(k + 1) = 0..k \cup {k + 1}
      OBVIOUS
    <3>. QED  BY <3>1 DEF Leads
  <2>2. i \in D <=> Leads(modules, imports, begun, i, k)
    BY <1>5 DEF Levels
  <2>3. i \in next => Path(modules, imports, begun, i, k + 1)
    BY <1>8 DEF Shortest
  <2>. QED  BY <1>6, <1>9, <2>1, <2>2, <2>3
<1>11. ASSUME NEW i \in DOMAIN depth
       PROVE  depth[i] \in 0..(k + 1) /\ Shortest(modules, imports, begun, i, depth[i])
  <2>1. CASE i \in next
    BY <1>6, <1>8, <2>1
  <2>2. CASE i \in D
    <3>1. walk.depth[i] \in 0..k /\ Shortest(modules, imports, begun, i, walk.depth[i])
      BY <1>5, <2>2 DEF Levels
    <3>2. \A d \in 0..k : d \in 0..(k + 1)
      OBVIOUS
    <3>. QED  BY <1>6, <2>2, <3>1, <3>2
  <2>. QED  BY <1>6, <2>1, <2>2
<1>12. ASSUME NEW i PROVE i \in next <=> i \in DOMAIN depth /\ depth[i] = k + 1
  <2>1. ASSUME i \in D PROVE depth[i] # k + 1
    <3>1. walk.depth[i] \in 0..k
      BY <1>5, <2>1 DEF Levels
    <3>. QED  BY <1>6, <2>1, <3>1
  <2>. QED  BY <1>6, <2>1
<1>. QED  BY <1>4, <1>10, <1>11, <1>12 DEF Levels

\* The recursion the walk's fold satisfies, on the sets of levels it has done.
LevelStep(modules, imports, start, g, s) ==
    IF s = {} THEN start ELSE Level(modules, imports, g[s \ {OneMember(s)}])
LevelOn(modules, imports, start, S) ==
    CHOOSE g : g = [s \in SUBSET S |-> LevelStep(modules, imports, start, g, s)]

\* The walk from the modules where a request begins.
Begin(begun) == [frontier |-> begun, depth |-> [i \in begun |-> 0], level |-> 0]
BegunAt(modules, sources, declared) ==
    {i \in modules : "entrypoint" \in sources[i].signals \/ sources[i].path \in declared}

\* The mapper's depths are that recursion, on the set of all modules.
LEMMA DepthsUnfold ==
    ASSUME NEW modules, NEW imports, NEW sources, NEW declared, NEW start,
           start = Begin(BegunAt(modules, sources, declared)), NEW out,
           out = LevelOn(modules, imports, start, modules)[modules]
    PROVE  Depths(modules, imports, sources, declared) = out.depth
<1>1. DOMAIN [step \in modules |-> step] = modules
  OBVIOUS
<1>2. Depths(modules, imports, sources, declared)
         = LevelOn(modules, imports, start, DOMAIN [step \in modules |-> step])
              [DOMAIN [step \in modules |-> step]].depth
  BY DEF Depths, FoldFunction, FoldFunctionOnSet, MapThenFoldSet, LevelOn, LevelStep, OneMember,
         Begin, BegunAt
<1>. QED  BY <1>1, <1>2

\* There is a function that satisfies it.
Goes(modules, imports, start, sets) ==
    \E g : g = [s \in sets |-> LevelStep(modules, imports, start, g, s)]
LEMMA LevelsUpTo ==
    ASSUME NEW modules, NEW imports, NEW start, NEW S, IsFiniteSet(S), NEW n \in Nat
    PROVE  Goes(modules, imports, start, Small(S, n))
<1>. DEFINE Solved == {k \in Nat : \E g :
                g = [s \in Small(S, k) |-> LevelStep(modules, imports, start, g, s)]}
<1>1. \A t \in SUBSET S : IsFiniteSet(t) /\ Cardinality(t) \in Nat /\ (Cardinality(t) = 0 <=> t = {})
  BY FS_Subset, FS_CardinalityType, FS_EmptySet
<1>2. \A t \in SUBSET S : t # {} =>
         /\ OneMember(t) \in t /\ t \ {OneMember(t)} \in SUBSET S
         /\ Cardinality(t \ {OneMember(t)}) = Cardinality(t) - 1
  BY <1>1, FS_RemoveElement DEF OneMember
<1>3. 0 \in Solved
  <2>. DEFINE g == [s \in Small(S, 0) |-> start]
  <2>1. \A s \in Small(S, 0) : s = {}
    BY <1>1 DEF Small
  <2>2. \A s \in Small(S, 0) : LevelStep(modules, imports, start, g, s) = start
    BY <2>1 DEF LevelStep
  <2>3. g = [s \in Small(S, 0) |-> LevelStep(modules, imports, start, g, s)]
    BY <2>2
  <2>. HIDE DEF g
  <2>4. \E h : h = [s \in Small(S, 0) |-> LevelStep(modules, imports, start, h, s)]
    BY <2>3
  <2>. QED  BY <2>4
<1>4. ASSUME NEW k \in Nat, k \in Solved PROVE k + 1 \in Solved
  <2>1. PICK g : g = [s \in Small(S, k) |-> LevelStep(modules, imports, start, g, s)]
    BY <1>4
  <2>. DEFINE h == [s \in Small(S, k + 1) |-> LevelStep(modules, imports, start, g, s)]
  <2>2. \A s \in Small(S, k) : s \in Small(S, k + 1)
    BY <1>1 DEF Small
  <2>3. \A s \in Small(S, k) : h[s] = g[s]
    <3>1. \A s \in Small(S, k) : g[s] = LevelStep(modules, imports, start, g, s)
      BY <2>1
    <3>. QED  BY <2>2, <3>1
  <2>4. \A s \in Small(S, k + 1) : s # {} => s \ {OneMember(s)} \in Small(S, k)
    BY <1>1, <1>2 DEF Small
  <2>5. \A s \in Small(S, k + 1) :
           LevelStep(modules, imports, start, g, s) = LevelStep(modules, imports, start, h, s)
    <3>. HIDE DEF h
    <3>. QED  BY <2>3, <2>4 DEF LevelStep
  <2>6. h = [s \in Small(S, k + 1) |-> LevelStep(modules, imports, start, h, s)]
    <3>1. h = [s \in Small(S, k + 1) |-> LevelStep(modules, imports, start, g, s)]
      OBVIOUS
    <3>. HIDE DEF h
    <3>. QED  BY <2>5, <3>1
  <2>7. \E q : q = [s \in Small(S, k + 1) |-> LevelStep(modules, imports, start, q, s)]
    <3>. HIDE DEF h
    <3>. QED  BY <2>6
  <2>. QED  BY <2>7
<1>5. Nat \subseteq Solved
  <2>. HIDE DEF Solved
  <2>. QED  BY <1>3, <1>4, CountInduction
<1>. QED  BY <1>5 DEF Goes

\* Where a request begins no import has been followed.
LEMMA LevelsBegin ==
    ASSUME NEW modules, NEW imports, NEW begun, begun \subseteq modules
    PROVE  Levels(modules, imports, begun, Begin(begun), 0)
<1>1. PICK walk : walk = Begin(begun)
  OBVIOUS
<1>2. walk.level = 0 /\ walk.frontier = begun /\ walk.depth = [i \in begun |-> 0]
  BY <1>1 DEF Begin
<1>3. \A i : Path(modules, imports, begun, i, 0) <=> i \in begun
  BY PathOfNone
<1>4. \A i : Leads(modules, imports, begun, i, 0) <=> i \in begun
  <2>1. \A d \in 0..0 : d = 0
    OBVIOUS
  <2>2. 0 \in 0..0
    OBVIOUS
  <2>. QED  BY <1>3, <2>1, <2>2 DEF Leads
<1>5. \A i \in begun : Shortest(modules, imports, begun, i, 0)
  <2>1. \A e \in 0..(0 - 1) : FALSE
    OBVIOUS
  <2>. QED  BY <1>3, <2>1 DEF Shortest
<1>6. DOMAIN walk.depth = begun /\ \A i \in begun : walk.depth[i] = 0 /\ walk.depth[i] \in 0..0
  BY <1>2
<1>. QED  BY <1>1, <1>2, <1>4, <1>5, <1>6 DEF Levels

\* As many levels as there are modules reach what walks of as many imports do.
LEMMA LevelsReach ==
    ASSUME NEW modules, IsFiniteSet(modules), NEW imports, NEW begun, begun \subseteq modules,
           NEW out, out = LevelOn(modules, imports, Begin(begun), modules)[modules]
    PROVE  Levels(modules, imports, begun, out, Cardinality(modules))
<1>1. PICK n \in Nat : n = Cardinality(modules)
  BY FS_CardinalityType
<1>2. PICK start : start = Begin(begun)
  OBVIOUS
<1>3. PICK g : g = LevelOn(modules, imports, start, modules)
  OBVIOUS
<1>4. Small(modules, n) = SUBSET modules
  BY <1>1, FS_Subset DEF Small
<1>5. Goes(modules, imports, start, SUBSET modules)
  <2>1. PICK S : S = modules
    OBVIOUS
  <2>2. IsFiniteSet(S)
    BY <2>1
  <2>3. Goes(modules, imports, start, Small(S, n))
    BY <2>2, LevelsUpTo
  <2>. QED  BY <1>4, <2>1, <2>3
<1>6. g = [s \in SUBSET modules |-> LevelStep(modules, imports, start, g, s)]
  BY <1>3, <1>5 DEF LevelOn, Goes
<1>7. \A s \in SUBSET modules : g[s] = LevelStep(modules, imports, start, g, s)
  BY <1>6
<1>. DEFINE Q == {k \in Nat : \A s \in SUBSET modules :
                    Cardinality(s) = k => Levels(modules, imports, begun, g[s], k)}
<1>8. 0 \in Q
  <2>1. SUFFICES ASSUME NEW s \in SUBSET modules, Cardinality(s) = 0
                 PROVE  Levels(modules, imports, begun, g[s], 0)
    OBVIOUS
  <2>2. s = {}
    BY <2>1, FS_Subset, FS_EmptySet
  <2>3. g[s] = start
    BY <1>7, <2>2 DEF LevelStep
  <2>. QED  BY <1>2, <2>3, LevelsBegin
<1>9. ASSUME NEW k \in Nat, k \in Q PROVE k + 1 \in Q
  <2>1. SUFFICES ASSUME NEW s \in SUBSET modules, Cardinality(s) = k + 1
                 PROVE  Levels(modules, imports, begun, g[s], k + 1)
    OBVIOUS
  <2>2. IsFiniteSet(s) /\ s # {}
    BY <2>1, FS_Subset, FS_EmptySet
  <2>3. PICK r : r = s \ {OneMember(s)}
    OBVIOUS
  <2>4. r \in SUBSET modules /\ Cardinality(r) = k
    <3>1. OneMember(s) \in s
      BY <2>2 DEF OneMember
    <3>2. Cardinality(r) = Cardinality(s) - 1
      BY <2>2, <2>3, <3>1, FS_RemoveElement
    <3>. QED  BY <2>1, <2>3, <3>2
  <2>5. PICK walk : walk = g[r]
    OBVIOUS
  <2>6. Levels(modules, imports, begun, walk, k)
    BY <1>9, <2>4, <2>5
  <2>7. PICK deeper : deeper = Level(modules, imports, walk)
    OBVIOUS
  <2>8. Levels(modules, imports, begun, deeper, k + 1)
    BY <2>6, <2>7, LevelsDeepen
  <2>9. g[s] = deeper
    BY <1>7, <2>2, <2>3, <2>5, <2>7 DEF LevelStep
  <2>. QED  BY <2>8, <2>9
<1>10. Nat \subseteq Q
  <2>. HIDE DEF Q
  <2>. QED  BY <1>8, <1>9, CountInduction
<1>11. Levels(modules, imports, begun, g[modules], n)
  BY <1>1, <1>10
<1>. QED  BY <1>1, <1>2, <1>3, <1>11

\* A shortest walk passes no module twice, and so has fewer imports than there
\* are modules: what lies between two visits of one can be left out.
LEMMA WalksAreShort ==
    ASSUME NEW modules, IsFiniteSet(modules), NEW imports, NEW begun, NEW i, NEW d \in Nat,
           Shortest(modules, imports, begun, i, d)
    PROVE  d < Cardinality(modules)
<1>1. PICK w \in [0..d -> modules] :
          /\ w[0] \in begun /\ w[d] = i
          /\ \A k \in 0..(d - 1) : w[k + 1] \in imports[w[k]]
  BY DEF Shortest, Path
<1>2. ASSUME NEW a \in 0..d, NEW b \in 0..d, a < b, w[a] = w[b] PROVE FALSE
  <2>1. PICK c \in Nat : c = b - a /\ c \in 1..d /\ a + c = b
    BY <1>2
  <2>2. PICK e \in Nat : e = d - c /\ e \in 0..(d - 1) /\ e + c = d /\ a <= e
    BY <2>1
  <2>3. PICK v : v = [k \in 0..e |-> IF k <= a THEN w[k] ELSE w[k + c]]
    OBVIOUS
  <2>4. \A k \in 0..e : k \in 0..d /\ k + c \in 0..d
    BY <2>1, <2>2
  <2>5. v \in [0..e -> modules]
    BY <1>1, <2>3, <2>4
  <2>6. \A k \in 0..e : v[k] = IF k <= a THEN w[k] ELSE w[k + c]
    BY <2>3
  <2>7. \A k \in 0..e : k >= a => v[k] = w[k + c]
    <3>1. ASSUME NEW k \in 0..e, k >= a PROVE v[k] = w[k + c]
      <4>1. CASE k = a
        BY <1>2, <2>1, <2>2, <2>6, <4>1
      <4>2. CASE k # a
        <5>1. ~ (k <= a)
          BY <3>1, <4>2
        <5>. QED  BY <2>6, <5>1
      <4>. QED  BY <4>1, <4>2
    <3>. QED  BY <3>1
  <2>8. 0 \in 0..e /\ e \in 0..e /\ v[0] \in begun /\ v[e] = i
    <3>1. 0 \in 0..e /\ e \in 0..e /\ 0 <= a /\ e >= a
      BY <2>2
    <3>. QED  BY <1>1, <2>2, <2>6, <2>7, <3>1
  <2>9. ASSUME NEW k \in 0..(e - 1) PROVE v[k + 1] \in imports[v[k]]
    <3>1. k \in 0..e /\ k + 1 \in 0..e /\ k \in 0..(d - 1) /\ k + c \in 0..(d - 1)
      BY <2>1, <2>2
    <3>2. CASE k + 1 <= a
      <4>1. v[k] = w[k] /\ v[k + 1] = w[k + 1]
        BY <2>6, <3>1, <3>2
      <4>. QED  BY <1>1, <3>1, <4>1
    <3>3. CASE ~ (k + 1 <= a)
      <4>1. v[k] = w[k + c] /\ v[k + 1] = w[(k + 1) + c]
        BY <2>7, <3>1, <3>3
      <4>2. (k + 1) + c = (k + c) + 1
        BY <2>1
      <4>. QED  BY <1>1, <3>1, <4>1, <4>2
    <3>. QED  BY <3>2, <3>3
  <2>10. Path(modules, imports, begun, i, e)
    BY <2>5, <2>8, <2>9 DEF Path
  <2>. QED  BY <2>2, <2>10 DEF Shortest
<1>3. \A a, b \in 0..d : w[a] = w[b] => a = b
  <2>1. \A a, b \in 0..d : a = b \/ a < b \/ b < a
    OBVIOUS
  <2>. QED  BY <1>2, <2>1
<1>4. w \in Injection(0..d, modules)
  BY <1>1, <1>3 DEF Injection, IsInjective
<1>5. Cardinality(0..d) <= Cardinality(modules)
  BY <1>4, FS_Injection
<1>6. Cardinality(0..d) = d + 1
  BY FS_Interval
<1>. QED  BY <1>5, <1>6, FS_CardinalityType

\* How deep the mapper says a module is (mapper.py, _with_depth): it gives a
\* depth to exactly the modules some walk of imports leads to from where a
\* request begins, however long, and the depth is the length of the shortest:
\* a level for each module is levels enough.
THEOREM DepthsAreHops ==
    ASSUME NEW modules, IsFiniteSet(modules), NEW imports, NEW sources, NEW declared,
           NEW begun, begun = BegunAt(modules, sources, declared),
           NEW depth, depth = Depths(modules, imports, sources, declared)
    PROVE  /\ \A i : i \in DOMAIN depth <=> \E d \in Nat : Path(modules, imports, begun, i, d)
           /\ \A i \in DOMAIN depth : /\ depth[i] \in 0..(Cardinality(modules) - 1)
                                      /\ Shortest(modules, imports, begun, i, depth[i])
<1>1. PICK n \in Nat : n = Cardinality(modules)
  BY FS_CardinalityType
<1>2. PICK start : start = Begin(begun)
  OBVIOUS
<1>3. PICK out : out = LevelOn(modules, imports, start, modules)[modules]
  OBVIOUS
<1>4. depth = out.depth
  <2>1. start = Begin(BegunAt(modules, sources, declared))
    BY <1>2
  <2>. QED  BY <1>3, <2>1, DepthsUnfold
<1>5. Levels(modules, imports, begun, out, n)
  <2>1. begun \subseteq modules
    BY DEF BegunAt
  <2>2. out = LevelOn(modules, imports, Begin(begun), modules)[modules]
    BY <1>2, <1>3
  <2>. QED  BY <1>1, <2>1, <2>2, LevelsReach
<1>6. ASSUME NEW i, NEW d \in Nat, Path(modules, imports, begun, i, d)
      PROVE  \E e \in Nat : Shortest(modules, imports, begun, i, e)
  <2>1. PICK T : T = {e \in Nat : Path(modules, imports, begun, i, e)}
    OBVIOUS
  <2>2. T \subseteq Nat /\ T # {}
    BY <1>6, <2>1
  <2>3. PICK e \in T : \A f \in T : e <= f
    BY <2>2, LeastMember
  <2>4. e \in Nat /\ Path(modules, imports, begun, i, e)
    BY <2>1, <2>3
  <2>5. ASSUME NEW f \in 0..(e - 1) PROVE ~ Path(modules, imports, begun, i, f)
    <3>1. f \in Nat /\ ~ (e <= f)
      BY <2>4
    <3>. QED  BY <2>1, <2>3, <3>1
  <2>. QED  BY <2>4, <2>5 DEF Shortest
<1>7. ASSUME NEW i PROVE i \in DOMAIN depth <=> \E d \in Nat : Path(modules, imports, begun, i, d)
  <2>1. i \in DOMAIN depth <=> \E d \in 0..n : Path(modules, imports, begun, i, d)
    BY <1>4, <1>5 DEF Levels, Leads
  <2>2. ASSUME NEW d \in Nat, Path(modules, imports, begun, i, d) PROVE i \in DOMAIN depth
    <3>1. PICK e \in Nat : Shortest(modules, imports, begun, i, e)
      BY <1>6, <2>2
    <3>2. e < n
      BY <1>1, <3>1, WalksAreShort
    <3>3. e \in 0..n /\ Path(modules, imports, begun, i, e)
      BY <3>1, <3>2 DEF Shortest
    <3>. QED  BY <2>1, <3>3
  <2>3. \A d \in 0..n : d \in Nat
    OBVIOUS
  <2>. QED  BY <2>1, <2>2, <2>3
<1>8. ASSUME NEW i \in DOMAIN depth
      PROVE  depth[i] \in 0..(n - 1) /\ Shortest(modules, imports, begun, i, depth[i])
  <2>1. depth[i] \in 0..n /\ Shortest(modules, imports, begun, i, depth[i])
    BY <1>4, <1>5 DEF Levels
  <2>2. PICK d \in Nat : d = depth[i]
    BY <2>1
  <2>3. d < n
    BY <1>1, <2>1, <2>2, WalksAreShort
  <2>. QED  BY <2>1, <2>2, <2>3
<1>. QED  BY <1>1, <1>7, <1>8

\* A list of steps without the path leaves the path alone.
LEMMA SayNoPath ==
    ASSUME IsScreen(screen), NEW q, IsList(q), Say(q), \A x \in ToSet(q) : x.event # "model.built"
    PROVE  screen'.tiers = screen.tiers
<1>1. PICK base : base = screen
  OBVIOUS
<1>2. PICK next : next = screen'
  OBVIOUS
<1>3. next = Shown(base, q)
  BY <1>1, <1>2 DEF Say, Shown
<1>4. PICK n \in Nat : DOMAIN q = 1..n
  BY ListHas
<1>5. \A i \in 1..n : q[i].event # "model.built"
  BY <1>4 DEF ToSet
<1>6. Shown(base, q).tiers = base.tiers
  BY <1>1, <1>4, <1>5, TiersTold
<1>. QED  BY <1>1, <1>2, <1>3, <1>6

\* The path on screen while the packages are looked up is the map's, and before
\* there is none.
Layering ==
    /\ at \in {"survey", "map"} => DOMAIN screen.tiers = {}
    /\ at \in Auditing => /\ DOMAIN screen.tiers = DOMAIN Tiers
                          /\ \A m \in DOMAIN Tiers : screen.tiers[m] = Tiers[m]

\* The map's step puts it there.
LEMMA MapLayers ==
    ASSUME Turning, Charted, IsScreen(screen), Layering, MapStep
    PROVE  DOMAIN screen'.tiers = DOMAIN Tiers /\ \A m \in DOMAIN Tiers : screen'.tiers[m] = Tiers[m]
<1>1. PICK q : /\ IsList(q) /\ Say(q \o PathSteps)
               /\ \A x \in ToSet(q) : x.event \in {"language.detected", "structure.discovered"}
  BY MapSaid
<1>2. DOMAIN screen.tiers = {}
  BY DEF Layering, MapStep
<1>3. CASE DOMAIN Tiers = {}
  <2>1. PICK r : r = q \o <<>>
    OBVIOUS
  <2>2. Say(r)
    BY <1>1, <1>3, <2>1 DEF PathSteps
  <2>3. IsList(r) /\ ToSet(r) = ToSet(q)
    BY <1>1, <2>1, Short, ListsJoin
  <2>4. screen'.tiers = screen.tiers
    BY <1>1, <2>2, <2>3, SayNoPath
  <2>. QED  BY <1>2, <1>3, <2>4
<1>4. CASE DOMAIN Tiers # {}
  <2>1. PICK last : last = [event |-> "model.built", layers |-> Tiers]
    OBVIOUS
  <2>2. PICK r : r = q \o <<last>>
    OBVIOUS
  <2>3. Say(r)
    BY <1>1, <1>4, <2>1, <2>2 DEF PathSteps
  <2>4. PICK n \in Nat \ {0} : DOMAIN r = 1..n /\ r[n] = last
    <3>1. PICK T : T = ToSet(q) \cup {last}
      OBVIOUS
    <3>2. q \in Seq(T)
      <4>1. \A i \in DOMAIN q : q[i] \in T
        BY <1>1, <3>1, ListHas
      <4>. QED  BY <1>1, <4>1, ListHas
    <3>3. <<last>> \in Seq(T) /\ Len(<<last>>) = 1 /\ <<last>>[1] = last
      BY <3>1
    <3>4. r \in Seq(T) /\ Len(r) = Len(q) + 1 /\ r[Len(q) + 1] = last /\ Len(q) \in Nat
      BY <2>2, <3>2, <3>3
    <3>5. DOMAIN r = 1..Len(r)
      BY <3>4
    <3>. QED  BY <3>4, <3>5
  <2>5. PICK base : base = screen
    OBVIOUS
  <2>6. PICK next : next = screen'
    OBVIOUS
  <2>7. next = Shown(base, r)
    BY <2>3, <2>5, <2>6 DEF Say, Shown
  <2>8. last.event = "model.built" /\ last.layers = Tiers
    BY <2>1
  <2>9. Shown(base, r).tiers = r[n].layers
    BY <2>4, <2>5, <2>8, TiersTold
  <2>10. next.tiers = Tiers
    BY <2>4, <2>7, <2>8, <2>9
  <2>. QED  BY <2>6, <2>10
<1>. QED  BY <1>3, <1>4

\* Every step keeps what is known of the path.
LEMMA LayeringKept ==
    ASSUME Showing, Layering, Next
    PROVE  Layering'
<1>1. map' = map /\ Tiers' = Tiers
  BY MapStays DEF Tiers, IdOf, PlaceOf
<1>2. IsScreen(screen)
  BY DEF Showing, Staged
<1>3. CASE SurveyStep
  <2>1. PICK q : /\ IsList(q) /\ Say(q)
                 /\ \A x \in ToSet(q) :
                       x.event \in {"review.started", "scout.started", "service.detected"}
    BY SurveySaid, <1>3 DEF Showing
  <2>2. screen'.tiers = screen.tiers
    BY <1>2, <2>1, SayNoPath
  <2>3. at = "survey" /\ at' = "map"
    BY <1>3 DEF SurveyStep
  <2>. QED  BY <2>2, <2>3 DEF Layering, Auditing
<1>4. CASE MapStep
  <2>1. DOMAIN screen'.tiers = DOMAIN Tiers /\ \A m \in DOMAIN Tiers : screen'.tiers[m] = Tiers[m]
    BY <1>2, <1>4, MapLayers DEF Showing
  <2>2. at' = "audit"
    BY <1>4 DEF MapStep
  <2>. QED  BY <1>1, <2>1, <2>2 DEF Layering
<1>5. ASSUME screen'.tiers = screen.tiers, at \in Auditing PROVE Layering'
  <2>1. /\ DOMAIN screen'.tiers = DOMAIN Tiers'
        /\ \A m \in DOMAIN Tiers' : screen'.tiers[m] = Tiers'[m]
        /\ DOMAIN screen.tiers = DOMAIN Tiers
    BY <1>1, <1>5 DEF Layering
  <2>2. at' \notin {"survey", "map"}
    <3>1. Break \/ Refuse \/ SurveyStep \/ MapStep \/ Search \/ Searched \/ Announce \/ Select
            => at' \notin {"survey", "map"} \/ at = "survey"
      BY DEF Break, Refuse, EndFailed, SurveyStep, MapStep, Search, Searched, Announce, Select
    <3>2. \A m : Read(m) => at' = "reading"
      BY DEF Read, Route, Lose, Answer, Fail
    <3>3. Conclude \/ Observe \/ Complete \/ AuditAsks \/ AuditEnds => at' \notin {"survey", "map"}
      BY DEF Conclude, Observe, Complete, AuditAsks, AuditEnds
    <3>4. \A n : PoolAnswers(n) => at' = at
      BY DEF PoolAnswers
    <3>5. Deliver => at' = at \/ at' \in {"audit", "changelogs"}
      BY DEF Deliver
    <3>. QED  BY <1>5, <3>1, <3>2, <3>3, <3>4, <3>5 DEF Next, Auditing
  <2>. QED  BY <2>1, <2>2 DEF Layering
<1>6. CASE AuditAsks \/ AuditEnds \/ \E n \in asking : PoolAnswers(n)
  <2>1. screen' = screen
    BY <1>6 DEF AuditAsks, AuditEnds, PoolAnswers
  <2>2. at \in Auditing
    BY <1>6 DEF AuditAsks, AuditEnds, Auditing, Showing, Turning
  <2>. QED  BY <1>5, <2>1, <2>2
<1>7. CASE Deliver
  <2>1. at \in Auditing
    BY <1>7 DEF Deliver, Showing, Queued, Auditing
  <2>2. CASE Head(handed) = Audited
    <3>1. screen' = screen
      BY <1>7, <2>2 DEF Deliver
    <3>. QED  BY <1>5, <2>1, <3>1
  <2>3. CASE Head(handed) # Audited
    <3>1. PICK x : x = Head(handed)
      OBVIOUS
    <3>2. Taken(x) /\ Say(<<x>>)
      BY <1>7, <2>3, <3>1, TakingFirst DEF Showing, Deliver
    <3>3. x.event # "model.built"
      <4>1. x \in {Asks(n) : n \in wanted} \/ x \in {Learnt(n) : n \in wanted \cap DOMAIN seen}
        BY <2>3, <3>1, <3>2, TakenIs DEF Showing
      <4>. QED  BY <4>1 DEF Asks, Learnt, LookedUp, Answered
    <3>4. screen'.tiers = screen.tiers
      BY <1>2, <3>2, <3>3, Short, SayNoPath
    <3>. QED  BY <1>5, <2>1, <3>4
  <2>. QED  BY <2>2, <2>3
<1>8. ASSUME at' \notin {"survey", "map"} \cup Auditing PROVE Layering'
  BY <1>8 DEF Layering
<1>9. CASE Break \/ Refuse \/ Search \/ Searched \/ Announce \/ Select \/ Conclude \/ Observe \/ Complete
  <2>1. at' \notin {"survey", "map"} \cup Auditing
    BY <1>9 DEF Break, Refuse, EndFailed, Search, Searched, Announce, Select, Conclude, Observe,
                Complete, Auditing
  <2>. QED  BY <1>8, <2>1
<1>10. CASE \E m \in batch : Read(m)
  <2>1. at' = "reading"
    BY <1>10 DEF Read, Route, Lose, Answer, Fail
  <2>. QED  BY <1>8, <2>1 DEF Auditing
<1>. QED  BY <1>3, <1>4, <1>6, <1>7, <1>9, <1>10 DEF Next

\* So the path on screen is the map's at every moment of the audits.
LEMMA LayeringInvariance == Spec => []Layering
<1>1. Init => Layering
  <2>1. SUFFICES ASSUME Init PROVE Layering
    OBVIOUS
  <2>2. at = "survey" /\ screen.tiers = <<>>
    BY <2>1 DEF Init
  <2>3. DOMAIN screen.tiers = {}
    BY <2>2
  <2>. QED  BY <2>2, <2>3 DEF Layering, Auditing
<1>2. Showing /\ Layering /\ [Next]_vars => Layering'
  <2>1. SUFFICES ASSUME Showing, Layering, [Next]_vars PROVE Layering'
    OBVIOUS
  <2>2. CASE Next
    BY <2>1, <2>2, LayeringKept
  <2>3. CASE UNCHANGED vars
    <3>1. map' = map /\ at' = at /\ screen' = screen
      BY <2>3 DEF vars
    <3>2. Tiers' = Tiers
      BY <3>1 DEF Tiers, IdOf, PlaceOf
    <3>. QED  BY <2>1, <3>1, <3>2 DEF Layering
  <2>. QED  BY <2>1, <2>2, <2>3
<1>. QED  BY <1>1, <1>2, ScreenInvariance, PTL DEF Spec

\* The depths of a map are of its own modules and imports.
LEMMA DepthOfMap ==
    ASSUME NEW tree, NEW scope, NEW declared, NEW tests, NEW m,
           m = RepoMap(tree, scope, declared, tests)
    PROVE  m.depth = Depths(m.modules, m.imports, m.sources, declared)
<1>. DEFINE sources == Sources(tree, scope)
            read == {i \in DOMAIN sources : ~Skipped(sources[i], tests)}
            modules == {i \in read : ~sources[i].broken}
            index == Index(sources, tree)
            imports == [i \in modules |-> Imports(i, sources, index)]
            depth == Depths(modules, imports, sources, declared)
            fan == [i \in modules |-> Cardinality({j \in modules : i \in imports[j]})]
            outer == [i \in modules |-> {n \in sources[i].dotted : Resolve(n, index) = Nowhere}]
            lost == IF DOMAIN depth = {} THEN {} ELSE modules \ DOMAIN depth
            out == Excluded(tree, scope)
<1>1. m = [sources |-> sources, modules |-> modules, imports |-> imports, depth |-> depth,
           fan_in |-> fan, external |-> outer, unreachable |-> lost,
           skipped |-> DOMAIN sources \ read, unparsed |-> read \ modules, excluded |-> out]
  BY Zenon DEF RepoMap
<1>2. depth = Depths(modules, imports, sources, declared)
  OBVIOUS
<1>. HIDE DEF sources, read, modules, index, imports, depth, fan, outer, lost, out
<1>3. m.sources = sources /\ m.modules = modules /\ m.imports = imports /\ m.depth = depth
  BY <1>1
<1>. QED  BY <1>2, <1>3, Zenon

\* While the audits begin, the depths are of the map's modules and imports, the
\* modules are finitely many, and no two have the same name.
LEMMA ChartedDepths ==
    ASSUME Turning, Charted, at = "audit"
    PROVE  /\ map.depth = Depths(map.modules, map.imports, map.sources, Declared(Compose))
           /\ IsFiniteSet(map.modules)
           /\ \A i, j \in map.modules : IdOf(i) = IdOf(j) => i = j
<1>1. PICK given : given = Repositories[repo]
  OBVIOUS
<1>2. map = MapOf(given) /\ DOMAIN MapOf(given) # {} /\ repo \in DOMAIN Repositories
  BY <1>1 DEF Turning, Charted, Mapping
<1>3. /\ IsFiniteSet(MapOf(given).modules)
      /\ \A i, j \in MapOf(given).modules :
            MapOf(given).sources[i].id = MapOf(given).sources[j].id => i = j
  BY <1>1, <1>2, RepositoriesAreRead
<1>4. \A i, j \in map.modules : IdOf(i) = IdOf(j) => i = j
  BY <1>2, <1>3 DEF IdOf
<1>5. map = RepoMap(given.tree, given.scope, Declared(given.compose), FALSE)
  <2>1. DOMAIN <<>> = {}
    OBVIOUS
  <2>2. MapOf(given) # <<>>
    BY <1>2, <2>1, Zenon
  <2>. QED  BY <1>2, <2>2, Zenon DEF MapOf
<1>6. PICK declared : declared = Declared(given.compose)
  OBVIOUS
<1>7. map.depth = Depths(map.modules, map.imports, map.sources, declared)
  <2>1. PICK tree : tree = given.tree
    OBVIOUS
  <2>2. PICK scope : scope = given.scope
    OBVIOUS
  <2>3. PICK tests : tests = FALSE
    OBVIOUS
  <2>4. PICK m : m = map
    OBVIOUS
  <2>5. m = RepoMap(tree, scope, declared, tests)
    BY <1>5, <1>6, <2>1, <2>2, <2>3, <2>4, Zenon
  <2>6. m.depth = Depths(m.modules, m.imports, m.sources, declared)
    BY <2>5, DepthOfMap
  <2>. QED  BY <2>4, <2>6, Zenon
<1>8. declared = Declared(Compose)
  BY <1>1, <1>6, Zenon DEF Compose
<1>. QED  BY <1>2, <1>3, <1>4, <1>7, <1>8, Zenon

\* The smallest of a set of numbers some member is no larger than any of.
LEMMA SmallestIs ==
    ASSUME NEW S, S \subseteq Nat, NEW e \in S, \A d \in S : e <= d
    PROVE  Min(S) = e
<1>1. \E x \in S : \A y \in S : x <= y
  OBVIOUS
<1>2. PICK x : x = Min(S)
  OBVIOUS
<1>3. x \in S /\ \A y \in S : x <= y
  BY <1>1, <1>2 DEF Min
<1>. QED  BY <1>2, <1>3

\* What is drawn while the audits begin: a module the walks lead to, at the
\* length of the shortest, and no other.
HopsDrawn(i, begun) ==
    LET hops == {d \in 0..Cardinality(map.modules) : Walk(begun, i, d)}
    IN  IF hops = {} THEN IdOf(i) \notin DOMAIN screen.tiers
        ELSE IdOf(i) \in DOMAIN screen.tiers /\ screen.tiers[IdOf(i)] = Min(hops)

LEMMA DrawnAsHops ==
    ASSUME Turning, Charted, Layering, at = "audit",
           NEW begun, begun = BegunAt(map.modules, map.sources, Declared(Compose)),
           NEW i \in map.modules
    PROVE  HopsDrawn(i, begun)
<1>1. PICK modules : modules = map.modules
  OBVIOUS
<1>2. PICK imports : imports = map.imports
  OBVIOUS
<1>3. PICK depth : depth = map.depth
  OBVIOUS
<1>4. PICK n \in Nat : n = Cardinality(modules)
  BY <1>1, ChartedDepths, FS_CardinalityType
<1>5. /\ \A j : j \in DOMAIN depth <=> \E d \in Nat : Path(modules, imports, begun, j, d)
      /\ \A j \in DOMAIN depth : /\ depth[j] \in 0..(n - 1)
                                 /\ Shortest(modules, imports, begun, j, depth[j])
  <2>1. PICK sources : sources = map.sources
    OBVIOUS
  <2>2. PICK declared : declared = Declared(Compose)
    OBVIOUS
  <2>3. depth = Depths(modules, imports, sources, declared) /\ IsFiniteSet(modules)
    BY <1>1, <1>2, <1>3, <2>1, <2>2, ChartedDepths
  <2>4. begun = BegunAt(modules, sources, declared)
    BY <1>1, <2>1, <2>2, Zenon
  <2>. QED  BY <1>4, <2>3, <2>4, DepthsAreHops
<1>6. DOMAIN depth \subseteq modules
  <2>1. ASSUME NEW j, NEW d \in Nat, Path(modules, imports, begun, j, d) PROVE j \in modules
    <3>1. PICK w \in [0..d -> modules] : w[d] = j
      BY <2>1 DEF Path
    <3>. QED  BY <3>1
  <2>. QED  BY <1>5, <2>1
<1>7. PICK hops : hops = {d \in 0..n : Path(modules, imports, begun, i, d)}
  OBVIOUS
<1>8. hops = {d \in 0..Cardinality(map.modules) : Walk(begun, i, d)}
  <2>1. \A d : Walk(begun, i, d) <=> Path(modules, imports, begun, i, d)
    BY <1>1, <1>2, Zenon DEF Walk, Path
  <2>. QED  BY <1>1, <1>4, <1>7, <2>1
<1>9. /\ DOMAIN screen.tiers = {IdOf(j) : j \in DOMAIN depth}
      /\ \A j \in DOMAIN depth : screen.tiers[IdOf(j)] = depth[j]
  <2>1. \A j \in DOMAIN depth : PlaceOf(IdOf(j)) = j
    <3>1. \A j, k \in map.modules : IdOf(j) = IdOf(k) => j = k
      BY ChartedDepths
    <3>2. SUFFICES ASSUME NEW j \in DOMAIN depth PROVE PlaceOf(IdOf(j)) = j
      OBVIOUS
    <3>3. j \in map.modules
      BY <1>1, <1>6
    <3>. QED  BY <3>1, <3>3 DEF PlaceOf
  <2>2. /\ DOMAIN screen.tiers = DOMAIN Tiers
        /\ \A m \in DOMAIN Tiers : screen.tiers[m] = Tiers[m]
    BY DEF Layering, Auditing
  <2>3. DOMAIN Tiers = {IdOf(j) : j \in DOMAIN depth}
    BY <1>3 DEF Tiers
  <2>4. \A j \in DOMAIN depth : Tiers[IdOf(j)] = depth[j]
    BY <1>3, <2>1 DEF Tiers
  <2>. QED  BY <2>2, <2>3, <2>4
<1>10. IdOf(i) \in DOMAIN screen.tiers <=> i \in DOMAIN depth
  <2>1. \A j \in DOMAIN depth : IdOf(i) = IdOf(j) => i = j
    BY <1>1, <1>6, ChartedDepths
  <2>. QED  BY <1>9, <2>1
<1>11. CASE i \in DOMAIN depth
  <2>1. PICK e \in Nat : e = depth[i]
    BY <1>5, <1>11
  <2>2. e \in hops /\ \A d \in hops : e <= d
    <3>1. e \in 0..n /\ Path(modules, imports, begun, i, e)
      BY <1>4, <1>5, <1>11, <2>1 DEF Shortest
    <3>2. \A d \in 0..(e - 1) : ~ Path(modules, imports, begun, i, d)
      BY <1>5, <1>11, <2>1 DEF Shortest
    <3>3. \A d \in hops : e <= d
      BY <1>7, <3>2
    <3>. QED  BY <1>7, <3>1, <3>3
  <2>3. hops \subseteq Nat
    BY <1>7
  <2>4. Min(hops) = e
    BY <2>2, <2>3, SmallestIs
  <2>5. IdOf(i) \in DOMAIN screen.tiers /\ screen.tiers[IdOf(i)] = e /\ hops # {}
    BY <1>9, <1>10, <1>11, <2>1, <2>2
  <2>. QED  BY <1>8, <2>4, <2>5 DEF HopsDrawn
<1>12. CASE i \notin DOMAIN depth
  <2>1. hops = {}
    BY <1>5, <1>7, <1>12
  <2>. QED  BY <1>8, <1>10, <1>12, <2>1 DEF HopsDrawn
<1>. QED  BY <1>11, <1>12

\* While the audits begin, a module is drawn exactly when some walk of imports
\* leads to it from where a request begins, whatever the repository and however
\* long the walk, and as many hops deep as the shortest has (request_path over
\* the mapper's levels, and the page's fold of "model.built").
THEOREM LayersAlwaysHops == Spec => []LayersAreHops
<1>1. Showing /\ Layering => LayersAreHops
  <2>1. SUFFICES ASSUME Showing, Layering, at = "audit" PROVE LayersAreHops
    BY DEF LayersAreHops
  <2>2. PICK begun : begun = BegunAt(map.modules, map.sources, Declared(Compose))
    OBVIOUS
  <2>3. \A i \in map.modules : HopsDrawn(i, begun)
    BY <2>1, <2>2, DrawnAsHops DEF Showing
  <2>4. begun = {i \in map.modules : \/ "entrypoint" \in map.sources[i].signals
                                     \/ map.sources[i].path \in Declared(Compose)}
    BY <2>2 DEF BegunAt
  <2>. QED  BY <2>3, <2>4, Zenon DEF LayersAreHops, HopsDrawn
<1>. QED  BY <1>1, ScreenInvariance, LayeringInvariance, PTL
=============================================================================

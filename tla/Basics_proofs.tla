---------------------------- MODULE Basics_proofs ----------------------------
(***************************************************************************)
(* What the modules that add money up need to know of Sum: that it exists, *)
(* that it does not depend on an order, and what adding, removing and      *)
(* changing one summand does.  And what those that build lists need to     *)
(* know of one that is listed, filtered, joined or flattened.  The         *)
(* induction theorems of the library take the formula as an operator,      *)
(* which no prover here can instantiate; these inductions are over the set *)
(* of what satisfies it instead, from the well-foundedness of strict       *)
(* inclusion and of <.                                                     *)
(***************************************************************************)
EXTENDS Basics, FiniteSetTheorems, FunctionTheorems, SequenceTheorems, WellFoundedInduction, TLAPS

\* Induction over the subsets of a finite set, downwards: a collection that
\* holds a set whenever it holds it less each one of its members holds all.
LEMMA ShrinkInduction ==
    ASSUME NEW S, IsFiniteSet(S), NEW Q,
           \A T \in SUBSET S : (\A x \in T : T \ {x} \in Q) => T \in Q
    PROVE  SUBSET S \subseteq Q
<1>. DEFINE Bad == (SUBSET S) \ Q
<1>1. SUFFICES ASSUME Bad # {} PROVE FALSE
  OBVIOUS
<1>2. /\ IsWellFoundedOn(StrictSubsetOrdering(S), SUBSET S)
  BY FS_StrictSubsetOrderingWellFounded, FS_FiniteSubsetsOfFinite
<1>3. PICK T \in Bad : \A U \in Bad : ~ (<<U, T>> \in StrictSubsetOrdering(S))
  <2>1. Bad \subseteq SUBSET S
    OBVIOUS
  <2>. HIDE DEF Bad
  <2>. QED  BY <1>1, <1>2, <2>1, WFMin
<1>4. \A x \in T : <<T \ {x}, T>> \in StrictSubsetOrdering(S)
  BY DEF StrictSubsetOrdering
<1>5. \A x \in T : T \ {x} \in Q
  BY <1>3, <1>4
<1>. QED  BY <1>5

\* The smallest member of a set of naturals.
LEMMA LeastMember ==
    ASSUME NEW S, S \subseteq Nat, S # {}
    PROVE  \E n \in S : \A m \in S : n <= m
<1>. DEFINE R == OpToRel(<, Nat)
<1>1. IsWellFoundedOn(R, Nat)
  BY NatLessThanWellFounded
<1>2. \A m, n \in Nat : m < n => <<m, n>> \in R
  BY DEF OpToRel
<1>. HIDE DEF R
<1>3. PICK n \in S : \A m \in S : ~ (<<m, n>> \in R)
  BY <1>1, WFMin
<1>4. \A m \in S : n <= m
  <2>1. \A m \in S : ~ (m < n)
    BY <1>2, <1>3
  <2>. QED  BY <2>1
<1>. QED  BY <1>4

\* Induction over the naturals.
LEMMA CountInduction ==
    ASSUME NEW S, 0 \in S, \A n \in Nat : n \in S => n + 1 \in S
    PROVE  Nat \subseteq S
<1>. DEFINE T == Nat \ S
<1>1. SUFFICES ASSUME T # {} PROVE FALSE
  OBVIOUS
<1>2. PICK n \in T : \A m \in T : n <= m
  <2>1. T \subseteq Nat
    OBVIOUS
  <2>. HIDE DEF T
  <2>. QED  BY <1>1, <2>1, LeastMember
<1>3. n \in Nat /\ n # 0 /\ n - 1 \in Nat /\ n - 1 \notin T
  BY <1>2
<1>4. n - 1 \in S
  BY <1>3
<1>5. n - 1 + 1 \in S
  BY <1>3, <1>4
<1>6. n - 1 + 1 = n
  BY <1>3
<1>. QED  BY <1>2, <1>5, <1>6

-----------------------------------------------------------------------------
(* The fold behind the sum *)

\* The member the fold takes next, and the function it computes.
OneMember(s) == CHOOSE x \in s : TRUE

Step(f, g, s) == IF s = {} THEN 0 ELSE f[OneMember(s)] + g[s \ {OneMember(s)}]

SumOn(f, S) == CHOOSE g : g = [s \in SUBSET S |-> Step(f, g, s)]

\* Sum is that recursion, on the whole set.
LEMMA SumUnfolds ==
    ASSUME NEW f, NEW S
    PROVE  Sum(f, S) = SumOn(f, S)[S]
PROOF BY DEF Sum, MapThenSumSet, MapThenFoldSet, SumOn, Step, OneMember

\* The subsets of at most n members.
Small(S, n) == {t \in SUBSET S : Cardinality(t) <= n}

\* Up to every size there is a function that satisfies the recursion.
LEMMA SumUpTo ==
    ASSUME NEW f, NEW S, IsFiniteSet(S), NEW n \in Nat
    PROVE  \E g : g = [s \in Small(S, n) |-> Step(f, g, s)]
<1>. DEFINE Solved == {k \in Nat : \E g : g = [s \in Small(S, k) |-> Step(f, g, s)]}
<1>1. \A t \in SUBSET S : IsFiniteSet(t) /\ Cardinality(t) \in Nat /\ (Cardinality(t) = 0 <=> t = {})
  BY FS_Subset, FS_CardinalityType, FS_EmptySet
<1>2. \A t \in SUBSET S : t # {} =>
         /\ OneMember(t) \in t /\ t \ {OneMember(t)} \in SUBSET S
         /\ Cardinality(t \ {OneMember(t)}) = Cardinality(t) - 1
  BY <1>1, FS_RemoveElement DEF OneMember
<1>3. 0 \in Solved
  <2>. DEFINE g == [s \in Small(S, 0) |-> 0]
  <2>1. \A s \in Small(S, 0) : s = {}
    BY <1>1 DEF Small
  <2>2. \A s \in Small(S, 0) : Step(f, g, s) = 0
    BY <2>1 DEF Step
  <2>3. g = [s \in Small(S, 0) |-> Step(f, g, s)]
    BY <2>2
  <2>. HIDE DEF g
  <2>4. \E h : h = [s \in Small(S, 0) |-> Step(f, h, s)]
    BY <2>3
  <2>. QED  BY <2>4
<1>4. ASSUME NEW k \in Nat, k \in Solved PROVE k + 1 \in Solved
  <2>1. PICK g : g = [s \in Small(S, k) |-> Step(f, g, s)]
    BY <1>4
  <2>. DEFINE h == [s \in Small(S, k + 1) |-> Step(f, g, s)]
  <2>2. \A s \in Small(S, k) : s \in Small(S, k + 1)
    BY <1>1 DEF Small
  <2>3. \A s \in Small(S, k) : h[s] = g[s]
    <3>1. \A s \in Small(S, k) : g[s] = Step(f, g, s)
      BY <2>1
    <3>. QED  BY <2>2, <3>1
  <2>4. \A s \in Small(S, k + 1) : s # {} => s \ {OneMember(s)} \in Small(S, k)
    BY <1>1, <1>2 DEF Small
  <2>5. \A s \in Small(S, k + 1) : Step(f, g, s) = Step(f, h, s)
    <3>. HIDE DEF h
    <3>. QED  BY <2>3, <2>4 DEF Step
  <2>6. h = [s \in Small(S, k + 1) |-> Step(f, h, s)]
    <3>1. h = [s \in Small(S, k + 1) |-> Step(f, g, s)]
      OBVIOUS
    <3>. HIDE DEF h
    <3>. QED  BY <2>5, <3>1
  <2>7. \E q : q = [s \in Small(S, k + 1) |-> Step(f, q, s)]
    <3>. HIDE DEF h
    <3>. QED  BY <2>6
  <2>. QED  BY <2>7
<1>5. Nat \subseteq Solved
  <2>. HIDE DEF Solved
  <2>. QED  BY <1>3, <1>4, CountInduction
<1>. QED  BY <1>5

\* So the fold obeys its own recursion on every subset of a finite set.
LEMMA SumOnAt ==
    ASSUME NEW f, NEW S, IsFiniteSet(S), NEW T \in SUBSET S
    PROVE  SumOn(f, S)[T] = Step(f, SumOn(f, S), T)
<1>1. Cardinality(S) \in Nat
  BY FS_CardinalityType
<1>2. Small(S, Cardinality(S)) = SUBSET S
  BY <1>1, FS_Subset DEF Small
<1>3. \E g : g = [s \in Small(S, Cardinality(S)) |-> Step(f, g, s)]
  BY <1>1, SumUpTo
<1>4. \E g : g = [s \in SUBSET S |-> Step(f, g, s)]
  BY <1>2, <1>3
<1>. DEFINE g == SumOn(f, S)
<1>5. g = [s \in SUBSET S |-> Step(f, g, s)]
  BY <1>4 DEF SumOn
<1>6. g[T] = Step(f, g, T)
  <2>. HIDE DEF g
  <2>. QED  BY <1>5
<1>. QED  BY <1>6

\* The fold over a set does not depend on the set it is part of.
LEMMA SumOnAgrees ==
    ASSUME NEW f, NEW S, IsFiniteSet(S), NEW T \in SUBSET S
    PROVE  SumOn(f, S)[T] = Sum(f, T)
<1>. DEFINE Q == {U \in SUBSET T : SumOn(f, S)[U] = SumOn(f, T)[U]}
<1>1. IsFiniteSet(T)
  BY FS_Subset
<1>2. ASSUME NEW U \in SUBSET T, \A x \in U : U \ {x} \in Q PROVE U \in Q
  <2>1. /\ SumOn(f, S)[U] = Step(f, SumOn(f, S), U)
        /\ SumOn(f, T)[U] = Step(f, SumOn(f, T), U)
    BY <1>1, SumOnAt
  <2>2. U # {} => OneMember(U) \in U
    BY DEF OneMember
  <2>3. Step(f, SumOn(f, S), U) = Step(f, SumOn(f, T), U)
    BY <1>2, <2>2 DEF Step
  <2>. QED  BY <2>1, <2>3
<1>3. SUBSET T \subseteq Q
  <2>. HIDE DEF Q
  <2>. QED  BY <1>1, <1>2, ShrinkInduction
<1>4. SumOn(f, S)[T] = SumOn(f, T)[T]
  BY <1>3
<1>. QED  BY <1>4, SumUnfolds

\* The sum, one member at a time.
LEMMA SumStep ==
    ASSUME NEW f, NEW S, IsFiniteSet(S)
    PROVE  Sum(f, S) = IF S = {} THEN 0 ELSE f[OneMember(S)] + Sum(f, S \ {OneMember(S)})
<1>1. SumOn(f, S)[S] = Step(f, SumOn(f, S), S)
  BY SumOnAt
<1>2. SumOn(f, S)[S \ {OneMember(S)}] = Sum(f, S \ {OneMember(S)})
  BY SumOnAgrees
<1>. QED  BY <1>1, <1>2, SumUnfolds DEF Step

-----------------------------------------------------------------------------
(* Sums of integers *)

\* The sum of integers is an integer, and of naturals a natural.
LEMMA SumType ==
    ASSUME NEW f, NEW S, IsFiniteSet(S), \A x \in S : f[x] \in Int
    PROVE  /\ Sum(f, S) \in Int
           /\ (\A x \in S : f[x] >= 0) => Sum(f, S) >= 0
<1>. DEFINE Typed(T) == /\ Sum(f, T) \in Int
                        /\ (\A x \in S : f[x] >= 0) => Sum(f, T) >= 0
            Q == {T \in SUBSET S : Typed(T)}
<1>1. ASSUME NEW T \in SUBSET S, \A x \in T : T \ {x} \in Q PROVE T \in Q
  <2>1. IsFiniteSet(T)
    BY FS_Subset
  <2>2. CASE T = {}
    <3>1. Sum(f, T) = 0
      BY <2>1, <2>2, SumStep
    <3>. QED  BY <3>1
  <2>3. CASE T # {}
    <3>1. PICK a \in T : Sum(f, T) = f[a] + Sum(f, T \ {a})
      BY <2>1, <2>3, SumStep DEF OneMember
    <3>2. Typed(T \ {a})
      BY <1>1
    <3>. QED  BY <3>1, <3>2
  <2>. QED  BY <2>2, <2>3
<1>2. SUBSET S \subseteq Q
  <2>. HIDE DEF Q
  <2>. QED  BY <1>1, ShrinkInduction
<1>. QED  BY <1>2

\* Whichever member is taken out first, the sum is the same.
LEMMA SumRemove ==
    ASSUME NEW f, NEW S, IsFiniteSet(S), \A x \in S : f[x] \in Int, NEW y \in S
    PROVE  Sum(f, S) = f[y] + Sum(f, S \ {y})
<1>. DEFINE Adds(T) == \A z \in T : Sum(f, T) = f[z] + Sum(f, T \ {z})
            Q == {T \in SUBSET S : Adds(T)}
<1>1. ASSUME NEW T \in SUBSET S, \A x \in T : T \ {x} \in Q PROVE T \in Q
  <2>1. IsFiniteSet(T)
    BY FS_Subset
  <2>2. SUFFICES ASSUME NEW z \in T PROVE Sum(f, T) = f[z] + Sum(f, T \ {z})
    OBVIOUS
  <2>3. PICK a \in T : Sum(f, T) = f[a] + Sum(f, T \ {a})
    BY <2>1, <2>2, SumStep DEF OneMember
  <2>4. CASE z # a
    <3>1. Sum(f, T \ {a}) = f[z] + Sum(f, (T \ {a}) \ {z})
      BY <1>1, <2>4
    <3>2. Sum(f, T \ {z}) = f[a] + Sum(f, (T \ {z}) \ {a})
      BY <1>1, <2>4
    <3>3. (T \ {a}) \ {z} = (T \ {z}) \ {a}
      OBVIOUS
    <3>4. Sum(f, (T \ {a}) \ {z}) \in Int
      <4>1. (T \ {a}) \ {z} \in SUBSET S
        OBVIOUS
      <4>2. IsFiniteSet((T \ {a}) \ {z})
        BY <4>1, FS_Subset
      <4>. QED  BY <4>1, <4>2, SumType
    <3>5. f[a] \in Int /\ f[z] \in Int
      OBVIOUS
    <3>. DEFINE most == Sum(f, T)
                two == Sum(f, (T \ {a}) \ {z})
    <3>6. most = f[a] + (f[z] + two) /\ Sum(f, T \ {z}) = f[a] + two /\ two \in Int
      BY <2>3, <3>1, <3>2, <3>3, <3>4
    <3>. HIDE DEF most, two
    <3>7. most = f[z] + (f[a] + two)
      BY <3>5, <3>6
    <3>. QED  BY <3>6, <3>7 DEF most
  <2>. QED  BY <2>3, <2>4
<1>2. SUBSET S \subseteq Q
  <2>. HIDE DEF Q
  <2>. QED  BY <1>1, ShrinkInduction
<1>. QED  BY <1>2

\* One more summand.
LEMMA SumAdd ==
    ASSUME NEW f, NEW S, IsFiniteSet(S), NEW y, y \notin S,
           \A x \in S \cup {y} : f[x] \in Int
    PROVE  /\ IsFiniteSet(S \cup {y})
           /\ Sum(f, S \cup {y}) = Sum(f, S) + f[y]
<1>. DEFINE U == S \cup {y}
<1>1. IsFiniteSet(U) /\ U \ {y} = S /\ y \in U
  BY FS_AddElement
<1>2. Sum(f, U) = f[y] + Sum(f, S)
  <2>. HIDE DEF U
  <2>1. Sum(f, U) = f[y] + Sum(f, U \ {y})
    BY <1>1, SumRemove DEF U
  <2>. QED  BY <1>1, <2>1
<1>3. Sum(f, S) \in Int /\ f[y] \in Int
  BY SumType
<1>. QED  BY <1>1, <1>2, <1>3

\* No summand at all.
LEMMA SumEmpty ==
    ASSUME NEW f
    PROVE  Sum(f, {}) = 0
PROOF BY SumStep, FS_EmptySet

\* Equal summands, equal sums.
LEMMA SumSame ==
    ASSUME NEW f, NEW g, NEW S, IsFiniteSet(S), \A x \in S : f[x] = g[x]
    PROVE  Sum(f, S) = Sum(g, S)
<1>. DEFINE Q == {T \in SUBSET S : Sum(f, T) = Sum(g, T)}
<1>1. ASSUME NEW T \in SUBSET S, \A x \in T : T \ {x} \in Q PROVE T \in Q
  <2>1. IsFiniteSet(T)
    BY FS_Subset
  <2>2. CASE T = {}
    BY <2>1, <2>2, SumStep
  <2>3. CASE T # {}
    <3>1. OneMember(T) \in T
      BY <2>3 DEF OneMember
    <3>2. Sum(f, T \ {OneMember(T)}) = Sum(g, T \ {OneMember(T)}) /\ f[OneMember(T)] = g[OneMember(T)]
      BY <1>1, <3>1
    <3>3. /\ Sum(f, T) = f[OneMember(T)] + Sum(f, T \ {OneMember(T)})
          /\ Sum(g, T) = g[OneMember(T)] + Sum(g, T \ {OneMember(T)})
      BY <2>1, <2>3, SumStep
    <3>. QED  BY <3>2, <3>3
  <2>. QED  BY <2>2, <2>3
<1>2. SUBSET S \subseteq Q
  <2>. HIDE DEF Q
  <2>. QED  BY <1>1, ShrinkInduction
<1>. QED  BY <1>2

\* One summand changed.
LEMMA SumChange ==
    ASSUME NEW f, NEW g, NEW S, IsFiniteSet(S), NEW y \in S,
           \A x \in S : f[x] \in Int /\ g[x] \in Int,
           \A x \in S \ {y} : g[x] = f[x]
    PROVE  Sum(g, S) = Sum(f, S) - f[y] + g[y]
<1>1. IsFiniteSet(S \ {y})
  BY FS_RemoveElement
<1>2. Sum(g, S \ {y}) = Sum(f, S \ {y})
  BY <1>1, SumSame
<1>3. Sum(f, S) = f[y] + Sum(f, S \ {y}) /\ Sum(g, S) = g[y] + Sum(g, S \ {y})
  BY SumRemove
<1>4. Sum(f, S \ {y}) \in Int
  BY <1>1, SumType
<1>. QED  BY <1>2, <1>3, <1>4

\* The same summand for every member.
LEMMA SumConstant ==
    ASSUME NEW f, NEW S, IsFiniteSet(S), NEW c \in Int, \A x \in S : f[x] = c
    PROVE  Sum(f, S) = c * Cardinality(S)
<1>. DEFINE Q == {T \in SUBSET S : Sum(f, T) = c * Cardinality(T)}
<1>1. ASSUME NEW T \in SUBSET S, \A x \in T : T \ {x} \in Q PROVE T \in Q
  <2>1. IsFiniteSet(T)
    BY FS_Subset
  <2>2. CASE T = {}
    <3>1. Sum(f, T) = 0 /\ Cardinality(T) = 0
      BY <2>1, <2>2, SumStep, FS_EmptySet
    <3>. QED  BY <3>1
  <2>3. CASE T # {}
    <3>1. PICK a \in T : Sum(f, T) = f[a] + Sum(f, T \ {a})
      BY <2>1, <2>3, SumStep DEF OneMember
    <3>2. Sum(f, T \ {a}) = c * Cardinality(T \ {a}) /\ f[a] = c
      BY <1>1
    <3>3. Cardinality(T \ {a}) = Cardinality(T) - 1 /\ Cardinality(T) \in Nat
      BY <2>1, FS_RemoveElement, FS_CardinalityType
    <3>4. \A n \in Nat : c + c * (n - 1) = c * n
      OBVIOUS
    <3>. QED  BY <3>1, <3>2, <3>3, <3>4
  <2>. QED  BY <2>2, <2>3
<1>2. SUBSET S \subseteq Q
  <2>. HIDE DEF Q
  <2>. QED  BY <1>1, ShrinkInduction
<1>. QED  BY <1>2

\* Nothing from every member.
LEMMA SumZero ==
    ASSUME NEW f, NEW S, IsFiniteSet(S), \A x \in S : f[x] = 0
    PROVE  Sum(f, S) = 0
<1>1. Sum(f, S) = 0 * Cardinality(S)
  BY SumConstant
<1>2. Cardinality(S) \in Nat
  BY FS_CardinalityType
<1>. QED  BY <1>1, <1>2

\* Two sets that share nothing.
LEMMA SumUnion ==
    ASSUME NEW f, NEW A, NEW B, IsFiniteSet(A), IsFiniteSet(B), A \cap B = {},
           \A x \in A \cup B : f[x] \in Int
    PROVE  Sum(f, A \cup B) = Sum(f, A) + Sum(f, B)
<1>. DEFINE Q == {T \in SUBSET B : Sum(f, A \cup T) = Sum(f, A) + Sum(f, T)}
<1>0. Sum(f, A) \in Int
  BY SumType
<1>1. ASSUME NEW T \in SUBSET B, \A x \in T : T \ {x} \in Q PROVE T \in Q
  <2>1. IsFiniteSet(T) /\ IsFiniteSet(A \cup T)
    BY FS_Subset, FS_Union
  <2>2. CASE T = {}
    <3>1. A \cup T = A /\ Sum(f, T) = 0
      BY <2>2, SumEmpty
    <3>. DEFINE U == A \cup T
    <3>2. Sum(f, U) = Sum(f, A) + Sum(f, T)
      <4>1. U = A
        BY <3>1
      <4>. HIDE DEF U
      <4>. QED  BY <1>0, <3>1, <4>1
    <3>. QED  BY <3>2
  <2>3. CASE T # {}
    <3>1. PICK a \in T : TRUE
      BY <2>3
    <3>2. /\ Sum(f, T) = f[a] + Sum(f, T \ {a})
          /\ Sum(f, A \cup T) = f[a] + Sum(f, (A \cup T) \ {a})
      BY <2>1, SumRemove
    <3>3. (A \cup T) \ {a} = A \cup (T \ {a})
      OBVIOUS
    <3>4. Sum(f, A \cup (T \ {a})) = Sum(f, A) + Sum(f, T \ {a})
      BY <1>1
    <3>5. f[a] \in Int /\ Sum(f, T \ {a}) \in Int
      <4>1. IsFiniteSet(T \ {a})
        BY <2>1, FS_RemoveElement
      <4>. QED  BY <4>1, SumType
    <3>. DEFINE most == Sum(f, A \cup T)
    <3>6. most = Sum(f, A) + Sum(f, T)
      <4>1. most = f[a] + (Sum(f, A) + Sum(f, T \ {a}))
        BY <3>2, <3>3, <3>4
      <4>. HIDE DEF most
      <4>. QED  BY <1>0, <3>2, <3>5, <4>1
    <3>. QED  BY <3>6
  <2>. QED  BY <2>2, <2>3
<1>2. SUBSET B \subseteq Q
  <2>. HIDE DEF Q
  <2>. QED  BY <1>1, ShrinkInduction
<1>. QED  BY <1>2

\* Smaller summands, a smaller sum.
LEMMA SumLess ==
    ASSUME NEW f, NEW g, NEW S, IsFiniteSet(S),
           \A x \in S : f[x] \in Int /\ g[x] \in Int /\ f[x] <= g[x]
    PROVE  Sum(f, S) <= Sum(g, S)
<1>. DEFINE Q == {T \in SUBSET S : Sum(f, T) <= Sum(g, T)}
<1>1. ASSUME NEW T \in SUBSET S, \A x \in T : T \ {x} \in Q PROVE T \in Q
  <2>1. IsFiniteSet(T)
    BY FS_Subset
  <2>2. CASE T = {}
    <3>1. Sum(f, T) = 0 /\ Sum(g, T) = 0
      BY <2>2, SumEmpty
    <3>. QED  BY <3>1
  <2>3. CASE T # {}
    <3>1. PICK a \in T : TRUE
      BY <2>3
    <3>2. /\ Sum(f, T) = f[a] + Sum(f, T \ {a})
          /\ Sum(g, T) = g[a] + Sum(g, T \ {a})
      BY <2>1, SumRemove
    <3>3. /\ f[a] \in Int /\ g[a] \in Int /\ f[a] <= g[a]
          /\ Sum(f, T \ {a}) \in Int /\ Sum(g, T \ {a}) \in Int
      <4>1. IsFiniteSet(T \ {a})
        BY <2>1, FS_RemoveElement
      <4>. QED  BY <4>1, SumType
    <3>4. Sum(f, T \ {a}) <= Sum(g, T \ {a})
      BY <1>1
    <3>5. Sum(f, T) <= Sum(g, T)
      BY <3>2, <3>3, <3>4
    <3>. QED  BY <3>5
  <2>. QED  BY <2>2, <2>3
<1>2. SUBSET S \subseteq Q
  <2>. HIDE DEF Q
  <2>. QED  BY <1>1, ShrinkInduction
<1>. QED  BY <1>2

-----------------------------------------------------------------------------
(* Lists *)

\* A set of numbers up to n has a largest.
LEMMA LargestMember ==
    ASSUME NEW n \in Nat, NEW s, s \subseteq 1..n, s # {}
    PROVE  Max(s) \in s /\ \A i \in s : i <= Max(s)
<1>. DEFINE below == {n - i : i \in s}
<1>1. below \subseteq Nat /\ below # {}
  <2>1. \A i \in s : n - i \in Nat
    OBVIOUS
  <2>2. PICK i \in s : TRUE
    OBVIOUS
  <2>. QED  BY <2>1, <2>2
<1>2. PICK d \in below : \A e \in below : d <= e
  <2>. HIDE DEF below
  <2>. QED  BY <1>1, LeastMember
<1>3. PICK i \in s : d = n - i
  BY <1>2
<1>4. \A j \in s : i >= j
  <2>1. \A j \in s : d <= n - j
    BY <1>2
  <2>. QED  BY <1>3, <2>1
<1>5. \E x \in s : \A y \in s : x >= y
  BY <1>4
<1>6. Max(s) \in s /\ \A y \in s : Max(s) >= y
  BY <1>5 DEF Max
<1>. QED  BY <1>6

\* Every member of a finite set, once.
LEMMA Listed ==
    ASSUME NEW S, IsFiniteSet(S)
    PROVE  /\ SetToSeq(S) \in Seq(S)
           /\ Len(SetToSeq(S)) \in Nat /\ DOMAIN SetToSeq(S) = 1..Len(SetToSeq(S))
           /\ ToSet(SetToSeq(S)) = S
           /\ \A i, j \in DOMAIN SetToSeq(S) : SetToSeq(S)[i] = SetToSeq(S)[j] => i = j
<1>. DEFINE n == Cardinality(S)
            q == SetToSeq(S)
<1>1. n \in Nat /\ ExistsBijection(1..n, S)
  BY FS_CardinalityType
<1>2. \E f \in [1..n -> S] : IsInjective(f)
  BY <1>1, Fun_ExistsBij, Fun_BijectionProperties DEF Bijection, Injection, ExistsBijection
<1>3. q \in [1..n -> S] /\ IsInjective(q)
  BY <1>2 DEF SetToSeq
<1>4. IsFiniteSet(1..n) /\ Cardinality(1..n) = n
  BY <1>1, FS_Interval
<1>5. q \in Injection(1..n, S)
  BY <1>3 DEF Injection
<1>6. q \in Surjection(1..n, S)
  <2>. HIDE DEF q
  <2>. QED  BY <1>4, <1>5, FS_Injection
<1>7. ToSet(q) = S
  <2>. HIDE DEF q, n
  <2>1. \A x \in S : \E i \in 1..n : q[i] = x
    BY <1>6 DEF Surjection
  <2>2. DOMAIN q = 1..n /\ \A i \in 1..n : q[i] \in S
    BY <1>3
  <2>. QED  BY <2>1, <2>2 DEF ToSet
<1>8. Len(q) = n /\ q \in Seq(S)
  <2>. HIDE DEF q, n
  <2>. QED  BY <1>1, <1>3
<1>. HIDE DEF q, n
<1>9. \A i, j \in DOMAIN q : q[i] = q[j] => i = j
  BY <1>3 DEF IsInjective
<1>10. DOMAIN q = 1..Len(q) /\ Len(q) \in Nat
  BY <1>1, <1>3, <1>8
<1>. QED  BY <1>7, <1>8, <1>9, <1>10 DEF q

\* What is said of finitely many packages is finitely much.
LEMMA FiniteImage ==
    ASSUME NEW f, IsFiniteSet(DOMAIN f)
    PROVE  IsFiniteSet({f[n] : n \in DOMAIN f})
<1>. DEFINE T == {f[n] : n \in DOMAIN f}
            g == [n \in DOMAIN f |-> f[n]]
<1>1. g \in [DOMAIN f -> T]
  OBVIOUS
<1>2. \A t \in T : \E n \in DOMAIN f : g[n] = t
  OBVIOUS
<1>3. g \in Surjection(DOMAIN f, T)
  <2>. HIDE DEF g, T
  <2>. QED  BY <1>1, <1>2, Fun_IsSurj
<1>4. IsFiniteSet(T)
  <2>. HIDE DEF g, T
  <2>. QED  BY <1>3, FS_Surjection
<1>. QED  BY <1>4

\* A list is one of whatever its members are.
LEMMA Narrowed ==
    ASSUME NEW S, NEW q \in Seq(S), NEW T, \A i \in DOMAIN q : q[i] \in T
    PROVE  q \in Seq(T)
<1>1. Len(q) \in Nat /\ DOMAIN q = 1..Len(q) /\ q = [i \in 1..Len(q) |-> q[i]]
  OBVIOUS
<1>2. q \in [1..Len(q) -> T]
  BY <1>1
<1>. QED  BY <1>1, <1>2

\* A function on the first so many numbers is a list.
LEMMA ListOf ==
    ASSUME NEW n \in Nat, NEW s, DOMAIN s = 1..n, s = [i \in DOMAIN s |-> s[i]]
    PROVE  IsList(s) /\ Len(s) = n /\ IsFiniteSet(DOMAIN s)
<1>1. \A i \in 1..n : s[i] \in ToSet(s)
  BY DEF ToSet
<1>2. s \in [1..n -> ToSet(s)]
  BY <1>1
<1>3. s \in Seq(ToSet(s)) /\ Len(s) = n
  BY <1>2
<1>4. IsFiniteSet(1..n)
  BY FS_Interval
<1>. QED  BY <1>3, <1>4 DEF IsList

\* A list has a finite domain from 1 on, and is its values in their places.
LEMMA ListHas ==
    ASSUME NEW s, IsList(s)
    PROVE  /\ Len(s) \in Nat /\ DOMAIN s = 1..Len(s) /\ IsFiniteSet(DOMAIN s)
           /\ s = [i \in DOMAIN s |-> s[i]]
           /\ \A i \in DOMAIN s : s[i] \in ToSet(s)
           /\ \A S : (\A i \in DOMAIN s : s[i] \in S) => s \in Seq(S)
<1>1. PICK S : S = ToSet(s)
  OBVIOUS
<1>2. s \in Seq(S)
  BY <1>1 DEF IsList
<1>3. Len(s) \in Nat /\ DOMAIN s = 1..Len(s) /\ s = [i \in DOMAIN s |-> s[i]]
  BY <1>2
<1>4. \A i \in DOMAIN s : s[i] \in ToSet(s)
  BY DEF ToSet
<1>5. \A T : (\A i \in DOMAIN s : s[i] \in T) => s \in Seq(T)
  BY <1>2, Narrowed
<1>6. IsFiniteSet(DOMAIN s)
  BY <1>3, FS_Interval
<1>. QED  BY <1>3, <1>4, <1>5, <1>6

\* A sequence is a list.
LEMMA ListIs ==
    ASSUME NEW S, NEW s \in Seq(S)
    PROVE  IsList(s)
<1>1. \A i \in DOMAIN s : s[i] \in ToSet(s)
  BY DEF ToSet
<1>. QED  BY <1>1, Narrowed DEF IsList

\* One list behind another.
LEMMA ListsJoin ==
    ASSUME NEW s, IsList(s), NEW t, IsList(t), NEW q, q = s \o t
    PROVE  /\ IsList(q) /\ Len(q) = Len(s) + Len(t)
           /\ ToSet(q) = ToSet(s) \cup ToSet(t)
<1>1. PICK S : S = ToSet(s) \cup ToSet(t)
  OBVIOUS
<1>2. s \in Seq(S) /\ t \in Seq(S)
  BY <1>1, ListHas
<1>3. q \in Seq(S) /\ Len(q) = Len(s) + Len(t)
  BY <1>2
<1>4. \A i \in 1..Len(q) : q[i] = IF i <= Len(s) THEN s[i] ELSE t[i - Len(s)]
  BY <1>2, <1>3, ConcatProperties
<1>5. /\ Len(s) \in Nat /\ DOMAIN s = 1..Len(s) /\ Len(t) \in Nat /\ DOMAIN t = 1..Len(t)
      /\ DOMAIN q = 1..Len(q)
  BY <1>2, <1>3
<1>6. \A i \in DOMAIN s : i \in DOMAIN q /\ q[i] = s[i]
  BY <1>3, <1>4, <1>5
<1>7. \A i \in DOMAIN t : \E j \in DOMAIN q : q[j] = t[i]
  <2>1. TAKE i \in DOMAIN t
  <2>2. Len(s) + i \in DOMAIN q /\ ~(Len(s) + i <= Len(s)) /\ (Len(s) + i) - Len(s) = i
    BY <1>3, <1>5
  <2>. QED  BY <1>3, <1>4, <1>5, <2>2
<1>8. \A j \in DOMAIN q : (\E i \in DOMAIN s : q[j] = s[i]) \/ (\E i \in DOMAIN t : q[j] = t[i])
  <2>1. TAKE j \in DOMAIN q
  <2>2. CASE j <= Len(s)
    BY <1>4, <1>5, <2>2
  <2>3. CASE ~(j <= Len(s))
    <3>1. j - Len(s) \in DOMAIN t
      BY <1>3, <1>5, <2>3
    <3>. QED  BY <1>4, <1>5, <2>3, <3>1
  <2>. QED  BY <2>2, <2>3
<1>9. ToSet(q) = ToSet(s) \cup ToSet(t)
  <2>1. /\ \A x : x \in ToSet(q) <=> \E i \in DOMAIN q : q[i] = x
        /\ \A x : x \in ToSet(s) <=> \E i \in DOMAIN s : s[i] = x
        /\ \A x : x \in ToSet(t) <=> \E i \in DOMAIN t : t[i] = x
    BY DEF ToSet
  <2>2. \A x : x \in ToSet(q) <=> x \in ToSet(s) \/ x \in ToSet(t)
    <3>1. \A x : x \in ToSet(q) => x \in ToSet(s) \/ x \in ToSet(t)
      BY <1>8, <2>1
    <3>2. \A x : x \in ToSet(s) => x \in ToSet(q)
      BY <1>6, <2>1
    <3>3. \A x : x \in ToSet(t) => x \in ToSet(q)
      BY <1>7, <2>1
    <3>. QED  BY <3>1, <3>2, <3>3
  <2>. QED  BY <2>2
<1>. QED  BY <1>3, <1>9, ListIs

\* Lists one behind the other are a list.
FlatStep(seqs, g, i) == IF i = 1 THEN seqs[i] ELSE g[i - 1] \o seqs[i]
FlatOn(seqs) == CHOOSE g : g = [i \in 1..Len(seqs) |-> FlatStep(seqs, g, i)]

\* FlattenSeq is that recursion.
LEMMA FlattenUnfolds ==
    ASSUME NEW seqs
    PROVE  FlattenSeq(seqs) = IF Len(seqs) = 0 THEN seqs ELSE FlatOn(seqs)[Len(seqs)]
PROOF BY DEF FlattenSeq, FlatOn, FlatStep

\* Putting lists one behind the other goes through lists.
LEMMA FlattenTrace ==
    ASSUME NEW seqs, IsList(seqs), \A i \in DOMAIN seqs : IsList(seqs[i])
    PROVE  \E f : /\ \A i \in 1..Len(seqs) : IsList(f[i]) /\ f[i] = FlatStep(seqs, f, i)
                 /\ FlattenSeq(seqs) = IF Len(seqs) = 0 THEN seqs ELSE f[Len(seqs)]
<1>. DEFINE n == Len(seqs)
            T == UNION {ToSet(seqs[i]) : i \in 1..n}
            F == Seq(T)
            Solved == {k \in Nat : k <= n => \E g : /\ g = [i \in 1..k |-> FlatStep(seqs, g, i)]
                                                    /\ \A i \in 1..k : g[i] \in F}
<1>1. n \in Nat /\ DOMAIN seqs = 1..n
  BY ListHas
<1>2. \A i \in 1..n : seqs[i] \in F
  <2>1. TAKE i \in 1..n
  <2>2. IsList(seqs[i])
    BY <1>1
  <2>3. \A j \in DOMAIN seqs[i] : seqs[i][j] \in T
    BY <2>2, ListHas
  <2>. HIDE DEF T
  <2>. QED  BY <2>2, <2>3, ListHas
<1>3. \A a, b \in F : a \o b \in F
  <2>. HIDE DEF T
  <2>. QED  OBVIOUS
<1>. HIDE DEF T, F, n
<1>4. 0 \in Solved
  <2>. DEFINE g == [i \in 1..0 |-> seqs[i]]
  <2>1. g = [i \in 1..0 |-> FlatStep(seqs, g, i)] /\ \A i \in 1..0 : g[i] \in F
    <3>1. 1..0 = {}
      OBVIOUS
    <3>. QED  BY <3>1
  <2>. HIDE DEF g
  <2>. QED  BY <2>1
<1>5. ASSUME NEW k \in Nat, k \in Solved PROVE k + 1 \in Solved
  <2>1. SUFFICES ASSUME k + 1 <= n
                 PROVE  \E g : /\ g = [i \in 1..(k + 1) |-> FlatStep(seqs, g, i)]
                               /\ \A i \in 1..(k + 1) : g[i] \in F
    OBVIOUS
  <2>2. k <= n
    BY <1>1, <2>1
  <2>3. PICK g : g = [i \in 1..k |-> FlatStep(seqs, g, i)] /\ \A i \in 1..k : g[i] \in F
    BY <1>5, <2>2
  <2>. DEFINE h == [i \in 1..(k + 1) |-> FlatStep(seqs, g, i)]
  <2>4. \A i \in 1..k : i \in 1..(k + 1) /\ g[i] = FlatStep(seqs, g, i)
    BY <2>3
  <2>5. \A i \in 1..k : h[i] = g[i]
    BY <2>4
  <2>6. \A i \in 1..(k + 1) : i # 1 => i - 1 \in 1..k
    OBVIOUS
  <2>7. \A i \in 1..(k + 1) : FlatStep(seqs, g, i) = FlatStep(seqs, h, i)
    <3>. HIDE DEF h
    <3>. QED  BY <2>5, <2>6 DEF FlatStep
  <2>8. h = [i \in 1..(k + 1) |-> FlatStep(seqs, g, i)]
    OBVIOUS
  <2>9. \A i \in 1..(k + 1) : h[i] = FlatStep(seqs, g, i)
    OBVIOUS
  <2>. HIDE DEF h
  <2>10. h = [i \in 1..(k + 1) |-> FlatStep(seqs, h, i)]
    BY <2>7, <2>8
  <2>11. \A i \in 1..(k + 1) : h[i] \in F
    <3>1. \A i \in 1..(k + 1) : i \in 1..n
      BY <1>1, <2>1
    <3>2. \A i \in 1..(k + 1) : FlatStep(seqs, g, i) \in F
      BY <1>2, <1>3, <2>3, <2>6, <3>1 DEF FlatStep
    <3>. QED  BY <2>9, <3>2
  <2>. QED  BY <2>10, <2>11
<1>6. Nat \subseteq Solved
  <2>. HIDE DEF Solved
  <2>. QED  BY <1>4, <1>5, CountInduction
<1>7. PICK f : f = FlatOn(seqs)
  OBVIOUS
<1>8. \E g : g = [i \in 1..n |-> FlatStep(seqs, g, i)]
  BY <1>1, <1>6
<1>9. f = [i \in 1..n |-> FlatStep(seqs, f, i)]
  BY <1>7, <1>8 DEF FlatOn, n
<1>10. \A i \in 1..n : f[i] = FlatStep(seqs, f, i)
  BY <1>9
<1>. DEFINE Lists == {i \in Nat : i \in 1..n => f[i] \in F}
<1>11. 0 \in Lists
  OBVIOUS
<1>12. ASSUME NEW k \in Nat, k \in Lists PROVE k + 1 \in Lists
  <2>1. SUFFICES ASSUME k + 1 \in 1..n PROVE f[k + 1] \in F
    OBVIOUS
  <2>2. f[k + 1] = FlatStep(seqs, f, k + 1) /\ seqs[k + 1] \in F
    BY <1>2, <1>10, <2>1
  <2>3. CASE k = 0
    <3>1. k + 1 = 1
      BY <2>3
    <3>. QED  BY <2>2, <3>1 DEF FlatStep
  <2>4. CASE k # 0
    <3>1. k + 1 # 1 /\ (k + 1) - 1 = k /\ k \in 1..n
      BY <1>1, <2>1, <2>4
    <3>2. f[k] \in F
      BY <1>12, <3>1
    <3>3. FlatStep(seqs, f, k + 1) = f[k] \o seqs[k + 1]
      BY <3>1 DEF FlatStep
    <3>. QED  BY <1>3, <2>2, <3>2, <3>3
  <2>. QED  BY <2>3, <2>4
<1>13. Nat \subseteq Lists
  <2>. HIDE DEF Lists
  <2>. QED  BY <1>11, <1>12, CountInduction
<1>14. \A i \in 1..n : IsList(f[i])
  <2>1. \A i \in 1..n : f[i] \in F
    BY <1>1, <1>13
  <2>. QED  BY <2>1, ListIs DEF F
<1>15. FlattenSeq(seqs) = IF n = 0 THEN seqs ELSE f[n]
  BY <1>7, FlattenUnfolds DEF n
<1>. QED  BY <1>10, <1>14, <1>15 DEF n

\* The result is a list, of what the lists are of.
LEMMA FlattenedIsList ==
    ASSUME NEW seqs, IsList(seqs), \A i \in DOMAIN seqs : IsList(seqs[i])
    PROVE  /\ IsList(FlattenSeq(seqs))
           /\ ToSet(FlattenSeq(seqs)) = UNION {ToSet(seqs[i]) : i \in DOMAIN seqs}
<1>. DEFINE n == Len(seqs)
            upTo(k) == UNION {ToSet(seqs[i]) : i \in 1..k}
<1>1. n \in Nat /\ DOMAIN seqs = 1..n
  BY ListHas
<1>2. PICK f : /\ \A i \in 1..n : IsList(f[i]) /\ f[i] = FlatStep(seqs, f, i)
               /\ FlattenSeq(seqs) = IF n = 0 THEN seqs ELSE f[n]
  BY FlattenTrace
<1>. HIDE DEF n
<1>. DEFINE Held == {k \in Nat : k \in 1..n => ToSet(f[k]) = upTo(k)}
<1>3. 0 \in Held
  OBVIOUS
<1>4. ASSUME NEW k \in Nat, k \in Held PROVE k + 1 \in Held
  <2>1. SUFFICES ASSUME k + 1 \in 1..n PROVE ToSet(f[k + 1]) = upTo(k + 1)
    OBVIOUS
  <2>2. f[k + 1] = FlatStep(seqs, f, k + 1)
    BY <1>2, <2>1
  <2>3. upTo(k + 1) = upTo(k) \cup ToSet(seqs[k + 1])
    <3>1. 1..(k + 1) = (1..k) \cup {k + 1}
      OBVIOUS
    <3>. QED  BY <3>1
  <2>4. CASE k = 0
    <3>1. k + 1 = 1 /\ 1..k = {}
      BY <2>4
    <3>2. f[k + 1] = seqs[k + 1]
      BY <2>2, <3>1 DEF FlatStep
    <3>3. upTo(k) = {}
      BY <3>1
    <3>. HIDE DEF upTo
    <3>. QED  BY <2>3, <3>2, <3>3
  <2>5. CASE k # 0
    <3>1. k + 1 # 1 /\ (k + 1) - 1 = k /\ k \in 1..n
      BY <1>1, <2>1, <2>5
    <3>2. ToSet(f[k]) = upTo(k) /\ IsList(f[k])
      BY <1>2, <1>4, <3>1
    <3>3. f[k + 1] = f[k] \o seqs[k + 1]
      BY <2>2, <3>1 DEF FlatStep
    <3>4. IsList(seqs[k + 1])
      BY <1>1, <2>1
    <3>. HIDE DEF upTo
    <3>5. PICK a : a = f[k]
      OBVIOUS
    <3>6. PICK b : b = seqs[k + 1]
      OBVIOUS
    <3>7. PICK q : q = f[k + 1]
      OBVIOUS
    <3>8. ToSet(q) = ToSet(a) \cup ToSet(b)
      BY <3>2, <3>3, <3>4, <3>5, <3>6, <3>7, ListsJoin
    <3>. QED  BY <2>3, <3>2, <3>5, <3>6, <3>7, <3>8
  <2>. QED  BY <2>4, <2>5
<1>5. Nat \subseteq Held
  <2>. HIDE DEF Held
  <2>. QED  BY <1>3, <1>4, CountInduction
<1>6. CASE n = 0
  <2>1. FlattenSeq(seqs) = seqs /\ DOMAIN seqs = {}
    BY <1>1, <1>2, <1>6
  <2>. QED  BY <2>1 DEF ToSet
<1>7. CASE n # 0
  <2>1. n \in 1..n
    BY <1>1, <1>7
  <2>2. ToSet(f[n]) = upTo(n)
    BY <1>1, <1>5, <2>1
  <2>. QED  BY <1>1, <1>2, <1>7, <2>1, <2>2
<1>. QED  BY <1>6, <1>7

(***************************************************************************)
(* Orders, and lists that are made in the order of something.              *)
(***************************************************************************)

\* Finitely many integers have a largest and a smallest one, which is what Max
\* and Min choose.
LEMMA Extremes ==
    ASSUME NEW S, IsFiniteSet(S), S \subseteq Int, S # {}
    PROVE  /\ Max(S) \in S /\ \A x \in S : x <= Max(S)
           /\ Min(S) \in S /\ \A x \in S : Min(S) <= x
<1>. DEFINE Q == {T \in SUBSET S : T # {} => /\ \E x \in T : \A y \in T : y <= x
                                             /\ \E x \in T : \A y \in T : x <= y}
<1>1. ASSUME NEW T \in SUBSET S, \A x \in T : T \ {x} \in Q, T # {}
      PROVE  /\ \E x \in T : \A y \in T : y <= x
             /\ \E x \in T : \A y \in T : x <= y
  <2>1. PICK z \in T : TRUE
    BY <1>1
  <2>2. z \in Int /\ \A y \in T : y \in Int /\ (y = z \/ y \in T \ {z})
    BY <2>1
  <2>3. CASE T \ {z} = {}
    BY <2>1, <2>2, <2>3
  <2>4. CASE T \ {z} # {}
    <3>1. /\ \E x \in T \ {z} : \A y \in T \ {z} : y <= x
          /\ \E x \in T \ {z} : \A y \in T \ {z} : x <= y
      BY <1>1, <2>1, <2>4
    <3>2. PICK a \in T \ {z} : \A y \in T \ {z} : y <= a
      BY <3>1
    <3>3. PICK b \in T \ {z} : \A y \in T \ {z} : b <= y
      BY <3>1
    <3>4. a \in Int /\ b \in Int
      BY <2>2
    <3>5. \E x \in T : \A y \in T : y <= x
      <4>1. CASE a <= z
        <5>1. \A y \in T : y <= z
          BY <2>2, <3>2, <3>4, <4>1
        <5>. QED  BY <5>1
      <4>2. CASE ~ (a <= z)
        <5>1. \A y \in T : y <= a
          BY <2>2, <3>2, <3>4, <4>2
        <5>. QED  BY <5>1
      <4>. QED  BY <4>1, <4>2
    <3>6. \E x \in T : \A y \in T : x <= y
      <4>1. CASE z <= b
        <5>1. \A y \in T : z <= y
          BY <2>2, <3>3, <3>4, <4>1
        <5>. QED  BY <5>1
      <4>2. CASE ~ (z <= b)
        <5>1. \A y \in T : b <= y
          BY <2>2, <3>3, <3>4, <4>2
        <5>. QED  BY <5>1
      <4>. QED  BY <4>1, <4>2
    <3>. QED  BY <3>5, <3>6
  <2>. QED  BY <2>3, <2>4
<1>2. \A T \in SUBSET S : (\A x \in T : T \ {x} \in Q) => T \in Q
  BY <1>1
<1>3. SUBSET S \subseteq Q
  <2>. HIDE DEF Q
  <2>. QED  BY <1>2, ShrinkInduction
<1>4. S \in Q
  <2>. HIDE DEF Q
  <2>. QED  BY <1>3
<1>5. (\E x \in S : \A y \in S : y <= x) /\ (\E x \in S : \A y \in S : x <= y)
  BY <1>4
<1>. QED  BY <1>5 DEF Max, Min

\* Of the places of a list with integers for keys, one has the least key and is
\* the first of those.
LEMMA LeastPlace ==
    ASSUME NEW n \in Nat, n # 0, NEW k, \A i \in 1..n : k[i] \in Int
    PROVE  \E i \in 1..n : \A j \in 1..n : k[i] < k[j] \/ (k[i] = k[j] /\ i <= j)
<1>. DEFINE K == {k[i] : i \in 1..n}
            least == Min(K)
            P == {i \in 1..n : k[i] = least}
<1>1. IsFiniteSet(K)
  <2>1. PICK f : f = [i \in 1..n |-> k[i]]
    OBVIOUS
  <2>2. DOMAIN f = 1..n /\ K = {f[i] : i \in DOMAIN f}
    BY <2>1
  <2>3. IsFiniteSet(DOMAIN f)
    BY <2>2, FS_Interval
  <2>. QED  BY <2>2, <2>3, FiniteImage
<1>2. K \subseteq Int /\ K # {}
  <2>1. k[1] \in K
    OBVIOUS
  <2>. QED  BY <2>1
<1>3. least \in K /\ \A x \in K : least <= x
  <2>. HIDE DEF K
  <2>. QED  BY <1>1, <1>2, Extremes
<1>4. P # {} /\ P \subseteq Nat
  <2>1. PICK i \in 1..n : k[i] = least
    BY <1>3
  <2>. HIDE DEF least
  <2>. QED  BY <2>1
<1>5. PICK i \in P : \A j \in P : i <= j
  <2>. HIDE DEF P
  <2>. QED  BY <1>4, LeastMember
<1>6. ASSUME NEW j \in 1..n PROVE k[i] < k[j] \/ (k[i] = k[j] /\ i <= j)
  <2>1. least <= k[j] /\ k[j] \in Int /\ k[i] = least /\ k[i] \in Int
    BY <1>3, <1>5
  <2>2. k[j] = least => i <= j
    BY <1>5
  <2>. HIDE DEF least
  <2>. QED  BY <2>1, <2>2
<1>. QED  BY <1>5, <1>6

\* What is before x among S, by the pairs of R.
Below(S, R, x) == {y \in S : << y, x >> \in R}

\* R orders S strictly, and all of it.
Orders(R, S) ==
    /\ \A x \in S : << x, x >> \notin R
    /\ \A x, y, z \in S : << x, y >> \in R /\ << y, z >> \in R => << x, z >> \in R
    /\ \A x, y \in S : x = y \/ << x, y >> \in R \/ << y, x >> \in R

\* In a finite set so ordered exactly one member has each number before it.
LEMMA Ranked ==
    ASSUME NEW S, IsFiniteSet(S), NEW R, Orders(R, S)
    PROVE  /\ \A x \in S : Cardinality(Below(S, R, x)) \in Nat
           /\ \A x, y \in S : << x, y >> \in R <=>
                 Cardinality(Below(S, R, x)) < Cardinality(Below(S, R, y))
           /\ \A i \in 1..Cardinality(S) : \E x \in S : Cardinality(Below(S, R, x)) = i - 1
<1>. DEFINE n == Cardinality(S)
            count(x) == Cardinality(Below(S, R, x))
            rank == [x \in S |-> count(x) + 1]
<1>1. n \in Nat
  BY FS_CardinalityType
<1>2. \A x \in S : /\ IsFiniteSet(Below(S, R, x)) /\ count(x) \in Nat /\ count(x) <= n - 1
  <2>1. TAKE x \in S
  <2>2. Below(S, R, x) \subseteq S \ {x}
    BY DEF Below, Orders
  <2>3. IsFiniteSet(S \ {x}) /\ Cardinality(S \ {x}) = n - 1
    BY FS_RemoveElement
  <2>. QED  BY <2>2, <2>3, FS_Subset, FS_CardinalityType
<1>3. \A x, y \in S : << x, y >> \in R => count(x) < count(y)
  <2>1. SUFFICES ASSUME NEW x \in S, NEW y \in S, << x, y >> \in R
                 PROVE  count(x) < count(y)
    OBVIOUS
  <2>2. Below(S, R, x) \subseteq Below(S, R, y) \ {x} /\ x \in Below(S, R, y)
    BY <2>1 DEF Below, Orders
  <2>3. IsFiniteSet(Below(S, R, y) \ {x}) /\ Cardinality(Below(S, R, y) \ {x}) = count(y) - 1
    BY <1>2, <2>2, FS_RemoveElement
  <2>4. count(x) <= Cardinality(Below(S, R, y) \ {x})
    BY <2>2, <2>3, FS_Subset
  <2>. QED  BY <1>2, <2>3, <2>4
<1>. HIDE DEF count
<1>4. \A x, y \in S : count(x) < count(y) => << x, y >> \in R
  <2>1. SUFFICES ASSUME NEW x \in S, NEW y \in S, count(x) < count(y)
                 PROVE  << x, y >> \in R
    OBVIOUS
  <2>2. x # y
    BY <1>2, <2>1
  <2>3. << y, x >> \notin R
    BY <1>2, <1>3, <2>1
  <2>. QED  BY <2>2, <2>3 DEF Orders
<1>5. rank \in [S -> 1..n] /\ \A x \in S : rank[x] = count(x) + 1
  BY <1>1, <1>2
<1>6. \A x, y \in S : rank[x] = rank[y] => x = y
  <2>1. \A x, y \in S : count(x) = count(y) => x = y
    <3>1. SUFFICES ASSUME NEW x \in S, NEW y \in S, count(x) = count(y), x # y PROVE FALSE
      OBVIOUS
    <3>2. << x, y >> \in R \/ << y, x >> \in R
      BY <3>1 DEF Orders
    <3>3. count(x) < count(y) \/ count(y) < count(x)
      BY <1>3, <3>2
    <3>. QED  BY <1>2, <3>1, <3>3
  <2>2. \A x, y \in S : count(x) + 1 = count(y) + 1 => count(x) = count(y)
    BY <1>2
  <2>. QED  BY <1>5, <2>1, <2>2
<1>. HIDE DEF rank
<1>7. rank \in Injection(S, 1..n)
  BY <1>5, <1>6, Fun_IsInj
<1>8. IsFiniteSet(1..n) /\ Cardinality(1..n) = n
  BY <1>1, FS_Interval
<1>9. rank \in Surjection(S, 1..n)
  BY <1>7, <1>8, FS_Injection
<1>10. \A i \in 1..n : \E x \in S : rank[x] = i
  BY <1>9 DEF Surjection
<1>11. \A i \in 1..n : \E x \in S : count(x) = i - 1
  BY <1>1, <1>2, <1>5, <1>10
<1>. QED  BY <1>2, <1>3, <1>4, <1>11 DEF count

\* What has each member where that many others are before it has all of them,
\* in order.
LEMMA RankedPlaces ==
    ASSUME NEW S, IsFiniteSet(S), NEW R, Orders(R, S),
           NEW p, IsList(p), Len(p) = Cardinality(S),
           \A i \in DOMAIN p : p[i] \in S /\ Cardinality(Below(S, R, p[i])) = i - 1
    PROVE  /\ ToSet(p) = S
           /\ \A i, j \in DOMAIN p : i < j => << p[i], p[j] >> \in R
<1>1. Cardinality(S) \in Nat
  BY FS_CardinalityType
<1>2. DOMAIN p = 1..Cardinality(S)
  BY ListHas
<1>3. ASSUME NEW x \in S PROVE x \in ToSet(p)
  <2>1. Cardinality(Below(S, R, x)) \in Nat
    BY Ranked
  <2>2. PICK i : i = Cardinality(Below(S, R, x)) + 1
    OBVIOUS
  <2>3. Below(S, R, x) \subseteq S \ {x}
    BY DEF Below, Orders
  <2>4. IsFiniteSet(S \ {x}) /\ Cardinality(S \ {x}) = Cardinality(S) - 1
    BY FS_RemoveElement
  <2>5. Cardinality(Below(S, R, x)) <= Cardinality(S) - 1
    BY <2>3, <2>4, FS_Subset
  <2>6. i \in DOMAIN p
    BY <1>1, <1>2, <2>1, <2>2, <2>5
  <2>7. Cardinality(Below(S, R, p[i])) = Cardinality(Below(S, R, x)) /\ p[i] \in S
    BY <2>1, <2>2, <2>6
  <2>8. << x, p[i] >> \notin R /\ << p[i], x >> \notin R
    BY <2>1, <2>7, Ranked
  <2>9. p[i] = x
    BY <2>7, <2>8 DEF Orders
  <2>. QED  BY <2>6, <2>9 DEF ToSet
<1>4. ToSet(p) = S
  BY <1>3 DEF ToSet
<1>5. ASSUME NEW i \in DOMAIN p, NEW j \in DOMAIN p, i < j PROVE << p[i], p[j] >> \in R
  <2>1. i - 1 < j - 1
    BY <1>1, <1>2, <1>5
  <2>. QED  BY <2>1, Ranked
<1>. QED  BY <1>4, <1>5

\* The places of P, in order; and what a list has there.
Place(P, n) == CHOOSE x \in P : Cardinality({y \in P : y < x}) = n - 1
Places(P) == [n \in 1..Cardinality(P) |-> Place(P, n)]
AtPlaces(s, P) == [n \in DOMAIN Places(P) |-> s[Places(P)[n]]]

\* The places are those of P, each before the next.
LEMMA PlacesOf ==
    ASSUME NEW P, IsFiniteSet(P), P \subseteq Int
    PROVE  /\ IsList(Places(P)) /\ Len(Places(P)) = Cardinality(P)
           /\ ToSet(Places(P)) = P
           /\ \A i, j \in DOMAIN Places(P) : i < j => Places(P)[i] < Places(P)[j]
<1>. DEFINE p == Places(P)
<1>3. DOMAIN p = 1..Cardinality(P) /\ p = [i \in DOMAIN p |-> p[i]]
  BY DEF Places
<1>. DEFINE R == {z \in P \X P : z[1] < z[2]}
<1>1. Orders(R, P)
  BY DEF Orders
<1>2. \A x \in P : {y \in P : y < x} = Below(P, R, x)
  BY DEF Below
<1>. HIDE DEF R
<1>4. ASSUME NEW i \in 1..Cardinality(P)
      PROVE  p[i] \in P /\ Cardinality(Below(P, R, p[i])) = i - 1
  <2>1. \E x \in P : Cardinality({y \in P : y < x}) = i - 1
    <3>1. PICK x \in P : Cardinality(Below(P, R, x)) = i - 1
      BY <1>1, Ranked
    <3>. QED  BY <1>2, <3>1
  <2>2. p[i] = Place(P, i)
    BY DEF Places
  <2>3. Place(P, i) \in P /\ Cardinality({y \in P : y < Place(P, i)}) = i - 1
    BY <2>1 DEF Place
  <2>. HIDE DEF p
  <2>. QED  BY <1>2, <2>2, <2>3
<1>. HIDE DEF p
<1>5. IsList(p) /\ Len(p) = Cardinality(P)
  <2>1. PICK n \in Nat : n = Cardinality(P)
    BY FS_CardinalityType
  <2>. QED  BY <1>3, <2>1, ListOf
<1>7. ToSet(p) = P /\ \A i, j \in DOMAIN p : i < j => << p[i], p[j] >> \in R
  <2>1. PICK q : q = p
    OBVIOUS
  <2>2. PICK T : T = R
    OBVIOUS
  <2>3. IsList(q) /\ Len(q) = Cardinality(P) /\ Orders(T, P)
    BY <1>1, <1>5, <2>1, <2>2
  <2>4. \A i \in DOMAIN q : q[i] \in P /\ Cardinality(Below(P, T, q[i])) = i - 1
    BY <1>3, <1>4, <2>1, <2>2
  <2>5. ToSet(q) = P /\ \A i, j \in DOMAIN q : i < j => << q[i], q[j] >> \in T
    BY <2>3, <2>4, RankedPlaces
  <2>. QED  BY <2>1, <2>2, <2>5
<1>6. \A i, j \in DOMAIN p : i < j => p[i] < p[j]
  BY <1>7 DEF R
<1>. QED  BY <1>5, <1>6, <1>7 DEF p

\* What a list has at some of its places is a list of that.
LEMMA PlacedIsList ==
    ASSUME NEW s, IsList(s), NEW P, P \subseteq DOMAIN s
    PROVE  /\ IsList(AtPlaces(s, P)) /\ Len(AtPlaces(s, P)) = Cardinality(P)
           /\ ToSet(AtPlaces(s, P)) = {s[i] : i \in P}
           /\ IsFiniteSet(P)
           /\ \A n \in DOMAIN AtPlaces(s, P) : Places(P)[n] \in P /\ AtPlaces(s, P)[n] = s[Places(P)[n]]
<1>. DEFINE p == Places(P)
            q == AtPlaces(s, P)
<1>1. IsFiniteSet(P) /\ P \subseteq Int
  BY ListHas, FS_Subset
<1>2. IsList(p) /\ Len(p) = Cardinality(P) /\ ToSet(p) = P
  BY <1>1, PlacesOf
<1>3. Len(p) \in Nat /\ DOMAIN p = 1..Len(p) /\ \A n \in DOMAIN p : p[n] \in P
  <2>. HIDE DEF p
  <2>. QED  BY <1>2, ListHas
<1>4. DOMAIN q = DOMAIN p /\ q = [i \in DOMAIN q |-> q[i]] /\ \A n \in DOMAIN p : q[n] = s[p[n]]
  BY DEF AtPlaces
<1>. HIDE DEF p, q
<1>5. IsList(q) /\ Len(q) = Len(p)
  <2>1. PICK n \in Nat : n = Len(p)
    BY <1>3
  <2>. QED  BY <1>3, <1>4, <2>1, ListOf
<1>6. ToSet(q) = {s[i] : i \in P}
  <2>1. ToSet(q) = {s[p[n]] : n \in DOMAIN p}
    BY <1>4 DEF ToSet
  <2>2. P = {p[n] : n \in DOMAIN p}
    BY <1>2 DEF ToSet
  <2>. QED  BY <2>1, <2>2
<1>. QED  BY <1>1, <1>2, <1>3, <1>4, <1>5, <1>6 DEF p, q

\* The places of the first of each key, and what a list has of one key after
\* the other, k[i] the key at i.
Firsts(s, k) == {i \in DOMAIN s : \A j \in 1..(i - 1) : k[j] # k[i]}
Alike(s, k, i) == {j \in DOMAIN s : k[j] = k[i]}
GroupsBy(s, k) == [n \in DOMAIN Places(Firsts(s, k)) |-> AtPlaces(s, Alike(s, k, Places(Firsts(s, k))[n]))]

\* The groups of a list: what is at the places of one key, for each key there is.
LEMMA GroupsOf ==
    ASSUME NEW s, IsList(s), NEW k
    PROVE  /\ IsList(GroupsBy(s, k))
           /\ \A n \in DOMAIN GroupsBy(s, k) :
                 \E i \in DOMAIN s : GroupsBy(s, k)[n] = AtPlaces(s, Alike(s, k, i))
           /\ \A i \in DOMAIN s : \E n \in DOMAIN GroupsBy(s, k) :
                 GroupsBy(s, k)[n] = AtPlaces(s, Alike(s, k, i))
<1>. DEFINE F == Firsts(s, k)
            p == Places(F)
            g == GroupsBy(s, k)
<1>1. Len(s) \in Nat /\ DOMAIN s = 1..Len(s) /\ IsFiniteSet(DOMAIN s)
  BY ListHas
<1>2. IsFiniteSet(F) /\ F \subseteq Int /\ F \subseteq DOMAIN s
  <2>1. F \subseteq DOMAIN s
    BY DEF Firsts
  <2>. HIDE DEF F
  <2>. QED  BY <1>1, <2>1, FS_Subset
<1>3. IsList(p) /\ ToSet(p) = F
  <2>. HIDE DEF F
  <2>. QED  BY <1>2, PlacesOf
<1>4. DOMAIN p = 1..Len(p) /\ Len(p) \in Nat /\ \A n \in DOMAIN p : p[n] \in F
  <2>. HIDE DEF F, p
  <2>. QED  BY <1>3, ListHas
<1>5. DOMAIN g = DOMAIN p /\ g = [n \in DOMAIN g |-> g[n]]
  BY DEF GroupsBy
<1>6. \A n \in DOMAIN p : g[n] = AtPlaces(s, Alike(s, k, p[n]))
  BY DEF GroupsBy
<1>7. IsList(g)
  <2>1. PICK m \in Nat : m = Len(p)
    BY <1>4
  <2>. HIDE DEF p, g
  <2>. QED  BY <1>4, <1>5, <2>1, ListOf
<1>8. ASSUME NEW i \in DOMAIN s
      PROVE  \E n \in DOMAIN g : g[n] = AtPlaces(s, Alike(s, k, i))
  <2>. DEFINE A == Alike(s, k, i)
  <2>1. A \subseteq Nat /\ A # {}
    BY <1>1 DEF Alike
  <2>2. PICK j \in A : \A m \in A : j <= m
    <3>. HIDE DEF A
    <3>. QED  BY <2>1, LeastMember
  <2>3. j \in DOMAIN s /\ k[j] = k[i]
    BY DEF Alike
  <2>4. \A m \in 1..(j - 1) : k[m] # k[j]
    <3>1. SUFFICES ASSUME NEW m \in 1..(j - 1), k[m] = k[j] PROVE FALSE
      OBVIOUS
    <3>2. m \in DOMAIN s /\ ~ (j <= m)
      BY <1>1, <2>3
    <3>3. m \in A
      BY <2>3, <3>1, <3>2 DEF Alike
    <3>. QED  BY <2>2, <3>2, <3>3
  <2>5. j \in F
    BY <2>3, <2>4 DEF Firsts
  <2>6. PICK n \in DOMAIN p : p[n] = j
    <3>. HIDE DEF F, p
    <3>. QED  BY <1>3, <2>5 DEF ToSet
  <2>7. Alike(s, k, j) = Alike(s, k, i)
    BY <2>3 DEF Alike
  <2>. HIDE DEF p, g, F
  <2>. QED  BY <1>5, <1>6, <2>6, <2>7
<1>9. ASSUME NEW n \in DOMAIN g
      PROVE  \E i \in DOMAIN s : g[n] = AtPlaces(s, Alike(s, k, i))
  <2>. HIDE DEF p, g, F
  <2>. QED  BY <1>2, <1>4, <1>5, <1>6
<1>. QED  BY <1>7, <1>8, <1>9

-----------------------------------------------------------------------------
(* Products, quotients, and sums put together, renamed and cut short *)

\* Integers under products, as the solver does not find them by itself.
LEMMA Regroup ==
    ASSUME NEW a \in Int, NEW b \in Int, NEW c \in Int
    PROVE  /\ a * b \in Int /\ a * b = b * a /\ a * (b * c) = (a * b) * c
           /\ a * (b + c) = a * b + a * c /\ a * (b - c) = a * b - a * c
           /\ a > 0 /\ b > 0 => a * b > 0
           /\ a >= 0 /\ b >= 0 => a * b >= 0
PROOF OBVIOUS

\* What divides exactly is found by the division.
LEMMA Divides ==
    ASSUME NEW c \in Nat, NEW m \in Nat \ {0}
    PROVE  (c * m) \div m = c
PROOF OBVIOUS

\* The sum of sums.
LEMMA SumBoth ==
    ASSUME NEW f, NEW g, NEW h, NEW S, IsFiniteSet(S),
           \A x \in S : f[x] \in Int /\ g[x] \in Int /\ h[x] = f[x] + g[x]
    PROVE  Sum(h, S) = Sum(f, S) + Sum(g, S)
<1>. DEFINE Q == {T \in SUBSET S : Sum(h, T) = Sum(f, T) + Sum(g, T)}
<1>1. ASSUME NEW T \in SUBSET S, \A x \in T : T \ {x} \in Q PROVE T \in Q
  <2>1. IsFiniteSet(T)
    BY FS_Subset
  <2>2. CASE T = {}
    BY <2>2, SumEmpty
  <2>3. CASE T # {}
    <3>1. PICK a \in T : TRUE
      BY <2>3
    <3>2. PICK U : U = T \ {a}
      OBVIOUS
    <3>3. IsFiniteSet(U) /\ U \subseteq S
      BY <2>1, <3>2, FS_RemoveElement
    <3>4. \A x \in T : f[x] \in Int /\ g[x] \in Int /\ h[x] \in Int
      OBVIOUS
    <3>5. /\ Sum(f, T) = f[a] + Sum(f, U) /\ Sum(g, T) = g[a] + Sum(g, U)
          /\ Sum(h, T) = h[a] + Sum(h, U)
      BY <2>1, <3>2, <3>4, SumRemove
    <3>6. Sum(f, U) \in Int /\ Sum(g, U) \in Int
      BY <3>3, SumType
    <3>7. Sum(h, U) = Sum(f, U) + Sum(g, U)
      BY <1>1, <3>2
    <3>8. h[a] = f[a] + g[a] /\ f[a] \in Int /\ g[a] \in Int
      OBVIOUS
    <3>9. Sum(h, T) = Sum(f, T) + Sum(g, T)
      BY <3>5, <3>6, <3>7, <3>8
    <3>. QED  BY <3>9
  <2>. QED  BY <2>2, <2>3
<1>2. SUBSET S \subseteq Q
  <2>. HIDE DEF Q
  <2>. QED  BY <1>1, ShrinkInduction
<1>. QED  BY <1>2

\* The places are renamed one to one from S to T.
Renames(e, S, T) ==
    /\ \A x \in S : e[x] \in T
    /\ \A x, y \in S : e[x] = e[y] => x = y
    /\ \A z \in T : \E x \in S : e[x] = z

\* A sum does not depend on what its places are called.
LEMMA SumRenamed ==
    ASSUME NEW f, NEW g, NEW S, IsFiniteSet(S), NEW T, NEW e, Renames(e, S, T),
           \A x \in S : f[x] \in Int /\ g[e[x]] = f[x]
    PROVE  IsFiniteSet(T) /\ Sum(g, T) = Sum(f, S)
<1>. DEFINE Of(U) == {e[x] : x \in U}
            Q == {U \in SUBSET S : IsFiniteSet(Of(U)) /\ Sum(g, Of(U)) = Sum(f, U)}
<1>1. ASSUME NEW U \in SUBSET S, \A x \in U : U \ {x} \in Q PROVE U \in Q
  <2>1. IsFiniteSet(U)
    BY FS_Subset
  <2>2. CASE U = {}
    <3>1. Of(U) = {}
      BY <2>2
    <3>. QED  BY <2>2, <3>1, SumEmpty, FS_EmptySet
  <2>3. CASE U # {}
    <3>1. PICK a \in U : TRUE
      BY <2>3
    <3>2. PICK V : V = U \ {a}
      OBVIOUS
    <3>3. PICK W : W = Of(V)
      OBVIOUS
    <3>4. IsFiniteSet(W) /\ Sum(g, W) = Sum(f, V)
      BY <1>1, <3>2, <3>3
    <3>5. e[a] \notin W /\ Of(U) = W \cup {e[a]}
      BY <3>2, <3>3 DEF Renames
    <3>6. \A z \in W \cup {e[a]} : g[z] \in Int
      BY <3>2, <3>3
    <3>7. IsFiniteSet(W \cup {e[a]}) /\ Sum(g, W \cup {e[a]}) = Sum(g, W) + g[e[a]]
      BY <3>4, <3>5, <3>6, SumAdd
    <3>8. Sum(f, U) = f[a] + Sum(f, V)
      BY <2>1, <3>2, SumRemove
    <3>9. Sum(f, V) \in Int /\ f[a] \in Int /\ g[e[a]] = f[a]
      <4>1. IsFiniteSet(V) /\ \A x \in V : f[x] \in Int
        BY <2>1, <3>2, FS_RemoveElement
      <4>. QED  BY <4>1, SumType
    <3>10. Sum(g, Of(U)) = Sum(f, U)
      <4>1. PICK X : X = Of(U)
        OBVIOUS
      <4>2. X = W \cup {e[a]}
        BY <3>5, <4>1
      <4>. HIDE DEF Of
      <4>. QED  BY <3>4, <3>7, <3>8, <3>9, <4>1, <4>2
    <3>. QED  BY <3>5, <3>7, <3>10
  <2>. QED  BY <2>2, <2>3
<1>2. SUBSET S \subseteq Q
  <2>. HIDE DEF Q
  <2>. QED  BY <1>1, ShrinkInduction
<1>3. Of(S) = T
  BY DEF Renames
<1>. QED  BY <1>2, <1>3

\* Some of the summands, none of them negative, come to no more than all.
LEMMA SumPart ==
    ASSUME NEW f, NEW S, IsFiniteSet(S), NEW T \in SUBSET S,
           \A x \in S : f[x] \in Nat
    PROVE  /\ Sum(f, T) \in Nat /\ Sum(f, S) \in Nat /\ Sum(f, T) <= Sum(f, S)
           /\ \A x \in T : f[x] <= Sum(f, T)
<1>1. PICK U : U = S \ T
  OBVIOUS
<1>2. IsFiniteSet(T) /\ IsFiniteSet(U) /\ T \cap U = {} /\ T \cup U = S
  BY <1>1, FS_Subset
<1>3. Sum(f, S) = Sum(f, T) + Sum(f, U)
  <2>1. \A x \in T \cup U : f[x] \in Int
    BY <1>2
  <2>. QED  BY <1>2, <2>1, SumUnion
<1>4. /\ Sum(f, T) \in Int /\ Sum(f, T) >= 0 /\ Sum(f, U) \in Int /\ Sum(f, U) >= 0
  <2>1. /\ \A x \in T : f[x] \in Int /\ f[x] >= 0
        /\ \A x \in U : f[x] \in Int /\ f[x] >= 0
    BY <1>1
  <2>. QED  BY <1>2, <2>1, SumType
<1>5. ASSUME NEW x \in T PROVE f[x] <= Sum(f, T)
  <2>1. PICK V : V = T \ {x}
    OBVIOUS
  <2>2. IsFiniteSet(V) /\ \A y \in V : f[y] \in Int /\ f[y] >= 0
    BY <1>2, <2>1, FS_RemoveElement
  <2>3. Sum(f, V) \in Int /\ Sum(f, V) >= 0
    BY <2>2, SumType
  <2>4. Sum(f, T) = f[x] + Sum(f, V)
    BY <1>2, <2>1, SumRemove
  <2>. QED  BY <2>3, <2>4
<1>. QED  BY <1>3, <1>4, <1>5

\* The larger and the smaller of two.
LEMMA OfTwo ==
    ASSUME NEW a \in Int, NEW b \in Int
    PROVE  /\ Max({a, b}) = IF a >= b THEN a ELSE b
           /\ Min({a, b}) = IF a <= b THEN a ELSE b
<1>1. Max({a, b}) = IF a >= b THEN a ELSE b
  <2>1. PICK m : m = IF a >= b THEN a ELSE b
    OBVIOUS
  <2>2. \A x : (x \in {a, b} /\ \A y \in {a, b} : x >= y) <=> x = m
    BY <2>1
  <2>3. Max({a, b}) = CHOOSE x : x \in {a, b} /\ \A y \in {a, b} : x >= y
    BY DEF Max
  <2>. QED  BY <2>1, <2>2, <2>3
<1>2. Min({a, b}) = IF a <= b THEN a ELSE b
  <2>1. PICK m : m = IF a <= b THEN a ELSE b
    OBVIOUS
  <2>2. \A x : (x \in {a, b} /\ \A y \in {a, b} : x <= y) <=> x = m
    BY <2>1
  <2>3. Min({a, b}) = CHOOSE x : x \in {a, b} /\ \A y \in {a, b} : x <= y
    BY DEF Min
  <2>. QED  BY <2>1, <2>2, <2>3
<1>. QED  BY <1>1, <1>2
=============================================================================

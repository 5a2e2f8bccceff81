----------------------------- MODULE Arm_proofs -----------------------------
(***************************************************************************)
(* What an arm publishes and scores, for every answer a model may give and *)
(* every order of the loops: where each opinion of an answer went, what    *)
(* became of its severity and of its claim, and what a summary counts.     *)
(*                                                                         *)
(* A report is followed through its makers: the drafts of a construct are  *)
(* merged (Merge, Split, Reconcile), made findings (ToReport) and passed   *)
(* over (Finished). Each has a lemma that says what every member of its    *)
(* result was made of and where every member of its argument went.         *)
(***************************************************************************)
EXTENDS Arm, Basics_proofs

(***************************************************************************)
(* Lists: Kept, Grouped and FirstLeast                                     *)
(***************************************************************************)

\* Every member of a list is at one of its places.
LEMMA AtSomePlace ==
    ASSUME NEW s, NEW x \in ToSet(s)
    PROVE  \E i \in DOMAIN s : s[i] = x
PROOF BY DEF ToSet

\* A list made by going over one.
LEMMA ListOver ==
    ASSUME NEW s, IsList(s), NEW t, DOMAIN t = DOMAIN s, t = [i \in DOMAIN t |-> t[i]]
    PROVE  IsList(t)
<1>1. PICK n \in Nat : DOMAIN s = 1..n
  BY ListHas
<1>. QED  BY <1>1, ListOf

\* A list is empty when it has no members.
LEMMA ListEmpty ==
    ASSUME NEW s, IsList(s)
    PROVE  /\ s = <<>> <=> ToSet(s) = {}
           /\ s # <<>> => 1 \in DOMAIN s
<1>1. s \in Seq(ToSet(s)) /\ Len(s) \in Nat /\ DOMAIN s = 1..Len(s)
  BY ListHas DEF IsList
<1>2. s = <<>> => ToSet(s) = {}
  BY DEF ToSet
<1>3. ToSet(s) = {} => s = <<>>
  BY <1>1
<1>4. s # <<>> => 1 \in DOMAIN s
  BY <1>1
<1>. QED  BY <1>2, <1>3, <1>4

\* A list of one, and of none.
LEMMA ListOfOne ==
    ASSUME NEW x
    PROVE  /\ IsList(<< x >>) /\ ToSet(<< x >>) = {x} /\ DOMAIN << x >> = {1} /\ << x >>[1] = x
           /\ IsList(<<>>) /\ ToSet(<<>>) = {}
<1>1. ToSet(<< x >>) = {x} /\ << x >> \in Seq({x}) /\ DOMAIN << x >> = {1} /\ << x >>[1] = x
  BY DEF ToSet
<1>2. ToSet(<<>>) = {}
  BY DEF ToSet
<1>3. IsList(<< x >>)
  BY <1>1 DEF IsList
<1>4. IsList(<<>>)
  BY <1>2 DEF IsList
<1>. QED  BY <1>1, <1>2, <1>3, <1>4

\* The groups of a list by keys: each is the list of those of one key, and
\* every member is in one.
LEMMA GroupHas ==
    ASSUME NEW s, IsList(s), NEW k
    PROVE  /\ IsList(GroupsBy(s, k))
           /\ \A n \in DOMAIN GroupsBy(s, k) :
                 /\ IsList(GroupsBy(s, k)[n]) /\ GroupsBy(s, k)[n] # <<>>
                 /\ \E i \in DOMAIN s : ToSet(GroupsBy(s, k)[n]) = {s[j] : j \in Alike(s, k, i)}
           /\ \A i \in DOMAIN s : \E n \in DOMAIN GroupsBy(s, k) :
                 /\ s[i] \in ToSet(GroupsBy(s, k)[n])
                 /\ ToSet(GroupsBy(s, k)[n]) = {s[j] : j \in Alike(s, k, i)}
<1>1. ASSUME NEW i \in DOMAIN s
      PROVE  /\ IsList(AtPlaces(s, Alike(s, k, i))) /\ AtPlaces(s, Alike(s, k, i)) # <<>>
             /\ ToSet(AtPlaces(s, Alike(s, k, i))) = {s[j] : j \in Alike(s, k, i)}
             /\ s[i] \in ToSet(AtPlaces(s, Alike(s, k, i)))
  <2>1. PICK P : P = Alike(s, k, i)
    OBVIOUS
  <2>2. P \subseteq DOMAIN s /\ i \in P
    BY <2>1 DEF Alike
  <2>3. IsList(AtPlaces(s, P)) /\ ToSet(AtPlaces(s, P)) = {s[j] : j \in P}
    BY <2>2, PlacedIsList
  <2>4. s[i] \in ToSet(AtPlaces(s, P))
    BY <2>2, <2>3
  <2>5. AtPlaces(s, P) # <<>>
    BY <2>3, <2>4, ListEmpty
  <2>. QED  BY <2>1, <2>3, <2>4, <2>5
<1>. DEFINE g == GroupsBy(s, k)
            of(i) == AtPlaces(s, Alike(s, k, i))
            all(i) == {s[j] : j \in Alike(s, k, i)}
<1>2. /\ IsList(g)
      /\ \A n \in DOMAIN g : \E i \in DOMAIN s : g[n] = of(i)
      /\ \A i \in DOMAIN s : \E n \in DOMAIN g : g[n] = of(i)
  BY GroupsOf
<1>3. \A i \in DOMAIN s : IsList(of(i)) /\ of(i) # <<>> /\ ToSet(of(i)) = all(i) /\ s[i] \in ToSet(of(i))
  BY <1>1
<1>. HIDE DEF g, of, all
<1>4. \A n \in DOMAIN g : IsList(g[n]) /\ g[n] # <<>> /\ \E i \in DOMAIN s : ToSet(g[n]) = all(i)
  BY <1>2, <1>3
<1>5. \A i \in DOMAIN s : \E n \in DOMAIN g : s[i] \in ToSet(g[n]) /\ ToSet(g[n]) = all(i)
  BY <1>2, <1>3
<1>. QED  BY <1>2, <1>4, <1>5 DEF g, all

(***************************************************************************)
(* Claims                                                                  *)
(***************************************************************************)

\* What is known of a draft.
LEMMA DraftHas ==
    ASSUME NEW d, IsDraft(d)
    PROVE  /\ d.severity \in 0..2 /\ d.severity \in Int /\ d.line \in Int /\ IsList(d.says)
           /\ DOMAIN d = {"path", "symbol", "line", "layers", "severity", "says", "arithmetic", "prediction"}
           /\ \A p, q \in d.prediction : IsClaim(p) /\ p = q
           /\ d.path \in DOMAIN Order \cup {""} /\ d.symbol \in DOMAIN Order \cup {""}
<1>1. d.severity \in 0..2
  BY DEF IsDraft
<1>6. d.severity \in Int
  BY <1>1
<1>2. d.line \in Int /\ IsList(d.says)
  BY DEF IsDraft
<1>3. DOMAIN d = {"path", "symbol", "line", "layers", "severity", "says", "arithmetic", "prediction"}
  BY DEF IsDraft
<1>4. \A p, q \in d.prediction : IsClaim(p) /\ p = q
  BY Zenon DEF IsDraft
<1>5. d.path \in DOMAIN Order \cup {""} /\ d.symbol \in DOMAIN Order \cup {""}
  BY DEF IsDraft
<1>. QED  BY Zenon, <1>1, <1>2, <1>3, <1>4, <1>5, <1>6

\* Of integers at the places of a list, FirstLeast's choice is a place with the
\* least.
LEMMA LeastIsChosen ==
    ASSUME NEW s, IsList(s), s # <<>>, NEW k, \A i \in DOMAIN s : k[i] \in Int
    PROVE  \E i \in DOMAIN s : \A j \in DOMAIN s : k[i] < k[j] \/ (k[i] = k[j] /\ i <= j)
<1>1. Len(s) \in Nat /\ DOMAIN s = 1..Len(s) /\ s \in Seq(ToSet(s))
  BY ListHas DEF IsList
<1>2. Len(s) # 0
  BY <1>1
<1>3. PICK n \in Nat : n = Len(s)
  BY <1>1
<1>. QED  BY <1>1, <1>2, <1>3, LeastPlace

\* The claims of a group, in its order.
LEMMA OfferedIs ==
    ASSUME NEW group, IsList(group), \A i \in DOMAIN group : IsDraft(group[i])
    PROVE  /\ IsList(Offered(group))
           /\ ToSet(Offered(group)) = UNION { group[i].prediction : i \in DOMAIN group }
<1>. DEFINE P == {i \in DOMAIN group : group[i].prediction # {}}
            claims == AtPlaces(group, P)
            q == Offered(group)
<1>1. q = [i \in DOMAIN claims |-> CHOOSE p \in claims[i].prediction : TRUE]
  BY DEF Offered, Kept, Sorted, AtPlaces, Places, Place
<1>2. /\ IsList(claims) /\ ToSet(claims) = {group[i] : i \in P}
      /\ \A n \in DOMAIN claims : Places(P)[n] \in P /\ claims[n] = group[Places(P)[n]]
  <2>1. P \subseteq DOMAIN group
    OBVIOUS
  <2>. HIDE DEF P
  <2>. QED  BY <2>1, PlacedIsList
<1>3. \A n \in DOMAIN claims : \E i \in P : claims[n] = group[i]
  BY <1>2
<1>. HIDE DEF claims
<1>4. \A n \in DOMAIN claims : claims[n].prediction = {q[n]}
  <2>1. TAKE n \in DOMAIN claims
  <2>2. PICK i \in P : claims[n] = group[i]
    BY <1>3
  <2>3. PICK c : c = claims[n].prediction
    OBVIOUS
  <2>4. c # {} /\ \A a, b \in c : a = b
    BY <2>2, <2>3 DEF IsDraft
  <2>5. q[n] = CHOOSE p \in c : TRUE
    BY <1>1, <2>3
  <2>6. q[n] \in c
    BY <2>4, <2>5
  <2>. QED  BY <2>3, <2>4, <2>6
<1>5. DOMAIN q = DOMAIN claims /\ q = [i \in DOMAIN q |-> q[i]]
  BY <1>1
<1>6. Len(claims) \in Nat /\ DOMAIN claims = 1..Len(claims)
  BY <1>2, ListHas
<1>. HIDE DEF q
<1>7. IsList(q)
  <2>1. PICK m \in Nat : m = Len(claims)
    BY <1>6
  <2>. QED  BY <1>5, <1>6, <2>1, ListOf
<1>8. ASSUME NEW x \in ToSet(q) PROVE x \in UNION { group[i].prediction : i \in DOMAIN group }
  <2>1. PICK n \in DOMAIN claims : q[n] = x
    BY <1>5, AtSomePlace
  <2>. QED  BY <1>3, <1>4, <2>1
<1>9. ASSUME NEW i \in DOMAIN group, NEW x \in group[i].prediction PROVE x \in ToSet(q)
  <2>1. i \in P
    OBVIOUS
  <2>2. PICK n \in DOMAIN claims : claims[n] = group[i]
    <3>1. group[i] \in ToSet(claims)
      BY <1>2, <2>1
    <3>. QED  BY <3>1, AtSomePlace
  <2>3. x = q[n]
    BY <1>4, <2>2
  <2>. QED  BY <1>5, <2>3 DEF ToSet
<1>. QED  BY <1>7, <1>8, <1>9 DEF q

\* What can be refuted of a list, and what is preferred.
LEMMA RefutableOf ==
    ASSUME NEW q, IsList(q)
    PROVE  /\ IsList(Kept(q, Refutable))
           /\ ToSet(Kept(q, Refutable)) = {p \in ToSet(q) : Refutable(p)}
<1>. DEFINE P == {i \in DOMAIN q : Refutable(q[i])}
<1>1. Kept(q, Refutable) = AtPlaces(q, P)
  BY DEF Kept, Sorted, AtPlaces, Places, Place
<1>2. P \subseteq DOMAIN q
  OBVIOUS
<1>3. {q[i] : i \in P} = {p \in ToSet(q) : Refutable(p)}
  BY DEF ToSet
<1>. HIDE DEF P
<1>. QED  BY <1>1, <1>2, <1>3, PlacedIsList

\* The claims of a group that can be refuted.
RefutablesOf(group) == {p \in UNION { group[i].prediction : i \in DOMAIN group } : Refutable(p)}

\* At most one claim comes of a group, one of its own; it can be refuted if one
\* of them can; and if all of those bound from its side, it is the strictest.
LEMMA StrictestIs ==
    ASSUME NEW group, IsList(group), \A i \in DOMAIN group : IsDraft(group[i]),
           NEW p \in Strictest(group)
    PROVE  /\ \A q \in Strictest(group) : q = p
           /\ IsClaim(p) /\ \E i \in DOMAIN group : p \in group[i].prediction
           /\ RefutablesOf(group) # {} => p \in RefutablesOf(group)
           /\ (p.comparator # "between" /\ \A q \in RefutablesOf(group) : q.comparator = p.comparator)
              => \A q \in RefutablesOf(group), m \in Int : Holds(p, m) => Holds(q, m)
<1>0. PICK theirs : theirs = RefutablesOf(group)
  OBVIOUS
<1>. SUFFICES
       /\ \A q \in Strictest(group) : q = p
       /\ IsClaim(p) /\ \E i \in DOMAIN group : p \in group[i].prediction
       /\ theirs # {} => p \in theirs
       /\ (p.comparator # "between" /\ \A q \in theirs : q.comparator = p.comparator)
          => \A q \in theirs, m \in Int : Holds(p, m) => Holds(q, m)
  BY <1>0
<1>. DEFINE claims == Offered(group)
            valid == Kept(claims, Refutable)
            among == IF valid = <<>> THEN claims ELSE valid
            all == UNION { group[i].prediction : i \in DOMAIN group }
            value == [i \in DOMAIN among |-> among[i].value]
            fall == [i \in DOMAIN among |-> -among[i].value]
            width == [i \in DOMAIN among |-> Width(among[i])]
            least == FirstLeast(among, LAMBDA x : x.value)
            narrowest == FirstLeast(among, Width)
            greatest == FirstLeast(among, LAMBDA x : -x.value)
<1>1. IsList(claims) /\ ToSet(claims) = all
  BY OfferedIs
<1>2. IsList(valid) /\ ToSet(valid) = theirs
  <2>. HIDE DEF claims
  <2>. QED  BY <1>0, <1>1, RefutableOf DEF RefutablesOf
<1>3. \A q \in all : IsClaim(q) /\ \E i \in DOMAIN group : q \in group[i].prediction
  <2>1. TAKE q \in all
  <2>2. PICK i \in DOMAIN group : q \in group[i].prediction
    OBVIOUS
  <2>3. IsDraft(group[i])
    OBVIOUS
  <2>. QED  BY <2>2, <2>3 DEF IsDraft
<1>4. valid = <<>> <=> theirs = {}
  <2>1. valid = <<>> => theirs = {}
    <3>1. valid = <<>> => DOMAIN valid = {}
      <4>. HIDE DEF valid
      <4>. QED  OBVIOUS
    <3>. HIDE DEF valid
    <3>. QED  BY <1>2, <3>1 DEF ToSet
  <2>2. theirs = {} => valid = <<>>
    <3>. HIDE DEF valid
    <3>1. theirs = {} => valid \in Seq({})
      BY <1>2 DEF IsList
    <3>. QED  BY <3>1
  <2>. QED  BY <2>1, <2>2
<1>5. Strictest(group) = IF among = <<>> THEN {}
        ELSE { CASE among[1].comparator = "at_most" -> least
                 [] among[1].comparator = "between" -> narrowest
                 [] OTHER -> greatest }
  BY DEF Strictest
<1>6. among # <<>>
  <2>. HIDE DEF among, least, narrowest, greatest
  <2>. QED  BY <1>5
<1>7. IsList(among) /\ ToSet(among) \subseteq all /\ (theirs # {} => ToSet(among) = theirs)
  <2>1. theirs \subseteq all
    BY <1>0 DEF RefutablesOf
  <2>. HIDE DEF claims, valid
  <2>. QED  BY <1>1, <1>2, <1>4, <2>1
<1>. HIDE DEF among, valid, claims, least, narrowest, greatest
<1>8. \A i \in DOMAIN among : among[i] \in ToSet(among) /\ IsClaim(among[i])
  BY <1>3, <1>7 DEF ToSet
<1>9. 1 \in DOMAIN among
  <2>1. Len(among) \in Nat /\ DOMAIN among = 1..Len(among) /\ among \in Seq(ToSet(among))
    BY <1>7, ListHas DEF IsList
  <2>. QED  BY <1>6, <2>1
<1>10. CASE among[1].comparator = "at_most"
  <2>1. p = least /\ \A q \in Strictest(group) : q = p
    BY <1>5, <1>6, <1>10
  <2>2. \A i \in DOMAIN among : value[i] \in Int /\ value[i] = among[i].value
    BY <1>8 DEF IsClaim
  <2>3. \E i \in DOMAIN among : \A j \in DOMAIN among : value[i] < value[j] \/ (value[i] = value[j] /\ i <= j)
    <3>. HIDE DEF value
    <3>. QED  BY <1>6, <1>7, <2>2, LeastIsChosen
  <2>4. \E i \in DOMAIN among : \A j \in DOMAIN among :
            among[i].value < among[j].value \/ (among[i].value = among[j].value /\ i <= j)
    BY <2>2, <2>3
  <2>5. \E i \in DOMAIN among : p = among[i] /\ \A j \in DOMAIN among :
            among[i].value < among[j].value \/ (among[i].value = among[j].value /\ i <= j)
    BY <2>1, <2>4 DEF FirstLeast, least
  <2>6. p \in ToSet(among) /\ \A q \in ToSet(among) : p.value <= q.value
    <3>1. PICK i \in DOMAIN among : p = among[i] /\ \A j \in DOMAIN among :
            among[i].value < among[j].value \/ (among[i].value = among[j].value /\ i <= j)
      BY <2>5
    <3>2. \A j \in DOMAIN among : p.value <= among[j].value
      BY <1>8, <3>1 DEF IsClaim
    <3>. QED  BY <1>8, <3>1, <3>2 DEF ToSet
  <2>7. ASSUME p.comparator # "between", NEW q \in theirs, \A x \in theirs : x.comparator = p.comparator,
               NEW m \in Int, Holds(p, m)
        PROVE  Holds(q, m)
    <3>1. ToSet(among) = theirs /\ among[1] \in theirs
      BY <1>7, <1>8, <1>9, <2>7
    <3>2. p.comparator = "at_most" /\ q.comparator = "at_most"
      BY <1>10, <2>7, <3>1
    <3>3. m <= p.value /\ p.value <= q.value /\ p.value \in Int /\ q.value \in Int
      BY <1>3, <1>7, <2>6, <2>7, <3>1, <3>2 DEF Holds, IsClaim
    <3>4. m <= q.value
      BY <3>3
    <3>. QED  BY <3>2, <3>4 DEF Holds
  <2>. QED  BY <1>3, <1>7, <2>1, <2>6, <2>7
<1>11. CASE among[1].comparator = "between"
  <2>1. p = narrowest /\ \A q \in Strictest(group) : q = p
    BY <1>5, <1>6, <1>11
  <2>2. \A i \in DOMAIN among : width[i] \in Int /\ width[i] = Width(among[i])
    <3>1. TAKE i \in DOMAIN among
    <3>2. among[i].value \in Int /\ among[i].upper \subseteq Int /\ IsFiniteSet(among[i].upper)
      BY <1>8 DEF IsClaim
    <3>3. CASE among[i].upper \subseteq {0}
      BY <3>3 DEF Width
    <3>4. CASE ~ (among[i].upper \subseteq {0})
      <4>1. PICK U : U = among[i].upper
        OBVIOUS
      <4>2. Max(U) \in Int
        BY <3>2, <3>4, <4>1, Extremes
      <4>. QED  BY <3>2, <3>4, <4>1, <4>2 DEF Width
    <3>. QED  BY <3>3, <3>4
  <2>3. \E i \in DOMAIN among : \A j \in DOMAIN among : width[i] < width[j] \/ (width[i] = width[j] /\ i <= j)
    <3>. HIDE DEF width
    <3>. QED  BY <1>6, <1>7, <2>2, LeastIsChosen
  <2>4. \E i \in DOMAIN among : \A j \in DOMAIN among :
            Width(among[i]) < Width(among[j]) \/ (Width(among[i]) = Width(among[j]) /\ i <= j)
    BY <2>2, <2>3
  <2>5. \E i \in DOMAIN among : p = among[i]
    BY <2>1, <2>4 DEF FirstLeast, narrowest
  <2>6. p \in ToSet(among)
    BY <1>8, <2>5
  <2>8. theirs # {} => among[1] \in theirs
    BY <1>7, <1>8, <1>9
  <2>. QED  BY <1>3, <1>7, <1>11, <2>1, <2>6, <2>8
<1>12. CASE among[1].comparator \notin {"at_most", "between"}
  <2>1. p = greatest /\ \A q \in Strictest(group) : q = p
    BY <1>5, <1>6, <1>12
  <2>2. \A i \in DOMAIN among : fall[i] \in Int /\ fall[i] = -among[i].value
    BY <1>8 DEF IsClaim
  <2>3. \E i \in DOMAIN among : \A j \in DOMAIN among : fall[i] < fall[j] \/ (fall[i] = fall[j] /\ i <= j)
    <3>. HIDE DEF fall
    <3>. QED  BY <1>6, <1>7, <2>2, LeastIsChosen
  <2>4. \E i \in DOMAIN among : \A j \in DOMAIN among :
            -among[i].value < -among[j].value \/ (-among[i].value = -among[j].value /\ i <= j)
    BY <2>2, <2>3
  <2>5. \E i \in DOMAIN among : p = among[i] /\ \A j \in DOMAIN among :
            -among[i].value < -among[j].value \/ (-among[i].value = -among[j].value /\ i <= j)
    BY <2>1, <2>4 DEF FirstLeast, greatest
  <2>6. p \in ToSet(among) /\ \A q \in ToSet(among) : q.value <= p.value
    <3>1. PICK i \in DOMAIN among : p = among[i] /\ \A j \in DOMAIN among :
            -among[i].value < -among[j].value \/ (-among[i].value = -among[j].value /\ i <= j)
      BY <2>5
    <3>2. \A j \in DOMAIN among : among[j].value <= p.value
      BY <1>8, <3>1 DEF IsClaim
    <3>. QED  BY <1>8, <3>1, <3>2 DEF ToSet
  <2>7. ASSUME p.comparator # "between", NEW q \in theirs, \A x \in theirs : x.comparator = p.comparator,
               NEW m \in Int, Holds(p, m)
        PROVE  Holds(q, m)
    <3>1. ToSet(among) = theirs /\ among[1] \in theirs /\ IsClaim(among[1])
      BY <1>7, <1>8, <1>9, <2>7
    <3>2. p.comparator = "at_least" /\ q.comparator = "at_least"
      BY <1>12, <2>7, <3>1 DEF IsClaim
    <3>3. m >= p.value /\ q.value <= p.value /\ p.value \in Int /\ q.value \in Int
      BY <1>3, <1>7, <2>6, <2>7, <3>1, <3>2 DEF Holds, IsClaim
    <3>4. m >= q.value
      BY <3>3
    <3>. QED  BY <3>2, <3>4 DEF Holds
  <2>. QED  BY <1>3, <1>7, <2>1, <2>6, <2>7
<1>. QED  BY <1>10, <1>11, <1>12

(***************************************************************************)
(* Merging                                                                 *)
(***************************************************************************)

\* Of how a list comes about.
LEMMA SaidIsList ==
    ASSUME NEW group, IsList(group), \A i \in DOMAIN group : IsDraft(group[i])
    PROVE  IsList(Said(group))
<1>. DEFINE part(i) == IF \E j \in 1..(i - 1) : group[j].says = group[i].says THEN <<>> ELSE group[i].says
            parts == [i \in DOMAIN group |-> part(i)]
<1>1. Said(group) = FlattenSeq(parts)
  BY DEF Said
<1>2. Len(group) \in Nat /\ DOMAIN group = 1..Len(group)
  BY ListHas
<1>3. \A i \in DOMAIN group : IsList(part(i))
  <2>1. TAKE i \in DOMAIN group
  <2>2. IsList(<<>>)
    BY DEF IsList
  <2>3. IsList(group[i].says)
    BY DraftHas
  <2>. QED  BY <2>2, <2>3
<1>. HIDE DEF part
<1>4. DOMAIN parts = DOMAIN group /\ parts = [i \in DOMAIN parts |-> parts[i]]
      /\ \A i \in DOMAIN parts : IsList(parts[i])
  BY <1>3
<1>. HIDE DEF parts
<1>5. IsList(parts)
  <2>1. PICK m \in Nat : m = Len(group)
    BY <1>2
  <2>. QED  BY <1>2, <1>4, <2>1, ListOf
<1>. QED  BY <1>1, <1>4, <1>5, FlattenedIsList

\* What is merged is a draft about the first one's construct, as severe as the
\* worst, with a claim that Strictest chose or the only one's.
LEMMA MergeIs ==
    ASSUME NEW group, IsList(group), group # <<>>, \A i \in DOMAIN group : IsDraft(group[i])
    PROVE  /\ IsDraft(Merge(group))
           /\ Merge(group).path = group[1].path /\ Merge(group).symbol = group[1].symbol
           /\ \A i \in DOMAIN group : group[i].severity <= Merge(group).severity
           /\ Merge(group).prediction = Strictest(group)
              \/ (DOMAIN group = {1} /\ Merge(group).prediction = group[1].prediction)
<1>. DEFINE Severities == { d.severity : d \in ToSet(group) }
            Lines == { d.line : d \in ToSet(group) }
            m == Merge(group)
<1>1. Len(group) \in Nat /\ DOMAIN group = 1..Len(group) /\ Len(group) # 0 /\ 1 \in DOMAIN group
  <2>1. group \in Seq(ToSet(group))
    BY DEF IsList
  <2>. QED  BY <2>1, ListHas
<1>2. \A d \in ToSet(group) : IsDraft(d)
  BY AtSomePlace
<1>3. group[1] \in ToSet(group) /\ \A i \in DOMAIN group : group[i] \in ToSet(group)
  BY <1>1 DEF ToSet
<1>4. CASE Len(group) = 1
  <2>1. m = group[1] /\ DOMAIN group = {1}
    BY <1>1, <1>4 DEF Merge
  <2>2. group[1].severity \in Int
    BY <1>2, <1>3, DraftHas
  <2>. HIDE DEF m
  <2>. QED  BY <1>2, <1>3, <2>1, <2>2 DEF m
<1>5. CASE Len(group) # 1
  <2>1. Max(Severities) \in Severities /\ \A x \in Severities : x <= Max(Severities)
    <3>1. Severities \subseteq 0..2 /\ Severities # {}
      BY <1>2, <1>3, DraftHas
    <3>. HIDE DEF Severities
    <3>2. IsFiniteSet(0..2)
      <4>1. 0 \in Int /\ 2 \in Int
        OBVIOUS
      <4>. QED  BY <4>1, FS_Interval
    <3>4. Severities \subseteq Int
      BY <3>1
    <3>3. IsFiniteSet(Severities)
      BY <3>1, <3>2, FS_Subset
    <3>. QED  BY <3>1, <3>4, <3>3, Extremes
  <2>2. Min(Lines) \in Int
    <3>1. Lines \subseteq Int /\ Lines # {}
      BY <1>2, <1>3, DraftHas
    <3>2. IsFiniteSet(Lines)
      <4>1. PICK f : f = [i \in DOMAIN group |-> group[i].line]
        OBVIOUS
      <4>2. Lines = {f[i] : i \in DOMAIN f} /\ IsFiniteSet(DOMAIN f)
        BY <4>1, ListHas DEF ToSet
      <4>. QED  BY <4>2, FiniteImage
    <3>. HIDE DEF Lines
    <3>. QED  BY <3>1, <3>2, Extremes
  <2>3. PICK severity : severity = Max(Severities)
    OBVIOUS
  <2>4. PICK line : line = Min(Lines)
    OBVIOUS
  <2>5. PICK says : says = Said(group)
    OBVIOUS
  <2>6. PICK claim : claim = Strictest(group)
    OBVIOUS
  <2>7. PICK layers : layers = Cut(UNION { d.layers : d \in ToSet(group) })
    OBVIOUS
  <2>8. PICK shown : shown = \E d \in ToSet(group) : d.arithmetic
    OBVIOUS
  <2>9. m = [group[1] EXCEPT !.layers = layers, !.severity = severity, !.says = says,
                             !.arithmetic = shown, !.prediction = claim, !.line = line]
    BY <1>5, <2>3, <2>4, <2>5, <2>6, <2>7, <2>8 DEF Merge
  <2>10. severity \in 0..2 /\ line \in Int /\ IsList(says)
    <3>1. Severities \subseteq 0..2
      BY <1>2, DraftHas
    <3>. HIDE DEF Severities, Lines
    <3>. QED  BY <2>1, <2>2, <2>3, <2>4, <2>5, <3>1, SaidIsList
  <2>11. \A p, q \in claim : IsClaim(p) /\ p = q
    <3>1. SUFFICES ASSUME NEW p \in claim, NEW q \in claim PROVE IsClaim(p) /\ p = q
      OBVIOUS
    <3>. QED  BY <2>6, <3>1, StrictestIs
  <2>12. PICK first : first = group[1] /\ IsDraft(first)
    BY <1>2, <1>3
  <2>13. \A i \in DOMAIN group : group[i].severity <= severity
    <3>1. \A i \in DOMAIN group : group[i].severity \in Severities
      BY <1>3
    <3>. HIDE DEF Severities
    <3>. QED  BY <2>1, <2>3, <3>1
  <2>. HIDE DEF m, Severities, Lines
  <2>14. m = [first EXCEPT !.layers = layers, !.severity = severity, !.says = says,
                           !.arithmetic = shown, !.prediction = claim, !.line = line]
    BY <2>9, <2>12
  <2>15. /\ DOMAIN m = DOMAIN first /\ m.path = first.path /\ m.symbol = first.symbol
         /\ m.severity = severity /\ m.says = says /\ m.prediction = claim /\ m.line = line
    BY <2>12, <2>14 DEF IsDraft
  <2>16. IsDraft(m)
    <3>1. /\ DOMAIN first = {"path", "symbol", "line", "layers", "severity", "says", "arithmetic", "prediction"}
          /\ first.path \in DOMAIN Order \cup {""} /\ first.symbol \in DOMAIN Order \cup {""}
      BY <2>12, DraftHas
    <3>. QED  BY <2>10, <2>11, <2>15, <3>1 DEF IsDraft
  <2>. QED  BY <2>6, <2>12, <2>13, <2>15, <2>16 DEF m
<1>. QED  BY <1>4, <1>5

(***************************************************************************)
(* Reconciling                                                             *)
(***************************************************************************)

\* m was merged of g, some of the drafts, about one construct and, as far as
\* they can be refuted, one metric; and who has a refutable claim there about a
\* metric that one of g claims something of is of g as well.
MadeOf(m, g, drafts) ==
    /\ IsList(g) /\ g # <<>> /\ m = Merge(g)
    /\ ToSet(g) \subseteq ToSet(drafts)
    /\ \A d, e \in ToSet(g) : Construct(d) = Construct(e)
    /\ \A d, e \in ToSet(g) : \A p \in d.prediction, q \in e.prediction :
          (Refutable(p) /\ Refutable(q)) => p.metric = q.metric
    /\ \A e \in ToSet(g), d \in ToSet(drafts) : \A p \in e.prediction, q \in d.prediction :
          (Construct(d) = Construct(e) /\ q.metric = p.metric /\ Refutable(q)) => d \in ToSet(g)

\* What is made of drafts is a list, of what was made of some; every draft went
\* into one of them.
Accounts(made, drafts) ==
    /\ IsList(made)
    /\ \A m \in ToSet(made) : \E g : MadeOf(m, g, drafts)
    /\ \A d \in ToSet(drafts) : \E m \in ToSet(made) : \E g : MadeOf(m, g, drafts) /\ d \in ToSet(g)

\* The drafts about one construct are merged by metric, those without one with
\* the others if they share one.
LEMMA SplitIs ==
    ASSUME NEW group, IsList(group), \A d \in ToSet(group) : IsDraft(d),
           \A d, e \in ToSet(group) : Construct(d) = Construct(e)
    PROVE  Accounts(Split(group), group)
<1>. DEFINE Some == {i \in DOMAIN group : Metric(group[i]) # ""}
            None == {i \in DOMAIN group : Metric(group[i]) = ""}
            claims == AtPlaces(group, Some)
            prose == AtPlaces(group, None)
            k == [i \in DOMAIN claims |-> Metric(claims[i])]
            byMetric == GroupsBy(claims, k)
            members == IF Len(byMetric) = 1 THEN << byMetric[1] \o prose >>
                       ELSE IF prose = <<>> THEN byMetric ELSE Append(byMetric, prose)
            C(x) == {d \in ToSet(group) : Metric(d) = x}
            Good(g) == /\ IsList(g) /\ g # <<>>
                       /\ \/ ToSet(g) = ToSet(group) /\ \E x : \A d \in ToSet(g) : Metric(d) \in {"", x}
                          \/ \E x : ToSet(g) = C(x)
<1>1. Split(group) = [i \in DOMAIN members |-> Merge(members[i])]
  <2>1. Kept(group, LAMBDA d : Metric(d) = "") = prose
    BY DEF Kept, Sorted, AtPlaces, Places, Place
  <2>2. Kept(group, LAMBDA d : Metric(d) # "") = claims
    BY DEF Kept, Sorted, AtPlaces, Places, Place
  <2>3. Grouped(claims, Metric) = byMetric
    <3>. DEFINE firsts == {i \in DOMAIN claims : \A j \in 1..(i - 1) : Metric(claims[j]) # Metric(claims[i])}
                of(n) == {i \in DOMAIN claims : Metric(claims[i]) = Metric(claims[Places(firsts)[n]])}
    <3>1. Grouped(claims, Metric) = [n \in DOMAIN Places(firsts) |-> AtPlaces(claims, of(n))]
      BY DEF Grouped, Kept, Sorted, AtPlaces, Places, Place
    <3>2. IsList(claims)
      <4>1. Some \subseteq DOMAIN group
        OBVIOUS
      <4>. HIDE DEF Some
      <4>. QED  BY <4>1, PlacedIsList
    <3>. HIDE DEF claims
    <3>3. Len(claims) \in Nat /\ DOMAIN claims = 1..Len(claims) /\ IsFiniteSet(DOMAIN claims)
      BY <3>2, ListHas
    <3>4. \A i \in DOMAIN claims : \A j \in 1..(i - 1) : j \in DOMAIN claims
      BY <3>3
    <3>5. firsts = Firsts(claims, k)
      BY <3>4 DEF Firsts
    <3>6. \A n \in DOMAIN Places(firsts) : Places(firsts)[n] \in DOMAIN claims
      <4>1. firsts \subseteq DOMAIN claims
        OBVIOUS
      <4>. HIDE DEF firsts
      <4>2. IsFiniteSet(firsts) /\ firsts \subseteq Int
        BY <3>3, <4>1, FS_Subset
      <4>3. ToSet(Places(firsts)) = firsts
        BY <4>2, PlacesOf
      <4>. QED  BY <4>1, <4>3 DEF ToSet
    <3>. HIDE DEF firsts
    <3>7. \A n \in DOMAIN Places(firsts) : of(n) = Alike(claims, k, Places(firsts)[n])
      BY <3>6 DEF Alike
    <3>. HIDE DEF of, k
    <3>. QED  BY <3>1, <3>5, <3>7 DEF GroupsBy
  <2>4. PICK c : c = claims
    OBVIOUS
  <2>5. PICK r : r = prose
    OBVIOUS
  <2>6. PICK b : b = byMetric
    OBVIOUS
  <2>7. /\ Kept(group, LAMBDA d : Metric(d) = "") = r
        /\ Kept(group, LAMBDA d : Metric(d) # "") = c
        /\ Grouped(c, Metric) = b
    BY <2>1, <2>2, <2>3, <2>4, <2>5, <2>6
  <2>8. members = IF Len(b) = 1 THEN << b[1] \o r >>
                  ELSE IF r = <<>> THEN b ELSE Append(b, r)
    BY <2>5, <2>6
  <2>. HIDE DEF members, claims, prose, byMetric, Some, None, k, C, Good
  <2>. QED  BY <2>7, <2>8 DEF Split
<1>2. IsList(prose) /\ ToSet(prose) = C("")
  <2>1. PICK P : P = None
    OBVIOUS
  <2>2. P \subseteq DOMAIN group /\ {group[i] : i \in P} = C("")
    BY <2>1 DEF ToSet
  <2>3. IsList(AtPlaces(group, P)) /\ ToSet(AtPlaces(group, P)) = {group[i] : i \in P}
    BY <2>2, PlacedIsList
  <2>4. prose = AtPlaces(group, P)
    BY <2>1
  <2>. HIDE DEF prose, C
  <2>. QED  BY <2>2, <2>3, <2>4
<1>3. IsList(claims) /\ ToSet(claims) = {d \in ToSet(group) : Metric(d) # ""}
  <2>1. PICK P : P = Some
    OBVIOUS
  <2>2. P \subseteq DOMAIN group /\ {group[i] : i \in P} = {d \in ToSet(group) : Metric(d) # ""}
    BY <2>1 DEF ToSet
  <2>3. IsList(AtPlaces(group, P)) /\ ToSet(AtPlaces(group, P)) = {group[i] : i \in P}
    BY <2>2, PlacedIsList
  <2>4. claims = AtPlaces(group, P)
    BY <2>1
  <2>. HIDE DEF claims
  <2>. QED  BY <2>2, <2>3, <2>4
<1>. HIDE DEF prose, claims
<1>4. ASSUME NEW i \in DOMAIN claims
      PROVE  /\ IsList(AtPlaces(claims, Alike(claims, k, i)))
             /\ ToSet(AtPlaces(claims, Alike(claims, k, i))) = C(Metric(claims[i]))
             /\ Metric(claims[i]) # "" /\ claims[i] \in C(Metric(claims[i]))
  <2>1. claims[i] \in ToSet(claims)
    BY DEF ToSet
  <2>2. Alike(claims, k, i) \subseteq DOMAIN claims
    BY DEF Alike
  <2>3. {claims[j] : j \in Alike(claims, k, i)} = {d \in ToSet(claims) : Metric(d) = Metric(claims[i])}
    BY DEF Alike, ToSet
  <2>4. {d \in ToSet(claims) : Metric(d) = Metric(claims[i])} = C(Metric(claims[i]))
    BY <1>3, <2>1
  <2>5. PICK P : P = Alike(claims, k, i)
    OBVIOUS
  <2>6. IsList(AtPlaces(claims, P)) /\ ToSet(AtPlaces(claims, P)) = {claims[j] : j \in P}
    <3>1. PICK c : c = claims
      OBVIOUS
    <3>2. IsList(c) /\ P \subseteq DOMAIN c
      BY <1>3, <2>2, <2>5, <3>1
    <3>3. IsList(AtPlaces(c, P)) /\ ToSet(AtPlaces(c, P)) = {c[j] : j \in P}
      BY <3>2, PlacedIsList
    <3>. QED  BY <3>1, <3>3
  <2>. HIDE DEF k
  <2>. QED  BY <1>3, <2>1, <2>3, <2>4, <2>5, <2>6
<1>. HIDE DEF k
<1>5. /\ IsList(byMetric)
      /\ \A n \in DOMAIN byMetric : \E i \in DOMAIN claims : byMetric[n] = AtPlaces(claims, Alike(claims, k, i))
      /\ \A i \in DOMAIN claims : \E n \in DOMAIN byMetric : byMetric[n] = AtPlaces(claims, Alike(claims, k, i))
  BY <1>3, GroupsOf
<1>. HIDE DEF byMetric
<1>6. \A n \in DOMAIN byMetric : /\ IsList(byMetric[n]) /\ ToSet(byMetric[n]) # {}
                                 /\ \E x : x # "" /\ ToSet(byMetric[n]) = C(x)
  <2>. HIDE DEF C
  <2>. QED  BY <1>4, <1>5
<1>7. \A d \in ToSet(group) : Metric(d) # "" => \E n \in DOMAIN byMetric : d \in ToSet(byMetric[n])
  <2>1. SUFFICES ASSUME NEW d \in ToSet(group), Metric(d) # ""
                 PROVE  \E n \in DOMAIN byMetric : d \in ToSet(byMetric[n])
    OBVIOUS
  <2>2. PICK i \in DOMAIN claims : claims[i] = d
    BY <1>3, <2>1, AtSomePlace
  <2>3. PICK n \in DOMAIN byMetric : byMetric[n] = AtPlaces(claims, Alike(claims, k, i))
    BY <1>5
  <2>. HIDE DEF C
  <2>. QED  BY <1>4, <2>2, <2>3
<1>8. \A d \in ToSet(group) : Metric(d) = "" => d \in ToSet(prose)
  BY <1>2
<1>9. Len(byMetric) \in Nat /\ DOMAIN byMetric = 1..Len(byMetric) /\ byMetric \in Seq(ToSet(byMetric))
  BY <1>5, ListHas DEF IsList
<1>10. /\ IsList(members)
       /\ \A n \in DOMAIN members : Good(members[n])
       /\ \A d \in ToSet(group) : \E n \in DOMAIN members : d \in ToSet(members[n])
  <2>1. CASE Len(byMetric) = 1
    <3>1. PICK b : b = byMetric[1]
      OBVIOUS
    <3>2. PICK w : w = b \o prose
      OBVIOUS
    <3>3. members = << w >> /\ DOMAIN byMetric = {1} /\ 1 \in DOMAIN byMetric
      <4>1. members = << byMetric[1] \o prose >>
        BY <2>1
      <4>. HIDE DEF members, C, Good
      <4>2. members = << w >>
        BY <3>1, <3>2, <4>1
      <4>. QED  BY <1>9, <2>1, <4>2
    <3>4. IsList(b) /\ ToSet(b) # {} /\ ToSet(b) \subseteq ToSet(group)
      BY <1>6, <3>1, <3>3
    <3>5. IsList(w) /\ ToSet(w) = ToSet(b) \cup ToSet(prose)
      BY <1>2, <3>2, <3>4, ListsJoin
    <3>6. ToSet(w) = ToSet(group)
      BY <1>2, <1>7, <1>8, <3>1, <3>3, <3>4, <3>5
    <3>7. w # <<>>
      BY <3>4, <3>5, ListEmpty
    <3>8. DOMAIN members = {1} /\ members[1] = w /\ members \in Seq({w})
      <4>1. DOMAIN << w >> = {1} /\ << w >>[1] = w /\ << w >> \in Seq({w})
        OBVIOUS
      <4>. HIDE DEF members, C, Good
      <4>. QED  BY <3>3, <4>1
    <3>9. IsList(members)
      BY <3>8, ListIs
    <3>10. \E x : \A d \in ToSet(w) : Metric(d) \in {"", x}
      <4>1. PICK x : ToSet(b) = C(x)
        BY <1>6, <3>1, <3>3
      <4>2. \A d \in ToSet(w) : d \in C(x) \/ d \in C("")
        BY <1>2, <3>5, <4>1
      <4>. QED  BY <4>2
    <3>. HIDE DEF members, C
    <3>. QED  BY <3>5, <3>6, <3>7, <3>8, <3>9, <3>10
  <2>2. CASE Len(byMetric) # 1 /\ prose = <<>>
    <3>1. members = byMetric
      BY <2>2
    <3>2. ToSet(prose) = {}
      BY <1>2, <2>2, ListEmpty
    <3>. HIDE DEF members
    <3>3. \A n \in DOMAIN members : Good(members[n])
      <4>. HIDE DEF C
      <4>. QED  BY <1>6, <3>1, ListEmpty
    <3>. QED  BY <1>5, <1>7, <1>8, <3>1, <3>2, <3>3
  <2>3. CASE Len(byMetric) # 1 /\ prose # <<>>
    <3>1. members = Append(byMetric, prose)
      BY <2>3
    <3>2. PICK S : S = ToSet(byMetric) \cup {prose}
      OBVIOUS
    <3>3. byMetric \in Seq(S) /\ prose \in S
      BY <1>9, <3>2
    <3>. HIDE DEF members
    <3>4. /\ members \in Seq(S) /\ DOMAIN members = 1..(Len(byMetric) + 1)
          /\ members[Len(byMetric) + 1] = prose
          /\ \A n \in DOMAIN byMetric : members[n] = byMetric[n]
      BY <1>9, <3>1, <3>3
    <3>5. \A n \in DOMAIN members : n \in DOMAIN byMetric \/ n = Len(byMetric) + 1
      BY <1>9, <3>4
    <3>6. \A n \in DOMAIN byMetric : n \in DOMAIN members
      BY <1>9, <3>4
    <3>7. Len(byMetric) + 1 \in DOMAIN members
      BY <1>9, <3>4
    <3>8. \A n \in DOMAIN byMetric : Good(byMetric[n])
      <4>. HIDE DEF C
      <4>. QED  BY <1>6, ListEmpty
    <3>9. Good(prose)
      BY <1>2, <2>3
    <3>10. \A n \in DOMAIN members : Good(members[n])
      <4>. HIDE DEF Good
      <4>. QED  BY <3>4, <3>5, <3>8, <3>9
    <3>11. \A d \in ToSet(group) : \E n \in DOMAIN members : d \in ToSet(members[n])
      BY <1>7, <1>8, <3>4, <3>6, <3>7
    <3>12. IsList(members)
      BY <3>4, ListIs
    <3>. QED  BY <3>10, <3>11, <3>12
  <2>. QED  BY <2>1, <2>2, <2>3
<1>11. \A d \in ToSet(group) : \A p \in d.prediction : p.metric = Metric(d)
  <2>1. SUFFICES ASSUME NEW d \in ToSet(group), NEW p \in d.prediction
                 PROVE  p.metric = Metric(d)
    OBVIOUS
  <2>2. PICK c : c = d.prediction
    OBVIOUS
  <2>3. p \in c /\ \A a, b \in c : a = b
    BY <2>2, DraftHas
  <2>4. (CHOOSE a \in c : TRUE) = p
    BY <2>3
  <2>5. d.prediction # {} /\ Metric(d) = p.metric
    <3>1. Metric(d) = IF c = {} THEN "" ELSE (CHOOSE a \in c : TRUE).metric
      BY <2>2 DEF Metric
    <3>2. c # {}
      BY <2>3
    <3>. QED  BY <2>2, <2>4, <3>1, <3>2
  <2>. QED  BY <2>5
<1>12. ASSUME NEW g, Good(g) PROVE MadeOf(Merge(g), g, group)
  <2>1. ToSet(g) \subseteq ToSet(group)
    BY <1>12
  <2>2. ASSUME NEW e \in ToSet(g), NEW d \in ToSet(group), NEW p \in e.prediction, NEW q \in d.prediction,
               q.metric = p.metric
        PROVE  d \in ToSet(g)
    <3>1. Metric(d) = Metric(e)
      BY <1>11, <2>1, <2>2
    <3>. QED  BY <1>12, <3>1
  <2>3. ASSUME NEW d \in ToSet(g), NEW e \in ToSet(g), NEW p \in d.prediction, NEW q \in e.prediction,
               Refutable(p), Refutable(q)
        PROVE  p.metric = q.metric
    <3>1. p.metric = Metric(d) /\ q.metric = Metric(e) /\ Metric(d) # "" /\ Metric(e) # ""
      BY <1>11, <2>1, <2>3 DEF Refutable
    <3>. QED  BY <1>12, <3>1
  <2>. QED  BY <1>12, <2>1, <2>2, <2>3 DEF MadeOf
<1>. DEFINE made == Split(group)
<1>13. DOMAIN made = DOMAIN members /\ made = [i \in DOMAIN made |-> made[i]]
       /\ \A i \in DOMAIN members : made[i] = Merge(members[i])
  <2>. HIDE DEF members
  <2>. QED  BY <1>1
<1>. HIDE DEF made, members, Good, C
<1>14. IsList(made)
  BY <1>10, <1>13, ListOver
<1>15. \A m \in ToSet(made) : \E g : MadeOf(m, g, group)
  BY <1>10, <1>12, <1>13 DEF ToSet
<1>16. \A d \in ToSet(group) : \E m \in ToSet(made) : \E g : MadeOf(m, g, group) /\ d \in ToSet(g)
  <2>1. TAKE d \in ToSet(group)
  <2>2. PICK n \in DOMAIN members : d \in ToSet(members[n])
    BY <1>10
  <2>3. made[n] \in ToSet(made) /\ MadeOf(made[n], members[n], group)
    BY <1>10, <1>12, <1>13 DEF ToSet
  <2>. QED  BY <2>2, <2>3
<1>. QED  BY <1>14, <1>15, <1>16 DEF Accounts, made

\* The drafts of what is reconciled together are split by construct.
LEMMA ReconcileIs ==
    ASSUME NEW drafts, IsList(drafts), \A d \in ToSet(drafts) : IsDraft(d)
    PROVE  Accounts(Reconcile(drafts), drafts)
<1>. DEFINE k == [i \in DOMAIN drafts |-> << drafts[i].path, drafts[i].symbol >>]
            groups == GroupsBy(drafts, k)
            parts == [i \in DOMAIN groups |-> Split(groups[i])]
            made == FlattenSeq(parts)
            same(i) == {drafts[j] : j \in Alike(drafts, k, i)}
<1>1. Reconcile(drafts) = made
  <2>. DEFINE firsts == {i \in DOMAIN drafts : \A j \in 1..(i - 1) :
                            << drafts[j].path, drafts[j].symbol >> # << drafts[i].path, drafts[i].symbol >>}
              of(n) == {i \in DOMAIN drafts : << drafts[i].path, drafts[i].symbol >> =
                           << drafts[Places(firsts)[n]].path, drafts[Places(firsts)[n]].symbol >>}
              grouped == [n \in DOMAIN Places(firsts) |-> AtPlaces(drafts, of(n))]
  <2>1. Grouped(drafts, LAMBDA d : << d.path, d.symbol >>) = grouped
    BY DEF Grouped, Kept, Sorted, AtPlaces, Places, Place
  <2>2. Len(drafts) \in Nat /\ DOMAIN drafts = 1..Len(drafts) /\ IsFiniteSet(DOMAIN drafts)
    BY ListHas
  <2>3. \A i \in DOMAIN drafts : \A j \in 1..(i - 1) : j \in DOMAIN drafts
    BY <2>2
  <2>4. firsts = Firsts(drafts, k)
    BY <2>3 DEF Firsts
  <2>5. \A n \in DOMAIN Places(firsts) : Places(firsts)[n] \in DOMAIN drafts
    <3>1. firsts \subseteq DOMAIN drafts
      OBVIOUS
    <3>. HIDE DEF firsts
    <3>2. IsFiniteSet(firsts) /\ firsts \subseteq Int
      BY <2>2, <3>1, FS_Subset
    <3>3. ToSet(Places(firsts)) = firsts
      BY <3>2, PlacesOf
    <3>. QED  BY <3>1, <3>3 DEF ToSet
  <2>. HIDE DEF firsts
  <2>6. \A n \in DOMAIN Places(firsts) : of(n) = Alike(drafts, k, Places(firsts)[n])
    BY <2>5 DEF Alike
  <2>. HIDE DEF of, k
  <2>7. grouped = groups
    BY <2>4, <2>6 DEF GroupsBy
  <2>8. PICK g : g = groups
    OBVIOUS
  <2>. HIDE DEF groups, grouped
  <2>9. Grouped(drafts, LAMBDA d : << d.path, d.symbol >>) = g
    BY <2>1, <2>7, <2>8
  <2>. QED  BY <2>8, <2>9 DEF Reconcile
<1>2. \A i, j \in DOMAIN drafts : k[i] = Construct(drafts[i])
  BY DEF Construct
<1>3. ASSUME NEW i \in DOMAIN drafts
      PROVE  same(i) = {d \in ToSet(drafts) : Construct(d) = Construct(drafts[i])}
  <2>. HIDE DEF k
  <2>. QED  BY <1>2 DEF Alike, ToSet
<1>. HIDE DEF k
<1>4. /\ IsList(groups)
      /\ \A n \in DOMAIN groups : /\ IsList(groups[n]) /\ groups[n] # <<>>
                                  /\ \E i \in DOMAIN drafts : ToSet(groups[n]) = same(i)
      /\ \A i \in DOMAIN drafts : \E n \in DOMAIN groups : drafts[i] \in ToSet(groups[n])
  BY GroupHas
<1>. HIDE DEF groups, same
<1>5. ASSUME NEW n \in DOMAIN groups
      PROVE  /\ IsList(groups[n]) /\ ToSet(groups[n]) \subseteq ToSet(drafts)
             /\ \A d, e \in ToSet(groups[n]) : Construct(d) = Construct(e)
             /\ \A e \in ToSet(groups[n]), d \in ToSet(drafts) :
                   Construct(d) = Construct(e) => d \in ToSet(groups[n])
  <2>1. PICK i \in DOMAIN drafts : ToSet(groups[n]) = same(i)
    BY <1>4
  <2>2. ToSet(groups[n]) = {d \in ToSet(drafts) : Construct(d) = Construct(drafts[i])}
    BY <1>3, <2>1
  <2>. QED  BY <1>4, <2>2
<1>6. ASSUME NEW n \in DOMAIN groups PROVE Accounts(Split(groups[n]), groups[n])
  <2>1. PICK g : g = groups[n]
    OBVIOUS
  <2>2. /\ IsList(g) /\ \A d \in ToSet(g) : IsDraft(d)
        /\ \A d, e \in ToSet(g) : Construct(d) = Construct(e)
    BY <1>5, <2>1
  <2>3. Accounts(Split(g), g)
    BY <2>2, SplitIs
  <2>. QED  BY <2>1, <2>3
<1>7. ASSUME NEW n \in DOMAIN groups, NEW m, NEW g, MadeOf(m, g, groups[n])
      PROVE  MadeOf(m, g, drafts)
  <2>1. ToSet(g) \subseteq ToSet(groups[n])
    BY <1>7 DEF MadeOf
  <2>2. \A e \in ToSet(g), d \in ToSet(drafts) : \A p \in e.prediction, q \in d.prediction :
          (Construct(d) = Construct(e) /\ q.metric = p.metric /\ Refutable(q)) => d \in ToSet(g)
    <3>1. SUFFICES ASSUME NEW e \in ToSet(g), NEW d \in ToSet(drafts),
                          NEW p \in e.prediction, NEW q \in d.prediction,
                          Construct(d) = Construct(e), q.metric = p.metric, Refutable(q)
                   PROVE  d \in ToSet(g)
      OBVIOUS
    <3>2. d \in ToSet(groups[n])
      BY <1>5, <2>1, <3>1
    <3>. QED  BY <1>7, <3>1, <3>2 DEF MadeOf
  <2>3. ToSet(g) \subseteq ToSet(drafts)
    BY <1>5, <2>1
  <2>. QED  BY <1>7, <2>2, <2>3 DEF MadeOf
<1>8. DOMAIN parts = DOMAIN groups /\ parts = [i \in DOMAIN parts |-> parts[i]]
      /\ \A n \in DOMAIN parts : Accounts(parts[n], groups[n])
  BY <1>6
<1>. HIDE DEF parts
<1>9. IsList(parts) /\ \A n \in DOMAIN parts : IsList(parts[n])
  BY <1>4, <1>8, ListOver DEF Accounts
<1>10. IsList(made) /\ ToSet(made) = UNION {ToSet(parts[i]) : i \in DOMAIN parts}
  BY <1>9, FlattenedIsList
<1>. HIDE DEF made
<1>11. \A m \in ToSet(made) : \E g : MadeOf(m, g, drafts)
  <2>1. TAKE m \in ToSet(made)
  <2>2. PICK n \in DOMAIN parts : m \in ToSet(parts[n])
    BY <1>10
  <2>3. PICK g : MadeOf(m, g, groups[n])
    BY <1>8, <2>2 DEF Accounts
  <2>. QED  BY <1>7, <1>8, <2>3
<1>12. \A d \in ToSet(drafts) : \E m \in ToSet(made) : \E g : MadeOf(m, g, drafts) /\ d \in ToSet(g)
  <2>1. TAKE d \in ToSet(drafts)
  <2>2. PICK i \in DOMAIN drafts : drafts[i] = d
    BY AtSomePlace
  <2>3. PICK n \in DOMAIN groups : d \in ToSet(groups[n])
    BY <1>4, <2>2
  <2>4. PICK m \in ToSet(parts[n]) : \E g : MadeOf(m, g, groups[n]) /\ d \in ToSet(g)
    BY <1>8, <2>3 DEF Accounts
  <2>5. m \in ToSet(made)
    BY <1>8, <1>10
  <2>. QED  BY <1>7, <2>4, <2>5
<1>. QED  BY <1>1, <1>10, <1>11, <1>12 DEF Accounts

\* Who has a refutable claim of p's metric about d's construct, among drafts.
Theirs(p, d, drafts) ==
    { q \in UNION { e.prediction : e \in { e \in ToSet(drafts) : Construct(e) = Construct(d) } } :
        q.metric = p.metric /\ Refutable(q) }

\* Bounding from p's side all of them, p is no easier than any.
NoEasier(p, d, drafts) ==
    (p.comparator # "between" /\ \A q \in Theirs(p, d, drafts) : q.comparator = p.comparator)
        => \A q \in Theirs(p, d, drafts), m \in Int : Holds(p, m) => Holds(q, m)

\* What was made of drafts is a draft about their construct, as severe as each
\* of them, whose claim is one of theirs and no easier than another's.
LEMMA MadeIs ==
    ASSUME NEW drafts, IsList(drafts), \A d \in ToSet(drafts) : IsDraft(d),
           NEW m, NEW g, MadeOf(m, g, drafts)
    PROVE  /\ IsDraft(m) /\ ToSet(g) # {} /\ ToSet(g) \subseteq ToSet(drafts)
           /\ \A d \in ToSet(g) : m.path = d.path /\ m.symbol = d.symbol /\ d.severity <= m.severity
           /\ \A p \in m.prediction : Refutable(p) =>
                 \E d \in ToSet(g) : p \in d.prediction /\ NoEasier(p, d, drafts)
<1>1. /\ IsList(g) /\ g # <<>> /\ m = Merge(g) /\ ToSet(g) \subseteq ToSet(drafts)
      /\ \A d, e \in ToSet(g) : Construct(d) = Construct(e)
      /\ \A i \in DOMAIN g : g[i] \in ToSet(g) /\ IsDraft(g[i])
      /\ \A d \in ToSet(g) : \E i \in DOMAIN g : g[i] = d
  BY DEF MadeOf, ToSet
<1>2. ToSet(g) # {} /\ 1 \in DOMAIN g
  BY <1>1, ListEmpty
<1>3. IsDraft(m) /\ m.path = g[1].path /\ m.symbol = g[1].symbol
      /\ \A i \in DOMAIN g : g[i].severity <= m.severity
  BY <1>1, MergeIs
<1>4. \A d \in ToSet(g) : m.path = d.path /\ m.symbol = d.symbol /\ d.severity <= m.severity
  <2>1. \A d \in ToSet(g) : d.path = g[1].path /\ d.symbol = g[1].symbol
    BY <1>1, <1>2 DEF Construct
  <2>. QED  BY <1>1, <1>3, <2>1
<1>5. ASSUME NEW p \in m.prediction, Refutable(p)
      PROVE  \E d \in ToSet(g) : p \in d.prediction /\ NoEasier(p, d, drafts)
  <2>1. ASSUME NEW d \in ToSet(g), p \in d.prediction, NEW q \in Theirs(p, d, drafts)
        PROVE  \E e \in ToSet(g) : q \in e.prediction /\ Refutable(q)
    <3>1. PICK e \in ToSet(drafts) : /\ Construct(e) = Construct(d) /\ q \in e.prediction
                                     /\ q.metric = p.metric /\ Refutable(q)
      BY <2>1 DEF Theirs
    <3>2. e \in ToSet(g)
      BY <2>1, <3>1 DEF MadeOf
    <3>. QED  BY <3>1, <3>2
  <2>2. CASE Len(g) = 1
    <3>1. m = g[1] /\ DOMAIN g = {1}
      <4>1. m = g[1]
        BY <1>1, <2>2 DEF Merge
      <4>2. DOMAIN g = 1..Len(g)
        BY <1>1, ListHas
      <4>. QED  BY <2>2, <4>1, <4>2
    <3>2. \A q \in Theirs(p, g[1], drafts) : q = p
      <4>1. g[1] \in ToSet(g) /\ p \in g[1].prediction /\ \A e \in ToSet(g) : e = g[1]
        BY <1>1, <1>2, <3>1
      <4>2. \A a, b \in g[1].prediction : a = b
        <5>1. IsDraft(g[1])
          BY <1>1, <1>2
        <5>2. PICK d : d = g[1]
          OBVIOUS
        <5>. QED  BY <5>1, <5>2, DraftHas
      <4>. QED  BY <2>1, <4>1, <4>2
    <3>3. NoEasier(p, g[1], drafts)
      BY <3>2 DEF NoEasier
    <3>. QED  BY <1>1, <1>2, <3>1, <3>3
  <2>3. CASE Len(g) # 1
    <3>1. m.prediction = Strictest(g)
      BY <1>1, <2>3, MergeIs
    <3>2. PICK theirs : theirs = RefutablesOf(g)
      OBVIOUS
    <3>3. /\ \E i \in DOMAIN g : p \in g[i].prediction
          /\ theirs # {} => p \in theirs
          /\ (p.comparator # "between" /\ \A q \in theirs : q.comparator = p.comparator)
             => \A q \in theirs, n \in Int : Holds(p, n) => Holds(q, n)
      <4>1. p \in Strictest(g)
        BY <3>1
      <4>2. IsList(g) /\ \A i \in DOMAIN g : IsDraft(g[i])
        BY <1>1
      <4>3. PICK q : q = p
        OBVIOUS
      <4>4. q \in Strictest(g)
        BY <4>1, <4>3
      <4>5. /\ \E i \in DOMAIN g : q \in g[i].prediction
            /\ theirs # {} => q \in theirs
            /\ (q.comparator # "between" /\ \A x \in theirs : x.comparator = q.comparator)
               => \A x \in theirs, n \in Int : Holds(q, n) => Holds(x, n)
        BY <3>2, <4>2, <4>4, StrictestIs
      <4>. QED  BY <4>3, <4>5
    <3>4. PICK i \in DOMAIN g : p \in g[i].prediction
      BY <3>3
    <3>5. PICK d : d = g[i]
      OBVIOUS
    <3>6. d \in ToSet(g) /\ p \in d.prediction
      BY <1>1, <3>4, <3>5
    <3>7. \A q \in Theirs(p, d, drafts) : q \in theirs
      <4>1. TAKE q \in Theirs(p, d, drafts)
      <4>2. PICK e \in ToSet(g) : q \in e.prediction /\ Refutable(q)
        BY <2>1, <3>6
      <4>3. PICK j \in DOMAIN g : g[j] = e
        BY <1>1
      <4>. QED  BY <3>2, <4>2, <4>3 DEF RefutablesOf
    <3>8. \A q \in theirs : q \in Theirs(p, d, drafts)
      <4>1. TAKE q \in theirs
      <4>2. PICK j \in DOMAIN g : q \in g[j].prediction /\ Refutable(q)
        BY <3>2 DEF RefutablesOf
      <4>3. g[j] \in ToSet(g) /\ g[j] \in ToSet(drafts) /\ Construct(g[j]) = Construct(d)
        BY <1>1, <3>6
      <4>4. q.metric = p.metric
        BY <1>5, <3>6, <4>2, <4>3 DEF MadeOf
      <4>. QED  BY <4>2, <4>3, <4>4 DEF Theirs
    <3>9. NoEasier(p, d, drafts)
      BY <3>3, <3>7, <3>8 DEF NoEasier
    <3>. QED  BY <3>6, <3>9
  <2>. QED  BY <2>2, <2>3
<1>. QED  BY <1>1, <1>2, <1>3, <1>4, <1>5

(***************************************************************************)
(* A report                                                                *)
(***************************************************************************)

\* What a finding is: of a construct that has its place among all names.
IsFinding(f) ==
    /\ DOMAIN f = {"path", "symbol", "line", "layers", "severity", "says", "arithmetic", "prediction"}
    /\ f.path \in DOMAIN Order /\ f.symbol \in DOMAIN Order
    /\ f.line \in Int /\ f.severity \in 0..2 /\ IsList(f.says)
    /\ \A p, q \in f.prediction : IsClaim(p) /\ p = q

\* What is known of a finding.
LEMMA FindingHas ==
    ASSUME NEW f, IsFinding(f)
    PROVE  /\ f.severity \in 0..2 /\ f.severity \in Int /\ f.line \in Int /\ IsList(f.says)
           /\ DOMAIN f = {"path", "symbol", "line", "layers", "severity", "says", "arithmetic", "prediction"}
           /\ f.path \in DOMAIN Order /\ f.symbol \in DOMAIN Order
<1>1. f.severity \in 0..2
  BY DEF IsFinding
<1>2. f.severity \in Int
  BY <1>1
<1>3. f.line \in Int /\ IsList(f.says) /\ f.path \in DOMAIN Order /\ f.symbol \in DOMAIN Order
  BY DEF IsFinding
<1>4. DOMAIN f = {"path", "symbol", "line", "layers", "severity", "says", "arithmetic", "prediction"}
  BY DEF IsFinding
<1>. QED  BY Zenon, <1>1, <1>2, <1>3, <1>4

\* f is a finding about d's construct, whose claim is d's and can be refuted.
Becomes(f, d) ==
    /\ IsFinding(f)
    /\ f.path = OrUnknown(d.path) /\ f.symbol = OrUnknown(d.symbol)
    /\ \A p \in f.prediction : p \in d.prediction /\ Refutable(p)

\* The finding of a draft.
LEMMA AsFindingIs ==
    ASSUME NEW d, IsDraft(d)
    PROVE  Becomes(AsFinding(d), d) /\ AsFinding(d).severity = d.severity
<1>1. PICK path : path = OrUnknown(d.path)
  OBVIOUS
<1>2. PICK symbol : symbol = OrUnknown(d.symbol)
  OBVIOUS
<1>3. PICK layers : layers = { OrUnknown(l) : l \in d.layers }
  OBVIOUS
<1>4. PICK line : line = IF << path, symbol >> \in DOMAIN LineOf
                         THEN LineOf[<< path, symbol >>] ELSE Max({d.line, 0})
  OBVIOUS
<1>5. PICK claim : claim = { p \in d.prediction : Refutable(p) }
  OBVIOUS
<1>6. AsFinding(d) = [d EXCEPT !.path = path, !.symbol = symbol, !.layers = layers,
                               !.line = line, !.prediction = claim]
  BY <1>1, <1>2, <1>3, <1>4, <1>5 DEF AsFinding
<1>7. path \in DOMAIN Order /\ symbol \in DOMAIN Order
  BY <1>1, <1>2, DraftHas, NamesAreSorted DEF OrUnknown
<1>8. line \in Int
  <2>1. Max({d.line, 0}) \in Int
    <3>5. d.line \in Int
      BY DraftHas
    <3>6. PICK l \in Int : l = d.line
      BY <3>5
    <3>1. PICK S : S = {d.line, 0}
      OBVIOUS
    <3>2. IsFiniteSet(S)
      <4>1. IsFiniteSet({0}) /\ IsFiniteSet({l})
        BY FS_Singleton
      <4>2. IsFiniteSet({0} \cup {l})
        BY <4>1, FS_Union
      <4>3. S = {0} \cup {l}
        BY <3>1, <3>6
      <4>. QED  BY <4>2, <4>3
    <3>4. S \subseteq Int /\ S # {}
      BY <3>1, <3>6
    <3>3. Max(S) \in Int
      BY <3>2, <3>4, Extremes
    <3>. QED  BY <3>1, <3>3
  <2>. QED  BY <1>4, <2>1, NamesAreSorted
<1>9. \A p, q \in claim : IsClaim(p) /\ p = q /\ p \in d.prediction /\ Refutable(p)
  BY <1>5, DraftHas
<1>10. PICK f : f = AsFinding(d)
  OBVIOUS
<1>11. /\ DOMAIN f = DOMAIN d /\ f.path = path /\ f.symbol = symbol /\ f.line = line
       /\ f.prediction = claim /\ f.severity = d.severity /\ f.says = d.says
  <2>1. DOMAIN d = {"path", "symbol", "line", "layers", "severity", "says", "arithmetic", "prediction"}
    BY DraftHas
  <2>. QED  BY <1>6, <1>10, <2>1
<1>12. IsFinding(f)
  BY <1>7, <1>8, <1>9, <1>11, DraftHas DEF IsFinding
<1>. QED  BY <1>1, <1>2, <1>9, <1>10, <1>11, <1>12 DEF Becomes

\* What the drafts of a report come to: a finding each, or a drop.
LEMMA ToReportIs ==
    ASSUME NEW drafts, IsList(drafts), \A d \in ToSet(drafts) : IsDraft(d)
    PROVE  /\ IsList(ToReport(drafts).findings) /\ IsList(ToReport(drafts).dropped)
           /\ \A f \in ToSet(ToReport(drafts).findings) :
                 \E d \in ToSet(drafts) : Becomes(f, d) /\ f.severity = d.severity
           /\ \A d \in ToSet(drafts) :
                 \/ \E f \in ToSet(ToReport(drafts).findings) : Becomes(f, d) /\ f.severity = d.severity
                 \/ Drop(d, "malformed") \in ToSet(ToReport(drafts).dropped)
<1>. DEFINE P == {i \in DOMAIN drafts : Makes(drafts[i])}
            fit == AtPlaces(drafts, P)
            findings == [i \in DOMAIN fit |-> AsFinding(fit[i])]
            drops == [i \in DOMAIN drafts |-> DroppedOf(drafts[i])]
            dropped == FlattenSeq(drops)
<1>1. ToReport(drafts).findings = findings /\ ToReport(drafts).dropped = dropped
  <2>1. Kept(drafts, Makes) = fit
    BY DEF Kept, Sorted, AtPlaces, Places, Place
  <2>2. PICK k : k = Kept(drafts, Makes)
    OBVIOUS
  <2>3. PICK q : q = dropped
    OBVIOUS
  <2>4. ToReport(drafts) = [findings |-> [i \in DOMAIN k |-> AsFinding(k[i])], dropped |-> q]
    BY <2>2, <2>3 DEF ToReport
  <2>5. ToReport(drafts).findings = [i \in DOMAIN k |-> AsFinding(k[i])] /\ ToReport(drafts).dropped = q
    BY <2>4
  <2>. HIDE DEF fit, dropped
  <2>. QED  BY <2>1, <2>2, <2>3, <2>5
<1>2. IsList(fit) /\ ToSet(fit) = {d \in ToSet(drafts) : Makes(d)}
  <2>1. PICK Q : Q = P
    OBVIOUS
  <2>2. Q \subseteq DOMAIN drafts /\ {drafts[i] : i \in Q} = {d \in ToSet(drafts) : Makes(d)}
    BY <2>1 DEF ToSet
  <2>3. IsList(AtPlaces(drafts, Q)) /\ ToSet(AtPlaces(drafts, Q)) = {drafts[i] : i \in Q}
    BY <2>2, PlacedIsList
  <2>4. fit = AtPlaces(drafts, Q)
    BY <2>1
  <2>. HIDE DEF fit
  <2>. QED  BY <2>2, <2>3, <2>4
<1>. HIDE DEF fit
<1>3. DOMAIN findings = DOMAIN fit /\ findings = [i \in DOMAIN findings |-> findings[i]]
      /\ \A i \in DOMAIN fit : findings[i] = AsFinding(fit[i])
  OBVIOUS
<1>4. DOMAIN drops = DOMAIN drafts /\ drops = [i \in DOMAIN drops |-> drops[i]]
      /\ \A i \in DOMAIN drafts : drops[i] = DroppedOf(drafts[i])
  OBVIOUS
<1>. HIDE DEF findings, drops
<1>5. IsList(findings)
  BY <1>2, <1>3, ListOver
<1>6. ASSUME NEW d \in ToSet(drafts)
      PROVE  IsList(DroppedOf(d)) /\ (~ Makes(d) => Drop(d, "malformed") \in ToSet(DroppedOf(d)))
  <2>1. PICK a : a = IF Refused(d) THEN << Drop(d, "prediction") >> ELSE <<>>
    OBVIOUS
  <2>2. PICK b : b = IF Makes(d) THEN <<>> ELSE << Drop(d, "malformed") >>
    OBVIOUS
  <2>3. PICK z : z = Drop(d, "malformed")
    OBVIOUS
  <2>4. IsList(a) /\ IsList(b)
    BY <2>1, <2>2, ListOfOne
  <2>5. DroppedOf(d) = a \o b
    BY <2>1, <2>2 DEF DroppedOf
  <2>6. PICK w : w = DroppedOf(d)
    OBVIOUS
  <2>7. IsList(w) /\ ToSet(w) = ToSet(a) \cup ToSet(b)
    BY <2>4, <2>5, <2>6, ListsJoin
  <2>8. ~ Makes(d) => Drop(d, "malformed") \in ToSet(b)
    BY <2>2, <2>3, ListOfOne
  <2>. QED  BY <2>6, <2>7, <2>8
<1>7. IsList(drops) /\ \A i \in DOMAIN drops : IsList(drops[i])
  <2>1. IsList(drops)
    BY <1>4, ListOver
  <2>2. \A i \in DOMAIN drafts : drafts[i] \in ToSet(drafts)
    BY DEF ToSet
  <2>. QED  BY <1>4, <1>6, <2>1, <2>2
<1>8. IsList(dropped) /\ ToSet(dropped) = UNION {ToSet(drops[i]) : i \in DOMAIN drops}
  BY <1>7, FlattenedIsList
<1>. HIDE DEF dropped
<1>9. ASSUME NEW f \in ToSet(findings)
      PROVE  \E d \in ToSet(drafts) : Becomes(f, d) /\ f.severity = d.severity
  <2>1. PICK i \in DOMAIN fit : f = AsFinding(fit[i])
    BY <1>3 DEF ToSet
  <2>2. PICK d : d = fit[i]
    OBVIOUS
  <2>3. d \in ToSet(drafts)
    BY <1>2, <2>2 DEF ToSet
  <2>. QED  BY <2>1, <2>2, <2>3, AsFindingIs
<1>10. ASSUME NEW d \in ToSet(drafts)
       PROVE  \/ \E f \in ToSet(findings) : Becomes(f, d) /\ f.severity = d.severity
              \/ Drop(d, "malformed") \in ToSet(dropped)
  <2>1. CASE Makes(d)
    <3>1. PICK i \in DOMAIN fit : fit[i] = d
      BY <1>2, <2>1, AtSomePlace
    <3>2. AsFinding(d) \in ToSet(findings)
      BY <1>3, <3>1 DEF ToSet
    <3>. QED  BY <3>2, AsFindingIs
  <2>2. CASE ~ Makes(d)
    <3>1. PICK i \in DOMAIN drafts : drafts[i] = d
      BY AtSomePlace
    <3>2. Drop(d, "malformed") \in ToSet(drops[i]) /\ i \in DOMAIN drops
      BY <1>4, <1>6, <2>2, <3>1
    <3>. QED  BY <1>8, <3>2
  <2>. QED  BY <2>1, <2>2
<1>. QED  BY <1>1, <1>5, <1>8, <1>9, <1>10

(***************************************************************************)
(* What a review passes over its report with                               *)
(***************************************************************************)

\* What reachability supports for a path.
Supported(path) == Min({2} \cup { n.ceiling : n \in Notes(path) })

\* A path has one note at most.
LEMMA OneNote ==
    ASSUME NEW path
    PROVE  \/ Notes(path) = {} /\ Supported(path) = 2
           \/ \E n : /\ Notes(path) = {n} /\ n.ceiling \in 0..1 /\ Supported(path) = n.ceiling
<1>1. \/ Notes(path) = {}
      \/ Notes(path) = {[ceiling |-> 0, why |-> Unreached]}
      \/ Notes(path) = {[ceiling |-> 1, why |-> Far]}
  <2>1. CASE path \notin DOMAIN Depth \/ ~ HasEntrypoints
    BY <2>1 DEF Notes
  <2>2. CASE ~ (path \notin DOMAIN Depth \/ ~ HasEntrypoints) /\ Depth[path] = {}
    BY <2>2 DEF Notes
  <2>3. CASE ~ (path \notin DOMAIN Depth \/ ~ HasEntrypoints) /\ Depth[path] # {}
             /\ \E d \in Depth[path] : d >= FarFromEntrypoint
    BY <2>3 DEF Notes
  <2>4. CASE ~ (path \notin DOMAIN Depth \/ ~ HasEntrypoints) /\ Depth[path] # {}
             /\ ~ \E d \in Depth[path] : d >= FarFromEntrypoint
    BY <2>4 DEF Notes
  <2>. QED  BY <2>1, <2>2, <2>3, <2>4
<1>2. CASE Notes(path) = {}
  <2>1. {2} \cup { n.ceiling : n \in Notes(path) } = {2}
    BY <1>2
  <2>2. Min({2}) = 2
    <3>1. IsFiniteSet({2}) /\ {2} \subseteq Int /\ {2} # {}
      BY FS_Singleton
    <3>2. PICK S : S = {2}
      OBVIOUS
    <3>3. Min(S) \in S
      BY <3>1, <3>2, Extremes
    <3>. QED  BY <3>2, <3>3
  <2>. QED  BY <1>2, <2>1, <2>2 DEF Supported
<1>3. ASSUME NEW n, NEW c \in 0..1, n.ceiling = c, Notes(path) = {n}
      PROVE  Supported(path) = n.ceiling
  <2>1. PICK S : S = {2} \cup {c}
    OBVIOUS
  <2>2. IsFiniteSet(S)
    <3>1. IsFiniteSet({2}) /\ IsFiniteSet({c})
      BY FS_Singleton
    <3>. QED  BY <2>1, <3>1, FS_Union
  <2>3. S \subseteq Int /\ S # {} /\ c \in S
    BY <2>1
  <2>4. Min(S) \in S /\ \A x \in S : Min(S) <= x
    BY <2>2, <2>3, Extremes
  <2>5. Min(S) <= c /\ Min(S) \in {2, c}
    BY <2>1, <2>3, <2>4
  <2>6. Min(S) = c
    BY <2>5
  <2>7. { x.ceiling : x \in Notes(path) } = {c}
    BY <1>3
  <2>. QED  BY <1>3, <2>1, <2>6, <2>7 DEF Supported
<1>4. CASE Notes(path) = {[ceiling |-> 0, why |-> Unreached]}
  <2>1. PICK n : n = [ceiling |-> 0, why |-> Unreached]
    OBVIOUS
  <2>2. n.ceiling = 0 /\ 0 \in 0..1 /\ Notes(path) = {n}
    BY <1>4, <2>1
  <2>3. Supported(path) = n.ceiling
    BY <1>3, <2>2
  <2>. QED  BY <2>2, <2>3
<1>5. CASE Notes(path) = {[ceiling |-> 1, why |-> Far]}
  <2>1. PICK n : n = [ceiling |-> 1, why |-> Far]
    OBVIOUS
  <2>2. n.ceiling = 1 /\ 1 \in 0..1 /\ Notes(path) = {n}
    BY <1>5, <2>1
  <2>3. Supported(path) = n.ceiling
    BY <1>3, <2>2
  <2>. QED  BY <2>2, <2>3
<1>. QED  BY <1>1, <1>2, <1>4, <1>5

\* f is g with another severity and other words.
Recast(f, g) ==
    /\ IsFinding(f)
    /\ f.path = g.path /\ f.symbol = g.symbol /\ f.prediction = g.prediction

\* A finding's severity is cut to what is supported, or left.
LEMMA CapIs ==
    ASSUME NEW f, IsFinding(f)
    PROVE  /\ Recast(Cap(f), f)
           /\ Cap(f).severity <= Supported(f.path)
           /\ Cap(f).severity = f.severity \/ Cap(f).severity = Supported(f.path)
<1>. DEFINE above == { n \in Notes(f.path) : f.severity > n.ceiling }
<1>1. f.severity \in 0..2
  BY FindingHas
<1>2. CASE above = {}
  <2>1. Cap(f) = f
    BY <1>2 DEF Cap
  <2>2. f.severity <= Supported(f.path)
    <3>1. CASE Notes(f.path) = {} /\ Supported(f.path) = 2
      BY <1>1, <3>1
    <3>2. ASSUME NEW n, Notes(f.path) = {n}, n.ceiling \in 0..1, Supported(f.path) = n.ceiling
          PROVE  f.severity <= Supported(f.path)
      <4>1. ~ (f.severity > n.ceiling)
        BY <1>2, <3>2
      <4>. QED  BY <1>1, <3>2, <4>1
    <3>. QED  BY <3>1, <3>2, OneNote
  <2>. QED  BY <2>1, <2>2 DEF Recast
<1>3. CASE above # {}
  <2>1. PICK n : Notes(f.path) = {n} /\ n.ceiling \in 0..1 /\ Supported(f.path) = n.ceiling
    BY <1>3, OneNote
  <2>2. above = {n}
    BY <1>3, <2>1
  <2>3. Cap(f) = [f EXCEPT !.severity = n.ceiling, !.says = Append(@, n.why)]
    <3>1. (CHOOSE x \in {n} : TRUE) = n
      OBVIOUS
    <3>. HIDE DEF above
    <3>2. Cap(f) = IF above = {} THEN f
                   ELSE [f EXCEPT !.severity = (CHOOSE x \in above : TRUE).ceiling,
                                  !.says = Append(@, (CHOOSE x \in above : TRUE).why)]
      BY DEF Cap, above
    <3>. QED  BY <1>3, <2>2, <3>1, <3>2
  <2>4. PICK says : says = Append(f.says, n.why)
    OBVIOUS
  <2>5. IsList(says)
    <3>1. PICK S : S = ToSet(f.says) \cup {n.why}
      OBVIOUS
    <3>2. f.says \in Seq(S) /\ n.why \in S
      <4>1. f.says \in Seq(ToSet(f.says))
        BY FindingHas DEF IsList
      <4>. QED  BY <3>1, <4>1
    <3>3. says \in Seq(S)
      BY <2>4, <3>2
    <3>. QED  BY <3>3, ListIs
  <2>6. PICK c : c = Cap(f)
    OBVIOUS
  <2>7. c = [f EXCEPT !.severity = n.ceiling, !.says = says]
    BY <2>3, <2>4, <2>6
  <2>8. /\ DOMAIN c = DOMAIN f /\ c.path = f.path /\ c.symbol = f.symbol /\ c.line = f.line
        /\ c.prediction = f.prediction /\ c.severity = n.ceiling /\ c.says = says
    <3>1. DOMAIN f = {"path", "symbol", "line", "layers", "severity", "says", "arithmetic", "prediction"}
      BY FindingHas
    <3>. QED  BY <2>7, <3>1
  <2>9. n.ceiling \in 0..2
    BY <2>1
  <2>10. IsFinding(c)
    BY <2>5, <2>8, <2>9 DEF IsFinding
  <2>11. c.severity <= Supported(f.path) /\ c.severity = Supported(f.path)
    BY <2>1, <2>8
  <2>. QED  BY <2>6, <2>8, <2>10, <2>11 DEF Recast
<1>. QED  BY <1>2, <1>3

\* What a review's scores order.
LEMMA WorthIsNumber ==
    ASSUME NEW f, IsFinding(f)
    PROVE  Worth(f) \in Int
<1>1. PICK e \in Int : e = (IF f.prediction # {} THEN 4 ELSE 1) * (IF f.arithmetic THEN 3 ELSE 2)
  <2>1. PICK a \in {4, 1} : a = IF f.prediction # {} THEN 4 ELSE 1
    OBVIOUS
  <2>2. PICK b \in {3, 2} : b = IF f.arithmetic THEN 3 ELSE 2
    OBVIOUS
  <2>3. a * b \in Int
    OBVIOUS
  <2>. QED  BY <2>1, <2>2, <2>3
<1>2. PICK n \in Int : n = IF f.path \in DOMAIN FanIn THEN FanIn[f.path] ELSE 0
  BY NamesAreSorted
<1>3. PICK r \in Int : r = Reach(f.path)
  <2>1. CASE f.path \notin DOMAIN Depth \/ Depth[f.path] = {}
    <3>1. Deepest - 1 \in Nat
      BY NamesAreSorted
    <3>2. 10 ^ (Deepest - 1) \in Int
      BY <3>1
    <3>3. 2 * 10 ^ (Deepest - 1) \in Int
      BY <3>2
    <3>4. Reach(f.path) = 2 * 10 ^ (Deepest - 1)
      BY <2>1 DEF Reach
    <3>. QED  BY <3>3, <3>4
  <2>2. CASE ~ (f.path \notin DOMAIN Depth \/ Depth[f.path] = {})
    <3>1. PICK S : S = Depth[f.path]
      OBVIOUS
    <3>2. S \subseteq 0..Deepest /\ S # {} /\ Deepest \in Int
      BY <2>2, <3>1, NamesAreSorted
    <3>3. IsFiniteSet(S) /\ S \subseteq Int
      <4>1. IsFiniteSet(0..Deepest)
        <5>1. 0 \in Int
          OBVIOUS
        <5>. QED  BY <3>2, <5>1, FS_Interval
      <4>2. IsFiniteSet(S)
        BY <3>2, <4>1, FS_Subset
      <4>. QED  BY <3>2, <4>2
    <3>4. PICK d : d = Max(S) /\ d \in 0..Deepest
      BY <3>2, <3>3, Extremes
    <3>5. d \in Nat /\ Deepest - d \in Nat
      BY <3>2, <3>4
    <3>6. PICK a \in Int : a = 7 ^ d
      <4>1. 7 ^ d \in Int
        BY <3>5
      <4>. QED  BY <4>1
    <3>7. PICK b \in Int : b = 10 ^ (Deepest - d)
      <4>1. 10 ^ (Deepest - d) \in Int
        BY <3>5
      <4>. QED  BY <4>1
    <3>8. Reach(f.path) = a * b
      BY <2>2, <3>1, <3>4, <3>6, <3>7 DEF Reach
    <3>9. a * b \in Int
      BY <3>6, <3>7
    <3>. QED  BY <3>8, <3>9
  <2>. QED  BY <2>1, <2>2
<1>4. PICK t \in Int : t = 10 ^ Deepest
  <2>1. 10 ^ Deepest \in Int
    BY NamesAreSorted
  <2>. QED  BY <2>1
<1>5. f.severity \in Int
  BY FindingHas
<1>6. PICK s \in Int : s = f.severity
  BY <1>5
<1>7. Worth(f) = e * r * (10 + n) + s * 10 * t
  BY <1>1, <1>2, <1>3, <1>4, <1>6 DEF Worth
<1>8. e * r * (10 + n) + s * 10 * t \in Int
  OBVIOUS
<1>. QED  BY <1>7, <1>8

\* R compares the places of D by four numbers, one after the other, and then by
\* which is earlier.
Compares(R, D, a, b, c, e) ==
    /\ D \subseteq Int
    /\ \A i \in D : a[i] \in Int /\ b[i] \in Int /\ c[i] \in Int /\ e[i] \in Int
    /\ \A i, j \in D : << i, j >> \in R <=>
          \/ a[i] < a[j]
          \/ a[i] = a[j] /\ b[i] < b[j]
          \/ a[i] = a[j] /\ b[i] = b[j] /\ c[i] < c[j]
          \/ a[i] = a[j] /\ b[i] = b[j] /\ c[i] = c[j] /\ e[i] < e[j]
          \/ a[i] = a[j] /\ b[i] = b[j] /\ c[i] = c[j] /\ e[i] = e[j] /\ i < j

\* That is an order.
LEMMA OneAfterTheOther ==
    ASSUME NEW D, NEW a, NEW b, NEW c, NEW e, NEW R, Compares(R, D, a, b, c, e)
    PROVE  Orders(R, D)
<1>1. \A x \in D : << x, x >> \notin R
  BY SMT DEF Compares
<1>2. ASSUME NEW x \in D, NEW y \in D PROVE x = y \/ << x, y >> \in R \/ << y, x >> \in R
  <2>1. /\ x \in Int /\ a[x] \in Int /\ b[x] \in Int /\ c[x] \in Int /\ e[x] \in Int
        /\ y \in Int /\ a[y] \in Int /\ b[y] \in Int /\ c[y] \in Int /\ e[y] \in Int
    BY DEF Compares
  <2>2. \/ x = y \/ x < y \/ y < x
    BY <2>1
  <2>. QED  BY <2>1, <2>2, SMTT(30) DEF Compares
<1>3. \A x, y, z \in D : << x, y >> \in R /\ << y, z >> \in R => << x, z >> \in R
  BY SMTT(30) DEF Compares
<1>. QED  BY <1>1, <1>2, <1>3 DEF Orders

\* Ranking loses nothing and adds nothing.
LEMMA RankIs ==
    ASSUME NEW findings, IsList(findings), \A f \in ToSet(findings) : IsFinding(f)
    PROVE  IsList(Rank(findings)) /\ ToSet(Rank(findings)) = ToSet(findings)
<1>. DEFINE D == DOMAIN findings
            N == Cardinality(D)
            before(i, j) == \/ Before(findings[i], findings[j])
                            \/ ~ Before(findings[j], findings[i]) /\ i < j
            at(n) == CHOOSE x \in D : Cardinality({y \in D : before(y, x)}) = n - 1
            sorted == [n \in 1..N |-> at(n)]
            R == {z \in D \X D : before(z[1], z[2])}
            a == [i \in D |-> -Worth(findings[i])]
            b == [i \in D |-> Order[findings[i].path]]
            c == [i \in D |-> findings[i].line]
            e == [i \in D |-> Order[findings[i].symbol]]
<1>1. IsFiniteSet(D) /\ D \subseteq Int /\ N \in Nat
  <2>1. IsFiniteSet(D) /\ D = 1..Len(findings)
    BY ListHas
  <2>. QED  BY <2>1, FS_CardinalityType
<1>2. ASSUME NEW i \in D
      PROVE  a[i] \in Int /\ b[i] \in Int /\ c[i] \in Int /\ e[i] \in Int
  <2>1. PICK f : f = findings[i]
    OBVIOUS
  <2>2. IsFinding(f)
    BY <2>1, ListHas
  <2>3. PICK w \in Int : w = Worth(f)
    BY <2>2, WorthIsNumber
  <2>4. f.line \in Int /\ f.path \in DOMAIN Order /\ f.symbol \in DOMAIN Order
    BY <2>2, FindingHas
  <2>5. Order[f.path] \in Int /\ Order[f.symbol] \in Int
    BY <2>4, NamesAreSorted
  <2>6. -w \in Int
    OBVIOUS
  <2>. QED  BY <2>1, <2>3, <2>4, <2>5, <2>6
<1>3. ASSUME NEW i \in D, NEW j \in D
      PROVE  Before(findings[i], findings[j]) <=>
                \/ a[i] < a[j]
                \/ a[i] = a[j] /\ b[i] < b[j]
                \/ a[i] = a[j] /\ b[i] = b[j] /\ c[i] < c[j]
                \/ a[i] = a[j] /\ b[i] = b[j] /\ c[i] = c[j] /\ e[i] < e[j]
  <2>. DEFINE p == << -Worth(findings[i]), Order[findings[i].path], findings[i].line, Order[findings[i].symbol] >>
              q == << -Worth(findings[j]), Order[findings[j].path], findings[j].line, Order[findings[j].symbol] >>
  <2>1. Before(findings[i], findings[j]) <=>
            \E k \in 1..4 : (\A m \in 1..(k - 1) : p[m] = q[m]) /\ p[k] < q[k]
    BY Zenon DEF Before
  <2>2. p[1] = a[i] /\ p[2] = b[i] /\ p[3] = c[i] /\ p[4] = e[i]
    OBVIOUS
  <2>3. q[1] = a[j] /\ q[2] = b[j] /\ q[3] = c[j] /\ q[4] = e[j]
    OBVIOUS
  <2>. HIDE DEF p, q, a, b, c, e
  <2>4. \A k : k \in 1..4 <=> k = 1 \/ k = 2 \/ k = 3 \/ k = 4
    OBVIOUS
  <2>5. \A m : /\ m \notin 1..(1 - 1) /\ (m \in 1..(2 - 1) <=> m = 1)
               /\ (m \in 1..(3 - 1) <=> m = 1 \/ m = 2)
               /\ (m \in 1..(4 - 1) <=> m = 1 \/ m = 2 \/ m = 3)
    OBVIOUS
  <2>6. Before(findings[i], findings[j]) <=>
            \/ p[1] < q[1]
            \/ p[1] = q[1] /\ p[2] < q[2]
            \/ p[1] = q[1] /\ p[2] = q[2] /\ p[3] < q[3]
            \/ p[1] = q[1] /\ p[2] = q[2] /\ p[3] = q[3] /\ p[4] < q[4]
    BY <2>1, <2>4, <2>5
  <2>. QED  BY <2>2, <2>3, <2>6
<1>4. ASSUME NEW i \in D, NEW j \in D
      PROVE  << i, j >> \in R <=>
                \/ a[i] < a[j]
                \/ a[i] = a[j] /\ b[i] < b[j]
                \/ a[i] = a[j] /\ b[i] = b[j] /\ c[i] < c[j]
                \/ a[i] = a[j] /\ b[i] = b[j] /\ c[i] = c[j] /\ e[i] < e[j]
                \/ a[i] = a[j] /\ b[i] = b[j] /\ c[i] = c[j] /\ e[i] = e[j] /\ i < j
  <2>1. << i, j >> \in R <=> before(i, j)
    OBVIOUS
  <2>2. PICK x : x = Before(findings[i], findings[j])
    OBVIOUS
  <2>3. PICK y : y = Before(findings[j], findings[i])
    OBVIOUS
  <2>4. i \in Int /\ j \in Int
    BY <1>1
  <2>. HIDE DEF a, b, c, e, D, R
  <2>5. before(i, j) <=> Before(findings[i], findings[j]) \/ (~ Before(findings[j], findings[i]) /\ i < j)
    OBVIOUS
  <2>. HIDE DEF before
  <2>. QED  BY <1>2, <1>3, <2>1, <2>4, <2>5
<1>5. Orders(R, D)
  <2>1. PICK S : S = R
    OBVIOUS
  <2>2. PICK a1 : a1 = a
    OBVIOUS
  <2>3. PICK b1 : b1 = b
    OBVIOUS
  <2>4. PICK c1 : c1 = c
    OBVIOUS
  <2>5. PICK e1 : e1 = e
    OBVIOUS
  <2>6. PICK P : P = D
    OBVIOUS
  <2>. HIDE DEF a, b, c, e, D, R
  <2>7. Compares(S, P, a1, b1, c1, e1)
    BY <1>1, <1>2, <1>4, <2>1, <2>2, <2>3, <2>4, <2>5, <2>6 DEF Compares
  <2>8. Orders(S, P)
    BY <2>7, OneAfterTheOther
  <2>. QED  BY <2>1, <2>6, <2>8
<1>6. \A x \in D : {y \in D : before(y, x)} = Below(D, R, x)
  <2>. HIDE DEF before
  <2>. QED  BY DEF Below
<1>7. Rank(findings) = [n \in DOMAIN sorted |-> findings[sorted[n]]]
  BY DEF Rank, Sorted
<1>. HIDE DEF before, R, a, b, c, e
<1>8. ASSUME NEW n \in 1..N PROVE at(n) \in D /\ Cardinality(Below(D, R, at(n))) = n - 1
  <2>1. \E x \in D : Cardinality({y \in D : before(y, x)}) = n - 1
    <3>1. PICK x \in D : Cardinality(Below(D, R, x)) = n - 1
      BY <1>1, <1>5, Ranked
    <3>. QED  BY <1>6, <3>1
  <2>2. at(n) \in D /\ Cardinality({y \in D : before(y, at(n))}) = n - 1
    BY <2>1
  <2>. HIDE DEF at
  <2>. QED  BY <1>6, <2>2
<1>. HIDE DEF at
<1>9. DOMAIN sorted = 1..N /\ sorted = [n \in DOMAIN sorted |-> sorted[n]]
      /\ \A n \in 1..N : sorted[n] \in D /\ Cardinality(Below(D, R, sorted[n])) = n - 1
  BY <1>8
<1>. HIDE DEF sorted
<1>10. IsList(sorted) /\ Len(sorted) = N
  <2>1. PICK n \in Nat : n = N
    BY <1>1
  <2>. HIDE DEF N
  <2>. QED  BY <1>9, <2>1, ListOf
<1>11. ToSet(sorted) = D
  <2>1. PICK p : p = sorted
    OBVIOUS
  <2>2. PICK S : S = R
    OBVIOUS
  <2>3. PICK P : P = D
    OBVIOUS
  <2>4. /\ IsFiniteSet(P) /\ Orders(S, P) /\ IsList(p) /\ Len(p) = Cardinality(P)
        /\ \A i \in DOMAIN p : p[i] \in P /\ Cardinality(Below(P, S, p[i])) = i - 1
    BY <1>1, <1>5, <1>9, <1>10, <2>1, <2>2, <2>3
  <2>5. ToSet(p) = P
    BY <2>4, RankedPlaces
  <2>. QED  BY <2>1, <2>3, <2>5
<1>. DEFINE ranked == Rank(findings)
<1>12. DOMAIN ranked = DOMAIN sorted /\ ranked = [n \in DOMAIN ranked |-> ranked[n]]
       /\ \A n \in DOMAIN sorted : ranked[n] = findings[sorted[n]]
  BY <1>7
<1>. HIDE DEF ranked
<1>13. IsList(ranked)
  BY <1>10, <1>12, ListOver
<1>14. ToSet(ranked) = ToSet(findings)
  <2>1. ToSet(ranked) = {findings[sorted[n]] : n \in DOMAIN sorted}
    BY <1>12 DEF ToSet
  <2>2. D = {sorted[n] : n \in DOMAIN sorted}
    BY <1>11 DEF ToSet
  <2>3. ToSet(findings) = {findings[i] : i \in D}
    BY DEF ToSet
  <2>. HIDE DEF D
  <2>. QED  BY <2>1, <2>2, <2>3
<1>. QED  BY <1>13, <1>14 DEF ranked

\* A list less one of its members.
LEMMA RemovedHas ==
    ASSUME NEW s, IsList(s), NEW i \in DOMAIN s
    PROVE  /\ IsList(RemoveAt(s, i))
           /\ \A j \in DOMAIN s : j = i \/ s[j] \in ToSet(RemoveAt(s, i))
<1>1. PICK S : s \in Seq(S)
  BY DEF IsList
<1>2. PICK n \in Nat : n = Len(s) /\ DOMAIN s = 1..n
  BY ListHas
<1>3. PICK a : a = SubSeq(s, 1, i - 1)
  OBVIOUS
<1>4. PICK b : b = SubSeq(s, i + 1, n)
  OBVIOUS
<1>5. RemoveAt(s, i) = a \o b
  BY <1>2, <1>3, <1>4 DEF RemoveAt
<1>6. /\ a \in Seq(S) /\ Len(a) = i - 1 /\ \A j \in 1..(i - 1) : a[j] = s[j]
  BY <1>1, <1>2, <1>3
<1>7. /\ b \in Seq(S) /\ Len(b) = n - i /\ \A j \in 1..(n - i) : b[j] = s[i + j]
  BY <1>1, <1>2, <1>4
<1>8. PICK q : q = RemoveAt(s, i)
  OBVIOUS
<1>9. IsList(q) /\ ToSet(q) = ToSet(a) \cup ToSet(b)
  <2>1. IsList(a) /\ IsList(b)
    BY <1>6, <1>7, ListIs
  <2>. QED  BY <1>5, <1>8, <2>1, ListsJoin
<1>10. ASSUME NEW j \in DOMAIN s, j # i PROVE s[j] \in ToSet(q)
  <2>1. CASE j < i
    <3>1. j \in DOMAIN a /\ a[j] = s[j]
      BY <1>2, <1>6, <2>1
    <3>. QED  BY <1>9, <3>1 DEF ToSet
  <2>2. CASE j > i
    <3>1. PICK k : k = j - i
      OBVIOUS
    <3>2. i \in 1..n /\ j \in 1..n
      BY <1>2
    <3>3. k \in 1..(n - i) /\ i + k = j
      BY <2>2, <3>1, <3>2
    <3>4. b[k] = s[i + k]
      BY <1>7, <3>3
    <3>5. DOMAIN b = 1..(n - i)
      BY <1>7, <3>2
    <3>6. k \in DOMAIN b /\ b[k] = s[j]
      BY <3>3, <3>4, <3>5
    <3>. QED  BY <1>9, <3>6 DEF ToSet
  <2>. QED  BY <1>2, <1>10, <2>1, <2>2
<1>. QED  BY <1>8, <1>9, <1>10

\* What a finding with many others becomes, and what it is worse than.
Marked(f) == [f EXCEPT !.says = Append(@, Systemic)]

\* A marked finding is the finding, and says it was seen in many files.
LEMMA MarkedIs ==
    ASSUME NEW f, IsFinding(f)
    PROVE  /\ Recast(Marked(f), f) /\ Marked(f).severity = f.severity
           /\ Systemic \in ToSet(Marked(f).says)
<1>1. PICK says : says = Append(f.says, Systemic)
  OBVIOUS
<1>2. PICK S : S = ToSet(f.says) \cup {Systemic}
  OBVIOUS
<1>3. f.says \in Seq(S) /\ Systemic \in S
  <2>1. f.says \in Seq(ToSet(f.says))
    BY FindingHas DEF IsList
  <2>. QED  BY <1>2, <2>1
<1>4. says \in Seq(S) /\ Len(f.says) + 1 \in DOMAIN says /\ says[Len(f.says) + 1] = Systemic
  <2>. HIDE DEF Systemic
  <2>. QED  BY <1>1, <1>3
<1>5. IsList(says)
  BY <1>4, ListIs
<1>6. PICK c : c = Marked(f)
  OBVIOUS
<1>7. /\ DOMAIN c = DOMAIN f /\ c.path = f.path /\ c.symbol = f.symbol /\ c.line = f.line
      /\ c.prediction = f.prediction /\ c.severity = f.severity /\ c.says = says
  <2>1. DOMAIN f = {"path", "symbol", "line", "layers", "severity", "says", "arithmetic", "prediction"}
    BY FindingHas
  <2>2. c = [f EXCEPT !.says = says]
    BY <1>1, <1>6 DEF Marked
  <2>. QED  BY <2>1, <2>2
<1>8. IsFinding(c)
  BY <1>5, <1>7 DEF IsFinding
<1>. QED  BY <1>4, <1>6, <1>7, <1>8 DEF Recast, ToSet

\* Of a group the worst survives.
LEMMA SurvivorIs ==
    ASSUME NEW group, IsList(group), group # <<>>, \A f \in ToSet(group) : IsFinding(f)
    PROVE  /\ Survivor(group) \in DOMAIN group
           /\ \A j \in DOMAIN group : group[j].severity <= group[Survivor(group)].severity
<1>. DEFINE N == Cardinality(DOMAIN Order) + 1
            key(i) == -group[i].severity * N + Order[group[i].path]
            k == [i \in DOMAIN group |-> key(i)]
            places == [i \in DOMAIN group |-> i]
            best(i) == \A j \in DOMAIN places : \/ key(places[i]) < key(places[j])
                                                \/ key(places[i]) = key(places[j]) /\ i <= j
            c == CHOOSE i \in DOMAIN places : best(i)
<1>1. \A i \in DOMAIN group : /\ group[i].severity \in 0..2
                              /\ Order[group[i].path] \in 1..Cardinality(DOMAIN Order)
  <2>1. TAKE i \in DOMAIN group
  <2>2. IsFinding(group[i])
    BY ListHas
  <2>3. group[i].severity \in 0..2 /\ group[i].path \in DOMAIN Order
    BY <2>2 DEF IsFinding
  <2>. QED  BY <2>3, NamesAreSorted
<1>2. PICK n \in Nat : n = N
  BY NamesAreSorted, FS_CardinalityType
<1>3. \A i \in DOMAIN group : Order[group[i].path] \in Int /\ 1 <= Order[group[i].path] /\ Order[group[i].path] < n
  <2>1. Cardinality(DOMAIN Order) \in Nat
    BY NamesAreSorted, FS_CardinalityType
  <2>. QED  BY <1>1, <1>2, <2>1
<1>4. \A i \in DOMAIN group : k[i] = key(i) /\ k[i] = -group[i].severity * n + Order[group[i].path] /\ k[i] \in Int
  <2>1. TAKE i \in DOMAIN group
  <2>2. group[i].severity \in Int /\ Order[group[i].path] \in Int
    BY <1>1, <1>3
  <2>3. k[i] = key(i)
    OBVIOUS
  <2>4. key(i) = -group[i].severity * n + Order[group[i].path]
    BY <1>2
  <2>5. -group[i].severity * n + Order[group[i].path] \in Int
    BY <2>2
  <2>. QED  BY <2>3, <2>4, <2>5
<1>5. \E i \in DOMAIN places : best(i)
  <2>1. PICK i \in DOMAIN group : \A j \in DOMAIN group : k[i] < k[j] \/ (k[i] = k[j] /\ i <= j)
    <3>. HIDE DEF k
    <3>. QED  BY <1>4, LeastIsChosen
  <2>2. DOMAIN places = DOMAIN group /\ \A j \in DOMAIN group : places[j] = j
    OBVIOUS
  <2>. HIDE DEF k, key, places
  <2>. QED  BY <1>4, <2>1, <2>2
<1>6. Survivor(group) = places[c]
  BY DEF Survivor, FirstLeast
<1>7. c \in DOMAIN places /\ best(c)
  <2>. HIDE DEF best, places
  <2>. QED  BY <1>5
<1>8. Survivor(group) = c /\ c \in DOMAIN group /\ \A j \in DOMAIN group : k[c] <= k[j]
  <2>1. DOMAIN places = DOMAIN group /\ \A j \in DOMAIN group : places[j] = j
    OBVIOUS
  <2>. HIDE DEF k, key, places, c
  <2>2. \A j \in DOMAIN group : key(c) < key(j) \/ (key(c) = key(j) /\ c <= j)
    BY <1>7, <2>1
  <2>. QED  BY <1>4, <1>6, <1>7, <2>1, <2>2
<1>. HIDE DEF c, k, key, best
<1>9. \A j \in DOMAIN group : group[j].severity <= group[c].severity
  <2>1. TAKE j \in DOMAIN group
  <2>2. PICK s \in 0..2 : s = group[j].severity
    BY <1>1
  <2>3. PICK t \in 0..2 : t = group[c].severity
    BY <1>1, <1>8
  <2>4. PICK o \in Int : o = Order[group[j].path] /\ 1 <= o /\ o < n
    BY <1>3
  <2>5. PICK q \in Int : q = Order[group[c].path] /\ 1 <= q /\ q < n
    BY <1>3, <1>8
  <2>6. -t * n + q <= -s * n + o
    BY <1>4, <1>8, <2>2, <2>3, <2>4, <2>5
  <2>7. s <= t
    <3>1. SUFFICES ASSUME t < s PROVE FALSE
      BY <2>2, <2>3
    <3>2. s \in {0, 1, 2} /\ t \in {0, 1, 2}
      OBVIOUS
    <3>3. CASE t = 0 /\ s = 1
      BY <2>4, <2>5, <2>6, <3>3
    <3>4. CASE t = 0 /\ s = 2
      BY <2>4, <2>5, <2>6, <3>4
    <3>5. CASE t = 1 /\ s = 2
      BY <2>4, <2>5, <2>6, <3>5
    <3>. QED  BY <3>1, <3>2, <3>3, <3>4, <3>5
  <2>. QED  BY <2>2, <2>3, <2>7
<1>. QED  BY <1>8, <1>9

\* A finding of a group is left as it was, or dropped for one at least as severe
\* that says it was seen in many files.
Stands(f, r) ==
    \/ \E g \in ToSet(r.findings) : Recast(g, f) /\ g.severity = f.severity
    \/ /\ Drop(f, "collapsed") \in ToSet(r.dropped)
       /\ \E g \in ToSet(r.findings) : Systemic \in ToSet(g.says) /\ f.severity <= g.severity

\* What collapsing leaves of findings.
Leaves(r, findings) ==
    /\ IsList(r.findings) /\ IsList(r.dropped)
    /\ \A g \in ToSet(r.findings) : \E f \in ToSet(findings) : Recast(g, f) /\ g.severity = f.severity
    /\ \A f \in ToSet(findings) : Stands(f, r)

\* A group that is collapsed, or is in too few files.
LEMMA CollapsedIs ==
    ASSUME NEW group, IsList(group), group # <<>>, \A f \in ToSet(group) : IsFinding(f)
    PROVE  Leaves(Collapsed(group), group)
<1>1. CASE Cardinality(Files(group)) < SystemicFiles
  <2>1. PICK r : r = [findings |-> group, dropped |-> <<>>]
    OBVIOUS
  <2>2. r = Collapsed(group)
    BY <1>1, <2>1 DEF Collapsed
  <2>3. r.findings = group /\ r.dropped = <<>>
    BY <2>1
  <2>4. \A f \in ToSet(group) : Recast(f, f) /\ f.severity = f.severity
    BY DEF Recast
  <2>5. IsList(r.dropped)
    BY <2>3, ListOfOne
  <2>6. Leaves(r, group)
    BY <2>3, <2>4, <2>5 DEF Leaves, Stands
  <2>. QED  BY <2>2, <2>6
<1>2. CASE ~ (Cardinality(Files(group)) < SystemicFiles)
  <2>1. PICK i \in DOMAIN group : i = Survivor(group) /\ \A j \in DOMAIN group : group[j].severity <= group[i].severity
    BY SurvivorIs
  <2>2. PICK f : f = group[i]
    OBVIOUS
  <2>3. IsFinding(f) /\ f \in ToSet(group)
    BY <2>2, ListHas
  <2>4. PICK m : m = Marked(f)
    OBVIOUS
  <2>5. Recast(m, f) /\ m.severity = f.severity /\ Systemic \in ToSet(m.says)
    BY <2>3, <2>4, MarkedIs
  <2>6. PICK rest : rest = RemoveAt(group, i)
    OBVIOUS
  <2>7. IsList(rest) /\ \A j \in DOMAIN group : j = i \/ group[j] \in ToSet(rest)
    BY <2>6, RemovedHas
  <2>8. PICK drops : drops = [j \in DOMAIN rest |-> Drop(rest[j], "collapsed")]
    OBVIOUS
  <2>9. DOMAIN drops = DOMAIN rest /\ drops = [j \in DOMAIN drops |-> drops[j]]
        /\ \A j \in DOMAIN rest : drops[j] = Drop(rest[j], "collapsed")
    BY <2>8
  <2>10. IsList(drops)
    BY <2>7, <2>9, ListOver
  <2>11. \A x \in ToSet(rest) : Drop(x, "collapsed") \in ToSet(drops)
    <3>1. TAKE x \in ToSet(rest)
    <3>2. PICK j \in DOMAIN rest : rest[j] = x
      BY AtSomePlace
    <3>. QED  BY <2>9, <3>2 DEF ToSet
  <2>12. PICK one : one = << m >>
    OBVIOUS
  <2>13. IsList(one) /\ ToSet(one) = {m}
    BY <2>12, ListOfOne
  <2>14. PICK r : r = [findings |-> one, dropped |-> drops]
    OBVIOUS
  <2>15. r.findings = one /\ r.dropped = drops
    BY <2>14
  <2>16. r = Collapsed(group)
    <3>1. Collapsed(group) =
             [findings |-> << [group[i] EXCEPT !.says = Append(@, Systemic)] >>,
              dropped |-> [j \in DOMAIN rest |-> Drop(rest[j], "collapsed")]]
      BY <1>2, <2>1, <2>6 DEF Collapsed
    <3>2. m = [group[i] EXCEPT !.says = Append(@, Systemic)]
      BY <2>2, <2>4 DEF Marked
    <3>. QED  BY <2>8, <2>12, <2>14, <3>1, <3>2
  <2>17. ASSUME NEW x \in ToSet(group) PROVE Stands(x, r)
    <3>1. PICK j \in DOMAIN group : group[j] = x
      BY AtSomePlace
    <3>2. CASE j = i
      <4>1. x = f /\ m \in ToSet(r.findings)
        BY <2>2, <2>13, <2>15, <3>1, <3>2
      <4>. QED  BY <2>5, <4>1 DEF Stands
    <3>3. CASE j # i
      <4>1. Drop(x, "collapsed") \in ToSet(r.dropped)
        BY <2>7, <2>11, <2>15, <3>1, <3>3
      <4>2. m \in ToSet(r.findings) /\ x.severity <= m.severity
        BY <2>1, <2>2, <2>5, <2>13, <2>15, <3>1
      <4>. QED  BY <2>5, <4>1, <4>2 DEF Stands
    <3>. QED  BY <3>2, <3>3
  <2>18. \A g \in ToSet(r.findings) : \E x \in ToSet(group) : Recast(g, x) /\ g.severity = x.severity
    BY <2>3, <2>5, <2>13, <2>15
  <2>19. Leaves(r, group)
    BY <2>10, <2>13, <2>15, <2>17, <2>18 DEF Leaves
  <2>. QED  BY <2>16, <2>19
<1>. QED  BY <1>1, <1>2

\* What collapsing does to a report.
LEMMA CollapseIs ==
    ASSUME NEW findings, IsList(findings), \A f \in ToSet(findings) : IsFinding(f)
    PROVE  Leaves(Collapse(findings), findings)
<1>. DEFINE P == {i \in DOMAIN findings : Comparable(findings[i])}
            Q == {i \in DOMAIN findings : ~ Comparable(findings[i])}
            some == AtPlaces(findings, P)
            others == AtPlaces(findings, Q)
            k == [i \in DOMAIN some |-> << some[i].layers, Shape(some[i]) >>]
            groups == GroupsBy(some, k)
            each == [i \in DOMAIN groups |-> Collapsed(groups[i])]
            lists == [i \in DOMAIN each |-> each[i].findings]
            drops == [i \in DOMAIN each |-> each[i].dropped]
            left == FlattenSeq(lists)
            dropped == FlattenSeq(drops)
<1>1. Kept(findings, Comparable) = some
  BY DEF Kept, Sorted, AtPlaces, Places, Place
<1>2. Kept(findings, LAMBDA f : ~ Comparable(f)) = others
  BY DEF Kept, Sorted, AtPlaces, Places, Place
<1>3. IsList(some) /\ ToSet(some) = {f \in ToSet(findings) : Comparable(f)}
  <2>1. PICK S : S = P
    OBVIOUS
  <2>2. S \subseteq DOMAIN findings /\ {findings[i] : i \in S} = {f \in ToSet(findings) : Comparable(f)}
    BY <2>1 DEF ToSet
  <2>3. IsList(AtPlaces(findings, S)) /\ ToSet(AtPlaces(findings, S)) = {findings[i] : i \in S}
    BY <2>2, PlacedIsList
  <2>4. some = AtPlaces(findings, S)
    BY <2>1
  <2>. HIDE DEF some
  <2>. QED  BY <2>2, <2>3, <2>4
<1>4. IsList(others) /\ ToSet(others) = {f \in ToSet(findings) : ~ Comparable(f)}
  <2>1. PICK S : S = Q
    OBVIOUS
  <2>2. S \subseteq DOMAIN findings /\ {findings[i] : i \in S} = {f \in ToSet(findings) : ~ Comparable(f)}
    BY <2>1 DEF ToSet
  <2>3. IsList(AtPlaces(findings, S)) /\ ToSet(AtPlaces(findings, S)) = {findings[i] : i \in S}
    BY <2>2, PlacedIsList
  <2>4. others = AtPlaces(findings, S)
    BY <2>1
  <2>. HIDE DEF others
  <2>. QED  BY <2>2, <2>3, <2>4
<1>. HIDE DEF some, others
<1>5. Grouped(some, LAMBDA f : << f.layers, Shape(f) >>) = groups
  <2>. DEFINE firsts == {i \in DOMAIN some : \A j \in 1..(i - 1) :
                            << some[j].layers, Shape(some[j]) >> # << some[i].layers, Shape(some[i]) >>}
              of(n) == {i \in DOMAIN some : << some[i].layers, Shape(some[i]) >> =
                           << some[Places(firsts)[n]].layers, Shape(some[Places(firsts)[n]]) >>}
              grouped == [n \in DOMAIN Places(firsts) |-> AtPlaces(some, of(n))]
  <2>1. Grouped(some, LAMBDA f : << f.layers, Shape(f) >>) = grouped
    BY DEF Grouped, Kept, Sorted, AtPlaces, Places, Place
  <2>2. Len(some) \in Nat /\ DOMAIN some = 1..Len(some) /\ IsFiniteSet(DOMAIN some)
    BY <1>3, ListHas
  <2>3. \A i \in DOMAIN some : \A j \in 1..(i - 1) : j \in DOMAIN some
    BY <2>2
  <2>4. firsts = Firsts(some, k)
    BY <2>3 DEF Firsts
  <2>5. \A n \in DOMAIN Places(firsts) : Places(firsts)[n] \in DOMAIN some
    <3>1. firsts \subseteq DOMAIN some
      OBVIOUS
    <3>. HIDE DEF firsts
    <3>2. IsFiniteSet(firsts) /\ firsts \subseteq Int
      BY <2>2, <3>1, FS_Subset
    <3>3. ToSet(Places(firsts)) = firsts
      BY <3>2, PlacesOf
    <3>. QED  BY <3>1, <3>3 DEF ToSet
  <2>. HIDE DEF firsts
  <2>6. \A n \in DOMAIN Places(firsts) : of(n) = Alike(some, k, Places(firsts)[n])
    BY <2>5 DEF Alike
  <2>. HIDE DEF of, k
  <2>7. grouped = groups
    BY <2>4, <2>6 DEF GroupsBy
  <2>. HIDE DEF groups, grouped
  <2>. QED  BY <2>1, <2>7
<1>6. PICK collapse : collapse = Collapse(findings)
  OBVIOUS
<1>7. collapse.findings = others \o left /\ collapse.dropped = dropped
  <2>1. PICK s : s = some
    OBVIOUS
  <2>2. PICK o : o = others
    OBVIOUS
  <2>3. PICK g : g = groups
    OBVIOUS
  <2>4. PICK e : e = each
    OBVIOUS
  <2>. HIDE DEF groups
  <2>5. /\ Kept(findings, Comparable) = s /\ Kept(findings, LAMBDA f : ~ Comparable(f)) = o
        /\ Grouped(s, LAMBDA f : << f.layers, Shape(f) >>) = g
    BY <1>1, <1>2, <1>5, <2>1, <2>2, <2>3
  <2>6. e = [i \in DOMAIN g |-> Collapsed(g[i])]
    BY <2>3, <2>4
  <2>7. left = FlattenSeq([i \in DOMAIN e |-> e[i].findings]) /\ dropped = FlattenSeq([i \in DOMAIN e |-> e[i].dropped])
    BY <2>4
  <2>8. collapse = [findings |-> o \o left, dropped |-> dropped]
    <3>1. PICK l : l = left
      OBVIOUS
    <3>2. PICK d : d = dropped
      OBVIOUS
    <3>3. l = FlattenSeq([i \in DOMAIN e |-> e[i].findings]) /\ d = FlattenSeq([i \in DOMAIN e |-> e[i].dropped])
      BY <2>7, <3>1, <3>2
    <3>. HIDE DEF left, dropped, each, lists, drops
    <3>4. Collapse(findings) = [findings |-> o \o l, dropped |-> d]
      BY <2>5, <2>6, <3>3 DEF Collapse
    <3>. QED  BY <1>6, <3>1, <3>2, <3>4
  <2>. HIDE DEF left, dropped
  <2>. QED  BY <2>2, <2>8
<1>. HIDE DEF k
<1>8. /\ IsList(groups)
      /\ \A n \in DOMAIN groups : /\ IsList(groups[n]) /\ groups[n] # <<>>
                                  /\ \E i \in DOMAIN some : ToSet(groups[n]) = {some[j] : j \in Alike(some, k, i)}
      /\ \A i \in DOMAIN some : \E n \in DOMAIN groups : some[i] \in ToSet(groups[n])
  BY <1>3, GroupHas
<1>. HIDE DEF groups
<1>9. \A n \in DOMAIN groups : ToSet(groups[n]) \subseteq ToSet(findings)
  <2>1. TAKE n \in DOMAIN groups
  <2>2. PICK i \in DOMAIN some : ToSet(groups[n]) = {some[j] : j \in Alike(some, k, i)}
    BY <1>8
  <2>3. \A j \in Alike(some, k, i) : some[j] \in ToSet(some)
    BY DEF Alike, ToSet
  <2>. QED  BY <1>3, <2>2, <2>3
<1>10. \A n \in DOMAIN groups : Leaves(Collapsed(groups[n]), groups[n])
  <2>1. TAKE n \in DOMAIN groups
  <2>2. PICK g : g = groups[n]
    OBVIOUS
  <2>3. IsList(g) /\ g # <<>> /\ \A f \in ToSet(g) : IsFinding(f)
    BY <1>8, <1>9, <2>2
  <2>4. Leaves(Collapsed(g), g)
    BY <2>3, CollapsedIs
  <2>. QED  BY <2>2, <2>4
<1>11. /\ DOMAIN lists = DOMAIN groups /\ lists = [i \in DOMAIN lists |-> lists[i]]
       /\ DOMAIN drops = DOMAIN groups /\ drops = [i \in DOMAIN drops |-> drops[i]]
       /\ \A n \in DOMAIN groups : lists[n] = Collapsed(groups[n]).findings /\ drops[n] = Collapsed(groups[n]).dropped
  OBVIOUS
<1>. HIDE DEF lists, drops, each
<1>12. /\ IsList(lists) /\ \A n \in DOMAIN lists : IsList(lists[n])
       /\ IsList(drops) /\ \A n \in DOMAIN drops : IsList(drops[n])
  <2>1. IsList(lists) /\ IsList(drops)
    BY <1>8, <1>11, ListOver
  <2>. QED  BY <1>10, <1>11, <2>1 DEF Leaves
<1>13. IsList(left) /\ ToSet(left) = UNION {ToSet(lists[i]) : i \in DOMAIN lists}
  BY <1>12, FlattenedIsList
<1>14. IsList(dropped) /\ ToSet(dropped) = UNION {ToSet(drops[i]) : i \in DOMAIN drops}
  BY <1>12, FlattenedIsList
<1>. HIDE DEF left, dropped
<1>15. IsList(collapse.findings) /\ ToSet(collapse.findings) = ToSet(others) \cup ToSet(left)
  <2>1. PICK q : q = collapse.findings
    OBVIOUS
  <2>2. PICK o : o = others
    OBVIOUS
  <2>3. PICK l : l = left
    OBVIOUS
  <2>4. IsList(o) /\ IsList(l) /\ q = o \o l
    BY <1>4, <1>7, <1>13, <2>1, <2>2, <2>3
  <2>5. IsList(q) /\ ToSet(q) = ToSet(o) \cup ToSet(l)
    BY <2>4, ListsJoin
  <2>. QED  BY <2>1, <2>2, <2>3, <2>5
<1>16. ASSUME NEW f \in ToSet(findings), Comparable(f) PROVE Stands(f, collapse)
  <2>1. PICK i \in DOMAIN some : some[i] = f
    BY <1>3, <1>16, AtSomePlace
  <2>2. PICK n \in DOMAIN groups : f \in ToSet(groups[n])
    BY <1>8, <2>1
  <2>3. Stands(f, Collapsed(groups[n]))
    BY <1>10, <2>2 DEF Leaves
  <2>4. ToSet(lists[n]) \subseteq ToSet(collapse.findings) /\ ToSet(drops[n]) \subseteq ToSet(collapse.dropped)
    BY <1>7, <1>11, <1>13, <1>14, <1>15
  <2>5. /\ ToSet(Collapsed(groups[n]).findings) \subseteq ToSet(collapse.findings)
        /\ ToSet(Collapsed(groups[n]).dropped) \subseteq ToSet(collapse.dropped)
    BY <1>11, <2>4
  <2>. QED  BY <2>3, <2>5 DEF Stands
<1>17. ASSUME NEW f \in ToSet(findings), ~ Comparable(f) PROVE Stands(f, collapse)
  <2>1. f \in ToSet(collapse.findings)
    BY <1>4, <1>15, <1>17
  <2>2. Recast(f, f)
    BY DEF Recast
  <2>. QED  BY <2>1, <2>2 DEF Stands
<1>18. ASSUME NEW g \in ToSet(collapse.findings)
       PROVE  \E f \in ToSet(findings) : Recast(g, f) /\ g.severity = f.severity
  <2>1. CASE g \in ToSet(others)
    <3>1. g \in ToSet(findings)
      BY <1>4, <2>1
    <3>. QED  BY <3>1 DEF Recast
  <2>2. CASE g \in ToSet(left)
    <3>1. PICK n \in DOMAIN groups : g \in ToSet(Collapsed(groups[n]).findings)
      BY <1>11, <1>13, <2>2
    <3>2. PICK f \in ToSet(groups[n]) : Recast(g, f) /\ g.severity = f.severity
      BY <1>10, <3>1 DEF Leaves
    <3>. QED  BY <1>9, <3>2
  <2>. QED  BY <1>15, <2>1, <2>2
<1>19. Leaves(collapse, findings)
  <2>1. IsList(collapse.dropped)
    BY <1>7, <1>14
  <2>. QED  BY <1>15, <1>16, <1>17, <1>18, <2>1 DEF Leaves
<1>. QED  BY <1>6, <1>19

\* What a report is of its drafts, reachable or not (by): who was dropped, and
\* what a finding is of.
Limit(by, path) == IF by THEN Supported(path) ELSE 2
Went(d, r, why) ==
    \E x \in ToSet(r.dropped) :
        x.path = OrUnknown(d.path) /\ x.symbol = OrUnknown(d.symbol) /\ x.why \in why
Reported(d, r, by) ==
    \/ \E f \in ToSet(r.findings) :
          Becomes(f, d) /\ (d.severity <= f.severity \/ f.severity = Limit(by, f.path))
    \/ Went(d, r, {"malformed", "withdrawn"})
    \/ /\ Went(d, r, {"collapsed"})
       /\ \E f \in ToSet(r.findings) :
             /\ Systemic \in ToSet(f.says)
             /\ d.severity <= f.severity \/ Limit(by, OrUnknown(d.path)) <= f.severity
Reports(r, drafts, by) ==
    /\ IsList(r.findings) /\ IsList(r.dropped)
    /\ \A f \in ToSet(r.findings) :
          \E d \in ToSet(drafts) : Becomes(f, d) /\ f.severity <= Limit(by, f.path)
    /\ \A d \in ToSet(drafts) : Reported(d, r, by)

\* A name is not unknown twice.
LEMMA KnownOnce ==
    ASSUME NEW x
    PROVE  OrUnknown(OrUnknown(x)) = OrUnknown(x)
PROOF BY DEF OrUnknown

\* The baseline's report.
LEMMA PlainReport ==
    ASSUME NEW drafts, IsList(drafts), \A d \in ToSet(drafts) : IsDraft(d)
    PROVE  Reports(ToReport(drafts), drafts, FALSE)
<1>1. PICK r : r = ToReport(drafts)
  OBVIOUS
<1>2. /\ IsList(r.findings) /\ IsList(r.dropped)
      /\ \A f \in ToSet(r.findings) : \E d \in ToSet(drafts) : Becomes(f, d) /\ f.severity = d.severity
      /\ \A d \in ToSet(drafts) : \/ \E f \in ToSet(r.findings) : Becomes(f, d) /\ f.severity = d.severity
                                  \/ Drop(d, "malformed") \in ToSet(r.dropped)
  BY <1>1, ToReportIs
<1>3. \A f \in ToSet(r.findings) : \E d \in ToSet(drafts) : Becomes(f, d) /\ f.severity <= Limit(FALSE, f.path)
  <2>1. TAKE f \in ToSet(r.findings)
  <2>2. PICK d \in ToSet(drafts) : Becomes(f, d)
    BY <1>2
  <2>3. f.severity <= 2
    BY <2>2, FindingHas DEF Becomes
  <2>. QED  BY <2>2, <2>3 DEF Limit
<1>4. ASSUME NEW d \in ToSet(drafts) PROVE Reported(d, r, FALSE)
  <2>1. CASE \E f \in ToSet(r.findings) : Becomes(f, d) /\ f.severity = d.severity
    <3>1. PICK f \in ToSet(r.findings) : Becomes(f, d) /\ f.severity = d.severity
      BY <2>1
    <3>2. d.severity <= f.severity
      BY <3>1, FindingHas DEF Becomes
    <3>. QED  BY <3>1, <3>2 DEF Reported
  <2>2. CASE Drop(d, "malformed") \in ToSet(r.dropped)
    <3>1. PICK x : x = Drop(d, "malformed")
      OBVIOUS
    <3>2. x.path = OrUnknown(d.path) /\ x.symbol = OrUnknown(d.symbol) /\ x.why = "malformed"
      BY <3>1 DEF Drop
    <3>3. Went(d, r, {"malformed", "withdrawn"})
      BY <2>2, <3>1, <3>2 DEF Went
    <3>. QED  BY <3>3 DEF Reported
  <2>. QED  BY <1>2, <2>1, <2>2
<1>5. Reports(r, drafts, FALSE)
  BY <1>2, <1>3, <1>4 DEF Reports
<1>. QED  BY <1>1, <1>5

\* The reviewer's, capped, withdrawn from, collapsed and ranked.
LEMMA FinishedReport ==
    ASSUME NEW drafts, IsList(drafts), \A d \in ToSet(drafts) : IsDraft(d)
    PROVE  Reports(Finished(drafts), drafts, TRUE)
<1>. DEFINE first == ToReport(drafts)
            anchored == [i \in DOMAIN first.findings |-> Cap(first.findings[i])]
            P == {i \in DOMAIN anchored : ~ Contradicted(anchored[i])}
            Q == {i \in DOMAIN anchored : Contradicted(anchored[i])}
            kept == IF Indexed = {} THEN anchored ELSE AtPlaces(anchored, P)
            withdrawn == IF Indexed = {} THEN <<>> ELSE AtPlaces(anchored, Q)
            collapsed == Collapse(kept)
            drops == [i \in DOMAIN withdrawn |-> Drop(withdrawn[i], "withdrawn")]
            dropped == first.dropped \o drops \o collapsed.dropped
            ranked == Rank(collapsed.findings)
<1>1. PICK r : r = Finished(drafts)
  OBVIOUS
<1>2. r.findings = ranked /\ r.dropped = dropped
  <2>1. /\ Kept(anchored, LAMBDA f : ~ Contradicted(f)) = AtPlaces(anchored, P)
        /\ Kept(anchored, Contradicted) = AtPlaces(anchored, Q)
    BY DEF Kept, Sorted, AtPlaces, Places, Place
  <2>2. PICK p : p = first
    OBVIOUS
  <2>3. PICK a : a = anchored
    OBVIOUS
  <2>4. PICK k : k = kept
    OBVIOUS
  <2>5. PICK w : w = withdrawn
    OBVIOUS
  <2>6. PICK c : c = collapsed
    OBVIOUS
  <2>7. a = [i \in DOMAIN p.findings |-> Cap(p.findings[i])]
    BY <2>2, <2>3
  <2>8. /\ k = IF Indexed = {} THEN a ELSE Kept(a, LAMBDA f : ~ Contradicted(f))
        /\ w = IF Indexed = {} THEN <<>> ELSE Kept(a, Contradicted)
    <3>. HIDE DEF anchored, P, Q
    <3>. QED  BY <2>1, <2>3, <2>4, <2>5
  <2>9. c = Collapse(k)
    BY <2>4, <2>6
  <2>10. Finished(drafts) =
           [findings |-> Rank(c.findings),
            dropped |-> p.dropped \o [i \in DOMAIN w |-> Drop(w[i], "withdrawn")] \o c.dropped]
    <3>. HIDE DEF anchored, P, Q, kept, withdrawn, collapsed, drops, first
    <3>1. p = ToReport(drafts)
      BY <2>2 DEF first
    <3>. QED  BY <2>7, <2>8, <2>9, <3>1 DEF Finished
  <2>11. ranked = Rank(c.findings) /\ dropped = p.dropped \o [i \in DOMAIN w |-> Drop(w[i], "withdrawn")] \o c.dropped
    <3>. HIDE DEF kept, withdrawn, collapsed, first
    <3>. QED  BY <2>2, <2>5, <2>6
  <2>12. PICK x : x = Rank(c.findings)
    OBVIOUS
  <2>13. PICK y : y = p.dropped \o [i \in DOMAIN w |-> Drop(w[i], "withdrawn")] \o c.dropped
    OBVIOUS
  <2>14. r = [findings |-> x, dropped |-> y]
    BY <1>1, <2>10, <2>12, <2>13
  <2>15. r.findings = x /\ r.dropped = y
    BY <2>14
  <2>. HIDE DEF ranked, dropped
  <2>. QED  BY <2>11, <2>12, <2>13, <2>15
<1>3. /\ IsList(first.findings) /\ IsList(first.dropped)
      /\ \A f \in ToSet(first.findings) :
            \E d \in ToSet(drafts) : Becomes(f, d) /\ f.severity = d.severity
      /\ \A d \in ToSet(drafts) : \/ \E f \in ToSet(first.findings) : Becomes(f, d) /\ f.severity = d.severity
                                  \/ Drop(d, "malformed") \in ToSet(first.dropped)
  BY ToReportIs
<1>. HIDE DEF first
<1>4. /\ DOMAIN anchored = DOMAIN first.findings /\ anchored = [i \in DOMAIN anchored |-> anchored[i]]
      /\ \A i \in DOMAIN anchored : anchored[i] = Cap(first.findings[i])
  OBVIOUS
<1>. HIDE DEF anchored
<1>5. IsList(anchored)
  <2>1. PICK s : s = first.findings
    OBVIOUS
  <2>2. PICK a : a = anchored
    OBVIOUS
  <2>3. IsList(s) /\ DOMAIN a = DOMAIN s /\ a = [i \in DOMAIN a |-> a[i]]
    BY <1>3, <1>4, <2>1, <2>2
  <2>4. IsList(a)
    BY <2>3, ListOver
  <2>. QED  BY <2>2, <2>4
<1>6. ASSUME NEW f, IsFinding(f), NEW d, Becomes(f, d), f.severity = d.severity, IsDraft(d)
      PROVE  /\ Becomes(Cap(f), d) /\ Cap(f).severity <= Limit(TRUE, Cap(f).path)
             /\ d.severity <= Cap(f).severity \/ Cap(f).severity = Limit(TRUE, Cap(f).path)
             /\ Cap(f).path = OrUnknown(d.path) /\ Cap(f).symbol = OrUnknown(d.symbol)
  <2>1. PICK c : c = Cap(f)
    OBVIOUS
  <2>2. /\ Recast(c, f) /\ c.severity <= Supported(f.path)
        /\ c.severity = f.severity \/ c.severity = Supported(f.path)
    BY <1>6, <2>1, CapIs
  <2>3. Becomes(c, d)
    BY <1>6, <2>2 DEF Becomes, Recast
  <2>4. c.path = f.path /\ Limit(TRUE, c.path) = Supported(f.path)
    BY <2>2 DEF Recast, Limit
  <2>5. d.severity <= d.severity
    <3>1. d.severity \in Int
      BY <1>6, DraftHas
    <3>. QED  BY <3>1
  <2>6. c.path = OrUnknown(d.path) /\ c.symbol = OrUnknown(d.symbol)
    BY <2>3 DEF Becomes
  <2>. QED  BY <1>6, <2>1, <2>2, <2>3, <2>4, <2>5, <2>6
<1>7. \A c \in ToSet(anchored) : \E d \in ToSet(drafts) : Becomes(c, d) /\ c.severity <= Limit(TRUE, c.path)
  <2>1. TAKE c \in ToSet(anchored)
  <2>2. PICK i \in DOMAIN first.findings : c = Cap(first.findings[i])
    BY <1>4, AtSomePlace
  <2>3. PICK f : f = first.findings[i]
    OBVIOUS
  <2>4. f \in ToSet(first.findings)
    BY <2>3 DEF ToSet
  <2>5. PICK d \in ToSet(drafts) : Becomes(f, d) /\ f.severity = d.severity
    BY <1>3, <2>4
  <2>. QED  BY <1>6, <2>2, <2>3, <2>5 DEF Becomes
<1>8. \A d \in ToSet(drafts) :
         \/ \E c \in ToSet(anchored) :
               /\ Becomes(c, d) /\ (d.severity <= c.severity \/ c.severity = Limit(TRUE, c.path))
               /\ c.path = OrUnknown(d.path) /\ c.symbol = OrUnknown(d.symbol)
         \/ Drop(d, "malformed") \in ToSet(first.dropped)
  <2>1. SUFFICES ASSUME NEW d \in ToSet(drafts), Drop(d, "malformed") \notin ToSet(first.dropped)
                 PROVE  \E c \in ToSet(anchored) :
                           /\ Becomes(c, d) /\ (d.severity <= c.severity \/ c.severity = Limit(TRUE, c.path))
                           /\ c.path = OrUnknown(d.path) /\ c.symbol = OrUnknown(d.symbol)
    OBVIOUS
  <2>2. PICK f \in ToSet(first.findings) : Becomes(f, d) /\ f.severity = d.severity
    BY <1>3, <2>1
  <2>3. PICK i \in DOMAIN first.findings : first.findings[i] = f
    BY AtSomePlace
  <2>4. Cap(f) \in ToSet(anchored)
    BY <1>4, <2>3 DEF ToSet
  <2>. QED  BY <1>6, <2>2, <2>4 DEF Becomes
<1>9. /\ IsList(kept) /\ IsList(withdrawn)
      /\ ToSet(kept) \subseteq ToSet(anchored) /\ ToSet(anchored) \subseteq ToSet(kept) \cup ToSet(withdrawn)
  <2>1. CASE Indexed = {}
    <3>1. kept = anchored /\ withdrawn = <<>>
      BY <2>1
    <3>. HIDE DEF kept, withdrawn
    <3>. QED  BY <1>5, <3>1, ListOfOne
  <2>2. CASE Indexed # {}
    <3>1. kept = AtPlaces(anchored, P) /\ withdrawn = AtPlaces(anchored, Q)
      BY <2>2
    <3>2. PICK a : a = anchored
      OBVIOUS
    <3>3. PICK S : S = P
      OBVIOUS
    <3>4. PICK T : T = Q
      OBVIOUS
    <3>5. S \subseteq DOMAIN a /\ T \subseteq DOMAIN a /\ S \cup T = DOMAIN a
      BY <3>2, <3>3, <3>4
    <3>6. /\ IsList(AtPlaces(a, S)) /\ ToSet(AtPlaces(a, S)) = {a[i] : i \in S}
          /\ IsList(AtPlaces(a, T)) /\ ToSet(AtPlaces(a, T)) = {a[i] : i \in T}
      BY <1>5, <3>2, <3>5, PlacedIsList
    <3>7. ToSet(AtPlaces(a, S)) \subseteq ToSet(a) /\ ToSet(a) \subseteq ToSet(AtPlaces(a, S)) \cup ToSet(AtPlaces(a, T))
      BY <3>5, <3>6 DEF ToSet
    <3>8. kept = AtPlaces(a, S) /\ withdrawn = AtPlaces(a, T)
      BY <3>1, <3>2, <3>3, <3>4
    <3>. HIDE DEF kept, withdrawn
    <3>. QED  BY <3>2, <3>6, <3>7, <3>8
  <2>. QED  BY <2>1, <2>2
<1>. HIDE DEF kept, withdrawn
<1>10. \A c \in ToSet(kept) : IsFinding(c)
  BY <1>7, <1>9 DEF Becomes
<1>11. Leaves(collapsed, kept)
  <2>1. PICK k : k = kept
    OBVIOUS
  <2>2. IsList(k) /\ \A c \in ToSet(k) : IsFinding(c)
    BY <1>9, <1>10, <2>1
  <2>3. Leaves(Collapse(k), k)
    BY <2>2, CollapseIs
  <2>. QED  BY <2>1, <2>3
<1>. HIDE DEF collapsed
<1>12. IsList(ranked) /\ ToSet(ranked) = ToSet(collapsed.findings)
  <2>1. PICK s : s = collapsed.findings
    OBVIOUS
  <2>2. IsList(s) /\ \A f \in ToSet(s) : IsFinding(f)
    BY <1>11, <2>1 DEF Leaves, Recast
  <2>3. IsList(Rank(s)) /\ ToSet(Rank(s)) = ToSet(s)
    BY <2>2, RankIs
  <2>. QED  BY <2>1, <2>3
<1>. HIDE DEF ranked
<1>13. /\ DOMAIN drops = DOMAIN withdrawn /\ drops = [i \in DOMAIN drops |-> drops[i]]
       /\ \A i \in DOMAIN withdrawn : drops[i] = Drop(withdrawn[i], "withdrawn")
  OBVIOUS
<1>. HIDE DEF drops
<1>14. IsList(drops)
  <2>1. PICK s : s = withdrawn
    OBVIOUS
  <2>2. PICK t : t = drops
    OBVIOUS
  <2>3. IsList(s) /\ DOMAIN t = DOMAIN s /\ t = [i \in DOMAIN t |-> t[i]]
    BY <1>9, <1>13, <2>1, <2>2
  <2>4. IsList(t)
    BY <2>3, ListOver
  <2>. QED  BY <2>2, <2>4
<1>15. IsList(dropped)
       /\ ToSet(dropped) = ToSet(first.dropped) \cup ToSet(drops) \cup ToSet(collapsed.dropped)
  <2>1. PICK a : a = first.dropped
    OBVIOUS
  <2>2. PICK b : b = drops
    OBVIOUS
  <2>3. PICK c : c = collapsed.dropped
    OBVIOUS
  <2>4. IsList(a) /\ IsList(b) /\ IsList(c)
    BY <1>3, <1>11, <1>14, <2>1, <2>2, <2>3 DEF Leaves
  <2>5. PICK ab : ab = a \o b
    OBVIOUS
  <2>6. IsList(ab) /\ ToSet(ab) = ToSet(a) \cup ToSet(b)
    BY <2>4, <2>5, ListsJoin
  <2>7. PICK q : q = ab \o c
    OBVIOUS
  <2>8. IsList(q) /\ ToSet(q) = ToSet(ab) \cup ToSet(c)
    BY <2>4, <2>6, <2>7, ListsJoin
  <2>9. q = dropped
    BY <2>1, <2>2, <2>3, <2>5, <2>7
  <2>. HIDE DEF dropped
  <2>. QED  BY <2>1, <2>2, <2>3, <2>6, <2>8, <2>9
<1>. HIDE DEF dropped
<1>16. \A f \in ToSet(r.findings) : \E d \in ToSet(drafts) : Becomes(f, d) /\ f.severity <= Limit(TRUE, f.path)
  <2>1. TAKE f \in ToSet(r.findings)
  <2>2. PICK c \in ToSet(kept) : Recast(f, c) /\ f.severity = c.severity
    BY <1>2, <1>11, <1>12 DEF Leaves
  <2>3. PICK d \in ToSet(drafts) : Becomes(c, d) /\ c.severity <= Limit(TRUE, c.path)
    BY <1>7, <1>9
  <2>. QED  BY <2>2, <2>3 DEF Becomes, Recast
<1>17. ASSUME NEW d \in ToSet(drafts) PROVE Reported(d, r, TRUE)
  <2>1. CASE Drop(d, "malformed") \in ToSet(first.dropped)
    <3>1. PICK x : x = Drop(d, "malformed")
      OBVIOUS
    <3>2. x.path = OrUnknown(d.path) /\ x.symbol = OrUnknown(d.symbol) /\ x.why = "malformed"
      BY <3>1 DEF Drop
    <3>3. x \in ToSet(r.dropped)
      BY <1>2, <1>15, <2>1, <3>1
    <3>4. Went(d, r, {"malformed", "withdrawn"})
      BY <3>2, <3>3 DEF Went
    <3>. QED  BY <3>4 DEF Reported
  <2>2. ASSUME NEW c \in ToSet(anchored),
               Becomes(c, d), d.severity <= c.severity \/ c.severity = Limit(TRUE, c.path),
               c.path = OrUnknown(d.path), c.symbol = OrUnknown(d.symbol)
        PROVE  Reported(d, r, TRUE)
    <3>1. CASE c \in ToSet(withdrawn)
      <4>1. PICK i \in DOMAIN withdrawn : withdrawn[i] = c
        BY <3>1, AtSomePlace
      <4>2. Drop(c, "withdrawn") \in ToSet(drops)
        BY <1>13, <4>1 DEF ToSet
      <4>3. PICK x : x = Drop(c, "withdrawn")
        OBVIOUS
      <4>4. x.path = OrUnknown(d.path) /\ x.symbol = OrUnknown(d.symbol) /\ x.why = "withdrawn"
        BY <2>2, <4>3, KnownOnce DEF Drop
      <4>5. x \in ToSet(r.dropped)
        BY <1>2, <1>15, <4>2, <4>3
      <4>6. Went(d, r, {"malformed", "withdrawn"})
        BY <4>4, <4>5 DEF Went
      <4>. QED  BY <4>6 DEF Reported
    <3>2. CASE c \in ToSet(kept)
      <4>1. Stands(c, collapsed)
        BY <1>11, <3>2 DEF Leaves
      <4>2. CASE \E g \in ToSet(collapsed.findings) : Recast(g, c) /\ g.severity = c.severity
        <5>1. PICK g \in ToSet(r.findings) : Recast(g, c) /\ g.severity = c.severity
          BY <1>2, <1>12, <4>2
        <5>2. Becomes(g, d) /\ g.path = c.path
          BY <2>2, <5>1 DEF Becomes, Recast
        <5>. QED  BY <2>2, <5>1, <5>2 DEF Reported
      <4>3. CASE /\ Drop(c, "collapsed") \in ToSet(collapsed.dropped)
                 /\ \E g \in ToSet(collapsed.findings) : Systemic \in ToSet(g.says) /\ c.severity <= g.severity
        <5>1. PICK g \in ToSet(r.findings) : Systemic \in ToSet(g.says) /\ c.severity <= g.severity
          BY <1>2, <1>12, <4>3
        <5>2. PICK x : x = Drop(c, "collapsed")
          OBVIOUS
        <5>3. x.path = OrUnknown(d.path) /\ x.symbol = OrUnknown(d.symbol) /\ x.why = "collapsed"
          BY <2>2, <5>2, KnownOnce DEF Drop
        <5>4. x \in ToSet(r.dropped)
          BY <1>2, <1>15, <4>3, <5>2
        <5>5. Went(d, r, {"collapsed"})
          BY <5>3, <5>4 DEF Went
        <5>6. IsFinding(c) /\ IsFinding(g)
          <6>1. IsFinding(c)
            BY <2>2 DEF Becomes
          <6>2. IsFinding(g)
            BY <1>16 DEF Becomes
          <6>. QED  BY <6>1, <6>2
        <5>7. c.severity \in Int /\ g.severity \in Int
          BY <5>6, FindingHas
        <5>8. d.severity <= g.severity \/ Limit(TRUE, OrUnknown(d.path)) <= g.severity
          <6>1. d.severity \in Int
            BY DraftHas
          <6>. HIDE DEF Limit
          <6>2. CASE d.severity <= c.severity
            <7>1. d.severity <= g.severity
              BY <5>1, <5>7, <6>1, <6>2
            <7>. QED  BY <7>1
          <6>3. CASE c.severity = Limit(TRUE, c.path)
            BY <2>2, <5>1, <6>3
          <6>. QED  BY <2>2, <6>2, <6>3
        <5>. QED  BY <5>1, <5>5, <5>8 DEF Reported
      <4>. QED  BY <4>1, <4>2, <4>3 DEF Stands
    <3>. QED  BY <1>9, <2>2, <3>1, <3>2
  <2>. QED  BY <1>8, <2>1, <2>2
<1>18. Reports(r, drafts, TRUE)
  BY <1>2, <1>12, <1>15, <1>16, <1>17 DEF Reports
<1>. QED  BY <1>1, <1>18

(***************************************************************************)
(* What an answer comes to                                                 *)
(***************************************************************************)

\* What a model answers: modules, each with its drafts.
IsAnswer(answer) ==
    /\ IsList(answer)
    /\ \A i \in DOMAIN answer : IsList(answer[i]) /\ \A d \in ToSet(answer[i]) : IsDraft(d)

\* Drafts are reconciled with all of their module's, or all of the prompt's.
LEMMA TogetherIs ==
    ASSUME NEW answer, IsAnswer(answer)
    PROVE  /\ IsAnswer(Together(answer))
           /\ \A d : d \in ToSet(FlattenSeq(answer)) <=>
                     \E i \in DOMAIN Together(answer) : d \in ToSet(Together(answer)[i])
<1>1. PICK flat : flat = FlattenSeq(answer)
  OBVIOUS
<1>2. IsList(flat) /\ ToSet(flat) = UNION {ToSet(answer[i]) : i \in DOMAIN answer}
  BY <1>1, FlattenedIsList DEF IsAnswer
<1>3. \A d \in ToSet(flat) : IsDraft(d)
  BY <1>2 DEF IsAnswer
<1>4. PICK t : t = Together(answer)
  OBVIOUS
<1>5. CASE Arms[arm] = "augury"
  <2>1. t = answer
    BY <1>4, <1>5 DEF Together
  <2>. QED  BY <1>1, <1>2, <1>4, <2>1
<1>6. CASE Arms[arm] # "augury"
  <2>1. t = << flat >>
    BY <1>1, <1>4, <1>6 DEF Together
  <2>2. IsList(t) /\ DOMAIN t = {1} /\ t[1] = flat
    BY <2>1, ListOfOne
  <2>3. IsAnswer(t)
    BY <1>2, <1>3, <2>2 DEF IsAnswer
  <2>. QED  BY <1>1, <1>4, <2>2, <2>3
<1>. QED  BY <1>5, <1>6

\* The drafts of an answer: who went into them and of whom they are.
LEMMA DraftsAre ==
    ASSUME NEW answer, IsAnswer(answer)
    PROVE  /\ IsList(Drafts(answer)) /\ \A m \in ToSet(Drafts(answer)) : IsDraft(m)
           /\ \A m \in ToSet(Drafts(answer)) :
                 \E i \in DOMAIN Together(answer) : \E g : MadeOf(m, g, Together(answer)[i])
           /\ \A i \in DOMAIN Together(answer) : \A d \in ToSet(Together(answer)[i]) :
                 \E m \in ToSet(Drafts(answer)) : \E g : MadeOf(m, g, Together(answer)[i]) /\ d \in ToSet(g)
<1>1. PICK t : t = Together(answer)
  OBVIOUS
<1>2. IsList(t) /\ \A i \in DOMAIN t : IsList(t[i]) /\ \A d \in ToSet(t[i]) : IsDraft(d)
  BY <1>1, TogetherIs DEF IsAnswer
<1>3. PICK parts : parts = [i \in DOMAIN t |-> Reconcile(t[i])]
  OBVIOUS
<1>4. PICK all : all = Drafts(answer)
  OBVIOUS
<1>5. all = FlattenSeq(parts)
  BY <1>1, <1>3, <1>4 DEF Drafts
<1>6. DOMAIN parts = DOMAIN t /\ parts = [i \in DOMAIN parts |-> parts[i]]
      /\ \A i \in DOMAIN t : parts[i] = Reconcile(t[i])
  BY <1>3
<1>7. \A i \in DOMAIN t : Accounts(parts[i], t[i])
  <2>1. TAKE i \in DOMAIN t
  <2>2. PICK s : s = t[i]
    OBVIOUS
  <2>3. Accounts(Reconcile(s), s)
    BY <1>2, <2>2, ReconcileIs
  <2>. QED  BY <1>6, <2>2, <2>3
<1>8. IsList(parts) /\ \A i \in DOMAIN parts : IsList(parts[i])
  <2>1. IsList(parts)
    BY <1>2, <1>6, ListOver
  <2>. QED  BY <1>6, <1>7, <2>1 DEF Accounts
<1>9. IsList(all) /\ ToSet(all) = UNION {ToSet(parts[i]) : i \in DOMAIN parts}
  BY <1>5, <1>8, FlattenedIsList
<1>10. \A m \in ToSet(all) : \E i \in DOMAIN t : \E g : MadeOf(m, g, t[i])
  BY <1>6, <1>7, <1>9 DEF Accounts
<1>11. \A i \in DOMAIN t : \A d \in ToSet(t[i]) : \E m \in ToSet(all) : \E g : MadeOf(m, g, t[i]) /\ d \in ToSet(g)
  <2>1. SUFFICES ASSUME NEW i \in DOMAIN t, NEW d \in ToSet(t[i])
                 PROVE  \E m \in ToSet(all) : \E g : MadeOf(m, g, t[i]) /\ d \in ToSet(g)
    OBVIOUS
  <2>2. PICK m \in ToSet(parts[i]) : \E g : MadeOf(m, g, t[i]) /\ d \in ToSet(g)
    BY <1>7 DEF Accounts
  <2>3. m \in ToSet(all)
    BY <1>6, <1>9
  <2>. QED  BY <2>2, <2>3
<1>12. \A m \in ToSet(all) : IsDraft(m)
  <2>1. TAKE m \in ToSet(all)
  <2>2. PICK i \in DOMAIN t : \E g : MadeOf(m, g, t[i])
    BY <1>10
  <2>3. PICK g : MadeOf(m, g, t[i])
    BY <2>2
  <2>4. PICK s : s = t[i]
    OBVIOUS
  <2>5. IsList(s) /\ (\A d \in ToSet(s) : IsDraft(d)) /\ MadeOf(m, g, s)
    BY <1>2, <2>3, <2>4
  <2>. QED  BY <2>5, MadeIs
<1>. QED  BY <1>1, <1>4, <1>9, <1>10, <1>11, <1>12

\* The report of an answer, before anything is measured.
LEMMA ReviewedReports ==
    ASSUME NEW answer, IsAnswer(answer)
    PROVE  Reports(Reviewed(answer), Drafts(answer), Arms[arm] = "augury")
<1>1. PICK drafts : drafts = Drafts(answer)
  OBVIOUS
<1>2. IsList(drafts) /\ \A m \in ToSet(drafts) : IsDraft(m)
  BY <1>1, DraftsAre
<1>3. CASE Arms[arm] = "augury"
  <2>1. Reviewed(answer) = Finished(drafts)
    BY <1>1, <1>3 DEF Reviewed
  <2>2. Reports(Finished(drafts), drafts, TRUE)
    BY <1>2, FinishedReport
  <2>3. (Arms[arm] = "augury") = TRUE
    BY <1>3
  <2>. QED  BY Zenon, <1>1, <2>1, <2>2, <2>3
<1>4. CASE Arms[arm] # "augury"
  <2>1. Reviewed(answer) = ToReport(drafts)
    BY <1>1, <1>4 DEF Reviewed
  <2>2. Reports(ToReport(drafts), drafts, FALSE)
    BY <1>2, PlainReport
  <2>3. (Arms[arm] = "augury") = FALSE
    BY <1>4
  <2>. QED  BY Zenon, <1>1, <2>1, <2>2, <2>3
<1>. QED  BY <1>3, <1>4

(***************************************************************************)
(* What is so between the steps                                            *)
(***************************************************************************)

\* A finding with what its measurement came to.
Put(f, known) ==
    [x \in DOMAIN f \cup {"measurement"} |-> IF x = "measurement" THEN known ELSE f[x]]

\* The loops are where they can be, and nothing has been measured of a report that is not there.
Placed ==
    /\ plan \in Plans /\ seed \in 1..plan.seeds /\ case \in DOMAIN Cases
    /\ cursor \in Nat \ {0} /\ failed \in BOOLEAN
    /\ stage \in {"reviewing", "measuring", "scoring", "over"}
    /\ ~ Ready => report = NoReport
    /\ stage = "reviewing" => DOMAIN measured = {} /\ cursor = 1 /\ ~ failed

\* The report is the answer's, whatever was measured of it.
Faithful ==
    Ready =>
        /\ heard \in Answers[plan.model]
        /\ report = [findings |-> report.findings, dropped |-> Reviewed(heard).dropped]
        /\ IsList(report.findings) /\ DOMAIN report.findings = DOMAIN Reviewed(heard).findings
        /\ \A i \in DOMAIN report.findings :
              report.findings[i] = Put(Reviewed(heard).findings[i], report.findings[i].measurement)

\* A finding has the measurement of an experiment about its file.
Settled(f) ==
    f.measurement # {} => /\ Applies(f)
                          /\ Claim(f).metric \in DOMAIN measured
                          /\ f.measurement = {measured[Claim(f).metric]}
Graded ==
    Ready =>
        /\ \A m \in DOMAIN measured : /\ measured[m].experiment = << case, m >>
                                      /\ measured[m].value # {} => m \in Case.scripts
        /\ \A i \in DOMAIN report.findings : Settled(report.findings[i])

\* What the experiments of the cases may come to, case by case.
Scripts == [c \in DOMAIN Cases |-> Cardinality(Cases[c].scripts)]
AllScripts == Sum(Scripts, DOMAIN Cases)
SoFar == Sum(Scripts, 1..(case - 1))

\* What was run and what held, over some of the scores.
ExperimentsIn(all, counted) == Sum([i \in counted |-> all[i].experiments], counted)
HitsIn(all, counted) == Sum([i \in counted |-> all[i].hits], counted)

\* The scores of an arm are of the repeats and cases before the one at hand.
Tallied ==
    /\ IsList(results)
    /\ IsList(scores) /\ Len(scores) = (seed - 1) * Len(Cases) + (case - 1)
    /\ \A i \in DOMAIN scores : /\ scores[i].seed \in 1..seed
                                /\ scores[i].experiments \in Nat /\ scores[i].hits \in Nat
                                /\ scores[i].hits <= scores[i].experiments
    /\ scores # <<>> => scores[1].seed = 1
    /\ ExperimentsIn(scores, DOMAIN scores) <= (seed - 1) * AllScripts + SoFar
    /\ ExperimentsIn(scores, OfSeed(scores, 1)) <= IF seed = 1 THEN SoFar ELSE AllScripts

IInv == Placed /\ Faithful /\ Graded /\ Tallied /\ SummaryIsHonest

\* A finding with a measurement is the finding otherwise.
LEMMA PutIs ==
    ASSUME NEW f, IsFinding(f), NEW known
    PROVE  LET p == Put(f, known) IN
           /\ p.measurement = known
           /\ p.path = f.path /\ p.symbol = f.symbol /\ p.severity = f.severity
           /\ p.says = f.says /\ p.prediction = f.prediction
           /\ \A v : [p EXCEPT !.measurement = v] = Put(f, v)
<1>1. DOMAIN f = {"path", "symbol", "line", "layers", "severity", "says", "arithmetic", "prediction"}
  BY FindingHas
<1>2. PICK p : p = Put(f, known)
  OBVIOUS
<1>3. /\ DOMAIN p = DOMAIN f \cup {"measurement"}
      /\ \A x \in DOMAIN f \cup {"measurement"} : p[x] = IF x = "measurement" THEN known ELSE f[x]
  BY <1>2 DEF Put
<1>4. /\ p.measurement = known
      /\ p.path = f.path /\ p.symbol = f.symbol /\ p.severity = f.severity
      /\ p.says = f.says /\ p.prediction = f.prediction
  BY <1>1, <1>3
<1>5. ASSUME NEW v PROVE [p EXCEPT !.measurement = v] = Put(f, v)
  <2>1. [p EXCEPT !.measurement = v] = [x \in DOMAIN p |-> IF x = "measurement" THEN v ELSE p[x]]
    BY <1>3
  <2>2. Put(f, v) = [x \in DOMAIN p |-> IF x = "measurement" THEN v ELSE f[x]]
    BY <1>3 DEF Put
  <2>3. \A x \in DOMAIN p : x # "measurement" => p[x] = f[x]
    BY <1>3
  <2>. QED  BY <2>1, <2>2, <2>3
<1>. QED  BY <1>2, <1>4, <1>5

\* A report is its findings and what was dropped.
LEMMA ReportShape ==
    ASSUME NEW answer
    PROVE  Reviewed(answer) = [findings |-> Reviewed(answer).findings, dropped |-> Reviewed(answer).dropped]
<1>1. PICK drafts : drafts = Drafts(answer)
  OBVIOUS
<1>2. PICK plain : plain = ToReport(drafts)
  OBVIOUS
<1>3. plain = [findings |-> plain.findings, dropped |-> plain.dropped]
  <2>1. PICK fs : fs = [i \in DOMAIN Kept(drafts, Makes) |-> AsFinding(Kept(drafts, Makes)[i])]
    OBVIOUS
  <2>2. PICK ds : ds = FlattenSeq([i \in DOMAIN drafts |-> DroppedOf(drafts[i])])
    OBVIOUS
  <2>3. plain = [findings |-> fs, dropped |-> ds]
    BY <1>2, <2>1, <2>2 DEF ToReport
  <2>. QED  BY <2>3
<1>4. PICK full : full = Finished(drafts)
  OBVIOUS
<1>5. full = [findings |-> full.findings, dropped |-> full.dropped]
  <2>1. \E fs, ds : full = [findings |-> fs, dropped |-> ds]
    BY <1>4, Zenon DEF Finished
  <2>2. PICK fs, ds : full = [findings |-> fs, dropped |-> ds]
    BY <2>1
  <2>. QED  BY <2>2
<1>6. Reviewed(answer) = IF Arms[arm] = "augury" THEN full ELSE plain
  BY <1>1, <1>2, <1>4 DEF Reviewed
<1>. QED  BY <1>3, <1>5, <1>6

\* Nothing of a report is measured at first.
LEMMA UnmeasuredIs ==
    ASSUME NEW r, r = [findings |-> r.findings, dropped |-> r.dropped], IsList(r.findings),
           NEW u, u = Unmeasured(r)
    PROVE  /\ u = [findings |-> u.findings, dropped |-> r.dropped]
           /\ IsList(u.findings) /\ DOMAIN u.findings = DOMAIN r.findings
           /\ \A i \in DOMAIN u.findings : u.findings[i] = Put(r.findings[i], {})
<1>1. PICK s : s = r.findings
  OBVIOUS
<1>2. PICK t : t = [i \in DOMAIN s |-> Put(s[i], {})]
  OBVIOUS
<1>3. u = [r EXCEPT !.findings = t]
  BY <1>1, <1>2 DEF Unmeasured, Put
<1>4. "findings" \in DOMAIN r /\ "dropped" \in DOMAIN r /\ DOMAIN r = {"findings", "dropped"}
  <2>1. PICK d : d = r.dropped
    OBVIOUS
  <2>2. r = [findings |-> s, dropped |-> d]
    BY <1>1, <2>1
  <2>. QED  BY <2>2
<1>5. u.findings = t /\ u.dropped = r.dropped /\ DOMAIN u = {"findings", "dropped"}
  BY <1>3, <1>4
<1>6. u = [findings |-> t, dropped |-> r.dropped]
  <2>1. PICK d : d = r.dropped
    OBVIOUS
  <2>2. r = [findings |-> s, dropped |-> d]
    BY <1>1, <2>1
  <2>3. [r EXCEPT !.findings = t] = [findings |-> t, dropped |-> d]
    BY <2>2
  <2>. QED  BY <1>3, <2>1, <2>3
<1>7. DOMAIN t = DOMAIN s /\ t = [i \in DOMAIN t |-> t[i]] /\ \A i \in DOMAIN t : t[i] = Put(s[i], {})
  BY <1>2
<1>8. IsList(t)
  <2>1. IsList(s)
    BY <1>1
  <2>. QED  BY <1>7, <2>1, ListOver
<1>. QED  BY <1>1, <1>5, <1>6, <1>7, <1>8

\* What is at hand is findings, measured where an experiment was run.
LEMMA AtHand ==
    ASSUME Placed, Faithful, Ready
    PROVE  /\ IsAnswer(heard) /\ Reports(Reviewed(heard), Drafts(heard), Arms[arm] = "augury")
           /\ \A i \in DOMAIN report.findings :
                 /\ IsFinding(Reviewed(heard).findings[i])
                 /\ Reviewed(heard).findings[i] \in ToSet(Reviewed(heard).findings)
<1>1. plan.model \in DOMAIN Answers
  BY CasesAreRepeated DEF Placed
<1>2. heard \in Answers[plan.model]
  BY DEF Faithful
<1>3. PICK answer : answer = heard
  OBVIOUS
<1>4. IsAnswer(answer)
  BY <1>1, <1>2, <1>3, AnswersAreDrafts DEF IsAnswer
<1>5. Reports(Reviewed(answer), Drafts(answer), Arms[arm] = "augury")
  BY <1>4, ReviewedReports
<1>6. PICK fs : fs = Reviewed(answer).findings
  OBVIOUS
<1>7. \A f \in ToSet(fs) : IsFinding(f)
  BY <1>5, <1>6 DEF Reports, Becomes
<1>8. DOMAIN report.findings = DOMAIN fs
  BY <1>3, <1>6 DEF Faithful
<1>9. \A i \in DOMAIN fs : fs[i] \in ToSet(fs)
  BY DEF ToSet
<1>. QED  BY <1>3, <1>4, <1>5, <1>6, <1>7, <1>8, <1>9

\* Of a case there are at most as many experiments as there are scripts.
LEMMA ExperimentsAre ==
    ASSUME Placed, Faithful, Graded, stage = "scoring"
    PROVE  LET x == Experiments(report.findings)
               h == Hits(report.findings)
           IN  /\ Cardinality(h) \in Nat /\ Cardinality(x) \in Nat
               /\ Cardinality(h) <= Cardinality(x)
               /\ Cardinality(x) <= Cardinality(Cases[case].scripts)
<1>. DEFINE x == Experiments(report.findings)
            h == Hits(report.findings)
<1>1. PICK S : S = Cases[case].scripts
  OBVIOUS
<1>2. IsFiniteSet(S) /\ Cardinality(S) \in Nat
  BY <1>1, CasesAreRepeated, FS_CardinalityType DEF Placed
<1>3. PICK T : T = {<< case, m >> : m \in S}
  OBVIOUS
<1>4. IsFiniteSet(T) /\ Cardinality(T) <= Cardinality(S)
  <2>1. PICK f : f = [m \in S |-> << case, m >>]
    OBVIOUS
  <2>2. f \in Surjection(S, T)
    BY <1>3, <2>1 DEF Surjection
  <2>. QED  BY <1>2, <2>2, FS_Surjection
<1>5. x \subseteq T
  <2>1. SUFFICES ASSUME NEW i \in Tested(report.findings)
                 PROVE  ExperimentOf(report.findings[i]) \in T
    BY DEF Experiments
  <2>2. PICK f : f = report.findings[i]
    OBVIOUS
  <2>3. i \in DOMAIN report.findings /\ VerdictOf(f) \in {"hit", "miss"}
    BY <2>2 DEF Tested
  <2>4. Ready
    <3>1. SUFFICES ASSUME ~ Ready PROVE FALSE
      OBVIOUS
    <3>2. report.findings = <<>>
      BY <3>1 DEF Placed, NoReport
    <3>. QED  BY <2>3, <3>2
  <2>5. Settled(f)
    BY <2>2, <2>3, <2>4 DEF Graded
  <2>6. f.prediction # {} /\ f.measurement # {}
    BY <2>3 DEF VerdictOf
  <2>7. PICK m : m = Claim(f).metric
    OBVIOUS
  <2>8. m \in DOMAIN measured /\ f.measurement = {measured[m]}
    BY <2>5, <2>6, <2>7 DEF Settled
  <2>9. (CHOOSE k \in f.measurement : TRUE) = measured[m]
    BY <2>8
  <2>10. Verdict(Claim(f), measured[m].value) \in {"hit", "miss"}
    <3>1. PICK k : k = CHOOSE q \in f.measurement : TRUE
      OBVIOUS
    <3>2. VerdictOf(f) = Verdict(Claim(f), k.value)
      BY <2>6, <3>1 DEF VerdictOf
    <3>. QED  BY <2>3, <2>9, <3>1, <3>2
  <2>11. measured[m].value # {}
    BY <2>10 DEF Verdict
  <2>12. measured[m].experiment = << case, m >> /\ m \in S
    BY <1>1, <2>4, <2>8, <2>11 DEF Graded, Case
  <2>13. ExperimentOf(f) = << case, m >>
    BY <2>9, <2>12 DEF ExperimentOf
  <2>. QED  BY <1>3, <2>2, <2>12, <2>13
<1>6. h \subseteq x
  BY DEF Hits
<1>. HIDE DEF x, h
<1>7. IsFiniteSet(x) /\ Cardinality(x) <= Cardinality(T)
  BY <1>4, <1>5, FS_Subset
<1>8. IsFiniteSet(h) /\ Cardinality(h) <= Cardinality(x)
  BY <1>6, <1>7, FS_Subset
<1>9. Cardinality(T) \in Nat /\ Cardinality(x) \in Nat /\ Cardinality(h) \in Nat
  BY <1>4, <1>7, <1>8, FS_CardinalityType
<1>10. Cardinality(x) <= Cardinality(S)
  BY <1>2, <1>4, <1>7, <1>9
<1>. QED  BY <1>1, <1>8, <1>9, <1>10 DEF x, h

\* The score that is taken.
LEMMA ScoredIs ==
    ASSUME Placed, Faithful, Graded, stage = "scoring"
    PROVE  /\ Scored.seed = seed /\ Scored.failed = failed
           /\ Scored.experiments \in Nat /\ Scored.hits \in Nat /\ Scored.hits <= Scored.experiments
           /\ Scored.experiments <= Scripts[case]
<1>1. PICK x : x = Cardinality(Experiments(report.findings))
  OBVIOUS
<1>2. PICK h : h = Cardinality(Hits(report.findings))
  OBVIOUS
<1>3. \E seeded, found, observations, falsifiable, tested, broken : Scored =
         [seed |-> seed, seeded |-> seeded, found |-> found, failed |-> failed,
          observations |-> observations, falsifiable |-> falsifiable, testedFindings |-> tested,
          experiments |-> x, hits |-> h, broken |-> broken]
  BY <1>1, <1>2, Zenon DEF Scored, Score
<1>4. Scored.seed = seed /\ Scored.failed = failed /\ Scored.experiments = x /\ Scored.hits = h
  BY <1>3
<1>5. x \in Nat /\ h \in Nat /\ h <= x /\ x <= Cardinality(Cases[case].scripts)
  BY <1>1, <1>2, ExperimentsAre
<1>6. Scripts[case] = Cardinality(Cases[case].scripts)
  BY DEF Scripts, Placed
<1>. QED  BY <1>4, <1>5, <1>6

\* The scripts of the cases up to one, and of all of them.
LEMMA ScriptsUpTo ==
    ASSUME NEW k \in 0..Len(Cases)
    PROVE  /\ Len(Cases) \in Nat \ {0} /\ DOMAIN Cases = 1..Len(Cases)
           /\ Sum(Scripts, 1..k) \in Nat /\ AllScripts \in Nat
           /\ AllScripts = Sum(Scripts, 1..Len(Cases))
           /\ k + 1 \in DOMAIN Cases =>
                 /\ Scripts[k + 1] \in Nat
                 /\ Sum(Scripts, 1..(k + 1)) = Sum(Scripts, 1..k) + Scripts[k + 1]
<1>1. PICK n \in Nat : n = Len(Cases)
  BY CasesAreRepeated, ListHas
<1>2. n # 0 /\ DOMAIN Cases = 1..n
  BY <1>1, CasesAreRepeated, ListHas, ListEmpty
<1>3. PICK f : f = Scripts
  OBVIOUS
<1>4. ASSUME NEW c \in 1..n PROVE f[c] \in Nat
  <2>1. f[c] = Cardinality(Cases[c].scripts)
    BY <1>2, <1>3 DEF Scripts
  <2>2. IsFiniteSet(Cases[c].scripts)
    BY <1>2, CasesAreRepeated
  <2>. QED  BY <2>1, <2>2, FS_CardinalityType
<1>5. ASSUME NEW j \in 0..n PROVE IsFiniteSet(1..j) /\ Sum(f, 1..j) \in Nat
  <2>0. 1 \in Int /\ j \in Int /\ \A c \in 1..j : c \in 1..n
    OBVIOUS
  <2>1. IsFiniteSet(1..j)
    BY <2>0, FS_Interval
  <2>3. \A c \in 1..j : f[c] \in Int /\ f[c] >= 0
    BY <1>4, <2>0
  <2>2. Sum(f, 1..j) \in Int /\ Sum(f, 1..j) >= 0
    BY <2>1, <2>3, SumType
  <2>. QED  BY <2>1, <2>2
<1>6. k \in 0..n /\ n \in 0..n
  BY <1>1
<1>7. AllScripts = Sum(f, 1..n)
  BY <1>2, <1>3 DEF AllScripts
<1>8. ASSUME k + 1 \in 1..n PROVE Sum(f, 1..(k + 1)) = Sum(f, 1..k) + f[k + 1]
  <2>1. PICK S : S = 1..k
    OBVIOUS
  <2>2. PICK y : y = k + 1
    OBVIOUS
  <2>3. 1..(k + 1) = S \cup {y} /\ y \notin S
    BY <1>6, <2>1, <2>2
  <2>4. \A x \in S \cup {y} : f[x] \in Int
    BY <1>4, <1>6, <1>8, <2>1, <2>2
  <2>5. IsFiniteSet(S)
    BY <1>5, <1>6, <2>1
  <2>6. Sum(f, S \cup {y}) = Sum(f, S) + f[y]
    BY <2>3, <2>4, <2>5, SumAdd
  <2>. QED  BY <2>1, <2>2, <2>3, <2>6
<1>9. Sum(f, 1..k) \in Nat /\ Sum(f, 1..n) \in Nat
  BY <1>5, <1>6
<1>. QED  BY <1>1, <1>2, <1>3, <1>4, <1>7, <1>8, <1>9

\* What is taken from the report of an answer is so whatever else moves on.
LEMMA ReviewStays ==
    ASSUME arm' = arm, heard' = heard
    PROVE  Reviewed(heard)' = Reviewed(heard)
BY Zenon DEF Reviewed, Drafts, Together

\* The scores and the summaries are as they were while the loops are.
LEMMA TallyStays ==
    ASSUME Tallied, SummaryIsHonest,
           UNCHANGED << plan, seed, case, scores, results >>
    PROVE  Tallied' /\ SummaryIsHonest'
<1>1. SoFar' = SoFar
  BY DEF SoFar, Scripts
<1>2. Tallied'
  BY <1>1 DEF Tallied, AllScripts, Scripts
<1>3. SummaryIsHonest'
  BY DEF SummaryIsHonest
<1>. QED  BY <1>2, <1>3

\* The command has not reviewed anything.
LEMMA InitHolds == Init => IInv
<1>1. SUFFICES ASSUME Init PROVE IInv
  OBVIOUS
<1>2. /\ plan \in Plans /\ arm = 1 /\ seed = 1 /\ case = 1
      /\ stage = "reviewing"
      /\ heard = <<>> /\ report = NoReport
      /\ cursor = 1 /\ measured = << >> /\ failed = FALSE
      /\ scores = <<>> /\ results = << >>
  BY <1>1 DEF Init
<1>3. ~ Ready
  BY <1>2 DEF Ready
<1>4. case \in DOMAIN Cases /\ seed \in 1..plan.seeds
  BY <1>2, CasesAreRepeated, ListEmpty
<1>5. Placed
  <2>1. DOMAIN measured = {}
    BY <1>2
  <2>2. cursor \in Nat \ {0} /\ stage \in {"reviewing", "measuring", "scoring", "over"}
    BY <1>2
  <2>3. failed \in BOOLEAN
    BY Zenon, <1>2
  <2>. QED  BY <1>2, <1>3, <1>4, <2>1, <2>2, <2>3 DEF Placed
<1>6. Faithful /\ Graded
  BY <1>3 DEF Faithful, Graded
<1>7. SummaryIsHonest
  BY <1>2 DEF SummaryIsHonest
<1>8. Tallied
  <2>1. SoFar = 0
    <3>1. 1..(case - 1) = {}
      BY <1>2
    <3>. QED  BY <3>1, SumEmpty DEF SoFar
  <2>2. IsList(scores) /\ DOMAIN scores = {} /\ Len(scores) = 0
    BY <1>2, ListEmpty DEF IsList
  <2>3. ExperimentsIn(scores, DOMAIN scores) = 0
    BY <2>2, SumEmpty DEF ExperimentsIn
  <2>4. OfSeed(scores, 1) = {}
    BY <2>2 DEF OfSeed
  <2>5. ExperimentsIn(scores, {}) = 0
    BY SumEmpty DEF ExperimentsIn
  <2>6. AllScripts \in Int
    <3>1. 0 \in 0..Len(Cases)
      BY CasesAreRepeated, ListHas
    <3>. QED  BY <3>1, ScriptsUpTo
  <2>7. Len(Cases) \in Int
    BY CasesAreRepeated, ListHas
  <2>8. (seed - 1) * Len(Cases) + (case - 1) = 0
    BY <1>2, <2>7
  <2>9. (seed - 1) * AllScripts + SoFar = 0
    BY <1>2, <2>1, <2>6
  <2>10. ExperimentsIn(scores, OfSeed(scores, 1)) <= IF seed = 1 THEN SoFar ELSE AllScripts
    <3>1. ExperimentsIn(scores, OfSeed(scores, 1)) = 0 /\ seed = 1
      BY <1>2, <2>4, <2>5
    <3>. QED  BY <2>1, <3>1
  <2>. QED  BY <1>2, <2>2, <2>3, <2>8, <2>9, <2>10 DEF Tallied
<1>. QED  BY <1>5, <1>6, <1>7, <1>8 DEF IInv

\* A review is of what a model answers, and nothing of it is measured yet.
LEMMA ReviewHolds == IInv /\ Review => IInv'
<1>1. SUFFICES ASSUME IInv, Review PROVE IInv'
  OBVIOUS
<1>2. Placed /\ Faithful /\ Graded /\ Tallied /\ SummaryIsHonest
  BY <1>1 DEF IInv
<1>3. /\ stage = "reviewing" /\ ~ failed /\ DOMAIN measured = {} /\ cursor = 1
      /\ UNCHANGED << plan, arm, seed, case, cursor, measured, failed, scores, results >>
      /\ stage' \in {"measuring", "scoring"}
  BY <1>1, <1>2 DEF Review, Placed
<1>4. PICK answer \in Answers[plan.model] :
        /\ report' = Unmeasured(Reviewed(answer))
        /\ heard' = answer
  BY <1>1 DEF Review
<1>5. answer \in Answers[plan.model]
  BY <1>4
<1>6. Ready'
  BY <1>3 DEF Ready
<1>7. Placed'
  <2>2. plan' = plan /\ seed' = seed /\ case' = case /\ cursor' = cursor /\ failed' = failed
        /\ stage' # "reviewing" /\ stage' \in {"reviewing", "measuring", "scoring", "over"}
    BY <1>3
  <2>3. plan \in Plans /\ seed \in 1..plan.seeds /\ case \in DOMAIN Cases
        /\ cursor \in Nat \ {0} /\ failed \in BOOLEAN
    BY <1>2 DEF Placed
  <2>. QED  BY <1>6, <2>2, <2>3 DEF Placed
<1>8. PICK r : r = Reviewed(answer)
  OBVIOUS
<1>9. PICK u : u = report'
  OBVIOUS
<1>10. /\ u = [findings |-> u.findings, dropped |-> r.dropped]
       /\ IsList(u.findings) /\ DOMAIN u.findings = DOMAIN r.findings
       /\ \A i \in DOMAIN u.findings : u.findings[i] = Put(r.findings[i], {})
  <2>1. r = [findings |-> r.findings, dropped |-> r.dropped]
    BY <1>8, ReportShape
  <2>2. plan.model \in DOMAIN Answers
    BY <1>2, CasesAreRepeated DEF Placed
  <2>3. IsAnswer(answer)
    BY <1>5, <2>2, AnswersAreDrafts DEF IsAnswer
  <2>4. IsList(r.findings)
    BY <1>8, <2>3, ReviewedReports DEF Reports
  <2>5. u = Unmeasured(r)
    BY <1>4, <1>8, <1>9
  <2>. QED  BY <2>1, <2>4, <2>5, UnmeasuredIs
<1>11. Reviewed(heard)' = r
  BY Zenon, <1>3, <1>4, <1>8 DEF Reviewed, Drafts, Together
<1>12. \A i \in DOMAIN u.findings : u.findings[i].measurement = {}
  <2>1. TAKE i \in DOMAIN u.findings
  <2>2. PICK f : f = r.findings[i]
    OBVIOUS
  <2>3. u.findings[i] = Put(f, {})
    BY <1>10, <2>2
  <2>4. Put(f, {}).measurement = {}
    BY DEF Put
  <2>. QED  BY <2>3, <2>4
<1>13. Faithful'
  <2>1. heard' \in Answers[plan.model]' /\ plan' = plan
    BY <1>3, <1>4, <1>5
  <2>2. u = [findings |-> u.findings, dropped |-> r.dropped]
        /\ IsList(u.findings) /\ DOMAIN u.findings = DOMAIN r.findings
    BY <1>10
  <2>3. \A i \in DOMAIN u.findings : u.findings[i] = Put(r.findings[i], u.findings[i].measurement)
    <3>1. TAKE i \in DOMAIN u.findings
    <3>. QED  BY <1>10, <1>12
  <2>. QED  BY <1>9, <1>11, <2>1, <2>2, <2>3 DEF Faithful
<1>14. Graded'
  <2>1. DOMAIN measured' = {}
    BY <1>3
  <2>2. \A i \in DOMAIN u.findings : Settled(u.findings[i])'
    BY <1>9, <1>12 DEF Settled
  <2>. QED  BY <1>9, <2>1, <2>2 DEF Graded
<1>15. Tallied' /\ SummaryIsHonest'
  BY <1>2, <1>3, TallyStays
<1>. QED  BY <1>7, <1>13, <1>14, <1>15 DEF IInv

\* A review that raises leaves no report.
LEMMA CrashHolds == IInv /\ Crash => IInv'
<1>1. SUFFICES ASSUME IInv, Crash PROVE IInv'
  OBVIOUS
<1>2. Placed /\ Faithful /\ Graded /\ Tallied /\ SummaryIsHonest
  BY <1>1 DEF IInv
<1>3. /\ stage = "reviewing" /\ report' = NoReport /\ failed' = TRUE /\ stage' = "scoring"
      /\ UNCHANGED << plan, arm, seed, case, heard, cursor, measured, scores, results >>
  BY <1>1 DEF Crash
<1>4. ~ Ready'
  BY <1>3 DEF Ready
<1>5. Placed'
  <2>1. plan \in Plans /\ seed \in 1..plan.seeds /\ case \in DOMAIN Cases /\ cursor \in Nat \ {0}
    BY <1>2 DEF Placed
  <2>2. failed' \in BOOLEAN
    BY Zenon, <1>3
  <2>3. stage' # "reviewing" /\ stage' \in {"reviewing", "measuring", "scoring", "over"}
    BY <1>3
  <2>. QED  BY <1>3, <1>4, <2>1, <2>2, <2>3 DEF Placed, NoReport
<1>6. Faithful' /\ Graded'
  BY <1>4 DEF Faithful, Graded
<1>7. Tallied' /\ SummaryIsHonest'
  BY <1>2, <1>3, TallyStays
<1>. QED  BY <1>5, <1>6, <1>7 DEF IInv

\* When all is measured the report is what it was.
LEMMA AllMeasuredHolds == IInv /\ AllMeasured => IInv'
<1>1. SUFFICES ASSUME IInv, AllMeasured PROVE IInv'
  OBVIOUS
<1>2. Placed /\ Faithful /\ Graded /\ Tallied /\ SummaryIsHonest
  BY <1>1 DEF IInv
<1>3. /\ stage = "measuring" /\ stage' = "scoring"
      /\ UNCHANGED << plan, arm, seed, case, heard, report, cursor, measured, failed,
                      scores, results >>
  BY <1>1 DEF AllMeasured
<1>4. Ready' = Ready
  BY <1>3 DEF Ready
<1>5. Placed'
  <2>1. stage' # "reviewing" /\ stage' \in {"reviewing", "measuring", "scoring", "over"}
    BY <1>3
  <2>. QED  BY <1>2, <1>3, <1>4, <2>1 DEF Placed, NoReport
<1>6. Faithful'
  <2>1. Reviewed(heard)' = Reviewed(heard)
    BY <1>3, ReviewStays
  <2>. QED  BY <1>2, <1>3, <1>4, <2>1 DEF Faithful
<1>7. Graded'
  BY <1>2, <1>3, <1>4 DEF Graded, Settled, Applies, Locations, Case
<1>8. Tallied' /\ SummaryIsHonest'
  BY <1>2, <1>3, TallyStays
<1>. QED  BY <1>5, <1>6, <1>7, <1>8 DEF IInv

\* The measurements there are stay, and one more is an experiment of the case.
LEMMA MeasuresAre ==
    ASSUME NEW f, NEW known \in Measures(f), NEW m, m = Claim(f).metric,
           \A k \in DOMAIN measured : /\ measured[k].experiment = << case, k >>
                                      /\ measured[k].value # {} => k \in Case.scripts
    PROVE  /\ m \in DOMAIN known
           /\ \A k \in DOMAIN measured : k \in DOMAIN known /\ known[k] = measured[k]
           /\ \A k \in DOMAIN known : /\ known[k].experiment = << case, k >>
                                      /\ known[k].value # {} => k \in Case.scripts
<1>1. CASE m \in DOMAIN measured
  <2>1. known = measured
    BY <1>1 DEF Measures
  <2>. QED  BY <1>1, <2>1
<1>2. CASE m \notin DOMAIN measured
  <2>1. PICK v \in Proofs(m) : known = With(m, v)
    BY <1>2 DEF Measures
  <2>2. PICK new : new = [value |-> v, experiment |-> << case, m >>]
    OBVIOUS
  <2>3. known = [k \in DOMAIN measured \cup {m} |-> IF k = m THEN new ELSE measured[k]]
    BY <2>1, <2>2 DEF With
  <2>4. new.experiment = << case, m >> /\ new.value = v
    BY <2>2
  <2>5. v # {} => m \in Case.scripts
    BY DEF Proofs
  <2>6. DOMAIN known = DOMAIN measured \cup {m} /\ known[m] = new
        /\ \A k \in DOMAIN measured : known[k] = measured[k]
    BY <1>2, <2>3
  <2>. QED  BY <2>4, <2>5, <2>6
<1>. QED  BY <1>1, <1>2

\* A finding is measured by an experiment about its file, as those before it.
LEMMA MeasureHolds == IInv /\ Measure => IInv'
<1>1. SUFFICES ASSUME IInv, Measure PROVE IInv'
  OBVIOUS
<1>2. Placed /\ Faithful /\ Graded /\ Tallied /\ SummaryIsHonest
  BY <1>1 DEF IInv
<1>3. /\ stage = "measuring" /\ cursor <= Len(report.findings)
      /\ cursor' = cursor + 1
      /\ UNCHANGED << plan, arm, seed, case, stage, heard, failed, scores, results >>
  BY <1>1 DEF Measure
<1>4. PICK fs : fs = report.findings
  OBVIOUS
<1>5. Ready
  <2>1. SUFFICES ASSUME ~ Ready PROVE FALSE
    OBVIOUS
  <2>2. Len(report.findings) = 0 /\ cursor \in Nat \ {0}
    BY <1>2, <2>1 DEF Placed, NoReport
  <2>. QED  BY <1>3, <2>2
<1>6. Ready'
  BY <1>3, <1>5 DEF Ready
<1>7. IsList(fs) /\ cursor \in DOMAIN fs
  <2>1. IsList(fs)
    BY <1>2, <1>4, <1>5 DEF Faithful
  <2>2. DOMAIN fs = 1..Len(fs) /\ cursor \in Nat \ {0}
    BY <1>2, <2>1, ListHas DEF Placed
  <2>. QED  BY <1>3, <1>4, <2>1, <2>2
<1>8. Placed'
  <2>1. cursor' \in Nat \ {0}
    BY <1>2, <1>3 DEF Placed
  <2>. QED  BY <1>2, <1>3, <1>6, <2>1 DEF Placed
<1>9. Tallied' /\ SummaryIsHonest'
  BY <1>2, <1>3, TallyStays
<1>10. PICK r : r = Reviewed(heard)
  OBVIOUS
<1>11. Reviewed(heard)' = r
  BY <1>3, <1>10, ReviewStays
<1>12. /\ heard \in Answers[plan.model]
       /\ report = [findings |-> fs, dropped |-> r.dropped]
       /\ DOMAIN fs = DOMAIN r.findings
       /\ \A i \in DOMAIN fs : fs[i] = Put(r.findings[i], fs[i].measurement)
  BY <1>2, <1>4, <1>5, <1>10 DEF Faithful
<1>13. /\ \A m \in DOMAIN measured : /\ measured[m].experiment = << case, m >>
                                     /\ measured[m].value # {} => m \in Case.scripts
       /\ \A i \in DOMAIN fs : Settled(fs[i])
  BY <1>2, <1>4, <1>5 DEF Graded
<1>14. PICK f : f = fs[cursor]
  OBVIOUS
<1>15. CASE ~ Applies(f)
  <2>1. report' = report /\ measured' = measured
    BY <1>1, <1>4, <1>14, <1>15 DEF Measure
  <2>2. Faithful'
    BY <1>2, <1>3, <1>5, <1>10, <1>11, <2>1 DEF Faithful
  <2>3. Graded'
    BY <1>2, <1>3, <1>5, <2>1 DEF Graded, Settled, Applies, Locations, Case
  <2>. QED  BY <1>2, <1>8, <1>9, <2>2, <2>3 DEF IInv
<1>16. CASE Applies(f)
  <2>1. PICK m : m = Claim(f).metric
    OBVIOUS
  <2>2. PICK known \in Measures(f) :
           /\ measured' = known
           /\ report' = [report EXCEPT !.findings[cursor].measurement = {known[Claim(f).metric]}]
    BY <1>1, <1>4, <1>14, <1>16 DEF Measure
  <2>3. /\ m \in DOMAIN known
        /\ \A k \in DOMAIN measured : k \in DOMAIN known /\ known[k] = measured[k]
        /\ \A k \in DOMAIN known : /\ known[k].experiment = << case, k >>
                                   /\ known[k].value # {} => k \in Case.scripts
    BY <1>13, <2>1, MeasuresAre
  <2>4. PICK g : g = [f EXCEPT !.measurement = {known[m]}]
    OBVIOUS
  <2>5. PICK gs : gs = [fs EXCEPT ![cursor] = g]
    OBVIOUS
  <2>6. report' = [findings |-> gs, dropped |-> r.dropped]
    <3>1. report' = [report EXCEPT !.findings = [fs EXCEPT ![cursor] = [f EXCEPT !.measurement = {known[m]}]]]
      BY <1>4, <1>14, <2>1, <2>2
    <3>2. PICK d : d = r.dropped
      OBVIOUS
    <3>3. report = [findings |-> fs, dropped |-> d]
      BY <1>12, <3>2
    <3>4. report' = [report EXCEPT !.findings = gs]
      BY <2>4, <2>5, <3>1
    <3>. QED  BY <3>2, <3>3, <3>4
  <2>7. DOMAIN gs = DOMAIN fs /\ gs[cursor] = g /\ (\A i \in DOMAIN fs : i # cursor => gs[i] = fs[i])
        /\ gs = [i \in DOMAIN gs |-> gs[i]]
    BY <1>7, <2>5
  <2>8. IsList(gs)
    BY <1>7, <2>7, ListOver
  <2>9. PICK F : F = r.findings[cursor]
    OBVIOUS
  <2>10. IsFinding(F) /\ f = Put(F, f.measurement)
    BY <1>2, <1>4, <1>5, <1>7, <1>10, <1>12, <1>14, <2>9, AtHand
  <2>11. g = Put(F, {known[m]}) /\ g.measurement = {known[m]}
         /\ g.path = f.path /\ g.prediction = f.prediction
    <3>1. PICK x : x = f.measurement
      OBVIOUS
    <3>2. PICK y : y = {known[m]}
      OBVIOUS
    <3>3. f.path = F.path /\ f.prediction = F.prediction /\ [f EXCEPT !.measurement = y] = Put(F, y)
      BY <2>10, <3>1, PutIs
    <3>4. Put(F, y).path = F.path /\ Put(F, y).prediction = F.prediction /\ Put(F, y).measurement = y
      BY <2>10, PutIs
    <3>. QED  BY <2>4, <3>2, <3>3, <3>4
  <2>12. Faithful'
    <3>1. \A i \in DOMAIN gs : gs[i] = Put(r.findings[i], gs[i].measurement)
      <4>1. TAKE i \in DOMAIN gs
      <4>2. CASE i = cursor
        BY <2>7, <2>9, <2>11, <4>2
      <4>3. CASE i # cursor
        BY <1>12, <2>7, <4>3
      <4>. QED  BY <4>2, <4>3
    <3>2. report'.findings = gs /\ report' = [findings |-> gs, dropped |-> r.dropped]
      BY <2>6
    <3>. QED  BY <1>3, <1>11, <1>12, <2>7, <2>8, <3>1, <3>2 DEF Faithful
  <2>13. Graded'
    <3>1. ASSUME NEW i \in DOMAIN gs PROVE Settled(gs[i])'
      <4>1. PICK h : h = gs[i]
        OBVIOUS
      <4>2. CASE i = cursor
        <5>1. h = g
          BY <2>7, <4>1, <4>2
        <5>2. Claim(h) = Claim(f)
          BY <2>11, <5>1 DEF Claim
        <5>3. Applies(h)
          BY <1>16, <2>11, <5>1, <5>2 DEF Applies
        <5>4. Applies(h)'
          BY <1>3, <5>3 DEF Applies, Locations, Case
        <5>. QED  BY <2>1, <2>2, <2>3, <2>11, <4>1, <5>1, <5>2, <5>4 DEF Settled
      <4>3. CASE i # cursor
        <5>1. h = fs[i] /\ Settled(h)
          BY <1>13, <2>7, <4>1, <4>3
        <5>2. SUFFICES ASSUME h.measurement # {} PROVE Settled(h)'
          BY <4>1 DEF Settled
        <5>3. Applies(h) /\ Claim(h).metric \in DOMAIN measured /\ h.measurement = {measured[Claim(h).metric]}
          BY <5>1, <5>2 DEF Settled
        <5>4. Applies(h)'
          BY <1>3, <5>3 DEF Applies, Locations, Case
        <5>5. Claim(h).metric \in DOMAIN known /\ h.measurement = {known[Claim(h).metric]}
          BY <2>3, <5>3
        <5>. QED  BY <2>2, <5>4, <5>5 DEF Settled
      <4>. QED  BY <4>2, <4>3
    <3>2. report'.findings = gs
      BY <2>6
    <3>3. Case' = Case
      BY <1>3 DEF Case
    <3>. QED  BY <1>3, <2>2, <2>3, <3>1, <3>2, <3>3 DEF Graded
  <2>. QED  BY <1>2, <1>8, <1>9, <2>12, <2>13 DEF IInv
<1>. QED  BY <1>15, <1>16

\* Scores with another behind them.
IsCounted(s) == IsList(s) /\ \A i \in DOMAIN s : s[i].experiments \in Int
IsMore(t, s, x) == t = Append(s, x) /\ IsCounted(s) /\ x.experiments \in Int

\* t is s with x at place k behind it.
Behind(t, s, x, S, k) ==
    /\ IsList(t) /\ Len(t) = k /\ Len(s) \in Nat
    /\ DOMAIN t = DOMAIN s \cup {k} /\ k \notin DOMAIN s
    /\ t[k] = x /\ \A i \in DOMAIN s : t[i] = s[i]
    /\ ExperimentsIn(s, S) \in Int
    /\ ExperimentsIn(t, S) = ExperimentsIn(s, S)
    /\ ExperimentsIn(t, S \cup {k}) = ExperimentsIn(s, S) + x.experiments

\* One score behind the others.
LEMMA OneMore ==
    ASSUME NEW s, NEW x, NEW t, IsMore(t, s, x), NEW S, S \subseteq DOMAIN s, NEW k, k = Len(s) + 1
    PROVE  Behind(t, s, x, S, k)
<1>0. t = Append(s, x) /\ IsList(s) /\ x.experiments \in Int
      /\ \A i \in DOMAIN s : s[i].experiments \in Int
  BY DEF IsMore, IsCounted
<1>1. PICK n \in Nat : n = Len(s)
  BY <1>0, ListHas
<1>2. DOMAIN s = 1..n /\ IsFiniteSet(DOMAIN s)
  BY <1>0, <1>1, ListHas
<1>3. PICK T : T = ToSet(s) \cup {x}
  OBVIOUS
<1>4. s \in Seq(T)
  <2>1. \A i \in DOMAIN s : s[i] \in T
    BY <1>0, <1>3, ListHas
  <2>. QED  BY <1>0, <2>1, ListHas
<1>5. t \in Seq(T) /\ Len(t) = n + 1 /\ DOMAIN t = 1..(n + 1) /\ t[n + 1] = x
      /\ \A i \in 1..n : t[i] = s[i]
  BY <1>0, <1>1, <1>2, <1>3, <1>4
<1>6. IsList(t)
  BY <1>5, ListIs
<1>7. k = n + 1
  BY <1>1
<1>8. IsFiniteSet(S) /\ k \notin S /\ k \notin DOMAIN s /\ DOMAIN t = DOMAIN s \cup {k}
  <2>1. IsFiniteSet(S)
    BY <1>2, FS_Subset
  <2>2. k \notin 1..n /\ 1..(n + 1) = 1..n \cup {k}
    BY <1>7
  <2>. QED  BY <1>2, <1>5, <2>1, <2>2
<1>9. PICK f : f = [i \in S |-> s[i].experiments]
  OBVIOUS
<1>10. PICK g : g = [i \in S |-> t[i].experiments]
  OBVIOUS
<1>11. PICK h : h = [i \in S \cup {k} |-> t[i].experiments]
  OBVIOUS
<1>12. /\ \A i \in S : f[i] = g[i] /\ g[i] = h[i] /\ f[i] \in Int /\ h[i] \in Int
       /\ h[k] = x.experiments
  BY <1>0, <1>2, <1>5, <1>7, <1>9, <1>10, <1>11
<1>13. Sum(f, S) \in Int
  BY <1>8, <1>12, SumType
<1>14. Sum(g, S) = Sum(f, S)
  BY <1>8, <1>12, SumSame
<1>15. Sum(h, S) = Sum(f, S)
  BY <1>8, <1>12, SumSame
<1>16. Sum(h, S \cup {k}) = Sum(h, S) + h[k]
  <2>1. \A i \in S \cup {k} : h[i] \in Int
    BY <1>0, <1>12
  <2>. QED  BY <1>8, <2>1, SumAdd
<1>17. ExperimentsIn(s, S) = Sum(f, S) /\ ExperimentsIn(t, S) = Sum(g, S)
       /\ ExperimentsIn(t, S \cup {k}) = Sum(h, S \cup {k})
  BY <1>9, <1>10, <1>11 DEF ExperimentsIn
<1>18. ExperimentsIn(t, S \cup {k}) = ExperimentsIn(s, S) + x.experiments
  BY <1>12, <1>15, <1>16, <1>17
<1>. QED  BY <1>1, <1>2, <1>5, <1>6, <1>7, <1>8, <1>13, <1>14, <1>17, <1>18 DEF Behind

\* The scores with the one that is taken.
Taken(all) == all = Append(scores, Scored)

\* They are those of the repeats and cases up to the one at hand.
LEMMA TakenAre ==
    ASSUME IInv, stage = "scoring", NEW all, Taken(all)
    PROVE  /\ IsList(all) /\ all # <<>> /\ all[1].seed = 1
           /\ Len(all) = (seed - 1) * Len(Cases) + case
           /\ \A i \in DOMAIN all : /\ all[i].seed \in 1..seed
                                    /\ all[i].experiments \in Nat /\ all[i].hits \in Nat
                                    /\ all[i].hits <= all[i].experiments
           /\ ExperimentsIn(all, DOMAIN all) <= (seed - 1) * AllScripts + Sum(Scripts, 1..case)
           /\ ExperimentsIn(all, OfSeed(all, 1))
                <= IF seed = 1 THEN Sum(Scripts, 1..case) ELSE AllScripts
           /\ ExperimentsIn(all, DOMAIN all) \in Int /\ ExperimentsIn(all, OfSeed(all, 1)) \in Int
           /\ seed \in Nat \ {0} /\ case \in 1..Len(Cases)
<1>1. Placed /\ Faithful /\ Graded /\ Tallied
  BY DEF IInv
<1>2. PICK x : x = Scored
  OBVIOUS
<1>3. /\ x.seed = seed /\ x.experiments \in Nat /\ x.hits \in Nat /\ x.hits <= x.experiments
      /\ x.experiments <= Scripts[case]
  BY <1>1, <1>2, ScoredIs
<1>4. /\ IsList(scores) /\ Len(scores) = (seed - 1) * Len(Cases) + (case - 1)
      /\ \A i \in DOMAIN scores : /\ scores[i].seed \in 1..seed
                                  /\ scores[i].experiments \in Nat /\ scores[i].hits \in Nat
                                  /\ scores[i].hits <= scores[i].experiments
      /\ scores # <<>> => scores[1].seed = 1
      /\ ExperimentsIn(scores, DOMAIN scores) <= (seed - 1) * AllScripts + SoFar
      /\ ExperimentsIn(scores, OfSeed(scores, 1)) <= IF seed = 1 THEN SoFar ELSE AllScripts
  BY <1>1 DEF Tallied
<1>5. PICK s : s = scores
  OBVIOUS
<1>6. PICK N \in Nat : N = Len(Cases)
  BY CasesAreRepeated, ListHas
<1>7. case \in 1..N /\ seed \in Nat \ {0}
  <2>1. DOMAIN Cases = 1..N
    BY <1>6, CasesAreRepeated, ListHas
  <2>2. case \in DOMAIN Cases /\ seed \in 1..plan.seeds /\ plan.seeds \in Nat
    BY <1>1, CasesAreRepeated DEF Placed
  <2>. QED  BY <2>1, <2>2
<1>8. PICK before \in Nat : before = SoFar
  <2>1. case - 1 \in 0..Len(Cases)
    BY <1>6, <1>7
  <2>. QED  BY <2>1, ScriptsUpTo DEF SoFar
<1>9. PICK with \in Nat : with = Sum(Scripts, 1..case)
  <2>1. case \in 0..Len(Cases)
    BY <1>6, <1>7
  <2>. QED  BY <2>1, ScriptsUpTo
<1>10. with = before + Scripts[case] /\ Scripts[case] \in Nat /\ AllScripts \in Nat
  <2>1. PICK k : k = case - 1
    OBVIOUS
  <2>2. k \in 0..Len(Cases) /\ k + 1 \in 1..Len(Cases) /\ k + 1 = case
    BY <1>6, <1>7, <2>1
  <2>3. DOMAIN Cases = 1..Len(Cases)
    BY <2>2, ScriptsUpTo
  <2>4. AllScripts \in Nat /\ Scripts[k + 1] \in Nat
        /\ Sum(Scripts, 1..(k + 1)) = Sum(Scripts, 1..k) + Scripts[k + 1]
    BY <2>2, <2>3, ScriptsUpTo
  <2>. QED  BY <1>8, <1>9, <2>1, <2>2, <2>4 DEF SoFar
<1>11. PICK S : S = OfSeed(s, 1)
  OBVIOUS
<1>12. S \subseteq DOMAIN s
  BY <1>11 DEF OfSeed
<1>13. PICK k : k = Len(s) + 1
  OBVIOUS
<1>14. IsMore(all, s, x)
  BY <1>2, <1>3, <1>4, <1>5 DEF IsMore, IsCounted, Taken
<1>15. /\ IsList(all) /\ Len(all) = k /\ Len(s) \in Nat
       /\ DOMAIN all = DOMAIN s \cup {k} /\ k \notin DOMAIN s
       /\ all[k] = x /\ \A i \in DOMAIN s : all[i] = s[i]
  <2>1. S \subseteq DOMAIN s
    BY <1>12
  <2>2. Behind(all, s, x, S, k)
    BY <1>13, <1>14, <2>1, OneMore
  <2>. QED  BY <2>2 DEF Behind
<1>16. /\ ExperimentsIn(s, DOMAIN s) \in Int
       /\ ExperimentsIn(all, DOMAIN all) = ExperimentsIn(s, DOMAIN s) + x.experiments
  <2>1. PICK T : T = DOMAIN s
    OBVIOUS
  <2>2. T \subseteq DOMAIN s
    BY <2>1
  <2>3. Behind(all, s, x, T, k)
    BY <1>13, <1>14, <2>2, OneMore
  <2>. QED  BY <1>15, <2>1, <2>3 DEF Behind
<1>17. /\ ExperimentsIn(s, S) \in Int
       /\ ExperimentsIn(all, S) = ExperimentsIn(s, S)
       /\ ExperimentsIn(all, S \cup {k}) = ExperimentsIn(s, S) + x.experiments
  <2>1. S \subseteq DOMAIN s
    BY <1>12
  <2>2. Behind(all, s, x, S, k)
    BY <1>13, <1>14, <2>1, OneMore
  <2>. QED  BY <2>2 DEF Behind
<1>18. OfSeed(all, 1) = IF seed = 1 THEN S \cup {k} ELSE S
  <2>1. OfSeed(all, 1) = {i \in DOMAIN s \cup {k} : all[i].seed = 1}
    BY <1>15 DEF OfSeed
  <2>2. S = {i \in DOMAIN s : all[i].seed = 1}
    BY <1>11, <1>15 DEF OfSeed
  <2>. QED  BY <1>3, <1>15, <2>1, <2>2
<1>19. Len(all) = (seed - 1) * Len(Cases) + case
  <2>1. PICK y \in Int : y = (seed - 1) * Len(Cases)
    BY <1>6, <1>7
  <2>2. Len(all) = y + (case - 1) + 1
    BY <1>4, <1>5, <1>13, <1>15, <2>1
  <2>. QED  BY <1>7, <2>1, <2>2
<1>20. all[1].seed = 1
  <2>1. CASE s # <<>>
    <3>1. 1 \in DOMAIN s
      BY <1>4, <1>5, <2>1, ListEmpty
    <3>. QED  BY <1>4, <1>5, <1>15, <2>1, <3>1
  <2>2. CASE s = <<>>
    <3>1. Len(s) = 0 /\ k = 1
      BY <1>13, <2>2
    <3>2. (seed - 1) * N + (case - 1) = 0
      BY <1>4, <1>5, <1>6, <3>1
    <3>3. seed = 1
      <4>1. PICK a \in Nat : a = seed - 1
        BY <1>7
      <4>2. a * N \in Nat /\ (a # 0 => a * N > 0) /\ a * N + (case - 1) = 0
        BY <1>7, <3>2, <4>1
      <4>. QED  BY <1>7, <4>1, <4>2
    <3>. QED  BY <1>3, <1>15, <3>1, <3>3
  <2>. QED  BY <2>1, <2>2
<1>21. \A i \in DOMAIN all : /\ all[i].seed \in 1..seed
                             /\ all[i].experiments \in Nat /\ all[i].hits \in Nat
                             /\ all[i].hits <= all[i].experiments
  <2>1. SUFFICES ASSUME NEW i \in DOMAIN all
                 PROVE  /\ all[i].seed \in 1..seed
                        /\ all[i].experiments \in Nat /\ all[i].hits \in Nat
                        /\ all[i].hits <= all[i].experiments
    OBVIOUS
  <2>2. CASE i = k
    BY <1>3, <1>7, <1>15, <2>2
  <2>3. CASE i # k
    BY <1>4, <1>5, <1>15, <2>3
  <2>. QED  BY <2>2, <2>3
<1>22. ExperimentsIn(all, DOMAIN all) <= (seed - 1) * AllScripts + with
       /\ ExperimentsIn(all, DOMAIN all) \in Int
  <2>1. PICK y \in Int : y = (seed - 1) * AllScripts
    BY <1>7, <1>10
  <2>2. ExperimentsIn(s, DOMAIN s) <= y + before
    BY <1>4, <1>5, <1>8, <2>1
  <2>. QED  BY <1>3, <1>10, <1>16, <2>1, <2>2
<1>23. /\ ExperimentsIn(all, OfSeed(all, 1)) <= IF seed = 1 THEN with ELSE AllScripts
       /\ ExperimentsIn(all, OfSeed(all, 1)) \in Int
  <2>1. CASE seed = 1
    <3>1. ExperimentsIn(s, S) <= before
      BY <1>4, <1>5, <1>8, <1>11, <2>1
    <3>2. ExperimentsIn(all, OfSeed(all, 1)) = ExperimentsIn(s, S) + x.experiments
      BY <1>17, <1>18, <2>1
    <3>. QED  BY <1>3, <1>10, <1>17, <2>1, <3>1, <3>2
  <2>2. CASE seed # 1
    BY <1>4, <1>5, <1>11, <1>17, <1>18, <2>2
  <2>. QED  BY <2>1, <2>2
<1>24. all # <<>>
  <2>1. DOMAIN all # {}
    BY <1>15
  <2>. QED  BY <2>1
<1>. QED  BY <1>6, <1>7, <1>9, <1>15, <1>19, <1>20, <1>21, <1>22, <1>23, <1>24

\* What a summary says of the scores of an arm.
LEMMA SummaryIs ==
    ASSUME NEW all, NEW independent
    PROVE  LET r == Summarise(all, independent)
               C == Counted(all, independent)
           IN  /\ r.hits = HitsIn(all, C) /\ r.experiments = ExperimentsIn(all, C)
               /\ r.failed = Failed(all)
               /\ ~ Failed(all) < Len(all) => r.low = {} /\ r.high = {}
<1>1. PICK C : C = Counted(all, independent)
  OBVIOUS
<1>2. PICK a : a = Aggregate(all, C)
  OBVIOUS
<1>3. \E d, p, r, c : a = [detectionRate |-> d, precision |-> p, hits |-> HitsIn(all, C),
                           experiments |-> ExperimentsIn(all, C), hitRate |-> r, coverage |-> c]
  BY <1>2, Zenon DEF Aggregate, Total, HitsIn, ExperimentsIn
<1>4. a.hits = HitsIn(all, C) /\ a.experiments = ExperimentsIn(all, C)
  BY <1>3
<1>5. PICK recalls : recalls = UNION { Aggregate(all, OfSeed(all, n)).detectionRate : n \in Seeds(all) }
  OBVIOUS
<1>6. PICK known : known = IF Failed(all) < Len(all) THEN recalls ELSE {}
  OBVIOUS
<1>7. PICK r : r = Summarise(all, independent)
  OBVIOUS
<1>8. \E i, n, rs, rate, c :
        r = [independent |-> i, seeds |-> n, failed |-> Failed(all), recalls |-> rs,
             low |-> { q \in known : \A o \in known : ~ Less(o, q) },
             high |-> { q \in known : \A o \in known : ~ Less(q, o) },
             hits |-> a.hits, experiments |-> a.experiments, hitRate |-> rate, coverage |-> c]
  BY <1>1, <1>2, <1>5, <1>6, <1>7, Zenon DEF Summarise
<1>9. /\ r.failed = Failed(all) /\ r.hits = a.hits /\ r.experiments = a.experiments
      /\ r.low = { q \in known : \A o \in known : ~ Less(o, q) }
      /\ r.high = { q \in known : \A o \in known : ~ Less(q, o) }
  BY <1>8
<1>10. ~ Failed(all) < Len(all) => known = {}
  BY <1>6
<1>. QED  BY <1>1, <1>4, <1>7, <1>9, <1>10

\* A summary of an arm that is through is honest.
LEMMA ThroughIsHonest ==
    ASSUME IInv, stage = "scoring", NEW all, Taken(all), LastCase, LastSeed,
           NEW r, r = Summarise(all, plan.independent)
    PROVE  /\ r.hits <= r.experiments
           /\ r.experiments <= (IF plan.independent THEN plan.seeds ELSE 1) * AllScripts
           /\ r.failed = plan.seeds * Len(Cases) => r.low = {} /\ r.high = {}
<1>1. PICK N : N = Len(Cases)
  OBVIOUS
<1>2. PICK A : A = AllScripts
  OBVIOUS
<1>3. /\ IsList(all) /\ all # <<>> /\ all[1].seed = 1
      /\ Len(all) = (seed - 1) * Len(Cases) + case
      /\ \A i \in DOMAIN all : /\ all[i].experiments \in Nat /\ all[i].hits \in Nat
                               /\ all[i].hits <= all[i].experiments
      /\ ExperimentsIn(all, DOMAIN all) <= (seed - 1) * AllScripts + Sum(Scripts, 1..case)
      /\ ExperimentsIn(all, OfSeed(all, 1))
           <= IF seed = 1 THEN Sum(Scripts, 1..case) ELSE AllScripts
      /\ seed \in Nat \ {0} /\ case \in 1..Len(Cases)
  BY TakenAre
<1>4. case = N /\ seed = plan.seeds
  BY <1>1 DEF LastCase, LastSeed
<1>5. N \in Nat /\ A \in Nat /\ Sum(Scripts, 1..N) = A
  <2>1. 0 \in 0..Len(Cases)
    BY CasesAreRepeated, ListHas
  <2>. QED  BY <1>1, <1>2, <2>1, ScriptsUpTo
<1>6. PICK C : C = Counted(all, plan.independent)
  OBVIOUS
<1>7. C = IF plan.independent THEN DOMAIN all ELSE OfSeed(all, 1)
  BY <1>3, <1>6 DEF Counted
<1>8. IsFiniteSet(C) /\ C \subseteq DOMAIN all
  <2>1. C \subseteq DOMAIN all
    BY <1>7 DEF OfSeed
  <2>2. IsFiniteSet(DOMAIN all)
    BY <1>3, ListHas
  <2>. QED  BY <2>1, <2>2, FS_Subset
<1>9. /\ r.hits = HitsIn(all, C) /\ r.experiments = ExperimentsIn(all, C)
      /\ r.failed = Failed(all)
      /\ ~ Failed(all) < Len(all) => r.low = {} /\ r.high = {}
  BY <1>6, SummaryIs
<1>10. HitsIn(all, C) <= ExperimentsIn(all, C)
  <2>1. PICK f : f = [i \in C |-> all[i].hits]
    OBVIOUS
  <2>2. PICK g : g = [i \in C |-> all[i].experiments]
    OBVIOUS
  <2>3. \A i \in C : f[i] \in Int /\ g[i] \in Int /\ f[i] <= g[i]
    BY <1>3, <1>8, <2>1, <2>2
  <2>4. Sum(f, C) <= Sum(g, C)
    BY <1>8, <2>3, SumLess
  <2>. QED  BY <2>1, <2>2, <2>4 DEF HitsIn, ExperimentsIn
<1>11. r.experiments <= (IF plan.independent THEN plan.seeds ELSE 1) * AllScripts
  <2>1. CASE plan.independent
    <3>1. r.experiments <= (seed - 1) * A + A
      BY <1>1, <1>2, <1>3, <1>4, <1>5, <1>7, <1>9, <2>1
    <3>2. (seed - 1) * A + A = seed * A
      BY <1>3, <1>5
    <3>. QED  BY <1>2, <1>4, <2>1, <3>1, <3>2
  <2>2. CASE ~ plan.independent
    <3>1. r.experiments <= A
      BY <1>1, <1>2, <1>3, <1>4, <1>5, <1>7, <1>9, <2>2
    <3>2. 1 * A = A
      BY <1>5
    <3>. QED  BY <1>2, <2>2, <3>1, <3>2
  <2>. QED  BY <2>1, <2>2
<1>12. Len(all) = plan.seeds * N
  <2>1. Len(all) = (seed - 1) * N + N
    BY <1>1, <1>3, <1>4
  <2>2. (seed - 1) * N + N = seed * N
    BY <1>3, <1>5
  <2>. QED  BY <1>4, <2>1, <2>2
<1>13. r.failed = plan.seeds * Len(Cases) => r.low = {} /\ r.high = {}
  <2>1. SUFFICES ASSUME r.failed = plan.seeds * Len(Cases) PROVE r.low = {} /\ r.high = {}
    OBVIOUS
  <2>2. Failed(all) = Len(all)
    BY <1>1, <1>9, <1>12, <2>1
  <2>3. Len(all) \in Nat
    BY <1>3, ListHas
  <2>4. ~ Failed(all) < Len(all)
    BY <2>2, <2>3
  <2>. QED  BY <1>9, <2>4
<1>. QED  BY <1>9, <1>10, <1>11, <1>13

\* The loops go on to the next review, with a score more or an arm summarised.
LEMMA TakeHolds == IInv /\ Take => IInv'
<1>1. SUFFICES ASSUME IInv, Take PROVE IInv'
  OBVIOUS
<1>2. Placed /\ Faithful /\ Graded /\ Tallied /\ SummaryIsHonest
  BY <1>1 DEF IInv
<1>3. PICK all : Taken(all)
  BY DEF Taken
<1>4. PICK through \in BOOLEAN : through = (LastCase /\ LastSeed)
  BY DEF LastCase, LastSeed
<1>5. /\ stage = "scoring"
      /\ scores' = IF through THEN <<>> ELSE all
      /\ results' = IF through THEN Append(results, Summarise(all, plan.independent)) ELSE results
      /\ seed' = IF LastCase THEN (IF LastSeed THEN 1 ELSE seed + 1) ELSE seed
      /\ case' = IF LastCase THEN 1 ELSE case + 1
      /\ stage' \in {"over", "reviewing"}
      /\ report' = NoReport /\ cursor' = 1 /\ measured' = << >> /\ failed' = FALSE
      /\ plan' = plan
  BY <1>1, <1>3, <1>4 DEF Take, Taken
<1>6. /\ IsList(all) /\ all # <<>> /\ all[1].seed = 1
      /\ Len(all) = (seed - 1) * Len(Cases) + case
      /\ \A i \in DOMAIN all : /\ all[i].seed \in 1..seed
                               /\ all[i].experiments \in Nat /\ all[i].hits \in Nat
                               /\ all[i].hits <= all[i].experiments
      /\ ExperimentsIn(all, DOMAIN all) <= (seed - 1) * AllScripts + Sum(Scripts, 1..case)
      /\ ExperimentsIn(all, OfSeed(all, 1))
           <= IF seed = 1 THEN Sum(Scripts, 1..case) ELSE AllScripts
      /\ seed \in Nat \ {0} /\ case \in 1..Len(Cases)
  BY <1>1, <1>3, <1>5, TakenAre
<1>7. PICK N \in Nat : N = Len(Cases)
  BY CasesAreRepeated, ListHas
<1>8. PICK A \in Nat : A = AllScripts /\ A = Sum(Scripts, 1..N)
  <2>1. 0 \in 0..Len(Cases)
    BY <1>7
  <2>. QED  BY <1>7, <2>1, ScriptsUpTo
<1>9. case \in 1..N /\ N \in Nat \ {0} /\ DOMAIN Cases = 1..N
  BY <1>6, <1>7, CasesAreRepeated, ListHas
<1>10. seed \in 1..plan.seeds /\ plan.seeds \in Nat \ {0}
  BY <1>2, CasesAreRepeated DEF Placed
<1>11. ~ Ready'
  BY <1>5 DEF Ready
<1>12. Placed'
  <2>1. seed' \in 1..plan.seeds
    BY <1>5, <1>10 DEF LastSeed
  <2>2. case' \in DOMAIN Cases
    BY <1>5, <1>7, <1>9 DEF LastCase
  <2>3. failed' \in BOOLEAN /\ ~ failed'
    BY Zenon, <1>5
  <2>4. DOMAIN measured' = {} /\ cursor' = 1
    BY <1>5
  <2>5. plan' \in Plans
    BY <1>2, <1>5 DEF Placed
  <2>6. stage' \in {"reviewing", "measuring", "scoring", "over"}
    BY <1>5
  <2>. QED  BY <1>5, <1>11, <2>1, <2>2, <2>3, <2>4, <2>5, <2>6 DEF Placed, NoReport
<1>13. Faithful' /\ Graded'
  BY <1>11 DEF Faithful, Graded
<1>14. PICK after : after = case' - 1
  OBVIOUS
<1>15. SoFar' = Sum(Scripts, 1..after)
  BY <1>14 DEF SoFar, Scripts
<1>16. Sum(Scripts, 1..0) = 0
  <2>1. 1..0 = {}
    OBVIOUS
  <2>. QED  BY <2>1, SumEmpty
<1>17. IsList(results)
  BY <1>2 DEF Tallied
<1>18. CASE through
  <2>1. LastCase /\ LastSeed /\ scores' = <<>> /\ seed' = 1 /\ case' = 1
    BY <1>4, <1>5, <1>18
  <2>2. PICK r : r = Summarise(all, plan.independent)
    OBVIOUS
  <2>3. results' = Append(results, r)
    BY <1>5, <1>18, <2>2
  <2>4. PICK T : T = ToSet(results) \cup {r}
    OBVIOUS
  <2>5. results \in Seq(T)
    <3>1. \A i \in DOMAIN results : results[i] \in T
      BY <1>17, <2>4, ListHas
    <3>. QED  BY <1>17, <3>1, ListHas
  <2>6. results' \in Seq(T) /\ \A i \in DOMAIN results' : results'[i] = r \/ (i \in DOMAIN results /\ results'[i] = results[i])
    BY <2>3, <2>4, <2>5
  <2>7. IsList(results')
    BY <2>6, ListIs
  <2>8. /\ r.hits <= r.experiments
        /\ r.experiments <= (IF plan.independent THEN plan.seeds ELSE 1) * AllScripts
        /\ r.failed = plan.seeds * Len(Cases) => r.low = {} /\ r.high = {}
    BY <1>1, <1>3, <1>5, <2>1, <2>2, ThroughIsHonest
  <2>9. SummaryIsHonest'
    <3>1. AllScripts = Sum([c \in DOMAIN Cases |-> Cardinality(Cases[c].scripts)], DOMAIN Cases)
      BY DEF AllScripts, Scripts
    <3>. QED  BY <1>2, <1>5, <2>6, <2>8, <3>1 DEF SummaryIsHonest
  <2>10. Tallied'
    <3>1. IsList(scores') /\ DOMAIN scores' = {} /\ Len(scores') = 0
      <4>1. IsList(<<>>)
        BY ListOfOne
      <4>2. DOMAIN scores' = {} /\ Len(scores') = 0
        BY <2>1
      <4>. QED  BY <2>1, <4>1, <4>2
    <3>2. OfSeed(scores', 1) = {}
      BY <3>1 DEF OfSeed
    <3>3. ExperimentsIn(scores', {}) = 0
      BY SumEmpty DEF ExperimentsIn
    <3>4. SoFar' = 0
      BY <1>14, <1>15, <1>16, <2>1
    <3>5. Len(scores') = (seed' - 1) * Len(Cases) + (case' - 1)
      BY <1>7, <2>1, <3>1
    <3>6. ExperimentsIn(scores', DOMAIN scores') <= (seed' - 1) * AllScripts + SoFar'
      BY <1>8, <2>1, <3>1, <3>3, <3>4
    <3>7. ExperimentsIn(scores', OfSeed(scores', 1)) <= IF seed' = 1 THEN SoFar' ELSE AllScripts
      BY <2>1, <3>2, <3>3, <3>4
    <3>. QED  BY <2>1, <2>7, <3>1, <3>5, <3>6, <3>7 DEF Tallied, AllScripts, Scripts
  <2>. QED  BY <1>12, <1>13, <2>9, <2>10 DEF IInv
<1>19. CASE ~ through
  <2>1. scores' = all /\ results' = results
    BY <1>5, <1>19
  <2>2. SummaryIsHonest'
    BY <1>2, <1>5, <2>1 DEF SummaryIsHonest
  <2>3. CASE LastCase
    <3>1. case = N /\ case' = 1 /\ seed' = seed + 1
      BY <1>4, <1>5, <1>7, <1>19, <2>3 DEF LastCase
    <3>2. SoFar' = 0
      BY <1>14, <1>15, <1>16, <3>1
    <3>3. Len(all) = (seed' - 1) * Len(Cases) + (case' - 1)
      <4>1. (seed - 1) * N + N = (seed + 1 - 1) * N + (1 - 1)
        BY <1>6, <1>9
      <4>. QED  BY <1>6, <1>7, <3>1, <4>1
    <3>4. ExperimentsIn(all, DOMAIN all) <= (seed' - 1) * AllScripts + SoFar'
      <4>1. (seed - 1) * A + A = (seed + 1 - 1) * A + 0
        BY <1>6, <1>8
      <4>. QED  BY <1>6, <1>8, <3>1, <3>2, <4>1
    <3>5. ExperimentsIn(all, OfSeed(all, 1)) <= IF seed' = 1 THEN SoFar' ELSE AllScripts
      <4>1. seed' # 1
        BY <1>6, <3>1
      <4>2. ExperimentsIn(all, OfSeed(all, 1)) <= A
        BY <1>6, <1>8, <3>1
      <4>. QED  BY <1>8, <4>1, <4>2
    <3>6. \A i \in DOMAIN all : /\ all[i].seed \in 1..seed'
                                /\ all[i].experiments \in Nat /\ all[i].hits \in Nat
                                /\ all[i].hits <= all[i].experiments
      BY <1>6, <3>1
    <3>7. Tallied'
      BY <1>6, <1>17, <2>1, <3>3, <3>4, <3>5, <3>6 DEF Tallied, AllScripts, Scripts
    <3>. QED  BY <1>12, <1>13, <2>2, <3>7 DEF IInv
  <2>4. CASE ~ LastCase
    <3>1. case' = case + 1 /\ seed' = seed
      BY <1>5, <2>4
    <3>2. SoFar' = Sum(Scripts, 1..case)
      <4>1. after = case
        BY <1>9, <1>14, <3>1
      <4>. QED  BY <1>15, <4>1
    <3>3. Len(all) = (seed' - 1) * Len(Cases) + (case' - 1)
      <4>1. case' - 1 = case
        BY <1>9, <3>1
      <4>. QED  BY <1>6, <3>1, <4>1
    <3>4. ExperimentsIn(all, DOMAIN all) <= (seed' - 1) * AllScripts + SoFar'
      BY <1>6, <3>1, <3>2
    <3>5. ExperimentsIn(all, OfSeed(all, 1)) <= IF seed' = 1 THEN SoFar' ELSE AllScripts
      BY <1>6, <3>1, <3>2
    <3>7. Tallied'
      BY <1>6, <1>17, <2>1, <3>1, <3>3, <3>4, <3>5 DEF Tallied, AllScripts, Scripts
    <3>. QED  BY <1>12, <1>13, <2>2, <3>7 DEF IInv
  <2>. QED  BY <2>3, <2>4
<1>. QED  BY <1>18, <1>19

\* The invariant holds throughout.
LEMMA IInvHolds == Spec => []IInv
<1>1. Init => IInv
  BY InitHolds
<1>2. IInv /\ [Next]_vars => IInv'
  <2>1. SUFFICES ASSUME IInv, [Next]_vars PROVE IInv'
    OBVIOUS
  <2>2. CASE Review
    BY <2>1, <2>2, ReviewHolds
  <2>3. CASE Crash
    BY <2>1, <2>3, CrashHolds
  <2>4. CASE Measure
    BY <2>1, <2>4, MeasureHolds
  <2>5. CASE AllMeasured
    BY <2>1, <2>5, AllMeasuredHolds
  <2>6. CASE Take
    BY <2>1, <2>6, TakeHolds
  <2>7. CASE UNCHANGED vars
    <3>1. UNCHANGED << plan, arm, seed, case, stage, heard, report, cursor, measured,
                       failed, scores, results >>
      BY <2>7 DEF vars
    <3>2. Placed /\ Faithful /\ Graded /\ Tallied /\ SummaryIsHonest
      BY <2>1 DEF IInv
    <3>3. Ready' = Ready
      BY <3>1 DEF Ready
    <3>4. Placed'
      BY <3>1, <3>2, <3>3 DEF Placed, NoReport
    <3>5. Reviewed(heard)' = Reviewed(heard)
      BY <3>1, ReviewStays
    <3>6. Faithful'
      BY <3>1, <3>2, <3>3, <3>5 DEF Faithful
    <3>7. Graded'
      BY <3>1, <3>2, <3>3 DEF Graded, Settled, Applies, Locations, Case
    <3>8. Tallied' /\ SummaryIsHonest'
      BY <3>1, <3>2, TallyStays
    <3>. QED  BY <3>4, <3>6, <3>7, <3>8 DEF IInv
  <2>. QED  BY <2>1, <2>2, <2>3, <2>4, <2>5, <2>6, <2>7 DEF Next
<1>. QED  BY <1>1, <1>2, PTL DEF Spec

\* A claim is graded only by an experiment about its own file, and the claims one
\* experiment settles on one measurement.
THEOREM GradedWhereMeasuredHolds == Spec => []GradedWhereMeasured
<1>1. IInv => GradedWhereMeasured
  <2>1. SUFFICES ASSUME IInv, NEW f \in Published, NEW g \in Published, Ready, f.measurement # {}
                 PROVE  /\ f.path \in Locations(Claim(f).metric)
                        /\ (g.measurement # {} /\ Claim(g).metric = Claim(f).metric)
                           => g.measurement = f.measurement
    BY DEF GradedWhereMeasured
  <2>2. \A i \in DOMAIN report.findings : Settled(report.findings[i])
    BY <2>1 DEF IInv, Graded
  <2>3. (\E i \in DOMAIN report.findings : report.findings[i] = f)
        /\ \E i \in DOMAIN report.findings : report.findings[i] = g
    BY <2>1 DEF Published, ToSet
  <2>4. Settled(f) /\ Settled(g)
    BY <2>2, <2>3
  <2>5. Applies(f) /\ f.measurement = {measured[Claim(f).metric]}
    BY <2>1, <2>4 DEF Settled
  <2>6. g.measurement # {} => g.measurement = {measured[Claim(g).metric]}
    BY <2>4 DEF Settled
  <2>. QED  BY <2>5, <2>6 DEF Applies
<1>. QED  BY <1>1, IInvHolds, PTL

\* The summary of an arm claims no more than its reviews saw.
THEOREM SummaryIsHonestHolds == Spec => []SummaryIsHonest
<1>1. IInv => SummaryIsHonest
  BY DEF IInv
<1>. QED  BY <1>1, IInvHolds, PTL

\* What is published was in the review's report before anything was measured, and
\* the report is of the drafts.
LEMMA AsReviewed ==
    ASSUME IInv, Ready
    PROVE  /\ IsAnswer(heard)
           /\ Reports(Reviewed(heard), Drafts(heard), Arms[arm] = "augury")
           /\ report.dropped = Reviewed(heard).dropped
           /\ \A f \in Published : \E g \in ToSet(Reviewed(heard).findings) :
                 /\ f.path = g.path /\ f.symbol = g.symbol /\ f.severity = g.severity
                 /\ f.says = g.says /\ f.prediction = g.prediction
           /\ \A g \in ToSet(Reviewed(heard).findings) : \E f \in Published :
                 /\ f.path = g.path /\ f.symbol = g.symbol /\ f.severity = g.severity
                 /\ f.says = g.says /\ f.prediction = g.prediction
<1>1. Placed /\ Faithful
  BY DEF IInv
<1>2. /\ IsAnswer(heard) /\ Reports(Reviewed(heard), Drafts(heard), Arms[arm] = "augury")
      /\ \A i \in DOMAIN report.findings :
            /\ IsFinding(Reviewed(heard).findings[i])
            /\ Reviewed(heard).findings[i] \in ToSet(Reviewed(heard).findings)
  BY <1>1, AtHand
<1>3. PICK r : r = Reviewed(heard)
  OBVIOUS
<1>4. PICK fs : fs = report.findings
  OBVIOUS
<1>5. /\ report = [findings |-> fs, dropped |-> r.dropped]
      /\ DOMAIN fs = DOMAIN r.findings
      /\ \A i \in DOMAIN fs : fs[i] = Put(r.findings[i], fs[i].measurement)
  BY <1>1, <1>3, <1>4 DEF Faithful
<1>6. report.dropped = r.dropped
  BY <1>5
<1>7. ASSUME NEW i \in DOMAIN fs
      PROVE  /\ fs[i].path = r.findings[i].path /\ fs[i].symbol = r.findings[i].symbol
             /\ fs[i].severity = r.findings[i].severity /\ fs[i].says = r.findings[i].says
             /\ fs[i].prediction = r.findings[i].prediction
             /\ r.findings[i] \in ToSet(r.findings) /\ fs[i] \in Published
  <2>1. PICK F : F = r.findings[i]
    OBVIOUS
  <2>2. PICK x : x = fs[i].measurement
    OBVIOUS
  <2>3. IsFinding(F) /\ F \in ToSet(r.findings)
    BY <1>2, <1>3, <1>4, <2>1
  <2>4. fs[i] = Put(F, x)
    BY <1>5, <2>1, <2>2
  <2>5. /\ Put(F, x).path = F.path /\ Put(F, x).symbol = F.symbol /\ Put(F, x).severity = F.severity
        /\ Put(F, x).says = F.says /\ Put(F, x).prediction = F.prediction
    BY <2>3, PutIs
  <2>6. fs[i] \in Published
    BY <1>4 DEF Published, ToSet
  <2>. QED  BY <2>1, <2>3, <2>4, <2>5, <2>6
<1>8. ASSUME NEW f \in Published PROVE \E i \in DOMAIN fs : fs[i] = f
  BY <1>4 DEF Published, ToSet
<1>9. ASSUME NEW g \in ToSet(r.findings) PROVE \E i \in DOMAIN fs : r.findings[i] = g
  BY <1>5 DEF ToSet
<1>10. \A f \in Published : \E g \in ToSet(r.findings) :
          /\ f.path = g.path /\ f.symbol = g.symbol /\ f.severity = g.severity
          /\ f.says = g.says /\ f.prediction = g.prediction
  <2>1. TAKE f \in Published
  <2>2. PICK i \in DOMAIN fs : fs[i] = f
    BY <1>8
  <2>3. PICK g : g = r.findings[i]
    OBVIOUS
  <2>. QED  BY <1>7, <2>2, <2>3
<1>11. \A g \in ToSet(r.findings) : \E f \in Published :
          /\ f.path = g.path /\ f.symbol = g.symbol /\ f.severity = g.severity
          /\ f.says = g.says /\ f.prediction = g.prediction
  <2>1. TAKE g \in ToSet(r.findings)
  <2>2. PICK i \in DOMAIN fs : r.findings[i] = g
    BY <1>9
  <2>. QED  BY <1>7, <2>2
<1>. QED  BY <1>2, <1>3, <1>6, <1>10, <1>11

\* What was said of a construct went into a draft of it, and that draft is
\* reported.
LEMMA SaidIsReported ==
    ASSUME IInv, Ready, NEW d \in Offers
    PROVE  \E m \in ToSet(Drafts(heard)) :
              /\ IsDraft(m) /\ d.path = OrUnknown(m.path) /\ d.symbol = OrUnknown(m.symbol)
              /\ d.severity \in 0..2 /\ d.severity <= m.severity
              /\ Reported(m, Reviewed(heard), Arms[arm] = "augury")
<1>1. PICK e \in ToSet(FlattenSeq(heard)) :
         d = [e EXCEPT !.path = OrUnknown(@), !.symbol = OrUnknown(@)]
  BY DEF Offers
<1>2. PICK answer : answer = heard
  OBVIOUS
<1>3. IsAnswer(answer) /\ Reports(Reviewed(answer), Drafts(answer), Arms[arm] = "augury")
  BY <1>2, AsReviewed
<1>4. PICK t : t = Together(answer)
  OBVIOUS
<1>5. IsAnswer(t)
  BY <1>3, <1>4, TogetherIs
<1>6. PICK i \in DOMAIN t : e \in ToSet(t[i])
  BY <1>1, <1>2, <1>3, <1>4, TogetherIs
<1>7. PICK s : s = t[i]
  OBVIOUS
<1>8. IsList(s) /\ (\A x \in ToSet(s) : IsDraft(x)) /\ e \in ToSet(s)
  BY <1>5, <1>6, <1>7 DEF IsAnswer
<1>9. PICK m \in ToSet(Drafts(answer)) : \E g : MadeOf(m, g, s) /\ e \in ToSet(g)
  BY <1>3, <1>4, <1>7, <1>8, DraftsAre
<1>10. PICK g : MadeOf(m, g, s) /\ e \in ToSet(g)
  BY <1>9
<1>11. IsDraft(m) /\ m.path = e.path /\ m.symbol = e.symbol /\ e.severity <= m.severity
  BY <1>8, <1>10, MadeIs
<1>12. IsDraft(e)
  BY <1>8
<1>13. /\ e.severity \in 0..2
       /\ DOMAIN e = {"path", "symbol", "line", "layers", "severity", "says", "arithmetic", "prediction"}
  BY <1>12, DraftHas
<1>14. d.path = OrUnknown(e.path) /\ d.symbol = OrUnknown(e.symbol) /\ d.severity = e.severity
  BY <1>1, <1>13
<1>15. Reported(m, Reviewed(answer), Arms[arm] = "augury")
  BY <1>3, <1>9 DEF Reports
<1>. QED  BY <1>2, <1>9, <1>11, <1>13, <1>14, <1>15

\* A report lists as gone what went.
LEMMA WentIsGone ==
    ASSUME IInv, Ready, NEW m, NEW d, d.path = OrUnknown(m.path), d.symbol = OrUnknown(m.symbol),
           NEW why, Went(m, Reviewed(heard), why)
    PROVE  Gone(d, why)
<1>1. report.dropped = Reviewed(heard).dropped
  BY AsReviewed
<1>2. PICK x \in ToSet(report.dropped) :
         x.path = OrUnknown(m.path) /\ x.symbol = OrUnknown(m.symbol) /\ x.why \in why
  BY <1>1 DEF Went
<1>. QED  BY <1>2 DEF Gone, Construct

\* What a specialist said of a construct is published or listed as dropped.
THEOREM NothingVanishesHolds == Spec => []NothingVanishes
<1>1. IInv => NothingVanishes
  <2>1. SUFFICES ASSUME IInv, Ready, NEW d \in Offers
                 PROVE  \/ \E f \in Published : Construct(f) = Construct(d)
                        \/ Gone(d, {"prediction", "malformed", "withdrawn", "collapsed"})
    BY DEF NothingVanishes
  <2>2. PICK m \in ToSet(Drafts(heard)) :
           /\ d.path = OrUnknown(m.path) /\ d.symbol = OrUnknown(m.symbol)
           /\ Reported(m, Reviewed(heard), Arms[arm] = "augury")
    BY <2>1, SaidIsReported
  <2>3. CASE \E g \in ToSet(Reviewed(heard).findings) : Becomes(g, m)
    <3>1. PICK g \in ToSet(Reviewed(heard).findings) : Becomes(g, m)
      BY <2>3
    <3>2. PICK f \in Published : f.path = g.path /\ f.symbol = g.symbol
      BY <2>1, AsReviewed
    <3>. QED  BY <2>2, <3>1, <3>2 DEF Becomes, Construct
  <2>4. CASE Went(m, Reviewed(heard), {"malformed", "withdrawn"})
    BY <2>1, <2>2, <2>4, WentIsGone DEF Gone
  <2>5. CASE Went(m, Reviewed(heard), {"collapsed"})
    BY <2>1, <2>2, <2>5, WentIsGone DEF Gone
  <2>. QED  BY <2>2, <2>3, <2>4, <2>5 DEF Reported
<1>. QED  BY <1>1, IInvHolds, PTL

\* What a path's reachability supports is a severity.
LEMMA CeilingIs ==
    ASSUME NEW path
    PROVE  CeilingOf(path) \in 0..2 /\ CeilingOf(path) = Limit(Arms[arm] = "augury", path)
<1>1. Supported(path) \in 0..2
  BY OneNote
<1>. QED  BY <1>1 DEF CeilingOf, Limit, Supported

\* The lesser of two numbers is no greater than either.
LEMMA LesserOfTwo ==
    ASSUME NEW a \in Int, NEW b \in Int
    PROVE  Min({a, b}) \in Int /\ Min({a, b}) <= a /\ Min({a, b}) <= b
<1>1. PICK S : S = {a, b}
  OBVIOUS
<1>2. IsFiniteSet(S)
  <2>1. S = {a} \cup {b}
    BY <1>1
  <2>. QED  BY <2>1, FS_Singleton, FS_Union
<1>3. S \subseteq Int /\ S # {} /\ a \in S /\ b \in S
  BY <1>1
<1>4. Min(S) \in S /\ \A x \in S : Min(S) <= x
  BY <1>2, <1>3, Extremes
<1>. QED  BY <1>1, <1>3, <1>4

\* No finding is published above what its module's reachability supports, and the
\* worst that was said of a construct survives below that.
THEOREM SeverityIsEarnedHolds == Spec => []SeverityIsEarned
<1>1. IInv => SeverityIsEarned
  <2>1. SUFFICES ASSUME IInv, Ready
                 PROVE  /\ \A f \in Published : f.severity <= CeilingOf(f.path)
                        /\ \A d \in Offers :
                              \/ Gone(d, {"malformed", "withdrawn"})
                              \/ \E f \in Published :
                                    /\ Construct(f) = Construct(d) \/ Systemic \in ToSet(f.says)
                                    /\ f.severity >= Min({d.severity, CeilingOf(d.path)})
    BY DEF SeverityIsEarned
  <2>2. PICK by : by = (Arms[arm] = "augury")
    OBVIOUS
  <2>3. PICK r : r = Reviewed(heard)
    OBVIOUS
  <2>4. \A path : CeilingOf(path) \in 0..2 /\ CeilingOf(path) = Limit(by, path)
    BY <2>2, CeilingIs
  <2>5. Reports(r, Drafts(heard), by)
    BY Zenon, <2>1, <2>2, <2>3, AsReviewed
  <2>6. \A f \in Published : f.severity <= CeilingOf(f.path)
    <3>1. SUFFICES ASSUME NEW f \in Published PROVE f.severity <= CeilingOf(f.path)
      OBVIOUS
    <3>2. PICK g \in ToSet(r.findings) : f.path = g.path /\ f.severity = g.severity
      BY <2>1, <2>3, AsReviewed
    <3>3. g.severity <= Limit(by, g.path)
      BY <2>5 DEF Reports
    <3>. QED  BY <2>4, <3>2, <3>3
  <2>7. ASSUME NEW d \in Offers
        PROVE  \/ Gone(d, {"malformed", "withdrawn"})
               \/ \E f \in Published :
                     /\ Construct(f) = Construct(d) \/ Systemic \in ToSet(f.says)
                     /\ f.severity >= Min({d.severity, CeilingOf(d.path)})
    <3>1. PICK m \in ToSet(Drafts(heard)) :
             /\ IsDraft(m) /\ d.path = OrUnknown(m.path) /\ d.symbol = OrUnknown(m.symbol)
             /\ d.severity \in 0..2 /\ d.severity <= m.severity
             /\ Reported(m, Reviewed(heard), Arms[arm] = "augury")
      BY <2>1, <2>7, SaidIsReported
    <3>2. Reported(m, r, by)
      BY Zenon, <2>2, <2>3, <3>1
    <3>3. PICK a \in Int : a = d.severity
      BY <3>1
    <3>4. PICK b \in Int : b = CeilingOf(d.path)
      BY <2>4
    <3>5. PICK least \in Int : least = Min({d.severity, CeilingOf(d.path)}) /\ least <= a /\ least <= b
      BY <3>3, <3>4, LesserOfTwo
    <3>6. m.severity \in Int
      BY <3>1, DraftHas
    <3>7. \A g \in ToSet(r.findings) : g.severity \in Int
      <4>1. SUFFICES ASSUME NEW g \in ToSet(r.findings) PROVE g.severity \in Int
        OBVIOUS
      <4>2. IsFinding(g)
        BY <2>5 DEF Reports, Becomes
      <4>. QED  BY <4>2, FindingHas
    <3>8. CASE \E g \in ToSet(r.findings) :
                  Becomes(g, m) /\ (m.severity <= g.severity \/ g.severity = Limit(by, g.path))
      <4>1. PICK g \in ToSet(r.findings) :
               Becomes(g, m) /\ (m.severity <= g.severity \/ g.severity = Limit(by, g.path))
        BY <3>8
      <4>2. PICK f \in Published : f.path = g.path /\ f.symbol = g.symbol /\ f.severity = g.severity
        BY <2>1, <2>3, AsReviewed
      <4>3. g.path = d.path /\ g.symbol = d.symbol
        BY <3>1, <4>1 DEF Becomes
      <4>4. Construct(f) = Construct(d)
        BY <4>2, <4>3 DEF Construct
      <4>5. g.severity \in Int /\ (a <= g.severity \/ g.severity = b)
        BY <2>4, <3>1, <3>3, <3>4, <3>6, <3>7, <4>1, <4>3
      <4>6. f.severity >= least
        BY <3>5, <4>2, <4>5
      <4>. QED  BY <3>5, <4>4, <4>6
    <3>9. CASE Went(m, r, {"malformed", "withdrawn"})
      BY <2>1, <2>3, <3>1, <3>9, WentIsGone
    <3>10. CASE \E g \in ToSet(r.findings) :
                   /\ Systemic \in ToSet(g.says)
                   /\ m.severity <= g.severity \/ Limit(by, OrUnknown(m.path)) <= g.severity
      <4>1. PICK g \in ToSet(r.findings) :
               /\ Systemic \in ToSet(g.says)
               /\ m.severity <= g.severity \/ Limit(by, OrUnknown(m.path)) <= g.severity
        BY <3>10
      <4>2. PICK f \in Published : f.says = g.says /\ f.severity = g.severity
        BY <2>1, <2>3, AsReviewed
      <4>3. g.severity \in Int /\ (a <= g.severity \/ b <= g.severity)
        BY <2>4, <3>1, <3>3, <3>4, <3>6, <3>7, <4>1
      <4>4. f.severity >= least
        BY <3>5, <4>2, <4>3
      <4>. QED  BY <3>5, <4>1, <4>2, <4>4
    <3>. QED  BY <3>2, <3>8, <3>9, <3>10 DEF Reported
  <2>. QED  BY <2>6, <2>7
<1>. QED  BY <1>1, IInvHolds, PTL

\* A published claim was made of its construct, and is no easier than those it
\* was reconciled with.
THEOREM NeverEasierHolds == Spec => []NeverEasier
<1>1. IInv => NeverEasier
  <2>1. SUFFICES ASSUME IInv, Ready, NEW f \in Published, NEW p \in f.prediction
                 PROVE  \E i \in DOMAIN Together(heard) : \E d \in ToSet(Together(heard)[i]) :
                           /\ p \in d.prediction
                           /\ Construct(f) = << OrUnknown(d.path), OrUnknown(d.symbol) >>
                           /\ (p.comparator # "between"
                               /\ \A q \in Theirs(p, d, Together(heard)[i]) : q.comparator = p.comparator)
                              => \A q \in Theirs(p, d, Together(heard)[i]), m \in Floor..Ceiling :
                                    Holds(p, m) => Holds(q, m)
    BY DEF NeverEasier, Theirs
  <2>2. PICK answer : answer = heard
    OBVIOUS
  <2>3. PICK by : by = (Arms[arm] = "augury")
    OBVIOUS
  <2>4. PICK r : r = Reviewed(answer)
    OBVIOUS
  <2>5. IsAnswer(answer) /\ Reports(r, Drafts(answer), by)
    BY Zenon, <2>1, <2>2, <2>3, <2>4, AsReviewed
  <2>6. PICK g \in ToSet(r.findings) :
           f.path = g.path /\ f.symbol = g.symbol /\ f.prediction = g.prediction
    BY <2>1, <2>2, <2>4, AsReviewed
  <2>7. PICK m \in ToSet(Drafts(answer)) : Becomes(g, m)
    BY <2>5 DEF Reports
  <2>8. p \in m.prediction /\ Refutable(p)
        /\ f.path = OrUnknown(m.path) /\ f.symbol = OrUnknown(m.symbol)
    BY <2>1, <2>6, <2>7 DEF Becomes
  <2>9. PICK t : t = Together(answer)
    OBVIOUS
  <2>10. PICK i \in DOMAIN t : \E x : MadeOf(m, x, t[i])
    BY <2>5, <2>7, <2>9, DraftsAre
  <2>11. PICK x : MadeOf(m, x, t[i])
    BY <2>10
  <2>12. PICK s : s = t[i]
    OBVIOUS
  <2>13. IsList(s) /\ \A d \in ToSet(s) : IsDraft(d)
    <3>1. IsAnswer(t)
      BY <2>5, <2>9, TogetherIs
    <3>. QED  BY <2>10, <2>12, <3>1 DEF IsAnswer
  <2>14. /\ ToSet(x) \subseteq ToSet(s)
         /\ \A d \in ToSet(x) : m.path = d.path /\ m.symbol = d.symbol
         /\ \A q \in m.prediction : Refutable(q) =>
               \E d \in ToSet(x) : q \in d.prediction /\ NoEasier(q, d, s)
    BY <2>11, <2>12, <2>13, MadeIs
  <2>15. PICK d \in ToSet(x) : p \in d.prediction /\ NoEasier(p, d, s)
    BY <2>8, <2>14
  <2>16. d \in ToSet(s) /\ m.path = d.path /\ m.symbol = d.symbol
    BY <2>14, <2>15
  <2>17. Construct(f) = << OrUnknown(d.path), OrUnknown(d.symbol) >>
    BY <2>8, <2>16 DEF Construct
  <2>18. \A n \in Floor..Ceiling : n \in Int
    BY RangeAssumption
  <2>19. (p.comparator # "between" /\ \A q \in Theirs(p, d, s) : q.comparator = p.comparator)
         => \A q \in Theirs(p, d, s), n \in Floor..Ceiling : Holds(p, n) => Holds(q, n)
    BY <2>15, <2>18 DEF NoEasier
  <2>. QED  BY <2>2, <2>9, <2>12, <2>15, <2>16, <2>17, <2>19
<1>. QED  BY <1>1, IInvHolds, PTL

(***************************************************************************)
(* The tests of two arms                                                   *)
(***************************************************************************)

FactStep(g, n) == IF n = 0 THEN 1 ELSE n * g[n - 1]
FactTo(g, k) == g = [n \in 0..k |-> FactStep(g, n)]

\* The factorials exist up to every number.
LEMMA FactsUpTo ==
    ASSUME NEW k \in Nat
    PROVE  \E g : FactTo(g, k)
<1>. DEFINE Solved == {j \in Nat : \E g : FactTo(g, j)}
<1>1. 0 \in Solved
  <2>1. PICK g : g = [n \in 0..0 |-> 1]
    OBVIOUS
  <2>2. \A n \in 0..0 : FactStep(g, n) = 1
    BY DEF FactStep
  <2>3. FactTo(g, 0)
    BY <2>1, <2>2 DEF FactTo
  <2>. QED  BY <2>3
<1>2. ASSUME NEW j \in Nat, j \in Solved PROVE j + 1 \in Solved
  <2>1. PICK g : FactTo(g, j)
    BY <1>2
  <2>2. PICK h : h = [n \in 0..(j + 1) |-> FactStep(g, n)]
    OBVIOUS
  <2>3. \A n \in 0..j : n \in 0..(j + 1) /\ g[n] = FactStep(g, n)
    BY <2>1 DEF FactTo
  <2>4. \A n \in 0..j : h[n] = g[n]
    BY <2>2, <2>3
  <2>5. \A n \in 0..(j + 1) : FactStep(h, n) = FactStep(g, n)
    BY <2>4 DEF FactStep
  <2>6. FactTo(h, j + 1)
    BY <2>2, <2>5 DEF FactTo
  <2>. QED  BY <2>6
<1>3. Nat \subseteq Solved
  <2>. HIDE DEF Solved
  <2>. QED  BY <1>1, <1>2, CountInduction
<1>. QED  BY <1>3

\* Where two of them are defined they agree.
LEMMA FactsAgree ==
    ASSUME NEW j \in Nat, NEW k \in Nat, NEW g, FactTo(g, j), NEW h, FactTo(h, k)
    PROVE  \A n \in Nat : n <= j /\ n <= k => g[n] = h[n]
<1>. DEFINE Q == {n \in Nat : n <= j /\ n <= k => g[n] = h[n]}
<1>0. /\ \A n \in 0..j : g[n] = FactStep(g, n)
      /\ \A n \in 0..k : h[n] = FactStep(h, n)
  BY DEF FactTo
<1>1. 0 \in Q
  BY <1>0 DEF FactStep
<1>2. ASSUME NEW n \in Nat, n \in Q PROVE n + 1 \in Q
  <2>1. SUFFICES ASSUME n + 1 <= j, n + 1 <= k PROVE g[n + 1] = h[n + 1]
    OBVIOUS
  <2>2. g[n] = h[n] /\ n + 1 - 1 = n
    BY <1>2, <2>1
  <2>3. FactStep(g, n + 1) = FactStep(h, n + 1)
    BY <2>2 DEF FactStep
  <2>. QED  BY <1>0, <2>1, <2>3
<1>3. Nat \subseteq Q
  <2>. HIDE DEF Q
  <2>. QED  BY <1>1, <1>2, CountInduction
<1>. QED  BY <1>3

\* The factorial obeys its recursion.
LEMMA FactIs ==
    /\ fact[0] = 1
    /\ \A n \in Nat : fact[n + 1] = (n + 1) * fact[n]
    /\ \A n \in Nat : fact[n] \in Nat \ {0}
<1>. DEFINE G(k) == CHOOSE g : FactTo(g, k)
<1>1. \A k \in Nat : FactTo(G(k), k)
  BY FactsUpTo
<1>2. PICK f : f = [n \in Nat |-> G(n)[n]]
  OBVIOUS
<1>3. ASSUME NEW n \in Nat PROVE f[n] = FactStep(f, n)
  <2>1. PICK g : g = G(n) /\ FactTo(g, n)
    BY <1>1
  <2>2. \A m \in 0..n : g[m] = FactStep(g, m)
    BY <2>1 DEF FactTo
  <2>3. f[n] = FactStep(g, n)
    BY <1>2, <2>1, <2>2
  <2>4. n # 0 => g[n - 1] = f[n - 1]
    <3>1. SUFFICES ASSUME n # 0 PROVE g[n - 1] = f[n - 1]
      OBVIOUS
    <3>2. PICK m \in Nat : m = n - 1
      BY <3>1
    <3>3. PICK h : h = G(m) /\ FactTo(h, m)
      BY <1>1
    <3>4. m <= n /\ m <= m
      BY <3>2
    <3>5. g[m] = h[m]
      BY <2>1, <3>3, <3>4, FactsAgree
    <3>. QED  BY <1>2, <3>2, <3>3, <3>5
  <2>. QED  BY <2>3, <2>4 DEF FactStep
<1>4. f = [n \in Nat |-> IF n = 0 THEN 1 ELSE n * f[n - 1]]
  <2>1. f = [n \in Nat |-> FactStep(f, n)]
    BY <1>2, <1>3
  <2>. QED  BY <2>1 DEF FactStep
<1>5. PICK q : q = fact
  OBVIOUS
<1>6. q = [n \in Nat |-> IF n = 0 THEN 1 ELSE n * q[n - 1]]
  BY <1>4, <1>5 DEF fact
<1>7. q[0] = 1
  BY <1>6
<1>8. \A n \in Nat : q[n + 1] = (n + 1) * q[n]
  BY <1>6
<1>. DEFINE Q == {n \in Nat : q[n] \in Nat \ {0}}
<1>9. 0 \in Q
  BY <1>7
<1>10. ASSUME NEW n \in Nat, n \in Q PROVE n + 1 \in Q
  <2>1. PICK y \in Nat \ {0} : y = q[n]
    BY <1>10
  <2>2. (n + 1) * y \in Int /\ (n + 1) * y > 0
    BY Regroup
  <2>. QED  BY <1>8, <2>1, <2>2
<1>11. Nat \subseteq Q
  <2>. HIDE DEF Q
  <2>. QED  BY <1>9, <1>10, CountInduction
<1>. QED  BY <1>5, <1>7, <1>8, <1>11

\* Ways to choose k of n, told by what they multiply to.
IsWays(c, n, k) == c \in Nat \ {0} /\ fact[n] = c * (fact[k] * fact[n - k])

\* Each of n + 1 is among the chosen or not.
LEMMA WaysStep ==
    ASSUME NEW n \in Nat, NEW k \in 1..n, NEW c, IsWays(c, n, k - 1), NEW d, IsWays(d, n, k)
    PROVE  IsWays(c + d, n + 1, k)
<1>1. PICK m \in Nat : m = n - k
  OBVIOUS
<1>2. PICK j \in Nat : j = k - 1
  OBVIOUS
<1>3. k = j + 1 /\ n - j = m + 1 /\ n + 1 - k = m + 1 /\ n = m + k
  BY <1>1, <1>2
<1>4. PICK a \in Nat \ {0} : a = fact[j]
  BY FactIs
<1>5. PICK b \in Nat \ {0} : b = fact[m]
  BY FactIs
<1>6. fact[k] = k * a /\ fact[m + 1] = (m + 1) * b
  BY <1>3, <1>4, <1>5, FactIs
<1>7. PICK f \in Nat \ {0} : f = fact[n]
  BY FactIs
<1>8. c \in Nat \ {0} /\ d \in Nat \ {0}
  BY DEF IsWays
<1>9. f = c * (a * ((m + 1) * b)) /\ f = d * ((k * a) * b)
  BY <1>1, <1>2, <1>3, <1>4, <1>5, <1>6, <1>7 DEF IsWays
<1>10. k * f = c * ((k * a) * ((m + 1) * b))
  <2>1. k * (c * (a * ((m + 1) * b))) = c * ((k * a) * ((m + 1) * b))
    BY <1>8
  <2>. QED  BY <1>9, <2>1
<1>11. (m + 1) * f = d * ((k * a) * ((m + 1) * b))
  <2>1. (m + 1) * (d * ((k * a) * b)) = d * ((k * a) * ((m + 1) * b))
    BY <1>8
  <2>. QED  BY <1>9, <2>1
<1>12. fact[n + 1] = k * f + (m + 1) * f
  <2>1. (n + 1) * f = k * f + (m + 1) * f
    <3>1. n + 1 = k + (m + 1)
      BY <1>3
    <3>. QED  BY <3>1
  <2>. QED  BY <1>7, <2>1, FactIs
<1>13. PICK e \in Nat : e = (k * a) * ((m + 1) * b)
  <2>1. k * a \in Nat /\ (m + 1) * b \in Nat
    OBVIOUS
  <2>. QED  BY <2>1
<1>14. fact[n + 1] = c * e + d * e
  BY <1>10, <1>11, <1>12, <1>13
<1>15. fact[n + 1] = (c + d) * e
  <2>1. c * e + d * e = (c + d) * e
    BY <1>8
  <2>. QED  BY <1>14, <2>1
<1>. QED  BY <1>3, <1>6, <1>8, <1>13, <1>15 DEF IsWays

\* Of every number as many as there are can be chosen, and the quotient of the
\* factorials is exact.
LEMMA ChooseIs ==
    ASSUME NEW n \in Nat, NEW k \in 0..n
    PROVE  IsWays(Choose(n, k), n, k)
<1>. DEFINE Q == {m \in Nat : \A j \in 0..m : \E c : IsWays(c, m, j)}
<1>1. 0 \in Q
  <2>1. \A j \in 0..0 : j = 0
    OBVIOUS
  <2>2. IsWays(1, 0, 0)
    <3>1. 0 - 0 = 0
      OBVIOUS
    <3>. QED  BY <3>1, FactIs DEF IsWays
  <2>. QED  BY <2>1, <2>2
<1>2. ASSUME NEW m \in Nat, m \in Q PROVE m + 1 \in Q
  <2>1. SUFFICES ASSUME NEW j \in 0..(m + 1) PROVE \E c : IsWays(c, m + 1, j)
    OBVIOUS
  <2>2. fact[m + 1] \in Nat \ {0} /\ fact[0] = 1
    BY FactIs
  <2>3. CASE j = 0
    <3>1. IsWays(1, m + 1, j)
      BY <2>2, <2>3 DEF IsWays
    <3>. QED  BY <3>1
  <2>4. CASE j = m + 1
    <3>1. IsWays(1, m + 1, j)
      BY <2>2, <2>4 DEF IsWays
    <3>. QED  BY <3>1
  <2>5. CASE j \in 1..m
    <3>1. PICK c : IsWays(c, m, j - 1)
      BY <1>2, <2>5
    <3>2. PICK d : IsWays(d, m, j)
      BY <1>2, <2>5
    <3>3. IsWays(c + d, m + 1, j)
      BY <2>5, <3>1, <3>2, WaysStep
    <3>. QED  BY <3>3
  <2>. QED  BY <2>1, <2>3, <2>4, <2>5
<1>3. Nat \subseteq Q
  <2>. HIDE DEF Q
  <2>. QED  BY <1>1, <1>2, CountInduction
<1>4. PICK c : IsWays(c, n, k)
  BY <1>3
<1>5. PICK m \in Nat \ {0} : m = fact[k] * fact[n - k]
  <2>1. fact[k] \in Nat \ {0} /\ fact[n - k] \in Nat \ {0}
    BY FactIs
  <2>. QED  BY <2>1, Regroup
<1>6. c \in Nat \ {0} /\ fact[n] = c * m
  BY <1>4, <1>5 DEF IsWays
<1>7. Choose(n, k) = fact[n] \div m
  BY <1>5 DEF Choose
<1>8. Choose(n, k) = c
  BY <1>6, <1>7, Divides
<1>. QED  BY <1>4, <1>8

\* No more than one number chooses as many.
LEMMA WaysAreOne ==
    ASSUME NEW n \in Nat, NEW k \in 0..n, NEW c, IsWays(c, n, k)
    PROVE  Choose(n, k) = c
<1>1. PICK m \in Nat \ {0} : m = fact[k] * fact[n - k]
  <2>1. fact[k] \in Nat \ {0} /\ fact[n - k] \in Nat \ {0}
    BY FactIs
  <2>. QED  BY <2>1, Regroup
<1>2. c \in Nat \ {0} /\ fact[n] = c * m
  BY <1>1 DEF IsWays
<1>3. Choose(n, k) = fact[n] \div m
  BY <1>1 DEF Choose
<1>. QED  BY <1>2, <1>3, Divides

\* Pascal's rule, at the borders and beyond them too.
LEMMA Pascal ==
    ASSUME NEW n \in Nat, NEW k \in Int
    PROVE  /\ Choose(n, k) \in Nat
           /\ Choose(n, k) > 0 <=> k \in 0..n
           /\ Choose(n + 1, k) = Choose(n, k) + Choose(n, k - 1)
<1>1. \A m \in Nat : \A j \in 0..m : Choose(m, j) \in Nat \ {0}
  BY ChooseIs DEF IsWays
<1>2. \A m \in Nat : \A j \in Int \ (0..m) : Choose(m, j) = 0
  BY DEF Choose
<1>3. \A m \in Nat : Choose(m, 0) = 1 /\ Choose(m, m) = 1
  <2>1. TAKE m \in Nat
  <2>2. IsWays(1, m, 0) /\ IsWays(1, m, m)
    BY FactIs DEF IsWays
  <2>. QED  BY <2>2, WaysAreOne
<1>4. Choose(n, k) \in Nat /\ (Choose(n, k) > 0 <=> k \in 0..n)
  BY <1>1, <1>2
<1>5. CASE k \in 1..n
  <2>1. IsWays(Choose(n, k), n, k) /\ IsWays(Choose(n, k - 1), n, k - 1)
    BY <1>5, ChooseIs
  <2>2. IsWays(Choose(n, k - 1) + Choose(n, k), n + 1, k)
    BY <1>5, <2>1, WaysStep
  <2>3. Choose(n + 1, k) = Choose(n, k - 1) + Choose(n, k)
    BY <1>5, <2>2, WaysAreOne
  <2>4. Choose(n, k) \in Nat /\ Choose(n, k - 1) \in Nat
    BY <2>1 DEF IsWays
  <2>. QED  BY <1>4, <2>3, <2>4
<1>6. CASE k = 0
  <2>1. Choose(n, k - 1) = 0
    BY <1>2, <1>6
  <2>. QED  BY <1>3, <1>4, <1>6, <2>1
<1>7. CASE k = n + 1
  <2>1. Choose(n, k) = 0 /\ Choose(n, k - 1) = 1
    BY <1>2, <1>3, <1>7
  <2>. QED  BY <1>3, <1>4, <1>7, <2>1
<1>8. CASE k < 0 \/ k > n + 1
  <2>1. Choose(n, k) = 0 /\ Choose(n, k - 1) = 0 /\ Choose(n + 1, k) = 0
    BY <1>2, <1>8
  <2>. QED  BY <1>4, <2>1
<1>. QED  BY <1>5, <1>6, <1>7, <1>8

\* The products that Vandermonde's identity adds up.
Halves(a, b, h) == [x \in 0..h |-> Choose(a, x) * Choose(b, h - x)]

\* Vandermonde: to choose h of a and b together is to choose some of a and the
\* rest of b.
LEMMA Vandermonde ==
    ASSUME NEW a \in Nat, NEW b \in Nat, NEW h \in Nat
    PROVE  Sum(Halves(a, b, h), 0..h) = Choose(a + b, h)
<1>. DEFINE Q == {m \in Nat : \A j \in Nat : Sum(Halves(m, b, j), 0..j) = Choose(m + b, j)}
<1>1. ASSUME NEW m \in Nat, NEW j \in Nat
      PROVE  /\ IsFiniteSet(0..j)
             /\ \A x \in 0..j : /\ Halves(m, b, j)[x] = Choose(m, x) * Choose(b, j - x)
                                /\ Halves(m, b, j)[x] \in Nat
  <2>1. IsFiniteSet(0..j)
    BY FS_Interval
  <2>2. ASSUME NEW x \in 0..j PROVE Choose(m, x) * Choose(b, j - x) \in Nat
    <3>1. x \in Int /\ j - x \in Int
      OBVIOUS
    <3>2. Choose(m, x) \in Nat
      BY <3>1, Pascal
    <3>3. Choose(b, j - x) \in Nat
      BY <3>1, Pascal
    <3>. QED  BY <3>2, <3>3, Regroup
  <2>. QED  BY <2>1, <2>2 DEF Halves
<1>2. 0 \in Q
  <2>1. SUFFICES ASSUME NEW j \in Nat PROVE Sum(Halves(0, b, j), 0..j) = Choose(0 + b, j)
    OBVIOUS
  <2>2. PICK f : f = Halves(0, b, j)
    OBVIOUS
  <2>3. \A x \in 0..j : f[x] = Choose(0, x) * Choose(b, j - x) /\ f[x] \in Int
    BY <1>1, <2>2
  <2>4. Choose(0, 0) = 1 /\ Choose(b, j) \in Nat
    <3>1. IsWays(1, 0, 0)
      <4>1. 0 - 0 = 0
        OBVIOUS
      <4>. QED  BY <4>1, FactIs DEF IsWays
    <3>2. 0 \in 0..0
      OBVIOUS
    <3>3. Choose(0, 0) = 1
      BY <3>1, <3>2, WaysAreOne
    <3>4. Choose(b, j) \in Nat
      BY Pascal
    <3>. QED  BY <3>3, <3>4
  <2>5. f[0] = Choose(b, j)
    <3>1. f[0] = 1 * Choose(b, j - 0)
      BY <2>3, <2>4
    <3>. QED  BY <2>4, <3>1
  <2>6. \A x \in (0..j) \ {0} : f[x] = 0
    <3>1. TAKE x \in (0..j) \ {0}
    <3>2. Choose(0, x) = 0
      BY DEF Choose
    <3>3. Choose(b, j - x) \in Nat
      BY Pascal
    <3>. QED  BY <2>3, <3>2, <3>3
  <2>7. Sum(f, 0..j) = f[0] + Sum(f, (0..j) \ {0})
    <3>1. IsFiniteSet(0..j) /\ 0 \in 0..j /\ \A x \in 0..j : f[x] \in Int
      BY <1>1, <2>3
    <3>. QED  BY <3>1, SumRemove
  <2>8. Sum(f, (0..j) \ {0}) = 0
    <3>1. IsFiniteSet((0..j) \ {0})
      BY <1>1, FS_RemoveElement
    <3>. QED  BY <2>6, <3>1, SumZero
  <2>. QED  BY <2>2, <2>4, <2>5, <2>7, <2>8
<1>3. ASSUME NEW m \in Nat, m \in Q PROVE m + 1 \in Q
  <2>1. SUFFICES ASSUME NEW j \in Nat
                 PROVE  Sum(Halves(m + 1, b, j), 0..j) = Choose(m + 1 + b, j)
    OBVIOUS
  <2>2. PICK h1 : h1 = Halves(m + 1, b, j)
    OBVIOUS
  <2>3. PICK f : f = Halves(m, b, j)
    OBVIOUS
  <2>4. PICK g : g = [x \in 0..j |-> Choose(m, x - 1) * Choose(b, j - x)]
    OBVIOUS
  <2>5. IsFiniteSet(0..j)
    BY <1>1
  <2>6. ASSUME NEW x \in 0..j PROVE f[x] \in Int /\ g[x] \in Int /\ h1[x] = f[x] + g[x]
    <3>1. PICK p \in Nat : p = Choose(m, x)
      BY Pascal
    <3>2. PICK q \in Nat : q = Choose(m, x - 1)
      BY Pascal
    <3>3. PICK r \in Nat : r = Choose(b, j - x)
      BY Pascal
    <3>4. Choose(m + 1, x) = p + q
      BY <3>1, <3>2, Pascal
    <3>5. h1[x] = (p + q) * r
      <4>1. h1[x] = Choose(m + 1, x) * Choose(b, j - x)
        BY <2>2 DEF Halves
      <4>. QED  BY <3>3, <3>4, <4>1
    <3>6. f[x] = p * r /\ g[x] = q * r
      BY <1>1, <2>3, <2>4, <3>1, <3>2, <3>3
    <3>. QED  BY <3>5, <3>6
  <2>7. Sum(h1, 0..j) = Sum(f, 0..j) + Sum(g, 0..j)
    BY <2>5, <2>6, SumBoth
  <2>8. Sum(f, 0..j) = Choose(m + b, j)
    BY <1>3, <2>3
  <2>9. Sum(g, 0..j) = Choose(m + b, j - 1)
    <3>1. g[0] = 0
      <4>1. Choose(m, 0 - 1) = 0
        BY DEF Choose
      <4>2. Choose(b, j - 0) \in Nat
        BY Pascal
      <4>. QED  BY <2>4, <4>1, <4>2
    <3>2. PICK S : S = (0..j) \ {0}
      OBVIOUS
    <3>3. IsFiniteSet(S)
      BY <2>5, <3>2, FS_RemoveElement
    <3>4. Sum(g, 0..j) = g[0] + Sum(g, S)
      <4>1. 0 \in 0..j /\ \A x \in 0..j : g[x] \in Int
        BY <2>6
      <4>. QED  BY <2>5, <3>2, <4>1, SumRemove
    <3>5. Sum(g, S) \in Int
      BY <2>6, <3>2, <3>3, SumType
    <3>6. CASE j = 0
      <4>1. S = {}
        BY <3>2, <3>6
      <4>2. Choose(m + b, j - 1) = 0
        BY <3>6 DEF Choose
      <4>. QED  BY <3>1, <3>4, <4>1, <4>2, SumEmpty
    <3>7. CASE j # 0
      <4>1. PICK i \in Nat : i = j - 1
        BY <3>7
      <4>2. PICK d : d = Halves(m, b, i)
        OBVIOUS
      <4>3. PICK e : e = [x \in 0..i |-> x + 1]
        OBVIOUS
      <4>4. Renames(e, 0..i, S)
        <5>1. \A x \in 0..i : e[x] = x + 1
          BY <4>3
        <5>2. \A x \in 0..i : x + 1 \in S
          BY <3>2, <4>1
        <5>3. \A z \in S : z - 1 \in 0..i /\ z - 1 + 1 = z
          BY <3>2, <4>1
        <5>. QED  BY <5>1, <5>2, <5>3 DEF Renames
      <4>5. ASSUME NEW x \in 0..i PROVE d[x] \in Int /\ g[e[x]] = d[x]
        <5>1. e[x] = x + 1 /\ x + 1 \in 0..j /\ x + 1 - 1 = x /\ j - (x + 1) = i - x
          BY <4>1, <4>3
        <5>2. g[x + 1] = Choose(m, x + 1 - 1) * Choose(b, j - (x + 1))
          BY <2>4, <5>1
        <5>3. d[x] = Choose(m, x) * Choose(b, i - x) /\ d[x] \in Int
          BY <1>1, <4>2
        <5>. QED  BY <5>1, <5>2, <5>3
      <4>6. IsFiniteSet(0..i)
        BY FS_Interval
      <4>7. Sum(g, S) = Sum(d, 0..i)
        BY <4>4, <4>5, <4>6, SumRenamed
      <4>8. Sum(d, 0..i) = Choose(m + b, i)
        BY <1>3, <4>2
      <4>. QED  BY <3>1, <3>4, <3>5, <4>1, <4>7, <4>8
    <3>. QED  BY <3>6, <3>7
  <2>10. Choose(m + b + 1, j) = Choose(m + b, j) + Choose(m + b, j - 1)
    <3>1. m + b \in Nat
      OBVIOUS
    <3>. QED  BY <3>1, Pascal
  <2>11. m + b + 1 = m + 1 + b
    OBVIOUS
  <2>. QED  BY <2>2, <2>7, <2>8, <2>9, <2>10, <2>11
<1>4. Nat \subseteq Q
  <2>. HIDE DEF Q
  <2>. QED  BY <1>2, <1>3, CountInduction
<1>. QED  BY <1>4

\* The tables that have the margins of two arms, and in how many ways each comes
\* about.
Tables(testedA, testedB, hits) == Max({0, hits - testedB})..Min({testedA, hits})
WaysOf(testedA, testedB, hits) ==
    [x \in Tables(testedA, testedB, hits) |-> Choose(testedA, x) * Choose(testedB, hits - x)]

Products(f, a, b, h) ==
    \A x \in Tables(a, b, h) : f[x] = Choose(a, x) * Choose(b, h - x) /\ f[x] \in Nat \ {0}

\* They are those that leave no number negative, each possible.
LEMMA TablesAre ==
    ASSUME NEW a \in Nat, NEW b \in Nat, NEW h \in Nat
    PROVE  /\ IsFiniteSet(Tables(a, b, h)) /\ Tables(a, b, h) \subseteq 0..h
           /\ \A x \in Int : x \in Tables(a, b, h) <=> 0 <= x /\ h - b <= x /\ x <= a /\ x <= h
           /\ Products(WaysOf(a, b, h), a, b, h)
<1>1. \A x \in Int : x \in Tables(a, b, h) <=> 0 <= x /\ h - b <= x /\ x <= a /\ x <= h
  <2>1. PICK d \in Int : d = h - b
    OBVIOUS
  <2>2. Max({0, d}) = (IF 0 >= d THEN 0 ELSE d) /\ Min({a, h}) = IF a <= h THEN a ELSE h
    BY OfTwo
  <2>3. Tables(a, b, h) = (IF 0 >= d THEN 0 ELSE d)..(IF a <= h THEN a ELSE h)
    BY <2>1, <2>2 DEF Tables
  <2>. QED  BY <2>1, <2>3
<1>2. Tables(a, b, h) \subseteq 0..h
  <2>1. Tables(a, b, h) \subseteq Int
    BY DEF Tables
  <2>. QED  BY <1>1, <2>1
<1>3. IsFiniteSet(Tables(a, b, h))
  <2>1. IsFiniteSet(0..h)
    BY FS_Interval
  <2>. QED  BY <1>2, <2>1, FS_Subset
<1>4. ASSUME NEW x \in Tables(a, b, h)
      PROVE  /\ WaysOf(a, b, h)[x] = Choose(a, x) * Choose(b, h - x)
             /\ WaysOf(a, b, h)[x] \in Nat \ {0}
  <2>1. x \in Int /\ h - x \in Int /\ x \in 0..a /\ h - x \in 0..b
    BY <1>1, <1>2
  <2>2. PICK p \in Nat \ {0} : p = Choose(a, x)
    BY <2>1, Pascal
  <2>3. PICK q \in Nat \ {0} : q = Choose(b, h - x)
    <3>1. PICK y \in Int : y = h - x /\ y \in 0..b
      BY <2>1
    <3>2. Choose(b, y) \in Nat \ {0}
      BY <3>1, Pascal
    <3>. QED  BY <3>1, <3>2
  <2>4. p * q \in Nat \ {0}
    BY Regroup
  <2>. QED  BY <2>2, <2>3, <2>4 DEF WaysOf
<1>. QED  BY <1>1, <1>2, <1>3, <1>4 DEF Products

\* Whichever arm is named first, the tables are the same.
LEMMA TablesTurn ==
    ASSUME NEW a \in Nat, NEW b \in Nat, NEW h \in Nat, NEW limit \in Nat
    PROVE  LET few(m, n) == { x \in Tables(m, n, h) : WaysOf(m, n, h)[x] <= limit }
           IN  Sum(WaysOf(b, a, h), few(b, a)) = Sum(WaysOf(a, b, h), few(a, b))
<1>1. PICK f : f = WaysOf(a, b, h)
  OBVIOUS
<1>2. PICK g : g = WaysOf(b, a, h)
  OBVIOUS
<1>3. PICK S : S = { x \in Tables(a, b, h) : f[x] <= limit }
  OBVIOUS
<1>4. PICK T : T = { x \in Tables(b, a, h) : g[x] <= limit }
  OBVIOUS
<1>5. PICK e : e = [x \in S |-> h - x]
  OBVIOUS
<1>6. ASSUME NEW x \in Tables(a, b, h)
      PROVE  x \in Int /\ h - x \in Tables(b, a, h) /\ g[h - x] = f[x] /\ f[x] \in Int
  <2>1. x \in Int /\ h - x \in Int /\ h - (h - x) = x
    BY TablesAre
  <2>2. h - x \in Tables(b, a, h)
    BY <2>1, TablesAre
  <2>3. f[x] = Choose(a, x) * Choose(b, h - x) /\ f[x] \in Int
    <3>1. Products(f, a, b, h)
      BY <1>1, TablesAre
    <3>. QED  BY <3>1 DEF Products
  <2>4. g[h - x] = Choose(b, h - x) * Choose(a, x)
    <3>1. Products(g, b, a, h)
      BY <1>2, TablesAre
    <3>. QED  BY <2>1, <2>2, <3>1 DEF Products
  <2>5. Choose(a, x) \in Int /\ Choose(b, h - x) \in Int
    <3>1. PICK y \in Int : y = h - x
      BY <2>1
    <3>2. Choose(b, y) \in Nat
      BY Pascal
    <3>3. Choose(a, x) \in Nat
      BY <2>1, Pascal
    <3>. QED  BY <3>1, <3>2, <3>3
  <2>6. Choose(a, x) * Choose(b, h - x) = Choose(b, h - x) * Choose(a, x)
    BY <2>5, Regroup
  <2>. QED  BY <2>1, <2>2, <2>3, <2>4, <2>6
<1>7. ASSUME NEW x \in Tables(b, a, h)
      PROVE  x \in Int /\ h - x \in Tables(a, b, h) /\ h - (h - x) = x
  <2>1. x \in Int /\ h - x \in Int /\ h - (h - x) = x
    BY TablesAre
  <2>. QED  BY <2>1, TablesAre
<1>8. Renames(e, S, T)
  <2>1. \A x \in S : e[x] = h - x /\ e[x] \in T
    BY <1>3, <1>4, <1>5, <1>6
  <2>2. \A x, y \in S : e[x] = e[y] => x = y
    BY <1>3, <1>6, <2>1
  <2>3. ASSUME NEW z \in T PROVE \E x \in S : e[x] = z
    <3>1. z \in Int /\ h - z \in Tables(a, b, h) /\ h - (h - z) = z
      BY <1>4, <1>7
    <3>2. g[z] = f[h - z]
      BY <1>6, <3>1
    <3>3. h - z \in S
      BY <1>3, <1>4, <3>1, <3>2
    <3>. QED  BY <2>1, <3>1, <3>3
  <2>. QED  BY <2>1, <2>2, <2>3 DEF Renames
<1>9. IsFiniteSet(S)
  BY <1>3, TablesAre, FS_Subset
<1>10. \A x \in S : f[x] \in Int /\ g[e[x]] = f[x]
  BY <1>3, <1>5, <1>6
<1>11. Sum(g, T) = Sum(f, S)
  BY <1>8, <1>9, <1>10, SumRenamed
<1>. QED  BY <1>1, <1>2, <1>3, <1>4, <1>11

\* What may be said of a test: a probability at most, the same from either side.
IsFair(this, that) ==
    /\ this = that
    /\ \A p \in this : p[1] \in Nat /\ p[2] \in Nat /\ 0 < p[1] /\ p[1] <= p[2]

\* Fisher's exact test is fair: the tables it adds up are some of those there
\* are, and they are the same whichever arm is named first.
THEOREM FisherIsFair ==
    ASSUME NEW a \in Nat, NEW b \in Nat, NEW x \in 0..a, NEW y \in 0..b
    PROVE  IsFair(FisherExact(x, a, y, b), FisherExact(y, b, x, a))
<1>1. CASE a = 0 \/ b = 0
  <2>1. FisherExact(x, a, y, b) = {} /\ FisherExact(y, b, x, a) = {}
    BY <1>1 DEF FisherExact
  <2>. QED  BY <2>1 DEF IsFair
<1>2. CASE a # 0 /\ b # 0
  <2>1. PICK h \in Nat : h = x + y /\ h = y + x
    OBVIOUS
  <2>2. PICK f : f = WaysOf(a, b, h)
    OBVIOUS
  <2>3. PICK g : g = WaysOf(b, a, h)
    OBVIOUS
  <2>4. PICK S : S = { z \in Tables(a, b, h) : f[z] <= f[x] }
    OBVIOUS
  <2>5. PICK T : T = { z \in Tables(b, a, h) : g[z] <= g[y] }
    OBVIOUS
  <2>6. PICK n : n = Choose(a + b, h)
    OBVIOUS
  <2>7. FisherExact(x, a, y, b) = Ratio(Sum(f, S), n)
    BY <1>2, <2>1, <2>2, <2>4, <2>6 DEF FisherExact, WaysOf, Tables
  <2>8. FisherExact(y, b, x, a) = Ratio(Sum(g, T), n)
    <3>1. a + b = b + a
      OBVIOUS
    <3>. QED  BY <1>2, <2>1, <2>3, <2>5, <2>6, <3>1 DEF FisherExact, WaysOf, Tables
  <2>9. x \in Tables(a, b, h) /\ y \in Tables(b, a, h) /\ h - x = y
    BY <2>1, TablesAre
  <2>10. f[x] \in Nat \ {0} /\ g[y] = f[x]
    <3>1. f[x] = Choose(a, x) * Choose(b, y) /\ f[x] \in Nat \ {0}
      <4>1. Products(f, a, b, h)
        BY <2>2, TablesAre
      <4>. QED  BY <2>9, <4>1 DEF Products
    <3>2. h - y = x
      BY <2>1
    <3>3. g[y] = Choose(b, y) * Choose(a, x)
      <4>1. Products(g, b, a, h)
        BY <2>3, TablesAre
      <4>. QED  BY <2>9, <3>2, <4>1 DEF Products
    <3>4. Choose(a, x) \in Int /\ Choose(b, y) \in Int
      BY Pascal
    <3>. QED  BY <3>1, <3>3, <3>4, Regroup
  <2>11. Sum(g, T) = Sum(f, S)
    <3>1. PICK limit \in Nat : limit = f[x] /\ limit = g[y]
      BY <2>10
    <3>. QED  BY <2>2, <2>3, <2>4, <2>5, <3>1, TablesTurn
  <2>12. Sum(f, S) \in Nat /\ 0 < Sum(f, S) /\ Sum(f, S) <= n /\ n \in Nat
    <3>1. PICK all : all = Halves(a, b, h)
      OBVIOUS
    <3>2. Sum(all, 0..h) = n
      BY <2>6, <3>1, Vandermonde
    <3>3. IsFiniteSet(0..h) /\ S \subseteq 0..h
      BY <2>4, TablesAre, FS_Interval
    <3>4. \A z \in 0..h : all[z] \in Nat
      <4>1. TAKE z \in 0..h
      <4>2. z \in Int /\ h - z \in Int
        OBVIOUS
      <4>3. Choose(a, z) \in Nat
        BY <4>2, Pascal
      <4>4. Choose(b, h - z) \in Nat
        BY <4>2, Pascal
      <4>. QED  BY <3>1, <4>3, <4>4, Regroup DEF Halves
    <3>5. \A z \in S : f[z] = all[z]
      <4>1. Products(f, a, b, h)
        BY <2>2, TablesAre
      <4>. QED  BY <2>4, <3>1, <3>3, <4>1 DEF Halves, Products
    <3>6. Sum(f, S) = Sum(all, S)
      BY <3>3, <3>5, SumSame, FS_Subset
    <3>7. x \in S
      BY <2>4, <2>9, <2>10
    <3>8. /\ Sum(all, S) \in Nat /\ Sum(all, 0..h) \in Nat /\ Sum(all, S) <= Sum(all, 0..h)
          /\ \A z \in S : all[z] <= Sum(all, S)
      BY <3>3, <3>4, SumPart
    <3>. QED  BY <2>10, <3>2, <3>5, <3>6, <3>7, <3>8
  <2>. QED  BY <2>7, <2>8, <2>11, <2>12 DEF IsFair, Ratio
<1>. QED  BY <1>1, <1>2

\* How far apart the means of two groups are, as the permutation test has it, and
\* the groups of a size that are at least so far apart.
Apart(pooled, n, m, I) ==
    LET J == DOMAIN pooled \ I
        d == Sum(pooled, I) * m - Sum(pooled, J) * n
    IN IF d < 0 THEN -d ELSE d
Groups(pooled, n) == { I \in SUBSET DOMAIN pooled : Cardinality(I) = n }
Extreme(pooled, n, m, least) == { I \in Groups(pooled, n) : Apart(pooled, n, m, I) >= least }

\* The places of one list behind the other, in the other order.
Turned(n, m) == [i \in 1..(n + m) |-> IF i <= n THEN m + i ELSE i - n]

\* s and t are two lists, of n and m integers, one behind the other and the other
\* way round.
TurnedLists(p, q, n, m) ==
    /\ n \in Nat /\ m \in Nat /\ DOMAIN p = 1..(n + m) /\ DOMAIN q = 1..(n + m)
    /\ \A i \in 1..(n + m) : p[i] \in Int /\ q[Turned(n, m)[i]] = p[i]

LEMMA TurnedIs ==
    ASSUME NEW n \in Nat, NEW m \in Nat
    PROVE  /\ Renames(Turned(n, m), 1..(n + m), 1..(n + m))
           /\ {Turned(n, m)[i] : i \in (1..(n + m)) \ (1..n)} = 1..m
           /\ \A i \in 1..(n + m) : Turned(m, n)[Turned(n, m)[i]] = i
<1>1. PICK e : e = Turned(n, m)
  OBVIOUS
<1>2. PICK d : d = Turned(m, n)
  OBVIOUS
<1>3. \A i \in 1..(n + m) : e[i] = IF i <= n THEN m + i ELSE i - n
  BY <1>1 DEF Turned
<1>4. \A i \in 1..(n + m) : d[i] = IF i <= m THEN n + i ELSE i - m
  <2>1. m + n = n + m
    OBVIOUS
  <2>. QED  BY <1>2, <2>1 DEF Turned
<1>5. \A i \in 1..(n + m) : e[i] \in 1..(n + m) /\ d[i] \in 1..(n + m)
  BY <1>3, <1>4
<1>6. \A i \in 1..(n + m) : d[e[i]] = i /\ e[d[i]] = i
  BY <1>3, <1>4, <1>5
<1>7. Renames(e, 1..(n + m), 1..(n + m))
  BY <1>5, <1>6 DEF Renames
<1>8. {e[i] : i \in (1..(n + m)) \ (1..n)} = 1..m
  <2>1. \A i \in (1..(n + m)) \ (1..n) : e[i] \in 1..m
    BY <1>3
  <2>2. \A j \in 1..m : n + j \in (1..(n + m)) \ (1..n) /\ e[n + j] = j
    BY <1>3
  <2>. QED  BY <2>1, <2>2
<1>. QED  BY <1>1, <1>2, <1>6, <1>7, <1>8

\* The group of one order that the others make in the other.
Others(n, m, I) == {Turned(n, m)[i] : i \in (1..(n + m)) \ I}

\* It has the other size, is as far apart, and turning twice is not turning.
LEMMA OthersAre ==
    ASSUME NEW p, NEW q, NEW n, NEW m, TurnedLists(p, q, n, m), NEW I \in Groups(p, n)
    PROVE  /\ Others(n, m, I) \in Groups(q, m)
           /\ Apart(q, m, n, Others(n, m, I)) = Apart(p, n, m, I)
           /\ Apart(p, n, m, I) \in Int
           /\ Others(m, n, Others(n, m, I)) = I
<1>1. PICK D : D = 1..(n + m)
  OBVIOUS
<1>2. PICK e : e = Turned(n, m)
  OBVIOUS
<1>3. /\ n \in Nat /\ m \in Nat /\ DOMAIN p = D /\ DOMAIN q = D
      /\ \A i \in D : p[i] \in Int /\ q[e[i]] = p[i]
  BY <1>1, <1>2 DEF TurnedLists
<1>4. Renames(e, D, D) /\ \A i \in D : Turned(m, n)[e[i]] = i
  <2>1. Renames(Turned(n, m), 1..(n + m), 1..(n + m))
        /\ \A i \in 1..(n + m) : Turned(m, n)[Turned(n, m)[i]] = i
    BY <1>3, TurnedIs
  <2>. QED  BY <1>1, <1>2, <2>1, Zenon
<1>5. I \subseteq D /\ Cardinality(I) = n
  BY <1>3 DEF Groups
<1>6. PICK J : J = D \ I
  OBVIOUS
<1>7. PICK A : A = {e[i] : i \in J}
  OBVIOUS
<1>8. PICK B : B = {e[i] : i \in I}
  OBVIOUS
<1>9. A = Others(n, m, I)
  BY <1>1, <1>2, <1>6, <1>7 DEF Others
<1>10. A \subseteq D /\ B = D \ A
  BY <1>4, <1>5, <1>6, <1>7, <1>8 DEF Renames
<1>11. IsFiniteSet(D) /\ IsFiniteSet(I) /\ IsFiniteSet(J) /\ Cardinality(D) = n + m
  <2>1. IsFiniteSet(D) /\ Cardinality(D) = n + m
    BY <1>1, <1>3, FS_Interval
  <2>. QED  BY <1>5, <1>6, <2>1, FS_Subset
<1>12. Renames(e, I, B) /\ Renames(e, J, A)
  BY <1>4, <1>5, <1>6, <1>7, <1>8 DEF Renames
<1>13. Sum(q, B) = Sum(p, I)
  BY <1>3, <1>5, <1>11, <1>12, SumRenamed
<1>14. Sum(q, A) = Sum(p, J)
  BY <1>3, <1>6, <1>11, <1>12, SumRenamed
<1>15. Cardinality(A) = m
  <2>1. Cardinality(J) = m
    <3>1. Cardinality(J) = Cardinality(D) - Cardinality(D \cap I)
      BY <1>6, <1>11, FS_Difference
    <3>2. D \cap I = I
      BY <1>5
    <3>3. Cardinality(D \cap I) = n
      BY Zenon, <1>5, <3>2
    <3>. QED  BY <1>3, <1>11, <3>1, <3>3
  <2>2. PICK b : b = [i \in J |-> e[i]]
    OBVIOUS
  <2>3. b \in Bijection(J, A)
    <3>1. \A i \in J : b[i] = e[i]
      BY <2>2
    <3>2. b \in [J -> A]
      BY <1>12, <2>2 DEF Renames
    <3>3. \A i, j \in J : b[i] = b[j] => i = j
      BY <1>12, <3>1 DEF Renames
    <3>4. \A z \in A : \E i \in J : b[i] = z
      BY <1>12, <3>1 DEF Renames
    <3>. QED  BY <3>2, <3>3, <3>4 DEF Bijection, Injection, Surjection, IsInjective
  <2>4. Cardinality(A) = Cardinality(J)
    BY <1>11, <2>3, FS_Bijection DEF ExistsBijection
  <2>. QED  BY <2>1, <2>4
<1>16. A \in Groups(q, m)
  BY <1>3, <1>10, <1>15 DEF Groups
<1>17. PICK x \in Int : x = Sum(p, I)
  BY <1>3, <1>5, <1>11, SumType
<1>18. PICK y \in Int : y = Sum(p, J)
  BY <1>3, <1>6, <1>11, SumType
<1>19. PICK u \in Int : u = x * m /\ u = m * x
  BY <1>3, Regroup
<1>20. PICK v \in Int : v = y * n
  BY <1>3, Regroup
<1>21. Apart(p, n, m, I) = IF u - v < 0 THEN -(u - v) ELSE u - v
  BY <1>3, <1>6, <1>17, <1>18, <1>19, <1>20 DEF Apart
<1>22. Apart(q, m, n, A) = IF v - u < 0 THEN -(v - u) ELSE v - u
  BY <1>3, <1>10, <1>13, <1>14, <1>17, <1>18, <1>19, <1>20 DEF Apart
<1>23. Others(m, n, A) = I
  <2>1. m + n = n + m
    BY <1>3
  <2>2. Others(m, n, A) = {Turned(m, n)[j] : j \in D \ A}
    BY <1>1, <2>1 DEF Others
  <2>3. \A j \in B : \E i \in I : j = e[i]
    BY <1>8
  <2>. QED  BY <1>4, <1>5, <1>8, <1>10, <2>2, <2>3
<1>. QED  BY <1>9, <1>16, <1>21, <1>22, <1>23

\* So there are as many groups as far apart.
LEMMA ExtremesTurn ==
    ASSUME NEW p, NEW q, NEW n, NEW m, TurnedLists(p, q, n, m), TurnedLists(q, p, m, n),
           NEW least \in Int
    PROVE  /\ IsFiniteSet(Groups(p, n))
           /\ Cardinality(Groups(q, m)) = Cardinality(Groups(p, n))
           /\ Cardinality(Extreme(q, m, n, least)) = Cardinality(Extreme(p, n, m, least))
<1>1. IsFiniteSet(Groups(p, n))
  <2>1. IsFiniteSet(DOMAIN p)
    BY FS_Interval DEF TurnedLists
  <2>2. IsFiniteSet(SUBSET DOMAIN p) /\ Groups(p, n) \subseteq SUBSET DOMAIN p
    BY <2>1, FS_SUBSET DEF Groups
  <2>. QED  BY <2>2, FS_Subset
<1>2. IsFiniteSet(Extreme(p, n, m, least))
  <2>1. Extreme(p, n, m, least) \subseteq Groups(p, n)
    BY DEF Extreme
  <2>. QED  BY <1>1, <2>1, FS_Subset
<1>3. \A I \in Groups(p, n) : /\ Others(n, m, I) \in Groups(q, m)
                              /\ Apart(q, m, n, Others(n, m, I)) = Apart(p, n, m, I)
                              /\ Others(m, n, Others(n, m, I)) = I
  BY OthersAre
<1>4. \A I \in Groups(q, m) : /\ Others(m, n, I) \in Groups(p, n)
                              /\ Apart(p, n, m, Others(m, n, I)) = Apart(q, m, n, I)
                              /\ Others(n, m, Others(m, n, I)) = I
  BY OthersAre
<1>5. ASSUME NEW P, NEW Q, P \subseteq Groups(p, n), Q \subseteq Groups(q, m), IsFiniteSet(P),
             \A I \in P : Others(n, m, I) \in Q, \A I \in Q : Others(m, n, I) \in P
      PROVE  Cardinality(Q) = Cardinality(P)
  <2>1. PICK b : b = [I \in P |-> Others(n, m, I)]
    OBVIOUS
  <2>2. \A I \in P : b[I] = Others(n, m, I) /\ b[I] \in Q
    BY <1>5, <2>1
  <2>3. b \in [P -> Q]
    BY <2>1, <2>2
  <2>4. \A I, J \in P : b[I] = b[J] => I = J
    <3>1. \A I \in P : Others(m, n, b[I]) = I
      BY <1>3, <1>5, <2>2
    <3>. QED  BY <3>1
  <2>5. \A J \in Q : \E I \in P : b[I] = J
    <3>1. TAKE J \in Q
    <3>2. Others(m, n, J) \in P /\ Others(n, m, Others(m, n, J)) = J
      BY <1>4, <1>5
    <3>. QED  BY <2>2, <3>2
  <2>6. b \in Bijection(P, Q)
    BY <2>3, <2>4, <2>5 DEF Bijection, Injection, Surjection, IsInjective
  <2>. QED  BY <1>5, <2>6, FS_Bijection DEF ExistsBijection
<1>6. Cardinality(Groups(q, m)) = Cardinality(Groups(p, n))
  BY <1>1, <1>3, <1>4, <1>5
<1>7. Cardinality(Extreme(q, m, n, least)) = Cardinality(Extreme(p, n, m, least))
  <2>1. \A I \in Extreme(p, n, m, least) : Others(n, m, I) \in Extreme(q, m, n, least)
    BY <1>3 DEF Extreme
  <2>2. \A I \in Extreme(q, m, n, least) : Others(m, n, I) \in Extreme(p, n, m, least)
    BY <1>4 DEF Extreme
  <2>3. /\ Extreme(p, n, m, least) \subseteq Groups(p, n)
        /\ Extreme(q, m, n, least) \subseteq Groups(q, m)
    BY DEF Extreme
  <2>. QED  BY <1>2, <1>5, <2>1, <2>2, <2>3
<1>. QED  BY <1>1, <1>6, <1>7

\* The permutation test is fair: the groups as they were are among those it
\* counts, and the others are told apart by the rest as well.
THEOREM PermutationIsFair ==
    ASSUME NEW left \in Seq(Int), NEW right \in Seq(Int)
    PROVE  IsFair(PermutationP(left, right), PermutationP(right, left))
<1>1. CASE left = <<>> \/ right = <<>>
  <2>1. PermutationP(left, right) = {} /\ PermutationP(right, left) = {}
    BY <1>1 DEF PermutationP
  <2>. QED  BY <2>1 DEF IsFair
<1>2. CASE left # <<>> /\ right # <<>>
  <2>1. PICK n \in Nat : n = Len(left)
    OBVIOUS
  <2>2. PICK m \in Nat : m = Len(right)
    OBVIOUS
  <2>3. PICK p : p = left \o right
    OBVIOUS
  <2>4. PICK q : q = right \o left
    OBVIOUS
  <2>5. /\ DOMAIN p = 1..(n + m) /\ DOMAIN q = 1..(n + m)
        /\ \A i \in 1..(n + m) : p[i] = IF i <= n THEN left[i] ELSE right[i - n]
        /\ \A i \in 1..(n + m) : q[i] = IF i <= m THEN right[i] ELSE left[i - m]
    <3>1. m + n = n + m
      OBVIOUS
    <3>. QED  BY <2>1, <2>2, <2>3, <2>4, <3>1
  <2>6. /\ \A i \in 1..n : left[i] \in Int
        /\ \A i \in 1..m : right[i] \in Int
    BY <2>1, <2>2
  <2>7. TurnedLists(p, q, n, m) /\ TurnedLists(q, p, m, n)
    <3>1. \A i \in 1..(n + m) : p[i] \in Int /\ q[i] \in Int
      <4>1. TAKE i \in 1..(n + m)
      <4>2. p[i] \in Int
        <5>1. i <= n \/ i - n \in 1..m
          OBVIOUS
        <5>. QED  BY <2>5, <2>6, <5>1
      <4>3. q[i] \in Int
        <5>1. i <= m \/ i - m \in 1..n
          OBVIOUS
        <5>. QED  BY <2>5, <2>6, <5>1
      <4>. QED  BY <4>2, <4>3
    <3>2. \A i \in 1..(n + m) : q[Turned(n, m)[i]] = p[i]
      <4>1. TAKE i \in 1..(n + m)
      <4>2. Turned(n, m)[i] = IF i <= n THEN m + i ELSE i - n
        BY DEF Turned
      <4>3. CASE i <= n
        <5>1. m + i \in 1..(n + m) /\ ~ m + i <= m /\ m + i - m = i
          BY <4>3
        <5>. QED  BY <2>5, <4>2, <4>3, <5>1
      <4>4. CASE ~ i <= n
        <5>1. i - n \in 1..(n + m) /\ i - n <= m
          BY <4>4
        <5>. QED  BY <2>5, <4>2, <4>4, <5>1
      <4>. QED  BY <4>3, <4>4
    <3>3. m + n = n + m
      OBVIOUS
    <3>4. \A i \in 1..(n + m) : p[Turned(m, n)[i]] = q[i]
      <4>1. TAKE i \in 1..(n + m)
      <4>2. Turned(m, n)[i] = IF i <= m THEN n + i ELSE i - m
        BY <3>3 DEF Turned
      <4>3. CASE i <= m
        <5>1. PICK j \in 1..(n + m) : j = n + i /\ ~ j <= n /\ j - n = i
          BY <4>3
        <5>2. p[j] = right[i]
          BY <2>5, <5>1
        <5>. QED  BY <2>5, <4>2, <4>3, <5>1, <5>2
      <4>4. CASE ~ i <= m
        <5>1. i - m \in 1..(n + m) /\ i - m <= n
          BY <4>4
        <5>. QED  BY <2>5, <4>2, <4>4, <5>1
      <4>. QED  BY <4>3, <4>4
    <3>. QED  BY <2>5, <3>1, <3>2, <3>3, <3>4 DEF TurnedLists
  <2>8. PICK first : first = 1..n
    OBVIOUS
  <2>9. first \in Groups(p, n)
    <3>1. Cardinality(1..n) = n
      BY FS_Interval
    <3>2. 1..n \subseteq 1..(n + m)
      OBVIOUS
    <3>. QED  BY <2>5, <2>8, <3>1, <3>2 DEF Groups
  <2>10. Others(n, m, first) = 1..m
    BY <2>8, TurnedIs DEF Others
  <2>11. PICK least \in Int : least = Apart(p, n, m, 1..n) /\ least = Apart(q, m, n, 1..m)
    BY <2>7, <2>8, <2>9, <2>10, OthersAre
  <2>12. PermutationP(left, right)
           = Ratio(Cardinality(Extreme(p, n, m, least)), Cardinality(Groups(p, n)))
    BY <1>2, <2>1, <2>2, <2>3, <2>11 DEF PermutationP, Extreme, Groups, Apart
  <2>13. PermutationP(right, left)
           = Ratio(Cardinality(Extreme(q, m, n, least)), Cardinality(Groups(q, m)))
    BY <1>2, <2>1, <2>2, <2>4, <2>11 DEF PermutationP, Extreme, Groups, Apart
  <2>14. /\ IsFiniteSet(Groups(p, n))
         /\ Cardinality(Groups(q, m)) = Cardinality(Groups(p, n))
         /\ Cardinality(Extreme(q, m, n, least)) = Cardinality(Extreme(p, n, m, least))
    BY <2>7, ExtremesTurn
  <2>15. PICK E : E = Extreme(p, n, m, least)
    OBVIOUS
  <2>16. E \subseteq Groups(p, n) /\ first \in E
    BY <2>8, <2>9, <2>11, <2>15 DEF Extreme
  <2>17. /\ IsFiniteSet(E) /\ Cardinality(E) \in Nat /\ Cardinality(Groups(p, n)) \in Nat
         /\ Cardinality(E) <= Cardinality(Groups(p, n)) /\ Cardinality(E) # 0
    BY <2>14, <2>16, FS_Subset, FS_CardinalityType, FS_EmptySet
  <2>. QED  BY <2>12, <2>13, <2>14, <2>15, <2>17 DEF IsFair, Ratio
<1>. QED  BY <1>1, <1>2

----------------------------------------------------------------------------
(* What two arms come to: VerdictIsFair.                                   *)

\* The defects of the cases, case by case, and what some of the scores say of
\* what was there and what was found.
Defects == [c \in DOMAIN Cases |-> Cardinality(Cases[c].defects)]
SeededIn(all, counted) == Sum([i \in counted |-> all[i].seeded], counted)
FoundIn(all, counted) == Sum([i \in counted |-> all[i].found], counted)

\* Scores of which each says how much was there and how much of it was found.
IsRecalled(s) == IsList(s) /\ \A i \in DOMAIN s : s[i].seeded \in Nat /\ s[i].found \in Nat

\* The rates of repeats that found F of D, and which of some rates are the lowest
\* and the highest.
Rates(F, D) == { << F[i], D >> : i \in DOMAIN F }
IsSpread(r, known) ==
    /\ r.low = { q \in known : \A o \in known : ~ Less(o, q) }
    /\ r.high = { q \in known : \A o \in known : ~ Less(q, o) }

\* A summary of the repeats of a plan: what each found of the defects there are.
AllDefects == Sum(Defects, DOMAIN Cases)
Sums(r, p, F) ==
    /\ F \in [1..p.seeds -> Nat]
    /\ r.independent = p.independent
    /\ r.recalls = [i \in 1..p.seeds |-> Ratio(F[i], AllDefects)]
    /\ IsSpread(r, {}) \/ (AllDefects # 0 /\ IsSpread(r, Rates(F, AllDefects)))
    /\ r.hits \in Nat /\ r.experiments \in Nat
IsSummary(r, p) == \E F : Sums(r, p, F)

\* Every arm that is through has its summary, and of the repeats that are over
\* each has met every defect there is.
Recounted ==
    /\ arm \in Nat \ {0} /\ Len(results) = arm - 1 /\ (stage = "over" => arm = 3)
    /\ IsList(results) /\ \A i \in DOMAIN results : IsSummary(results[i], plan)
    /\ IsRecalled(scores)
    /\ \A n \in 1..(seed - 1) : /\ OfSeed(scores, n) # {}
                                /\ SeededIn(scores, OfSeed(scores, n)) = AllDefects
    /\ SeededIn(scores, OfSeed(scores, seed)) = Sum(Defects, 1..(case - 1))

\* Naturals one after the other, summed up to a place.
LEMMA SumOneMore ==
    ASSUME NEW f, NEW n \in Nat, \A c \in 1..n : f[c] \in Nat, NEW k \in 0..n
    PROVE  /\ Sum(f, 1..k) \in Nat /\ Sum(f, 1..0) = 0
           /\ k + 1 \in 1..n => Sum(f, 1..(k + 1)) = Sum(f, 1..k) + f[k + 1]
<1>1. PICK S : S = 1..k
  OBVIOUS
<1>2. IsFiniteSet(S) /\ \A c \in S : f[c] \in Int /\ f[c] >= 0
  <2>1. IsFiniteSet(1..k)
    BY FS_Interval
  <2>. QED  BY <1>1, <2>1
<1>3. Sum(f, S) \in Nat
  BY <1>2, SumType
<1>4. Sum(f, 1..0) = 0
  <2>1. 1..0 = {}
    OBVIOUS
  <2>. QED  BY <2>1, SumEmpty
<1>5. ASSUME k + 1 \in 1..n PROVE Sum(f, 1..(k + 1)) = Sum(f, 1..k) + f[k + 1]
  <2>1. PICK y : y = k + 1
    OBVIOUS
  <2>2. 1..(k + 1) = S \cup {y} /\ y \notin S
    BY <1>1, <2>1
  <2>3. \A x \in S \cup {y} : f[x] \in Int
    BY <1>2, <1>5, <2>1
  <2>4. Sum(f, S \cup {y}) = Sum(f, S) + f[y]
    BY <1>2, <2>2, <2>3, SumAdd
  <2>. QED  BY <1>1, <2>1, <2>2, <2>4
<1>. QED  BY <1>1, <1>3, <1>4, <1>5

\* The defects up to a case.
LEMMA DefectsUpTo ==
    /\ Len(Cases) \in Nat \ {0} /\ DOMAIN Cases = 1..Len(Cases)
    /\ Sum(Defects, 1..0) = 0 /\ \A c \in DOMAIN Cases : Defects[c] \in Nat
    /\ \A c \in DOMAIN Cases : /\ Sum(Defects, 1..c) \in Nat
                               /\ Sum(Defects, 1..c) = Sum(Defects, 1..(c - 1)) + Defects[c]
<1>1. PICK n \in Nat : n = Len(Cases)
  BY CasesAreRepeated, ListHas
<1>2. n # 0 /\ DOMAIN Cases = 1..n
  BY <1>1, CasesAreRepeated, ListHas, ListEmpty
<1>3. PICK f : f = Defects
  OBVIOUS
<1>4. ASSUME NEW c \in 1..n PROVE f[c] \in Nat
  <2>1. f[c] = Cardinality(Cases[c].defects)
    BY <1>2, <1>3 DEF Defects
  <2>2. IsFiniteSet(Cases[c].defects)
    BY <1>2, CasesAreRepeated
  <2>. QED  BY <2>1, <2>2, FS_CardinalityType
<1>5. ASSUME NEW c \in 1..n
      PROVE  Sum(f, 1..c) \in Nat /\ Sum(f, 1..c) = Sum(f, 1..(c - 1)) + f[c] /\ Sum(f, 1..0) = 0
  <2>1. PICK k \in 0..n : k = c - 1 /\ k + 1 = c /\ k + 1 \in 1..n
    OBVIOUS
  <2>2. Sum(f, 1..(k + 1)) = Sum(f, 1..k) + f[k + 1] /\ Sum(f, 1..0) = 0
    BY <1>4, <2>1, SumOneMore
  <2>3. Sum(f, 1..c) \in Nat
    BY <1>4, SumOneMore
  <2>. QED  BY <2>1, <2>2, <2>3
<1>6. 1 \in 1..n
  BY <1>2
<1>. QED  BY <1>1, <1>2, <1>3, <1>4, <1>5, <1>6

\* The score that is taken says how many defects the case has and how many of
\* them were found.
LEMMA ScoredSays ==
    ASSUME Placed
    PROVE  /\ Scored.seed = seed /\ Scored.seeded = Defects[case]
           /\ Scored.seeded \in Nat /\ Scored.found \in Nat
<1>1. PICK found : found = Cardinality({ d \in Case.defects : Found(d) })
  OBVIOUS
<1>2. PICK seeded : seeded = Cardinality(Case.defects)
  OBVIOUS
<1>3. \E observations, falsifiable, tested, experiments, hits, broken : Scored =
         [seed |-> seed, seeded |-> seeded, found |-> found, failed |-> failed,
          observations |-> observations, falsifiable |-> falsifiable, testedFindings |-> tested,
          experiments |-> experiments, hits |-> hits, broken |-> broken]
  BY <1>1, <1>2, Zenon DEF Scored, Score
<1>4. Scored.seed = seed /\ Scored.seeded = seeded /\ Scored.found = found
  BY <1>3
<1>5. case \in DOMAIN Cases /\ IsFiniteSet(Case.defects)
  BY CasesAreRepeated DEF Placed, Case
<1>6. IsFiniteSet({ d \in Case.defects : Found(d) })
  <2>1. { d \in Case.defects : Found(d) } \subseteq Case.defects
    OBVIOUS
  <2>. QED  BY <1>5, <2>1, FS_Subset
<1>7. found \in Nat /\ seeded \in Nat
  BY <1>1, <1>2, <1>5, <1>6, FS_CardinalityType
<1>8. seeded = Defects[case]
  BY <1>2, <1>5 DEF Defects, Case
<1>. QED  BY <1>4, <1>7, <1>8

\* One score more counts for its own repeat.
CountsMore(s, x, t, n) ==
    /\ x.seed = n => OfSeed(t, n) # {}
    /\ OfSeed(s, n) # {} => OfSeed(t, n) # {}
    /\ SeededIn(s, OfSeed(s, n)) \in Nat
    /\ SeededIn(t, OfSeed(t, n))
         = SeededIn(s, OfSeed(s, n)) + IF x.seed = n THEN x.seeded ELSE 0
LEMMA OneScoreMore ==
    ASSUME NEW s, NEW x, NEW t, IsRecalled(s), t = Append(s, x), x.seeded \in Nat, x.found \in Nat,
           NEW n
    PROVE  IsRecalled(t) /\ CountsMore(s, x, t, n)
<1>1. PICK k \in Nat : k = Len(s)
  BY ListHas DEF IsRecalled
<1>2. /\ DOMAIN s = 1..k /\ IsFiniteSet(DOMAIN s) /\ IsList(s)
      /\ \A i \in DOMAIN s : s[i].seeded \in Nat /\ s[i].found \in Nat
  BY <1>1, ListHas DEF IsRecalled
<1>3. PICK T : T = ToSet(s) \cup {x}
  OBVIOUS
<1>4. s \in Seq(T)
  <2>1. \A i \in DOMAIN s : s[i] \in T
    BY <1>2, <1>3, ListHas
  <2>. QED  BY <1>2, <2>1, ListHas
<1>5. PICK y : y = k + 1
  OBVIOUS
<1>6. t \in Seq(T) /\ DOMAIN t = DOMAIN s \cup {y} /\ y \notin DOMAIN s /\ t[y] = x
      /\ \A i \in DOMAIN s : t[i] = s[i]
  <2>1. x \in T
    BY <1>3
  <2>2. DOMAIN t = 1..(k + 1)
    BY <1>1, <1>4, <2>1
  <2>3. 1..(k + 1) = 1..k \cup {k + 1}
    OBVIOUS
  <2>. QED  BY <1>1, <1>2, <1>4, <1>5, <2>1, <2>2, <2>3
<1>7. IsRecalled(t)
  <2>1. IsList(t)
    BY <1>6, ListIs
  <2>. QED  BY <1>2, <1>6, <2>1 DEF IsRecalled
<1>8. PICK S : S = OfSeed(s, n)
  OBVIOUS
<1>9. S \subseteq DOMAIN s /\ IsFiniteSet(S) /\ y \notin S
  <2>1. S \subseteq DOMAIN s
    BY <1>8 DEF OfSeed
  <2>. QED  BY <1>2, <1>6, <2>1, FS_Subset
<1>10. OfSeed(t, n) = IF x.seed = n THEN S \cup {y} ELSE S
  BY <1>6, <1>8 DEF OfSeed
<1>11. PICK f : f = [i \in S |-> s[i].seeded]
  OBVIOUS
<1>12. PICK g : g = [i \in OfSeed(t, n) |-> t[i].seeded]
  OBVIOUS
<1>13. SeededIn(s, OfSeed(s, n)) = Sum(f, S) /\ SeededIn(t, OfSeed(t, n)) = Sum(g, OfSeed(t, n))
  BY <1>8, <1>11, <1>12 DEF SeededIn
<1>14. \A i \in S : f[i] \in Nat /\ g[i] = f[i]
  BY <1>2, <1>6, <1>9, <1>10, <1>11, <1>12
<1>15. Sum(f, S) \in Nat
  <2>1. \A i \in S : f[i] \in Int /\ f[i] >= 0
    BY <1>14
  <2>. QED  BY <1>9, <2>1, SumType
<1>16. Sum(g, S) = Sum(f, S)
  BY <1>9, <1>14, SumSame
<1>17. CASE x.seed = n
  <2>1. g[y] = x.seeded
    BY <1>6, <1>10, <1>12, <1>17
  <2>2. \A i \in S \cup {y} : g[i] \in Int
    BY <1>14, <2>1
  <2>3. Sum(g, S \cup {y}) = Sum(g, S) + g[y]
    BY <1>9, <2>2, SumAdd
  <2>. QED  BY <1>7, <1>8, <1>10, <1>13, <1>15, <1>16, <1>17, <2>1, <2>3 DEF CountsMore
<1>18. CASE x.seed # n
  BY <1>7, <1>8, <1>10, <1>13, <1>15, <1>16, <1>18 DEF CountsMore
<1>. QED  BY <1>17, <1>18

\* What a summary says of its repeats.
SaysOf(r, all, independent) ==
    /\ r.independent = independent
    /\ r.recalls = [n \in Seeds(all) |-> Ratio(FoundIn(all, OfSeed(all, n)),
                                               SeededIn(all, OfSeed(all, n)))]
    /\ IsSpread(r, {}) \/ IsSpread(r, UNION { r.recalls[n] : n \in Seeds(all) })
    /\ r.hits = HitsIn(all, Counted(all, independent))
    /\ r.experiments = ExperimentsIn(all, Counted(all, independent))
LEMMA SummarySays ==
    ASSUME NEW all, NEW independent, NEW r, r = Summarise(all, independent)
    PROVE  SaysOf(r, all, independent)
<1>1. ASSUME NEW n
      PROVE  Aggregate(all, OfSeed(all, n)).detectionRate
               = Ratio(FoundIn(all, OfSeed(all, n)), SeededIn(all, OfSeed(all, n)))
  <2>1. PICK C : C = OfSeed(all, n)
    OBVIOUS
  <2>2. PICK d : d = Ratio(FoundIn(all, C), SeededIn(all, C))
    OBVIOUS
  <2>3. \E p, h, e, q, c :
          Aggregate(all, C) = [detectionRate |-> d, precision |-> p, hits |-> h, experiments |-> e,
                               hitRate |-> q, coverage |-> c]
    BY <2>2, Zenon DEF Aggregate, Total, FoundIn, SeededIn
  <2>4. Aggregate(all, C).detectionRate = d
    BY <2>3
  <2>. QED  BY <2>1, <2>2, <2>4
<1>2. PICK recalls : recalls = [n \in Seeds(all) |-> Aggregate(all, OfSeed(all, n)).detectionRate]
  OBVIOUS
<1>3. PICK union : union = UNION { Aggregate(all, OfSeed(all, n)).detectionRate : n \in Seeds(all) }
  OBVIOUS
<1>4. union = UNION { recalls[n] : n \in Seeds(all) }
  BY <1>2, <1>3
<1>5. PICK known : known = IF Failed(all) < Len(all) THEN union ELSE {}
  OBVIOUS
<1>6. \E n, f, h, e, rate, c :
        r = [independent |-> independent, seeds |-> n, failed |-> f, recalls |-> recalls,
             low |-> { q \in known : \A o \in known : ~ Less(o, q) },
             high |-> { q \in known : \A o \in known : ~ Less(q, o) },
             hits |-> h, experiments |-> e, hitRate |-> rate, coverage |-> c]
  BY <1>2, <1>3, <1>5, Zenon DEF Summarise
<1>7. /\ r.independent = independent /\ r.recalls = recalls
      /\ r.low = { q \in known : \A o \in known : ~ Less(o, q) }
      /\ r.high = { q \in known : \A o \in known : ~ Less(q, o) }
  BY <1>6
<1>8. IsSpread(r, known)
  BY <1>7 DEF IsSpread
<1>9. recalls = [n \in Seeds(all) |-> Ratio(FoundIn(all, OfSeed(all, n)),
                                            SeededIn(all, OfSeed(all, n)))]
  BY <1>1, <1>2
<1>10. /\ r.hits = HitsIn(all, Counted(all, independent))
       /\ r.experiments = ExperimentsIn(all, Counted(all, independent))
  BY SummaryIs
<1>11. IsSpread(r, {}) \/ IsSpread(r, UNION { r.recalls[n] : n \in Seeds(all) })
  BY <1>4, <1>5, <1>7, <1>8
<1>. QED  BY <1>7, <1>9, <1>10, <1>11 DEF SaysOf

\* A sum of naturals over some of the scores.
LEMMA CountsAdd ==
    ASSUME NEW all, IsList(all), NEW C, C \subseteq DOMAIN all
    PROVE  /\ (\A i \in C : all[i].found \in Nat) => FoundIn(all, C) \in Nat
           /\ (\A i \in C : all[i].hits \in Nat) => HitsIn(all, C) \in Nat
           /\ (\A i \in C : all[i].experiments \in Nat) => ExperimentsIn(all, C) \in Nat
<1>1. IsFiniteSet(C)
  BY ListHas, FS_Subset
<1>2. ASSUME NEW f, \A i \in C : f[i] \in Nat PROVE Sum(f, C) \in Nat
  <2>1. \A i \in C : f[i] \in Int /\ f[i] >= 0
    BY <1>2
  <2>. QED  BY <1>1, <2>1, SumType
<1>3. (\A i \in C : all[i].found \in Nat) => FoundIn(all, C) \in Nat
  <2>1. PICK f : f = [i \in C |-> all[i].found]
    OBVIOUS
  <2>2. (\A i \in C : all[i].found \in Nat) => \A i \in C : f[i] \in Nat
    BY <2>1
  <2>. QED  BY <1>2, <2>1, <2>2 DEF FoundIn
<1>4. (\A i \in C : all[i].hits \in Nat) => HitsIn(all, C) \in Nat
  <2>1. PICK f : f = [i \in C |-> all[i].hits]
    OBVIOUS
  <2>2. (\A i \in C : all[i].hits \in Nat) => \A i \in C : f[i] \in Nat
    BY <2>1
  <2>. QED  BY <1>2, <2>1, <2>2 DEF HitsIn
<1>5. (\A i \in C : all[i].experiments \in Nat) => ExperimentsIn(all, C) \in Nat
  <2>1. PICK f : f = [i \in C |-> all[i].experiments]
    OBVIOUS
  <2>2. (\A i \in C : all[i].experiments \in Nat) => \A i \in C : f[i] \in Nat
    BY <2>1
  <2>. QED  BY <1>2, <2>1, <2>2 DEF ExperimentsIn
<1>. QED  BY <1>3, <1>4, <1>5

\* With the score that is taken, the repeats that were over have met every
\* defect, and the one at hand those up to its case.
LEMMA TakenSays ==
    ASSUME IInv, Recounted, stage = "scoring", NEW all, Taken(all)
    PROVE  /\ IsRecalled(all) /\ OfSeed(all, seed) # {}
           /\ \A n \in 1..(seed - 1) :
                 /\ OfSeed(all, n) # {}
                 /\ SeededIn(all, OfSeed(all, n)) = AllDefects
           /\ SeededIn(all, OfSeed(all, seed)) = Sum(Defects, 1..case)
           /\ \A n \in Nat : n > seed => OfSeed(all, n) = {}
<1>1. PICK x : x = Scored
  OBVIOUS
<1>2. x.seed = seed /\ x.seeded = Defects[case] /\ x.seeded \in Nat /\ x.found \in Nat
  BY <1>1, ScoredSays DEF IInv
<1>3. all = Append(scores, x) /\ IsRecalled(scores)
  BY <1>1 DEF Taken, Recounted
<1>4. ASSUME NEW n PROVE IsRecalled(all) /\ CountsMore(scores, x, all, n)
  <2>1. PICK s : s = scores
    OBVIOUS
  <2>2. IsRecalled(s) /\ all = Append(s, x)
    BY <1>3, <2>1
  <2>3. IsRecalled(all) /\ CountsMore(s, x, all, n)
    BY <1>2, <2>2, OneScoreMore
  <2>. QED  BY <2>1, <2>3
<1>5. seed \in Nat \ {0} /\ case \in DOMAIN Cases /\ \A i \in DOMAIN all : all[i].seed \in 1..seed
  <2>1. seed \in Nat \ {0} /\ case \in 1..Len(Cases) /\ \A i \in DOMAIN all : all[i].seed \in 1..seed
    BY TakenAre
  <2>. QED  BY <2>1, DefectsUpTo
<1>6. ASSUME NEW n \in 1..(seed - 1)
      PROVE  /\ OfSeed(all, n) # {}
             /\ SeededIn(all, OfSeed(all, n)) = AllDefects
  <2>1. x.seed # n
    BY <1>2, <1>5
  <2>2. /\ OfSeed(scores, n) # {}
        /\ SeededIn(scores, OfSeed(scores, n)) = AllDefects
    BY DEF Recounted
  <2>3. /\ SeededIn(scores, OfSeed(scores, n)) \in Nat /\ OfSeed(all, n) # {}
        /\ SeededIn(all, OfSeed(all, n)) = SeededIn(scores, OfSeed(scores, n)) + 0
    BY <1>4, <2>1, <2>2 DEF CountsMore
  <2>. QED  BY <2>2, <2>3
<1>7. SeededIn(all, OfSeed(all, seed)) = Sum(Defects, 1..case)
  <2>1. SeededIn(scores, OfSeed(scores, seed)) = Sum(Defects, 1..(case - 1))
    BY DEF Recounted
  <2>2. SeededIn(all, OfSeed(all, seed)) = SeededIn(scores, OfSeed(scores, seed)) + x.seeded
    BY <1>2, <1>4 DEF CountsMore
  <2>3. Sum(Defects, 1..case) = Sum(Defects, 1..(case - 1)) + Defects[case]
    BY <1>5, DefectsUpTo
  <2>. QED  BY <1>2, <2>1, <2>2, <2>3
<1>8. \A n \in Nat : n > seed => OfSeed(all, n) = {}
  BY <1>5 DEF OfSeed
<1>9. IsRecalled(all) /\ OfSeed(all, seed) # {}
  BY <1>2, <1>4 DEF CountsMore
<1>. QED  BY <1>6, <1>7, <1>8, <1>9

\* The summary of an arm that is through has the recall of every repeat.
LEMMA ThroughIsSummary ==
    ASSUME IInv, Recounted, stage = "scoring", NEW all, Taken(all), LastCase, LastSeed,
           NEW r, r = Summarise(all, plan.independent)
    PROVE  IsSummary(r, plan)
<1>0. SaysOf(r, all, plan.independent)
  <2>1. PICK independent : independent = plan.independent
    OBVIOUS
  <2>. QED  BY <2>1, SummarySays
<1>1. PICK D \in Nat : D = AllDefects /\ D = Sum(Defects, 1..case)
  <2>1. case = Len(Cases) /\ case \in DOMAIN Cases
    BY DefectsUpTo DEF LastCase
  <2>2. DOMAIN Cases = 1..case
    BY <2>1, DefectsUpTo
  <2>3. Sum(Defects, 1..case) \in Nat
    BY <2>1, DefectsUpTo
  <2>4. AllDefects = Sum(Defects, 1..case)
    BY <2>2, Zenon DEF AllDefects
  <2>. QED  BY <2>3, <2>4
<1>2. PICK n \in Nat \ {0} : n = seed /\ n = plan.seeds
  <2>1. seed \in Nat \ {0}
    BY TakenAre
  <2>. QED  BY <2>1 DEF LastSeed
<1>3. ASSUME NEW m \in 1..n
      PROVE  OfSeed(all, m) # {} /\ SeededIn(all, OfSeed(all, m)) = D
  <2>1. CASE m = n
    BY <1>1, <1>2, <2>1, TakenSays
  <2>2. CASE m \in 1..(n - 1)
    BY <1>1, <1>2, <2>2, TakenSays
  <2>. QED  BY <2>1, <2>2
<1>4. /\ IsRecalled(all) /\ IsList(all)
      /\ \A i \in DOMAIN all : /\ all[i].found \in Nat /\ all[i].seed \in 1..n
                               /\ all[i].hits \in Nat /\ all[i].experiments \in Nat
  <2>1. IsRecalled(all)
    BY TakenSays
  <2>. QED  BY <1>2, <2>1, TakenAre DEF IsRecalled
<1>5. Seeds(all) = 1..n
  <2>1. \A s \in ToSet(all) : s.seed \in 1..n
    BY <1>4 DEF ToSet
  <2>2. ASSUME NEW m \in 1..n PROVE \E s \in ToSet(all) : s.seed = m
    <3>1. PICK i \in OfSeed(all, m) : TRUE
      BY <1>3
    <3>2. i \in DOMAIN all /\ all[i].seed = m
      BY <3>1 DEF OfSeed
    <3>3. all[i] \in ToSet(all)
      BY <1>4, <3>2, ListHas
    <3>. QED  BY <3>2, <3>3
  <2>. QED  BY <2>1, <2>2 DEF Seeds
<1>6. PICK F : F = [m \in 1..n |-> FoundIn(all, OfSeed(all, m))]
  OBVIOUS
<1>7. F \in [1..n -> Nat]
  <2>1. ASSUME NEW m \in 1..n PROVE FoundIn(all, OfSeed(all, m)) \in Nat
    <3>1. PICK C : C = OfSeed(all, m)
      OBVIOUS
    <3>2. C \subseteq DOMAIN all
      BY <3>1 DEF OfSeed
    <3>3. FoundIn(all, C) \in Nat
      BY <1>4, <3>2, CountsAdd
    <3>. QED  BY <3>1, <3>3
  <2>. QED  BY <1>6, <2>1
<1>8. r.recalls = [m \in 1..n |-> Ratio(F[m], D)]
  <2>1. r.recalls = [m \in Seeds(all) |-> Ratio(FoundIn(all, OfSeed(all, m)),
                                                SeededIn(all, OfSeed(all, m)))]
    BY <1>0 DEF SaysOf
  <2>2. \A m \in 1..n : Ratio(FoundIn(all, OfSeed(all, m)), SeededIn(all, OfSeed(all, m)))
                          = Ratio(F[m], D)
    BY <1>3, <1>6
  <2>. QED  BY <1>5, <2>1, <2>2
<1>9. D # 0 => UNION { r.recalls[m] : m \in Seeds(all) } = Rates(F, D)
  <2>1. SUFFICES ASSUME D # 0 PROVE UNION { r.recalls[m] : m \in Seeds(all) } = Rates(F, D)
    OBVIOUS
  <2>2. \A m \in 1..n : r.recalls[m] = {<< F[m], D >>}
    BY <1>8, <2>1 DEF Ratio
  <2>3. DOMAIN F = Seeds(all) /\ \A m \in Seeds(all) : r.recalls[m] = {<< F[m], D >>}
    BY <1>5, <1>7, <2>2
  <2>4. PICK q : q = r.recalls
    OBVIOUS
  <2>5. UNION { q[m] : m \in Seeds(all) } = UNION { {<< F[m], D >>} : m \in Seeds(all) }
    BY <2>3, <2>4
  <2>6. UNION { {<< F[m], D >>} : m \in DOMAIN F } = { << F[m], D >> : m \in DOMAIN F }
    OBVIOUS
  <2>. QED  BY <2>3, <2>4, <2>5, <2>6 DEF Rates
<1>10. IsSpread(r, {}) \/ (D # 0 /\ IsSpread(r, Rates(F, D)))
  <2>1. IsSpread(r, {}) \/ IsSpread(r, UNION { r.recalls[m] : m \in Seeds(all) })
    BY <1>0 DEF SaysOf
  <2>2. ASSUME D = 0 PROVE UNION { r.recalls[m] : m \in Seeds(all) } = {}
    <3>1. \A m \in 1..n : r.recalls[m] = {}
      BY <1>8, <2>2 DEF Ratio
    <3>. QED  BY <1>5, <3>1
  <2>3. CASE D = 0
    BY <2>1, <2>2, <2>3, Zenon
  <2>4. CASE D # 0
    BY <1>9, <2>1, <2>4, Zenon
  <2>. QED  BY <2>3, <2>4
<1>11. r.hits \in Nat /\ r.experiments \in Nat
  <2>1. PICK C : C = Counted(all, plan.independent)
    OBVIOUS
  <2>2. C \subseteq DOMAIN all
    BY <2>1 DEF Counted, OfSeed
  <2>3. HitsIn(all, C) \in Nat /\ ExperimentsIn(all, C) \in Nat
    BY <1>4, <2>2, CountsAdd
  <2>. QED  BY <1>0, <2>1, <2>3 DEF SaysOf
<1>12. r.independent = plan.independent
  BY <1>0 DEF SaysOf
<1>13. Sums(r, plan, F)
  BY <1>1, <1>2, <1>7, <1>8, <1>10, <1>11, <1>12 DEF Sums
<1>. QED  BY <1>13 DEF IsSummary

\* The counts are so throughout.
LEMMA RecountedHolds == Spec => []Recounted
<1>1. Init => Recounted
  <2>1. SUFFICES ASSUME Init PROVE Recounted
    OBVIOUS
  <2>2. arm = 1 /\ seed = 1 /\ case = 1 /\ scores = <<>> /\ results = <<>> /\ stage = "reviewing"
    BY <2>1 DEF Init
  <2>3. IsList(<<>>)
    BY ListOfOne
  <2>4. IsRecalled(scores)
    BY <2>2, <2>3 DEF IsRecalled
  <2>5. SeededIn(scores, OfSeed(scores, seed)) = 0
    <3>1. OfSeed(scores, seed) = {}
      BY <2>2 DEF OfSeed
    <3>. QED  BY <3>1, SumEmpty DEF SeededIn
  <2>6. Sum(Defects, 1..(case - 1)) = 0
    <3>1. case - 1 = 0
      BY <2>2
    <3>. QED  BY <3>1, DefectsUpTo
  <2>7. \A n \in 1..(seed - 1) : FALSE
    BY <2>2
  <2>8. Len(results) = arm - 1 /\ DOMAIN results = {}
    BY <2>2
  <2>. QED  BY <2>2, <2>3, <2>4, <2>5, <2>6, <2>7, <2>8 DEF Recounted
<1>2. IInv /\ Recounted /\ [Next]_vars => Recounted'
  <2>1. SUFFICES ASSUME IInv, Recounted, [Next]_vars PROVE Recounted'
    OBVIOUS
  <2>2. CASE UNCHANGED << plan, arm, seed, case, scores, results >> /\ (stage' = stage \/ stage' # "over")
    <3>2. \A i \in DOMAIN results' : IsSummary(results'[i], plan')
      BY <2>1, <2>2 DEF Recounted
    <3>3. /\ arm' \in Nat \ {0} /\ Len(results') = arm' - 1 /\ (stage' = "over" => arm' = 3)
          /\ IsList(results') /\ IsRecalled(scores')
      BY <2>1, <2>2 DEF Recounted
    <3>4. /\ \A n \in 1..(seed' - 1) :
                /\ OfSeed(scores', n) # {}
                /\ SeededIn(scores', OfSeed(scores', n)) = AllDefects
          /\ SeededIn(scores', OfSeed(scores', seed')) = Sum(Defects, 1..(case' - 1))
      BY <2>1, <2>2 DEF Recounted
    <3>. QED  BY <3>2, <3>3, <3>4 DEF Recounted
  <2>3. CASE Take
    <3>1. PICK all : Taken(all)
      BY DEF Taken
    <3>2. PICK through \in BOOLEAN : through = (LastCase /\ LastSeed)
      BY DEF LastCase, LastSeed
    <3>3. /\ stage = "scoring" /\ plan' = plan
          /\ scores' = IF through THEN <<>> ELSE all
          /\ results' = IF through THEN Append(results, Summarise(all, plan.independent)) ELSE results
          /\ arm' = IF through THEN arm + 1 ELSE arm
          /\ seed' = IF LastCase THEN (IF LastSeed THEN 1 ELSE seed + 1) ELSE seed
          /\ case' = IF LastCase THEN 1 ELSE case + 1
          /\ stage' = IF through /\ arm = 2 THEN "over" ELSE "reviewing"
      BY <2>3, <3>1, <3>2 DEF Take, Taken, Arms
    <3>4. /\ arm \in Nat \ {0} /\ Len(results) = arm - 1 /\ IsList(results)
          /\ \A i \in DOMAIN results : IsSummary(results[i], plan)
      BY <2>1 DEF Recounted
    <3>6. /\ IsRecalled(all) /\ OfSeed(all, seed) # {}
          /\ \A n \in 1..(seed - 1) :
                /\ OfSeed(all, n) # {}
                /\ SeededIn(all, OfSeed(all, n)) = AllDefects
          /\ SeededIn(all, OfSeed(all, seed)) = Sum(Defects, 1..case)
          /\ \A n \in Nat : n > seed => OfSeed(all, n) = {}
      BY <2>1, <3>1, <3>3, TakenSays
    <3>7. seed \in Nat \ {0} /\ case \in Nat \ {0}
      BY <2>1, <3>1, <3>3, TakenAre
    <3>8. Sum(Defects, 1..0) = 0 /\ \A s : SeededIn(s, {}) = 0
      BY DefectsUpTo, SumEmpty DEF SeededIn
    <3>9. CASE through
      <4>1. LastCase /\ LastSeed /\ scores' = <<>> /\ seed' = 1 /\ case' = 1 /\ arm' = arm + 1
        BY <3>2, <3>3, <3>9
      <4>2. PICK r : r = Summarise(all, plan.independent)
        OBVIOUS
      <4>3. IsSummary(r, plan)
        BY <2>1, <3>1, <3>3, <4>1, <4>2, ThroughIsSummary
      <4>4. results' = Append(results, r)
        BY <3>3, <3>9, <4>2
      <4>5. PICK T : T = ToSet(results) \cup {r}
        OBVIOUS
      <4>6. results \in Seq(T)
        <5>1. \A i \in DOMAIN results : results[i] \in T
          BY <3>4, <4>5, ListHas
        <5>. QED  BY <3>4, <5>1, ListHas
      <4>7. /\ results' \in Seq(T) /\ Len(results') = Len(results) + 1
            /\ \A i \in DOMAIN results' : results'[i] = r \/ (i \in DOMAIN results /\ results'[i] = results[i])
        BY <4>4, <4>5, <4>6
      <4>8. IsList(results')
        BY <4>7, ListIs
      <4>9. \A i \in DOMAIN results' : IsSummary(results'[i], plan')
        BY <3>3, <3>4, <4>3, <4>7
      <4>10. IsRecalled(scores') /\ SeededIn(scores', OfSeed(scores', seed')) = 0
        <5>1. IsList(<<>>)
          BY ListOfOne
        <5>2. OfSeed(scores', seed') = {}
          BY <4>1 DEF OfSeed
        <5>3. SeededIn(scores', OfSeed(scores', seed')) = 0
          BY <3>8, <5>2
        <5>. QED  BY <4>1, <5>1, <5>3 DEF IsRecalled
      <4>11. Sum(Defects, 1..(case' - 1)) = 0
        <5>1. case' - 1 = 0
          BY <4>1
        <5>. QED  BY <3>8, <5>1
      <4>12. arm' \in Nat \ {0} /\ Len(results') = arm' - 1 /\ (stage' = "over" => arm' = 3)
        BY <3>3, <3>4, <4>1, <4>7
      <4>13. \A n \in 1..(seed' - 1) : FALSE
        BY <4>1
      <4>. QED  BY <4>8, <4>9, <4>10, <4>11, <4>12, <4>13 DEF Recounted
    <3>10. CASE ~ through
      <4>1. scores' = all /\ results' = results /\ arm' = arm /\ stage' # "over"
        BY <3>3, <3>10
      <4>2. /\ arm' \in Nat \ {0} /\ Len(results') = arm' - 1 /\ (stage' = "over" => arm' = 3)
            /\ IsList(results') /\ IsRecalled(scores')
            /\ \A i \in DOMAIN results' : IsSummary(results'[i], plan')
        BY <3>3, <3>4, <3>6, <4>1
      <4>3. CASE LastCase
        <5>1. seed' = seed + 1 /\ case' = 1
          BY <3>2, <3>3, <3>10, <4>3
        <5>2. Sum(Defects, 1..case) = AllDefects
          <6>1. case = Len(Cases)
            BY <4>3 DEF LastCase
          <6>2. 1..case = DOMAIN Cases
            BY <6>1, DefectsUpTo
          <6>. QED  BY <6>2, Zenon DEF AllDefects
        <5>3. ASSUME NEW n \in 1..(seed' - 1)
              PROVE  /\ OfSeed(scores', n) # {}
                     /\ SeededIn(scores', OfSeed(scores', n)) = AllDefects
          <6>1. n = seed \/ n \in 1..(seed - 1)
            BY <3>7, <5>1
          <6>. QED  BY <3>6, <4>1, <5>2, <6>1
        <5>4. SeededIn(scores', OfSeed(scores', seed')) = Sum(Defects, 1..(case' - 1))
          <6>1. OfSeed(scores', seed') = {}
            <7>1. seed + 1 \in Nat /\ seed + 1 > seed
              BY <3>7
            <7>. QED  BY <3>6, <4>1, <5>1, <7>1
          <6>2. case' - 1 = 0
            BY <5>1
          <6>. QED  BY <3>8, <6>1, <6>2
        <5>. QED  BY <4>2, <5>3, <5>4 DEF Recounted
      <4>4. CASE ~ LastCase
        <5>1. seed' = seed /\ case' = case + 1 /\ case' - 1 = case
          BY <3>3, <3>7, <4>4
        <5>. QED  BY <3>6, <4>1, <4>2, <5>1 DEF Recounted
      <4>. QED  BY <4>3, <4>4
    <3>. QED  BY <3>9, <3>10
  <2>4. CASE Review \/ Crash \/ Measure \/ AllMeasured
    <3>1. UNCHANGED << plan, arm, seed, case, scores, results >> /\ (stage' = stage \/ stage' # "over")
      BY <2>4 DEF Review, Crash, Measure, AllMeasured
    <3>. QED  BY <2>2, <3>1
  <2>5. CASE UNCHANGED vars
    <3>1. UNCHANGED << plan, arm, seed, case, scores, results, stage >>
      BY <2>5 DEF vars
    <3>. QED  BY <2>2, <3>1
  <2>. QED  BY <2>1, <2>3, <2>4, <2>5 DEF Next
<1>. QED  BY <1>1, <1>2, IInvHolds, PTL DEF Spec

\* What the lowest and the highest of some repeats' rates are.
Between(r, D, low, high) ==
    low <= high /\ r.low = {<< low, D >>} /\ r.high = {<< high, D >>}
LEMMA SpreadHas ==
    ASSUME NEW n \in Nat \ {0}, NEW F \in [1..n -> Nat], NEW D \in Nat \ {0}, NEW r,
           IsSpread(r, Rates(F, D))
    PROVE  \E low, high \in Nat : Between(r, D, low, high)
<1>1. PICK S : S = { F[i] : i \in 1..n }
  OBVIOUS
<1>2. S \subseteq Int /\ S \subseteq Nat /\ S # {} /\ IsFiniteSet(S)
  <2>1. IsFiniteSet(1..n) /\ DOMAIN F = 1..n
    BY FS_Interval
  <2>2. IsFiniteSet(S)
    BY <1>1, <2>1, FiniteImage
  <2>3. F[1] \in S
    BY <1>1
  <2>. QED  BY <1>1, <2>2, <2>3
<1>3. PICK low, high \in S : \A x \in S : low <= x /\ x <= high
  <2>1. /\ Max(S) \in S /\ \A x \in S : x <= Max(S)
        /\ Min(S) \in S /\ \A x \in S : Min(S) <= x
    BY <1>2, Extremes
  <2>. QED  BY <2>1
<1>4. \A q : q \in Rates(F, D) <=> \E x \in S : q = << x, D >>
  BY <1>1 DEF Rates
<1>5. ASSUME NEW x \in S, NEW y \in S
      PROVE  Less(<< x, D >>, << y, D >>) <=> x < y
  <2>1. x \in Nat /\ y \in Nat
    BY <1>2
  <2>2. Less(<< x, D >>, << y, D >>) <=> x * D < y * D
    BY DEF Less
  <2>3. x < y => x * D < y * D
    BY <2>1
  <2>4. y <= x => y * D <= x * D
    BY <2>1
  <2>5. x * D \in Int /\ y * D \in Int
    BY <2>1
  <2>. QED  BY <2>1, <2>2, <2>3, <2>4, <2>5
<1>6. r.low = {<< low, D >>}
  <2>1. << low, D >> \in r.low
    BY <1>2, <1>3, <1>4, <1>5 DEF IsSpread
  <2>2. ASSUME NEW q \in r.low PROVE q = << low, D >>
    <3>1. PICK x \in S : q = << x, D >>
      BY <1>4, <2>2 DEF IsSpread
    <3>2. ~ Less(<< low, D >>, << x, D >>)
      BY <1>3, <1>4, <2>2, <3>1 DEF IsSpread
    <3>3. x = low
      BY <1>2, <1>3, <1>5, <3>2
    <3>. QED  BY <3>1, <3>3
  <2>. QED  BY <2>1, <2>2
<1>7. r.high = {<< high, D >>}
  <2>1. << high, D >> \in r.high
    BY <1>2, <1>3, <1>4, <1>5 DEF IsSpread
  <2>2. ASSUME NEW q \in r.high PROVE q = << high, D >>
    <3>1. PICK x \in S : q = << x, D >>
      BY <1>4, <2>2 DEF IsSpread
    <3>2. ~ Less(<< x, D >>, << high, D >>)
      BY <1>3, <1>4, <2>2, <3>1 DEF IsSpread
    <3>3. x \in Nat /\ high \in Nat /\ x <= high
      BY <1>2, <1>3
    <3>4. ~ (x < high)
      BY <1>5, <3>2
    <3>5. x = high
      BY <3>3, <3>4
    <3>. QED  BY <3>1, <3>5
  <2>. QED  BY <2>1, <2>2
<1>. QED  BY <1>2, <1>3, <1>6, <1>7 DEF Between

\* Of two arms whose repeats all met the same defects at most one clears the
\* other, so that which is named first only turns the conclusion round.
LEMMA CompareTurns ==
    ASSUME NEW p, p.seeds \in Nat \ {0}, NEW l, IsSummary(l, p), NEW r, IsSummary(r, p)
    PROVE  /\ Compare(l, r) = Opposite(Compare(r, l))
           /\ ~ p.independent => Compare(l, r) = "inconclusive"
<1>1. PICK F : Sums(l, p, F)
  BY DEF IsSummary
<1>2. PICK G : Sums(r, p, G)
  BY DEF IsSummary
<1>3. Independent(l, r) <=> (p.independent /\ p.independent)
  BY <1>1, <1>2 DEF Independent, Sums
<1>4. Independent(r, l) <=> Independent(l, r)
  BY DEF Independent
<1>5. Separated(l, r) = Opposite(Separated(r, l))
  <2>1. CASE l.low = {} \/ r.low = {}
    BY <2>1 DEF Separated, Opposite
  <2>2. CASE l.low # {} /\ r.low # {}
    <3>1. PICK n \in Nat \ {0} : n = p.seeds
      OBVIOUS
    <3>2. PICK D : D = AllDefects
      OBVIOUS
    <3>3. D \in Nat
      <4>1. PICK c \in DOMAIN Cases : c = Len(Cases) /\ DOMAIN Cases = 1..c
        BY DefectsUpTo
      <4>2. Sum(Defects, 1..c) \in Nat
        BY DefectsUpTo
      <4>. QED  BY <3>2, <4>1, <4>2 DEF AllDefects
    <3>4. ~ IsSpread(l, {}) /\ ~ IsSpread(r, {})
      BY <2>2 DEF IsSpread
    <3>5. /\ F \in [1..n -> Nat] /\ G \in [1..n -> Nat] /\ D # 0
          /\ IsSpread(l, Rates(F, D)) /\ IsSpread(r, Rates(G, D))
      BY <1>1, <1>2, <3>1, <3>2, <3>4 DEF Sums
    <3>6. PICK lowL, highL \in Nat : Between(l, D, lowL, highL)
      BY <3>3, <3>5, SpreadHas
    <3>7. PICK lowR, highR \in Nat : Between(r, D, lowR, highR)
      BY <3>3, <3>5, SpreadHas
    <3>8. Clears(l, r) <=> highR * D < lowL * D
      BY <3>6, <3>7 DEF Clears, Less, Between
    <3>9. Clears(r, l) <=> highL * D < lowR * D
      BY <3>6, <3>7 DEF Clears, Less, Between
    <3>10. lowL * D <= highL * D /\ lowR * D <= highR * D
      BY <3>3, <3>6, <3>7 DEF Between
    <3>11. lowL * D \in Int /\ highL * D \in Int /\ lowR * D \in Int /\ highR * D \in Int
      BY <3>3, <3>6, <3>7
    <3>12. ~ (Clears(l, r) /\ Clears(r, l))
      BY <3>8, <3>9, <3>10, <3>11
    <3>. QED  BY <2>2, <3>12 DEF Separated, Opposite
  <2>. QED  BY <2>1, <2>2
<1>6. Compare(l, r) = Opposite(Compare(r, l))
  <2>1. CASE Independent(l, r)
    BY <1>4, <1>5, <2>1 DEF Compare
  <2>2. CASE ~ Independent(l, r)
    BY <1>4, <2>2 DEF Compare, Opposite
  <2>. QED  BY <2>1, <2>2
<1>7. ~ p.independent => Compare(l, r) = "inconclusive"
  BY <1>3 DEF Compare
<1>. QED  BY <1>6, <1>7

\* The recalls of a summary, as the permutation test takes them, are numbers.
FirstOfEach(f) == [i \in DOMAIN f |-> (CHOOSE q \in f[i] : TRUE)[1]]
LEMMA RecalledIs ==
    ASSUME NEW p, p.seeds \in Nat \ {0}, NEW r, IsSummary(r, p)
    PROVE  Recalled(r) \in Seq(Int)
<1>1. PICK F : Sums(r, p, F)
  BY DEF IsSummary
<1>2. PICK n \in Nat \ {0} : n = p.seeds
  OBVIOUS
<1>3. PICK D : D = AllDefects
  OBVIOUS
<1>4. PICK recalls : recalls = r.recalls
  OBVIOUS
<1>5. F \in [1..n -> Nat] /\ recalls = [i \in 1..n |-> Ratio(F[i], D)]
  BY <1>1, <1>2, <1>3, <1>4 DEF Sums
<1>6. CASE D = 0
  <2>1. \A i \in DOMAIN recalls : recalls[i] = {}
    BY <1>5, <1>6 DEF Ratio
  <2>2. Recalled(r) = <<>>
    BY <1>4, <2>1 DEF Recalled
  <2>. QED  BY <2>2
<1>7. CASE D # 0
  <2>1. DOMAIN recalls = 1..n /\ \A i \in 1..n : recalls[i] = {<< F[i], D >>}
    BY <1>5, <1>7 DEF Ratio
  <2>2. ~ \A i \in DOMAIN recalls : recalls[i] = {}
    <3>1. 1 \in 1..n
      OBVIOUS
    <3>2. << F[1], D >> \in recalls[1]
      BY <2>1, <3>1
    <3>. QED  BY <2>1, <3>1, <3>2
  <2>3. Recalled(r) = [i \in DOMAIN recalls |-> (CHOOSE q \in recalls[i] : TRUE)[1]]
    <3>1. PICK out : out = FirstOfEach(r.recalls)
      OBVIOUS
    <3>2. Recalled(r) = IF \A i \in DOMAIN r.recalls : r.recalls[i] = {} THEN <<>> ELSE out
      BY <3>1, Zenon DEF Recalled, FirstOfEach
    <3>3. Recalled(r) = out
      BY <1>4, <2>2, <3>2
    <3>4. out = FirstOfEach(recalls)
      BY <1>4, <3>1
    <3>. QED  BY <3>3, <3>4 DEF FirstOfEach
  <2>4. ASSUME NEW i \in 1..n PROVE (CHOOSE q \in recalls[i] : TRUE)[1] \in Int
    <3>1. \E q \in recalls[i] : TRUE
      BY <2>1
    <3>2. (CHOOSE q \in recalls[i] : TRUE) \in recalls[i]
      BY <3>1, Zenon
    <3>3. (CHOOSE q \in recalls[i] : TRUE) = << F[i], D >> /\ F[i] \in Int
      BY <1>5, <2>1, <3>2
    <3>4. (CHOOSE q \in recalls[i] : TRUE)[1] = << F[i], D >>[1]
      BY <3>3, Zenon
    <3>5. << F[i], D >>[1] = F[i]
      OBVIOUS
    <3>. QED  BY <3>3, <3>4, <3>5, Zenon
  <2>5. PICK s : s = Recalled(r)
    OBVIOUS
  <2>6. s \in [1..n -> Int]
    BY <2>1, <2>3, <2>4, <2>5
  <2>. QED  BY <2>5, <2>6
<1>. QED  BY <1>6, <1>7

\* So what either test says of two arms is the same whichever is named first,
\* and a probability; of repeats that are one recording it says nothing.
LEMMA TestsTurn ==
    ASSUME NEW p, p.seeds \in Nat \ {0}, NEW l, IsSummary(l, p), NEW r, IsSummary(r, p),
           l.hits <= l.experiments, r.hits <= r.experiments
    PROVE  /\ IsFair(RecallP(l, r), RecallP(r, l)) /\ IsFair(HitRateP(l, r), HitRateP(r, l))
           /\ ~ p.independent => RecallP(l, r) = {} /\ HitRateP(l, r) = {}
<1>1. PICK F : Sums(l, p, F)
  BY DEF IsSummary
<1>2. PICK G : Sums(r, p, G)
  BY DEF IsSummary
<1>3. (Independent(l, r) => p.independent) /\ (Independent(r, l) <=> Independent(l, r))
  BY <1>1, <1>2 DEF Independent, Sums
<1>4. CASE ~ Independent(l, r)
  <2>1. /\ RecallP(l, r) = {} /\ RecallP(r, l) = {}
        /\ HitRateP(l, r) = {} /\ HitRateP(r, l) = {}
    BY <1>3, <1>4 DEF RecallP, HitRateP
  <2>. QED  BY <2>1 DEF IsFair
<1>5. CASE Independent(l, r)
  <2>1. PICK left : left = Recalled(l)
    OBVIOUS
  <2>2. PICK right : right = Recalled(r)
    OBVIOUS
  <2>3. left \in Seq(Int) /\ right \in Seq(Int)
    BY <2>1, <2>2, RecalledIs
  <2>4. RecallP(l, r) = PermutationP(left, right) /\ RecallP(r, l) = PermutationP(right, left)
    BY <1>3, <1>5, <2>1, <2>2 DEF RecallP
  <2>5. PICK x : x = l.hits
    OBVIOUS
  <2>6. PICK a : a = l.experiments
    OBVIOUS
  <2>7. PICK y : y = r.hits
    OBVIOUS
  <2>8. PICK b : b = r.experiments
    OBVIOUS
  <2>9. a \in Nat /\ b \in Nat /\ x \in 0..a /\ y \in 0..b
    BY <1>1, <1>2, <2>5, <2>6, <2>7, <2>8 DEF Sums
  <2>10. HitRateP(l, r) = FisherExact(x, a, y, b) /\ HitRateP(r, l) = FisherExact(y, b, x, a)
    BY <1>3, <1>5, <2>5, <2>6, <2>7, <2>8 DEF HitRateP
  <2>11. IsFair(PermutationP(left, right), PermutationP(right, left))
    BY <2>3, PermutationIsFair
  <2>12. IsFair(FisherExact(x, a, y, b), FisherExact(y, b, x, a))
    BY <2>9, FisherIsFair
  <2>. QED  BY <1>3, <1>5, <2>4, <2>10, <2>11, <2>12
<1>. QED  BY <1>4, <1>5

\* Nothing is concluded from two arms whose repeats were served from a recording,
\* and the conclusion and the two tests' probabilities are the same whichever arm
\* is named first: the lists have been filled by repeats that all met the same
\* defects, the tables of one order are those of the other with the arms' columns
\* exchanged, and so are the relabellings.
THEOREM VerdictIsFairHolds == Spec => []VerdictIsFair
<1>1. IInv /\ Recounted => VerdictIsFair
  <2>1. SUFFICES ASSUME IInv, Recounted, stage = "over" PROVE VerdictIsFair
    BY DEF VerdictIsFair
  <2>2. IsList(results) /\ Len(results) = 2
    BY <2>1 DEF Recounted
  <2>3. DOMAIN results = 1..2
    BY <2>2, ListHas
  <2>4. PICK l : l = results[1]
    OBVIOUS
  <2>5. PICK r : r = results[2]
    OBVIOUS
  <2>6. 1 \in DOMAIN results /\ 2 \in DOMAIN results
    BY <2>3
  <2>7. IsSummary(l, plan) /\ IsSummary(r, plan)
    BY <2>1, <2>4, <2>5, <2>6 DEF Recounted
  <2>8. l.hits <= l.experiments /\ r.hits <= r.experiments
    BY <2>1, <2>4, <2>5, <2>6 DEF IInv, SummaryIsHonest
  <2>9. plan.seeds \in Nat \ {0}
    BY <2>1, CasesAreRepeated DEF IInv, Placed
  <2>10. /\ Compare(l, r) = Opposite(Compare(r, l))
         /\ ~ plan.independent => Compare(l, r) = "inconclusive"
    <3>1. PICK p : p = plan
      OBVIOUS
    <3>. QED  BY <2>7, <2>9, <3>1, CompareTurns
  <2>11. /\ IsFair(RecallP(l, r), RecallP(r, l)) /\ IsFair(HitRateP(l, r), HitRateP(r, l))
         /\ ~ plan.independent => RecallP(l, r) = {} /\ HitRateP(l, r) = {}
    <3>1. PICK p : p = plan
      OBVIOUS
    <3>. QED  BY <2>7, <2>8, <2>9, <3>1, TestsTurn
  <2>12. PICK P : P = RecallP(l, r)
    OBVIOUS
  <2>13. PICK Q : Q = HitRateP(l, r)
    OBVIOUS
  <2>14. /\ P = RecallP(r, l) /\ Q = HitRateP(r, l)
         /\ \A q \in P \cup Q : 0 < q[1] /\ q[1] <= q[2]
    BY <2>11, <2>12, <2>13 DEF IsFair
  <2>. QED  BY <2>4, <2>5, <2>10, <2>11, <2>12, <2>13, <2>14 DEF VerdictIsFair
<1>. QED  BY <1>1, IInvHolds, RecountedHolds, PTL
=============================================================================

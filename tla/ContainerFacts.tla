---- MODULE ContainerFacts ----
(* Facts that the proofs of the other modules need.  About finite sets: induction over
   the subsets of a set and over the numbers, said of sets and not of operators,
   greatest elements, folds and sums.  About the hash map (FlatHashMap): what find,
   insert and erase do to the entries it holds.  And about the shelf, what the two
   order books have in common: orders in pooled nodes, linked in the queues of their
   prices and found by the map (OptimizedDataBentoLOB, DirectArrayLOB). *)
EXTENDS SequencesExt, SequenceTheorems, FiniteSetsExt, FiniteSetTheorems, WellFoundedInduction, TLAPS

\* Of any subsets of a finite set one contains none of the others.
LEMMA MinimalSubset ==
  ASSUME NEW S, IsFiniteSet(S), NEW F \in SUBSET SUBSET S, F # {}
  PROVE  \E T \in F : \A U \in F : ~(U \subseteq T /\ U # T)
<1>1. IsWellFoundedOn(StrictSubsetOrdering(S), FiniteSubsetsOf(S))
  BY FS_StrictSubsetOrderingWellFounded
<1>2. F \subseteq FiniteSubsetsOf(S)
  BY FS_FiniteSubsetsOfFinite
<1>3. \E x \in F : \A y \in F : ~ (<<y, x>> \in StrictSubsetOrdering(S))
  BY <1>1, <1>2, WFMin
<1> QED
  BY <1>3 DEF StrictSubsetOrdering

\* Induction over the subsets of a finite set.
LEMMA SubsetInduction ==
  ASSUME NEW S, IsFiniteSet(S), NEW G,
         {} \in G,
         \A T \in SUBSET S : T # {} /\ (\A x \in T : T \ {x} \in G) => T \in G
  PROVE  SUBSET S \subseteq G
<1> DEFINE B == (SUBSET S) \ G
<1> SUFFICES ASSUME B # {} PROVE FALSE
  OBVIOUS
<1>1. B \in SUBSET SUBSET S
  OBVIOUS
<1> HIDE DEF B
<1>2. PICK T \in B : \A U \in B : ~(U \subseteq T /\ U # T)
  BY <1>1, MinimalSubset
<1>3. T # {} /\ T \in SUBSET S
  BY DEF B
<1>4. \A x \in T : T \ {x} \in G
  BY <1>2, <1>3 DEF B
<1> QED
  BY <1>3, <1>4 DEF B

\* Induction over the numbers.
LEMMA NumberInduction ==
  ASSUME NEW G, 0 \in G, \A n \in Nat : n \in G => n + 1 \in G
  PROVE  Nat \subseteq G
<1> SUFFICES ASSUME NEW n \in Nat, n \notin G PROVE FALSE
  OBVIOUS
<1> DEFINE F == {1..m : m \in {k \in 0..n : k \notin G}}
<1>1. IsFiniteSet(1..n)
  BY FS_Interval
<1>2. F \in SUBSET SUBSET (1..n) /\ F # {}
  <2>1. 1..n \in F
    BY n \in 0..n
  <2> QED
    BY <2>1
<1> HIDE DEF F
<1>3. PICK U \in F : \A V \in F : ~(V \subseteq U /\ V # U)
  <2> DEFINE D == 1..n
  <2>1. IsFiniteSet(D) /\ F \in SUBSET SUBSET D /\ F # {}
    BY <1>1, <1>2
  <2> HIDE DEF D
  <2> QED
    BY <2>1, MinimalSubset
<1>4. PICK k \in 0..n : k \notin G /\ U = 1..k
  BY DEF F
<1>5. k # 0 /\ (k - 1) \in 0..n /\ k - 1 \in Nat
  BY <1>4
<1>6. k - 1 \notin G
  BY <1>4, <1>5, (k - 1) + 1 = k
<1>7. 1..(k - 1) \in F
  BY <1>5, <1>6 DEF F
<1>8. 1..(k - 1) \subseteq 1..k /\ k \in 1..k /\ k \notin 1..(k - 1)
  BY <1>5
<1> QED
  BY <1>3, <1>4, <1>7, <1>8

\* A finite set of integers that is not empty has a greatest element.
LEMMA GreatestElement ==
  ASSUME NEW S \in SUBSET Int, IsFiniteSet(S), S # {}
  PROVE  Max(S) \in S /\ \A y \in S : Max(S) >= y
<1> DEFINE G == {T \in SUBSET S : T = {} \/ \E x \in T : \A y \in T : x >= y}
<1>1. ASSUME NEW T \in SUBSET S, T # {}, \A x \in T : T \ {x} \in G
      PROVE  T \in G
  <2>1. PICK x \in T : TRUE
    BY <1>1
  <2>2. T \ {x} = {} \/ \E z \in T \ {x} : \A y \in T \ {x} : z >= y
    BY <1>1, <2>1
  <2>3. CASE T \ {x} = {}
    <3>1. \A y \in T : x >= y
      BY <2>1, <2>3
    <3> QED
      BY <2>1, <3>1
  <2>4. ASSUME NEW z \in T \ {x}, \A y \in T \ {x} : z >= y
        PROVE  T \in G
    <3>1. CASE x >= z
      <4>1. \A y \in T : x >= y
        BY <2>1, <2>4, <3>1
      <4> QED
        BY <2>1, <4>1
    <3>2. CASE ~(x >= z)
      <4>1. \A y \in T : z >= y
        BY <2>1, <2>4, <3>2
      <4> QED
        BY <2>1, <4>1
    <3> QED
      BY <3>1, <3>2
  <2> QED
    BY <2>2, <2>3, <2>4
<1>2. {} \in G
  OBVIOUS
<1> HIDE DEF G
<1>3. S \in G
  BY <1>1, <1>2, SubsetInduction
<1> QED
  BY <1>3 DEF G, Max

\* And a least.
LEMMA LeastElement ==
  ASSUME NEW S \in SUBSET Int, IsFiniteSet(S), S # {}
  PROVE  Min(S) \in S /\ \A y \in S : Min(S) <= y
<1> DEFINE N == {-x : x \in S}
           f == [x \in S |-> -x]
<1>1. f \in Surjection(S, N)
  BY DEF Surjection
<1>2. IsFiniteSet(N)
  BY <1>1, FS_Surjection
<1>3. N \in SUBSET Int /\ N # {}
  <2>1. \A x \in S : -x \in Int
    OBVIOUS
  <2>2. PICK x \in S : TRUE
    OBVIOUS
  <2>3. -x \in N
    OBVIOUS
  <2> QED
    BY <2>1, <2>3
<1>4. PICK m \in N : \A y \in N : m >= y
  <2> HIDE DEF N
  <2> QED
    BY <1>2, <1>3, GreatestElement
<1>5. PICK x \in S : m = -x
  BY <1>4
<1>6. \A y \in S : x <= y
  <2> SUFFICES ASSUME NEW y \in S PROVE x <= y
    OBVIOUS
  <2>1. -y \in N
    OBVIOUS
  <2> HIDE DEF N
  <2>2. m >= -y
    BY <1>4, <2>1
  <2> QED
    BY <1>5, <2>2
<1> QED
  BY <1>5, <1>6 DEF Min

---------------------------------------------------------------------------
(* Sums. *)

\* The elements of S have whole numbers as weights.
Weighs(w, S) == \A x \in S : w[x] \in Int

\* pick takes an element of each subset of S that has one.
Picks(pick, S) == \A T \in SUBSET S : T # {} => pick[T] \in T

\* g adds up the weights w over each subset of S, in the order of pick.
AddsUp(g, w, S, pick) ==
  g = [T \in SUBSET S |-> IF T = {} THEN 0 ELSE w[pick[T]] + g[T \ {pick[T]}]]

\* The sum of the weights w over a finite set.
SumOver(w, S) == MapThenSumSet(LAMBDA x : w[x], S)

\* The recursive definition of a sum over a finite set defines something.
LEMMA SumExists ==
  ASSUME NEW S, IsFiniteSet(S), NEW w, NEW pick, Picks(pick, S)
  PROVE  \E g : AddsUp(g, w, S, pick)
<1> DEFINE upTo(n, g) == \A T \in SUBSET S : Cardinality(T) <= n =>
                g[T] = IF T = {} THEN 0 ELSE w[pick[T]] + g[T \ {pick[T]}]
           G == {n \in Nat : \E g : upTo(n, g)}
<1>0. \A T \in SUBSET S : Cardinality(T) \in Nat /\ (Cardinality(T) = 0 <=> T = {})
  BY FS_Subset, FS_CardinalityType, FS_EmptySet
<1>1. \A T \in SUBSET S : T # {} => Cardinality(T \ {pick[T]}) = Cardinality(T) - 1
  BY FS_Subset, FS_RemoveElement DEF Picks
<1>2. 0 \in G
  <2> DEFINE h == [T \in SUBSET S |-> 0]
  <2>1. upTo(0, h)
    <3>1. ASSUME NEW T \in SUBSET S, Cardinality(T) <= 0 PROVE T = {} /\ h[T] = 0
      <4>1. Cardinality(T) = 0
        BY <1>0, <3>1
      <4> QED
        BY <1>0, <4>1
    <3> QED
      BY <3>1
  <2> QED
    BY <2>1
<1>3. ASSUME NEW n \in Nat, n \in G PROVE n + 1 \in G
  <2>1. PICK g : upTo(n, g)
    BY <1>3
  <2> DEFINE h == [T \in SUBSET S |-> IF Cardinality(T) <= n THEN g[T]
                                      ELSE w[pick[T]] + g[T \ {pick[T]}]]
  <2>2. ASSUME NEW T \in SUBSET S, Cardinality(T) <= n + 1
        PROVE  h[T] = IF T = {} THEN 0 ELSE w[pick[T]] + h[T \ {pick[T]}]
    <3>1. CASE T = {}
      <4>1. Cardinality(T) <= n
        BY <1>0, <3>1
      <4>2. g[T] = 0
        BY <2>1, <3>1, <4>1
      <4> QED
        BY <3>1, <4>1, <4>2
    <3>2. CASE T # {}
      <4>1. /\ T \ {pick[T]} \in SUBSET S
            /\ Cardinality(T \ {pick[T]}) <= n
        BY <1>0, <1>1, <2>2, <3>2
      <4>2. h[T \ {pick[T]}] = g[T \ {pick[T]}]
        BY <4>1
      <4>3. CASE Cardinality(T) <= n
        <5>1. h[T] = g[T]
          BY <4>3
        <5>2. g[T] = w[pick[T]] + g[T \ {pick[T]}]
          BY <2>1, <3>2, <4>3
        <5> QED
          BY <3>2, <4>2, <5>1, <5>2
      <4>4. CASE ~(Cardinality(T) <= n)
        BY <3>2, <4>2, <4>4
      <4> QED
        BY <4>3, <4>4
    <3> QED
      BY <3>1, <3>2
  <2> HIDE DEF h
  <2>3. upTo(n + 1, h) /\ n + 1 \in Nat
    BY <2>2
  <2> HIDE DEF upTo
  <2> QED
    BY <2>3
<1> HIDE DEF G
<1>4. Cardinality(S) \in G
  BY <1>0, <1>2, <1>3, NumberInduction
<1>5. PICK g : upTo(Cardinality(S), g)
  BY <1>4 DEF G
<1>6. \A T \in SUBSET S : Cardinality(T) <= Cardinality(S)
  BY FS_Subset
<1> DEFINE f == [T \in SUBSET S |-> g[T]]
<1>7. AddsUp(f, w, S, pick)
  BY <1>5, <1>6 DEF AddsUp
<1> QED
  BY <1>7

\* In g an element more or less changes the sum by its weight, whichever it is.
AnyFirst(g, w, S) ==
  \A T \in SUBSET S : g[T] \in Int /\ \A x \in T : g[T] = w[x] + g[T \ {x}]

\* The recursion may take any element first.
LEMMA SumAnyFirst ==
  ASSUME NEW S, IsFiniteSet(S), NEW w, Weighs(w, S),
         NEW pick, Picks(pick, S), NEW g, AddsUp(g, w, S, pick)
  PROVE  AnyFirst(g, w, S)
<1> DEFINE N == {T \in SUBSET S : g[T] \in Int}
           G == {T \in SUBSET S : \A x \in T : g[T] = w[x] + g[T \ {x}]}
<1>1. g[{}] = 0 /\ \A T \in SUBSET S : T # {} => g[T] = w[pick[T]] + g[T \ {pick[T]}]
  BY DEF AddsUp
<1>2. \A T \in SUBSET S : T # {} => pick[T] \in T
  BY DEF Picks
<1>3. {} \in N /\ {} \in G
  BY <1>1
<1>4. ASSUME NEW T \in SUBSET S, T # {}, \A x \in T : T \ {x} \in N
      PROVE  T \in N
  <2>1. pick[T] \in T
    BY <1>2, <1>4
  <2> DEFINE c == pick[T]
             rest == g[T \ {c}]
  <2>2. rest \in Int /\ w[c] \in Int
    BY <1>4, <2>1 DEF Weighs
  <2>3. g[T] = w[c] + rest
    BY <1>1, <1>4
  <2> HIDE DEF c, rest
  <2>4. g[T] \in Int
    BY <2>2, <2>3
  <2> QED
    BY <2>4
<1> HIDE DEF N
<1>5. SUBSET S \subseteq N
  BY <1>3, <1>4, SubsetInduction
<1>6. \A T \in SUBSET S : g[T] \in Int
  BY <1>5 DEF N
<1>7. ASSUME NEW T \in SUBSET S, T # {}, \A x \in T : T \ {x} \in G
      PROVE  T \in G
  <2> DEFINE c == pick[T]
  <2>1. c \in T /\ g[T] = w[c] + g[T \ {c}]
    BY <1>1, <1>2, <1>7
  <2> HIDE DEF c
  <2>2. ASSUME NEW x \in T, x # c PROVE g[T] = w[x] + g[T \ {x}]
    <3>1. g[T \ {c}] = w[x] + g[(T \ {c}) \ {x}]
      BY <1>7, <2>1, <2>2
    <3>2. g[T \ {x}] = w[c] + g[(T \ {x}) \ {c}]
      BY <1>7, <2>1, <2>2
    <3>3. (T \ {x}) \ {c} = (T \ {c}) \ {x} /\ (T \ {c}) \ {x} \in SUBSET S
      OBVIOUS
    <3>4. g[T \ {x}] = w[c] + g[(T \ {c}) \ {x}]
      BY <3>2, <3>3
    <3> DEFINE rest == g[(T \ {c}) \ {x}]
    <3>5. w[x] \in Int /\ w[c] \in Int /\ rest \in Int
      BY <1>6, <2>1, <3>3 DEF Weighs
    <3>6. g[T] = w[c] + (w[x] + rest) /\ g[T \ {x}] = w[c] + rest
      BY <2>1, <3>1, <3>4
    <3> HIDE DEF rest
    <3> QED
      BY <3>5, <3>6
  <2> QED
    BY <2>1, <2>2
<1> HIDE DEF G
<1>8. SUBSET S \subseteq G
  BY <1>3, <1>7, SubsetInduction
<1> QED
  BY <1>6, <1>8 DEF G, AnyFirst

\* It depends on the weights of the elements alone, not on their order.
LEMMA SumUnique ==
  ASSUME NEW S, IsFiniteSet(S), NEW w, Weighs(w, S),
         NEW g, NEW pick, Picks(pick, S), AddsUp(g, w, S, pick),
         NEW R, IsFiniteSet(R), NEW v, Weighs(v, R),
         NEW h, NEW take, Picks(take, R), AddsUp(h, v, R, take),
         NEW T, T \subseteq S, T \subseteq R, \A x \in T : w[x] = v[x]
  PROVE  g[T] = h[T]
<1> DEFINE G == {U \in SUBSET T : g[U] = h[U]}
<1>1. AnyFirst(g, w, S) /\ AnyFirst(h, v, R)
  BY SumAnyFirst
<1>3. {} \in G
  BY DEF AddsUp
<1>4. ASSUME NEW U \in SUBSET T, U # {}, \A x \in U : U \ {x} \in G
      PROVE  U \in G
  <2>1. PICK x \in U : TRUE
    BY <1>4
  <2>2. g[U \ {x}] = h[U \ {x}] /\ w[x] = v[x]
    BY <1>4, <2>1
  <2>3. g[U] = w[x] + g[U \ {x}] /\ h[U] = v[x] + h[U \ {x}]
    BY <1>1, <2>1 DEF AnyFirst
  <2> QED
    BY <2>2, <2>3
<1> HIDE DEF G
<1>5. IsFiniteSet(T)
  BY FS_Subset
<1>6. T \in G
  BY <1>3, <1>4, <1>5, SubsetInduction
<1> QED
  BY <1>6 DEF G

\* A sum is what the recursion finds, whatever it takes first.
LEMMA SumFound ==
  ASSUME NEW S, IsFiniteSet(S), NEW w, Weighs(w, S)
  PROVE  /\ \E pick, g : Picks(pick, S) /\ AddsUp(g, w, S, pick) /\ SumOver(w, S) = g[S]
         /\ \A pick, g : Picks(pick, S) /\ AddsUp(g, w, S, pick) => SumOver(w, S) = g[S]
<1> DEFINE any == [T \in SUBSET S |-> CHOOSE x \in T : TRUE]
           f == CHOOSE g : g = [T \in SUBSET S |->
                  IF T = {} THEN 0 ELSE w[CHOOSE x \in T : TRUE] + g[T \ {CHOOSE x \in T : TRUE}]]
<1>1. Picks(any, S)
  BY DEF Picks
<1>2. PICK g : AddsUp(g, w, S, any)
  BY <1>1, SumExists
<1>3. g = [T \in SUBSET S |->
             IF T = {} THEN 0 ELSE w[CHOOSE x \in T : TRUE] + g[T \ {CHOOSE x \in T : TRUE}]]
  BY <1>2 DEF AddsUp
<1>4. f = [T \in SUBSET S |->
             IF T = {} THEN 0 ELSE w[CHOOSE x \in T : TRUE] + f[T \ {CHOOSE x \in T : TRUE}]]
  BY <1>3
<1>5. SumOver(w, S) = f[S]
  BY DEF SumOver, MapThenSumSet, MapThenFoldSet
<1> HIDE DEF f
<1>6. AddsUp(f, w, S, any)
  BY <1>4 DEF AddsUp
<1> HIDE DEF any
<1>7. ASSUME NEW pick, NEW h, Picks(pick, S), AddsUp(h, w, S, pick)
      PROVE  f[S] = h[S]
  BY <1>1, <1>6, <1>7, SumUnique
<1> QED
  BY <1>1, <1>5, <1>6, <1>7

\* g adds up the weights w in the form in which MapThenSumSet unfolds.
Unfolds(g, w, S) ==
  g = [T \in SUBSET S |-> IF T = {} THEN 0
         ELSE w[CHOOSE x \in T : TRUE] + g[T \ {CHOOSE x \in T : TRUE}]]

\* There is a function with that recursive definition, and every such function
\* gives the sum.
LEMMA SumUnfolds ==
  ASSUME NEW S, IsFiniteSet(S), NEW w, Weighs(w, S)
  PROVE  (\E g : Unfolds(g, w, S)) /\ \A f : Unfolds(f, w, S) => f[S] = SumOver(w, S)
<1> DEFINE any == [T \in SUBSET S |-> CHOOSE x \in T : TRUE]
<1>1. Picks(any, S)
  BY DEF Picks
<1>2. PICK g : AddsUp(g, w, S, any)
  BY <1>1, SumExists
<1>3. Unfolds(g, w, S)
  BY <1>2 DEF AddsUp, Unfolds
<1>4. ASSUME NEW f, Unfolds(f, w, S)
      PROVE  f[S] = SumOver(w, S)
  <2>1. AddsUp(f, w, S, any)
    BY <1>4 DEF AddsUp, Unfolds
  <2> HIDE DEF any
  <2> QED
    BY <1>1, <2>1, SumFound
<1> QED
  BY <1>3, <1>4

\* A sum of whole numbers is one, and an element more or less changes it by its weight.
LEMMA SumWithout ==
  ASSUME NEW S, IsFiniteSet(S), NEW w, Weighs(w, S)
  PROVE  /\ SumOver(w, S) \in Int
         /\ \A x \in S : SumOver(w, S \ {x}) \in Int /\ SumOver(w, S) = w[x] + SumOver(w, S \ {x})
<1>1. PICK pick, g : Picks(pick, S) /\ AddsUp(g, w, S, pick) /\ SumOver(w, S) = g[S]
  BY SumFound
<1>2. AnyFirst(g, w, S)
  BY <1>1, SumAnyFirst
<1>3. ASSUME NEW x \in S PROVE SumOver(w, S \ {x}) = g[S \ {x}]
  <2> DEFINE R == S \ {x}
  <2>1. IsFiniteSet(R) /\ R \subseteq S /\ Weighs(w, R)
    BY FS_RemoveElement DEF Weighs
  <2> HIDE DEF R
  <2>2. PICK take, h : Picks(take, R) /\ AddsUp(h, w, R, take) /\ SumOver(w, R) = h[R]
    BY <2>1, SumFound
  <2>3. g[R] = h[R]
    BY <1>1, <2>1, <2>2, SumUnique
  <2> QED
    BY <2>2, <2>3 DEF R
<1> QED
  BY <1>1, <1>2, <1>3 DEF AnyFirst

\* A sum over nothing.
LEMMA SumOfNone ==
  ASSUME NEW w
  PROVE  SumOver(w, {}) = 0
<1>1. IsFiniteSet({}) /\ Weighs(w, {})
  BY FS_EmptySet DEF Weighs
<1>2. PICK pick, g : AddsUp(g, w, {}, pick) /\ SumOver(w, {}) = g[{}]
  BY <1>1, SumFound
<1> QED
  BY <1>2 DEF AddsUp

\* Equal weights add up to equal sums.
LEMMA SumSame ==
  ASSUME NEW S, IsFiniteSet(S), NEW w, NEW v, Weighs(w, S), \A x \in S : w[x] = v[x]
  PROVE  SumOver(w, S) = SumOver(v, S)
<1>1. Weighs(v, S)
  BY DEF Weighs
<1>2. PICK pick, g : Picks(pick, S) /\ AddsUp(g, w, S, pick) /\ SumOver(w, S) = g[S]
  BY SumFound
<1>3. PICK take, h : Picks(take, S) /\ AddsUp(h, v, S, take) /\ SumOver(v, S) = h[S]
  BY <1>1, SumFound
<1> QED
  BY <1>1, <1>2, <1>3, SumUnique

\* A sum of naturals is one, and no less than any of them.
LEMMA SumOfNaturals ==
  ASSUME NEW S, IsFiniteSet(S), NEW w, \A x \in S : w[x] \in Nat
  PROVE  SumOver(w, S) \in Nat /\ \A x \in S : w[x] <= SumOver(w, S)
<1> DEFINE G == {T \in SUBSET S : SumOver(w, T) \in Nat}
<1>1. ASSUME NEW T \in SUBSET S
      PROVE  \A x \in T : SumOver(w, T) = w[x] + SumOver(w, T \ {x})
  <2>1. IsFiniteSet(T) /\ Weighs(w, T)
    BY FS_Subset DEF Weighs
  <2> QED
    BY <2>1, SumWithout
<1>2. ASSUME NEW T \in SUBSET S, T # {}, \A x \in T : T \ {x} \in G
      PROVE  T \in G
  <2>1. PICK x \in T : TRUE
    BY <1>2
  <2>2. SumOver(w, T \ {x}) \in Nat /\ w[x] \in Nat
    BY <1>2, <2>1
  <2>3. SumOver(w, T) = w[x] + SumOver(w, T \ {x})
    BY <1>1, <2>1
  <2> QED
    BY <2>2, <2>3
<1>3. {} \in G
  BY SumOfNone
<1> HIDE DEF G
<1>4. SUBSET S \subseteq G
  BY <1>2, <1>3, SubsetInduction
<1>5. \A T \in SUBSET S : SumOver(w, T) \in Nat
  BY <1>4 DEF G
<1>6. ASSUME NEW x \in S PROVE w[x] <= SumOver(w, S)
  <2>1. SumOver(w, S) = w[x] + SumOver(w, S \ {x})
    BY <1>1
  <2>2. SumOver(w, S \ {x}) \in Nat /\ w[x] \in Nat
    BY <1>5
  <2> QED
    BY <2>1, <2>2
<1> QED
  BY <1>5, <1>6

---------------------------------------------------------------------------
(* Folds that take the elements of a finite set in a given order. *)

\* g folds `step` over each subset of S, in the order of pick, beginning with `base`.
Folds(g, base, step, S, pick) ==
  g = [T \in SUBSET S |-> IF T = {} THEN base ELSE step[<<g[T \ {pick[T]}], pick[T]>>]]

\* The recursive definition of a fold over a finite set defines something.
LEMMA FoldExists ==
  ASSUME NEW S, IsFiniteSet(S), NEW base, NEW step, NEW pick, Picks(pick, S)
  PROVE  \E g : Folds(g, base, step, S, pick)
<1> DEFINE next(g, T) == step[<<g[T \ {pick[T]}], pick[T]>>]
           upTo(n, g) == \A T \in SUBSET S : Cardinality(T) <= n =>
                           g[T] = IF T = {} THEN base ELSE next(g, T)
           G == {n \in Nat : \E g : upTo(n, g)}
<1>0. \A T \in SUBSET S : Cardinality(T) \in Nat /\ (Cardinality(T) = 0 <=> T = {})
  BY FS_Subset, FS_CardinalityType, FS_EmptySet
<1>1. \A T \in SUBSET S : T # {} => Cardinality(T \ {pick[T]}) = Cardinality(T) - 1
  BY FS_Subset, FS_RemoveElement DEF Picks
<1>2. 0 \in G
  <2> DEFINE h == [T \in SUBSET S |-> base]
  <2>1. upTo(0, h)
    <3>1. ASSUME NEW T \in SUBSET S, Cardinality(T) <= 0 PROVE T = {} /\ h[T] = base
      <4>1. Cardinality(T) = 0
        BY <1>0, <3>1
      <4> QED
        BY <1>0, <4>1
    <3> QED
      BY <3>1
  <2> QED
    BY <2>1
<1>3. ASSUME NEW n \in Nat, n \in G PROVE n + 1 \in G
  <2>1. PICK g : upTo(n, g)
    BY <1>3
  <2> DEFINE h == [T \in SUBSET S |-> IF Cardinality(T) <= n THEN g[T] ELSE next(g, T)]
  <2>2. ASSUME NEW T \in SUBSET S, Cardinality(T) <= n + 1
        PROVE  h[T] = IF T = {} THEN base ELSE next(h, T)
    <3>1. CASE T = {}
      <4>1. Cardinality(T) <= n
        BY <1>0, <3>1
      <4>2. g[T] = base
        BY <2>1, <3>1, <4>1
      <4> QED
        BY <3>1, <4>1, <4>2
    <3>2. CASE T # {}
      <4>1. /\ T \ {pick[T]} \in SUBSET S
            /\ Cardinality(T \ {pick[T]}) <= n
        BY <1>0, <1>1, <2>2, <3>2
      <4>2. h[T \ {pick[T]}] = g[T \ {pick[T]}]
        BY <4>1
      <4>3. CASE Cardinality(T) <= n
        <5>1. h[T] = g[T]
          BY <4>3
        <5>2. g[T] = next(g, T)
          BY <2>1, <3>2, <4>3
        <5> QED
          BY <3>2, <4>2, <5>1, <5>2
      <4>4. CASE ~(Cardinality(T) <= n)
        BY <3>2, <4>2, <4>4
      <4> QED
        BY <4>3, <4>4
    <3> QED
      BY <3>1, <3>2
  <2> HIDE DEF h
  <2>3. upTo(n + 1, h) /\ n + 1 \in Nat
    BY <2>2
  <2> HIDE DEF upTo
  <2> QED
    BY <2>3
<1> HIDE DEF G
<1>4. Cardinality(S) \in G
  BY <1>0, <1>2, <1>3, NumberInduction
<1>5. PICK g : upTo(Cardinality(S), g)
  BY <1>4 DEF G
<1>6. \A T \in SUBSET S : Cardinality(T) <= Cardinality(S)
  BY FS_Subset
<1> DEFINE f == [T \in SUBSET S |-> g[T]]
<1>7. Folds(f, base, step, S, pick)
  BY <1>5, <1>6 DEF Folds
<1> QED
  BY <1>7

\* The indices of a sequence up to k, of which k is the greatest.
LEMMA Segments ==
  /\ 1..0 = {}
  /\ \A k \in Nat : k # 0 =>
       Max(1..k) = k /\ (1..k) \ {k} = 1..(k - 1) /\ 1..k # {} /\ k - 1 \in Nat
<1>1. 1..0 = {}
  OBVIOUS
<1>2. ASSUME NEW k \in Nat, k # 0
      PROVE  Max(1..k) = k /\ (1..k) \ {k} = 1..(k - 1) /\ 1..k # {} /\ k - 1 \in Nat
  <2>1. 1..k \in SUBSET Int /\ IsFiniteSet(1..k) /\ 1..k # {} /\ k \in 1..k
    <3>1. IsFiniteSet(1..k)
      BY FS_Interval
    <3> QED
      BY <1>2, <3>1
  <2>2. Max(1..k) \in 1..k /\ Max(1..k) >= k
    BY <2>1, GreatestElement, Zenon
  <2>3. Max(1..k) = k
    BY <2>2
  <2> QED
    BY <1>2, <2>3
<1> QED
  BY <1>1, <1>2

\* g folds `step` over the subsets of 1..n, the greatest index last.
FoldsUp(g, n, base, step) ==
  g = [T \in SUBSET (1..n) |-> IF T = {} THEN base ELSE step[<<g[T \ {Max(T)}], Max(T)>>]]

\* A fold over the indices up to n, the greatest last, goes through members of D if its
\* steps do.
LEMMA FoldUp ==
  ASSUME NEW n \in Nat, NEW D, NEW base \in D, NEW step \in [D \X (1..n) -> D]
  PROVE  \E g : FoldsUp(g, n, base, step) /\ \A T \in SUBSET (1..n) : g[T] \in D
<1> DEFINE S == 1..n
           pick == [T \in SUBSET S |-> Max(T)]
<1>1. IsFiniteSet(S)
  BY FS_Interval
<1>2. \A T \in SUBSET S : T # {} => Max(T) \in T
  <2> SUFFICES ASSUME NEW T \in SUBSET S, T # {} PROVE Max(T) \in T
    OBVIOUS
  <2>1. IsFiniteSet(T)
    BY <1>1, FS_Subset
  <2>2. T \in SUBSET Int
    OBVIOUS
  <2> QED
    BY <2>1, <2>2, GreatestElement
<1> HIDE DEF S
<1>3. Picks(pick, S)
  BY <1>2 DEF Picks
<1>4. PICK g : Folds(g, base, step, S, pick)
  BY <1>1, <1>3, FoldExists
<1>5. g = [T \in SUBSET S |-> IF T = {} THEN base ELSE step[<<g[T \ {Max(T)}], Max(T)>>]]
  BY <1>4 DEF Folds
<1> HIDE DEF pick
<1> DEFINE G == {T \in SUBSET S : g[T] \in D}
<1>6. {} \in G
  BY <1>5
<1>7. ASSUME NEW T \in SUBSET S, T # {}, \A x \in T : T \ {x} \in G
      PROVE  T \in G
  <2>1. Max(T) \in T /\ Max(T) \in S
    BY <1>2, <1>7
  <2>2. g[T \ {Max(T)}] \in D
    BY <1>7, <2>1
  <2>3. g[T] = step[<<g[T \ {Max(T)}], Max(T)>>]
    BY <1>5, <1>7
  <2>4. step[<<g[T \ {Max(T)}], Max(T)>>] \in D
    BY <2>1, <2>2 DEF S
  <2> QED
    BY <2>3, <2>4
<1> HIDE DEF G
<1>8. SUBSET S \subseteq G
  BY <1>1, <1>6, <1>7, SubsetInduction
<1>9. \A T \in SUBSET S : g[T] \in D
  BY <1>8 DEF G
<1> QED
  BY <1>5, <1>9 DEF S, FoldsUp

---------------------------------------------------------------------------
(* More on sums. *)

\* The sum of the weights up to k.
LEMMA SumNext ==
  ASSUME NEW n \in Nat, NEW w, Weighs(w, 1..n)
  PROVE  /\ SumOver(w, 1..0) = 0
         /\ \A k \in 0..n : SumOver(w, 1..k) \in Int
         /\ \A k \in 1..n : SumOver(w, 1..k) = SumOver(w, 1..(k - 1)) + w[k]
<1>1. SumOver(w, 1..0) = 0
  BY SumOfNone, Segments
<1>2. ASSUME NEW k \in 0..n PROVE IsFiniteSet(1..k) /\ Weighs(w, 1..k)
  BY FS_Interval DEF Weighs
<1>3. \A k \in 0..n : SumOver(w, 1..k) \in Int
  BY <1>2, SumWithout
<1>4. ASSUME NEW k \in 1..n PROVE SumOver(w, 1..k) = SumOver(w, 1..(k - 1)) + w[k]
  <2>1. k \in 1..k /\ k \in 0..n /\ (1..k) \ {k} = 1..(k - 1)
    OBVIOUS
  <2>2. /\ SumOver(w, (1..k) \ {k}) \in Int
        /\ SumOver(w, 1..k) = w[k] + SumOver(w, (1..k) \ {k})
    BY <1>2, <2>1, SumWithout
  <2>3. SumOver(w, 1..k) = w[k] + SumOver(w, 1..(k - 1)) /\ SumOver(w, 1..(k - 1)) \in Int /\ w[k] \in Int
    BY <2>1, <2>2 DEF Weighs
  <2> QED
    BY <2>3
<1> QED
  BY <1>1, <1>3, <1>4

\* Sums may be taken one by one.
LEMMA SumPlus ==
  ASSUME NEW S, IsFiniteSet(S), NEW w, Weighs(w, S), NEW v, Weighs(v, S),
         NEW u, \A x \in S : u[x] = w[x] + v[x]
  PROVE  SumOver(u, S) = SumOver(w, S) + SumOver(v, S) /\ Weighs(u, S)
<1>1. Weighs(u, S)
  BY DEF Weighs
<1>2. ASSUME NEW T \in SUBSET S
      PROVE  /\ SumOver(w, T) \in Int /\ SumOver(v, T) \in Int /\ SumOver(u, T) \in Int
             /\ \A x \in T : /\ SumOver(w, T) = w[x] + SumOver(w, T \ {x})
                             /\ SumOver(v, T) = v[x] + SumOver(v, T \ {x})
                             /\ SumOver(u, T) = u[x] + SumOver(u, T \ {x})
  <2>1. IsFiniteSet(T) /\ Weighs(w, T) /\ Weighs(v, T) /\ Weighs(u, T)
    BY <1>1, FS_Subset DEF Weighs
  <2> QED
    BY <2>1, SumWithout
<1> DEFINE G == {T \in SUBSET S : SumOver(u, T) = SumOver(w, T) + SumOver(v, T)}
<1>3. {} \in G
  BY SumOfNone
<1>4. ASSUME NEW T \in SUBSET S, T # {}, \A x \in T : T \ {x} \in G
      PROVE  T \in G
  <2>1. PICK x \in T : TRUE
    BY <1>4
  <2>2. SumOver(u, T \ {x}) = SumOver(w, T \ {x}) + SumOver(v, T \ {x})
    BY <1>4, <2>1
  <2>3. T \ {x} \in SUBSET S /\ x \in S
    BY <2>1
  <2>4. /\ SumOver(w, T \ {x}) \in Int /\ SumOver(v, T \ {x}) \in Int
        /\ w[x] \in Int /\ v[x] \in Int /\ u[x] = w[x] + v[x]
    BY <1>2, <2>3 DEF Weighs
  <2>5. /\ SumOver(w, T) = w[x] + SumOver(w, T \ {x})
        /\ SumOver(v, T) = v[x] + SumOver(v, T \ {x})
        /\ SumOver(u, T) = u[x] + SumOver(u, T \ {x})
    BY <1>2, <2>1
  <2>6. SumOver(u, T) = SumOver(w, T) + SumOver(v, T)
    BY <2>2, <2>4, <2>5
  <2> QED
    BY <2>6
<1> HIDE DEF G
<1>5. S \in G
  BY <1>3, <1>4, SubsetInduction
<1> QED
  BY <1>1, <1>5 DEF G

\* The weights may be taken from elsewhere, each once, and those that are zero left out.
LEMMA SumAlong ==
  ASSUME NEW S, IsFiniteSet(S), NEW w, Weighs(w, S), NEW R, IsFiniteSet(R), NEW v, Weighs(v, R),
         NEW at \in [R -> S], \A x, y \in R : at[x] = at[y] => x = y,
         \A x \in R : v[x] = w[at[x]],
         \A s \in S : (\E x \in R : at[x] = s) \/ w[s] = 0
  PROVE  SumOver(w, S) = SumOver(v, R)
<1> DEFINE Hit(T) == {at[x] : x \in T}
           G == {T \in SUBSET R : SumOver(w, Hit(T)) = SumOver(v, T)}
<1>1. ASSUME NEW T \in SUBSET S
      PROVE  SumOver(w, T) \in Int /\ \A s \in T : SumOver(w, T) = w[s] + SumOver(w, T \ {s})
  <2>1. IsFiniteSet(T) /\ Weighs(w, T)
    BY FS_Subset DEF Weighs
  <2> QED
    BY <2>1, SumWithout
<1>2. ASSUME NEW T \in SUBSET R
      PROVE  SumOver(v, T) \in Int /\ \A x \in T : SumOver(v, T) = v[x] + SumOver(v, T \ {x})
  <2>1. IsFiniteSet(T) /\ Weighs(v, T)
    BY FS_Subset DEF Weighs
  <2> QED
    BY <2>1, SumWithout
<1>3. {} \in G
  <2>1. Hit({}) = {}
    OBVIOUS
  <2> QED
    BY <2>1, SumOfNone
<1>4. ASSUME NEW T \in SUBSET R, T # {}, \A x \in T : T \ {x} \in G
      PROVE  T \in G
  <2>1. PICK x \in T : TRUE
    BY <1>4
  <2>2. Hit(T \ {x}) = Hit(T) \ {at[x]} /\ at[x] \in Hit(T) /\ Hit(T) \in SUBSET S
    BY <2>1
  <2>3. SumOver(w, Hit(T \ {x})) = SumOver(v, T \ {x})
    BY <1>4, <2>1
  <2>4. SumOver(v, T) = v[x] + SumOver(v, T \ {x}) /\ v[x] = w[at[x]]
    BY <1>2, <2>1
  <2> HIDE DEF Hit
  <2>5. SumOver(w, Hit(T)) = w[at[x]] + SumOver(w, Hit(T) \ {at[x]})
    BY <1>1, <2>2
  <2> QED
    BY <2>2, <2>3, <2>4, <2>5
<1> HIDE DEF G
<1>5. R \in G
  BY <1>3, <1>4, SubsetInduction
<1>6. SumOver(w, Hit(R)) = SumOver(v, R)
  BY <1>5 DEF G
<1> DEFINE Z == S \ Hit(R)
           H == {T \in SUBSET Z : SumOver(w, Hit(R) \cup T) = SumOver(w, Hit(R))}
<1>7. Hit(R) \in SUBSET S /\ Hit(R) \cup Z = S /\ \A s \in Z : w[s] = 0
  OBVIOUS
<1>8. IsFiniteSet(Z)
  BY FS_Subset
<1>9. {} \in H
  OBVIOUS
<1>10. ASSUME NEW T \in SUBSET Z, T # {}, \A x \in T : T \ {x} \in H
       PROVE  T \in H
  <2>1. PICK s \in T : TRUE
    BY <1>10
  <2>2. SumOver(w, Hit(R) \cup (T \ {s})) = SumOver(w, Hit(R))
    BY <1>10, <2>1
  <2>3. /\ (Hit(R) \cup T) \ {s} = Hit(R) \cup (T \ {s}) /\ s \in Hit(R) \cup T
        /\ Hit(R) \cup T \in SUBSET S /\ Hit(R) \cup (T \ {s}) \in SUBSET S
    BY <2>1
  <2>4. w[s] = 0
    BY <1>7, <2>1
  <2> HIDE DEF Hit
  <2>5. /\ SumOver(w, Hit(R) \cup T) = w[s] + SumOver(w, (Hit(R) \cup T) \ {s})
        /\ SumOver(w, (Hit(R) \cup T) \ {s}) \in Int
    BY <1>1, <2>3
  <2>6. SumOver(w, Hit(R) \cup T) = SumOver(w, Hit(R))
    <3> DEFINE a == SumOver(w, (Hit(R) \cup T) \ {s})
               b == SumOver(w, Hit(R) \cup T)
               c == SumOver(w, Hit(R))
    <3>1. a = c
      BY <2>2, <2>3, Zenon
    <3>2. b = 0 + a /\ a \in Int
      BY <2>4, <2>5, Zenon
    <3> HIDE DEF a, b, c
    <3>3. b = c
      BY <3>1, <3>2
    <3> QED
      BY <3>3 DEF b, c
  <2> QED
    BY <1>10, <2>6
<1> HIDE DEF H, Z, Hit
<1>11. Z \in H
  BY <1>8, <1>9, <1>10, SubsetInduction
<1> QED
  BY <1>6, <1>7, <1>11 DEF H

\* Greater weights, greater sum.
LEMMA SumOrder ==
  ASSUME NEW S, IsFiniteSet(S), NEW w, Weighs(w, S), NEW v, Weighs(v, S),
         \A x \in S : w[x] <= v[x]
  PROVE  SumOver(w, S) <= SumOver(v, S) /\ (SumOver(w, S) = SumOver(v, S) => \A x \in S : w[x] = v[x])
<1> DEFINE u == [x \in S |-> v[x] - w[x]]
<1>1. /\ Weighs(u, S) /\ \A x \in S : u[x] \in Nat /\ v[x] = w[x] + u[x]
  BY DEF Weighs
<1> HIDE DEF u
<1>2. SumOver(v, S) = SumOver(w, S) + SumOver(u, S)
  BY <1>1, SumPlus
<1>3. SumOver(u, S) \in Nat /\ \A x \in S : u[x] <= SumOver(u, S)
  BY <1>1, SumOfNaturals
<1>4. SumOver(w, S) \in Int
  BY SumWithout
<1>5. ASSUME SumOver(w, S) = SumOver(v, S), NEW x \in S PROVE w[x] = v[x]
  <2>1. u[x] = 0
    BY <1>1, <1>2, <1>3, <1>4, <1>5
  <2> QED
    BY <1>1, <2>1 DEF Weighs
<1> QED
  BY <1>2, <1>3, <1>4, <1>5

\* A sum without one of its weights.
LEMMA SumLess ==
  ASSUME NEW S, IsFiniteSet(S), NEW u, Weighs(u, S), NEW w, NEW j \in S,
         w[j] = 0, \A x \in S : x # j => w[x] = u[x]
  PROVE  Weighs(w, S) /\ SumOver(u, S) \in Int /\ u[j] \in Int /\ SumOver(w, S) = SumOver(u, S) - u[j]
<1>1. Weighs(w, S) /\ u[j] \in Int
  BY DEF Weighs
<1>2. IsFiniteSet(S \ {j}) /\ Weighs(w, S \ {j}) /\ \A x \in S \ {j} : w[x] = u[x]
  BY <1>1, FS_RemoveElement DEF Weighs
<1>3. SumOver(w, S \ {j}) = SumOver(u, S \ {j})
  BY <1>2, SumSame
<1>4. /\ SumOver(u, S) \in Int /\ SumOver(u, S \ {j}) \in Int /\ SumOver(u, S) = u[j] + SumOver(u, S \ {j})
      /\ SumOver(w, S) = w[j] + SumOver(w, S \ {j})
  BY <1>1, SumWithout
<1> DEFINE a == SumOver(u, S)
           b == SumOver(w, S)
           c == SumOver(u, S \ {j})
           d == SumOver(w, S \ {j})
           e == u[j]
<1>5. a \in Int /\ c \in Int /\ e \in Int /\ d = c /\ a = e + c /\ b = 0 + d
  BY <1>1, <1>3, <1>4, Zenon
<1> HIDE DEF a, b, c, d, e
<1>6. b = a - e
  BY <1>5
<1> QED
  BY <1>1, <1>5, <1>6 DEF a, b, e

---------------------------------------------------------------------------
(* Remainders. *)

\* Two remainders that differ by a multiple are equal.
LEMMA RemaindersDiffer ==
  ASSUME NEW C \in Nat \ {0}, NEW r \in 0..(C - 1), NEW s \in 0..(C - 1), NEW k \in Int,
         r = s + C * k
  PROVE  r = s
<1>1. C \in Nat /\ C > 0
  OBVIOUS
<1>2. CASE k >= 1
  <2>1. k - 1 \in Nat /\ C * k = C + C * (k - 1)
    BY <1>1, <1>2
  <2>2. C * (k - 1) >= 0
    BY <1>1, <2>1
  <2> QED
    BY <1>1, <2>1, <2>2
<1>3. CASE k <= -1
  <2>1. -1 - k \in Nat /\ C * k = -C - C * (-1 - k)
    BY <1>1, <1>3
  <2>2. C * (-1 - k) >= 0
    BY <1>1, <2>1
  <2> QED
    BY <1>1, <2>1, <2>2
<1>4. CASE k = 0
  BY <1>1, <1>4
<1> QED
  BY <1>2, <1>3, <1>4

\* The bucket i places after bucket e, going round, and how far b is ahead of e.
Round(C, e, i) == IF e + i < C THEN e + i ELSE e + i - C
StepsTo(C, e, b) == IF b >= e THEN b - e ELSE b - e + C

\* The bucket a key belongs to.
HomeOf(C, key) == key % C

\* The search for a key begins at its home and goes round.
LEMMA ProbeIs ==
  ASSUME NEW C \in Nat \ {0}, NEW key \in Nat
  PROVE  /\ HomeOf(C, key) \in 0..(C - 1)
         /\ \A i \in 0..(C - 1) : (key + i) % C = Round(C, HomeOf(C, key), i)
<1> DEFINE r == key % C
           p == key \div C
<1>1. r \in 0..(C - 1) /\ p \in Int /\ key = C * p + r
  OBVIOUS
<1> HIDE DEF r, p
<1>2. ASSUME NEW i \in 0..(C - 1) PROVE (key + i) % C = Round(C, r, i)
  <2> DEFINE s == (key + i) % C
             q == (key + i) \div C
             t == Round(C, r, i)
  <2>1. s \in 0..(C - 1) /\ q \in Int /\ key + i = C * q + s
    <3>1. key + i \in Int
      OBVIOUS
    <3> QED
      BY <3>1
  <2> HIDE DEF s, q
  <2>2. t \in 0..(C - 1) /\ (t = r + i \/ t = r + i - C)
    BY <1>1 DEF Round
  <2> HIDE DEF t
  <2> DEFINE cp == C * p
             cq == C * q
  <2>3. cp \in Int /\ cq \in Int /\ key = cp + r /\ key + i = cq + s
    BY <1>1, <2>1
  <2>4. CASE t = r + i
    <3>1. p - q \in Int /\ C * (p - q) = cp - cq
      BY <1>1, <2>1
    <3> HIDE DEF cp, cq
    <3>2. s = t + (cp - cq)
      BY <1>1, <2>1, <2>2, <2>3, <2>4
    <3>3. s = t + C * (p - q)
      BY <3>1, <3>2
    <3> QED
      BY <2>1, <2>2, <3>1, <3>3, RemaindersDiffer DEF s, t
  <2>5. CASE t = r + i - C
    <3>1. p - q + 1 \in Int /\ C * (p - q + 1) = (cp - cq) + C
      BY <1>1, <2>1
    <3> HIDE DEF cp, cq
    <3>2. s = t + ((cp - cq) + C)
      BY <1>1, <2>1, <2>2, <2>3, <2>5
    <3>3. s = t + C * (p - q + 1)
      BY <3>1, <3>2
    <3> QED
      BY <2>1, <2>2, <3>1, <3>3, RemaindersDiffer DEF s, t
  <2> QED
    BY <2>2, <2>4, <2>5
<1> QED
  BY <1>1, <1>2 DEF r, HomeOf

\* Buckets and places are one to one.
LEMMA RoundIs ==
  ASSUME NEW C \in Nat \ {0}, NEW e \in 0..(C - 1)
  PROVE  /\ \A i \in 0..(C - 1) : Round(C, e, i) \in 0..(C - 1) /\ StepsTo(C, e, Round(C, e, i)) = i
         /\ \A b \in 0..(C - 1) : StepsTo(C, e, b) \in 0..(C - 1) /\ Round(C, e, StepsTo(C, e, b)) = b
  BY DEF Round, StepsTo

---------------------------------------------------------------------------
(* The hash map. *)

Hash(C) == INSTANCE FlatHashMap WITH MapCapacity <- C

HashEntry == [key : Nat \ {0}, value : Nat]
NoEntry == [key |-> 0, value |-> -1]

\* A map of C buckets, of which each holds an entry or is unoccupied.
IsMap(C, map) == map \in [0..(C - 1) -> HashEntry \cup {NoEntry}]

\* No key is held twice.
KeysDiffer(C, map) ==
  \A b, c \in 0..(C - 1) : map[b] # NoEntry /\ map[c] # NoEntry /\ map[b].key = map[c].key => b = c

\* No unoccupied bucket is between an entry and its home.
Reachable(C, map) ==
  \A b \in 0..(C - 1) : map[b] # NoEntry =>
    \A i \in 0..(C - 1) : i < StepsTo(C, HomeOf(C, map[b].key), b) =>
      map[Round(C, HomeOf(C, map[b].key), i)] # NoEntry

HashGood(C, map) == IsMap(C, map) /\ KeysDiffer(C, map) /\ Reachable(C, map)

HasRoom(C, map) == \E b \in 0..(C - 1) : map[b] = NoEntry

Contents(C, map) == {map[b] : b \in 0..(C - 1)} \ {NoEntry}

\* The places at which the search for a key ends.
EndsAt(C, map, key) ==
  {i \in 0..(C - 1) : \/ map[Round(C, HomeOf(C, key), i)] = NoEntry
                      \/ map[Round(C, HomeOf(C, key), i)].key = key}

\* Where the model's probe ends.
LEMMA EndsIs ==
  ASSUME NEW C \in Nat \ {0}, NEW map, NEW key \in Nat
  PROVE  Hash(C)!Ends(map, key) = EndsAt(C, map, key)
<1>1. \A i \in 0..(C - 1) : Hash(C)!ProbeAt(key, i) = Round(C, HomeOf(C, key), i)
  BY ProbeIs DEF Hash!ProbeAt
<1> QED
  BY <1>1 DEF Hash!Ends, EndsAt, Hash!Buckets, Hash!Occupied, Hash!Unoccupied, NoEntry

\* The place where a search ends is the first of those where it could.
LEMMA SearchEnds ==
  ASSUME NEW C \in Nat \ {0}, NEW map, NEW key \in Nat,
         NEW j \in EndsAt(C, map, key), \A i \in EndsAt(C, map, key) : j <= i
  PROVE  /\ Hash(C)!Ends(map, key) # {}
         /\ Hash(C)!Find(map, key) = map[Round(C, HomeOf(C, key), j)].value
         /\ Hash(C)!BucketOf(map, key) = Round(C, HomeOf(C, key), j)
         /\ \A v : Hash(C)!Insert(map, key, v) =
                         [map EXCEPT ![Round(C, HomeOf(C, key), j)] = [key |-> key, value |-> v]]
<1> DEFINE S == EndsAt(C, map, key)
<1>1. Hash(C)!Ends(map, key) = S /\ S # {}
  BY EndsIs
<1>2. j \in 0..(C - 1) /\ \A i \in S : i \in Int
  BY DEF EndsAt
<1>3. Hash(C)!Min(S) = j
  <2> HIDE DEF S
  <2>1. j \in S /\ \A y \in S : j <= y
    BY DEF S
  <2>2. \A x \in S : (\A y \in S : x <= y) => x = j
    BY <1>2, <2>1
  <2> QED
    BY <2>1, <2>2 DEF Hash!Min
<1>4. Hash(C)!ProbeAt(key, j) = Round(C, HomeOf(C, key), j)
  BY <1>2, ProbeIs DEF Hash!ProbeAt
<1> HIDE DEF S
<1> QED
  BY <1>1, <1>3, <1>4 DEF Hash!Find, Hash!BucketOf, Hash!Insert

\* A search for a key that is held ends at its bucket.
LEMMA FoundAt ==
  ASSUME NEW C \in Nat \ {0}, NEW map, HashGood(C, map), NEW b \in 0..(C - 1), map[b] # NoEntry
  PROVE  /\ map[b] \in HashEntry
         /\ Hash(C)!Find(map, map[b].key) = map[b].value
         /\ Hash(C)!BucketOf(map, map[b].key) = b
         /\ \A v : Hash(C)!Insert(map, map[b].key, v) =
                         [map EXCEPT ![b] = [key |-> map[b].key, value |-> v]]
<1> DEFINE key == map[b].key
           h == HomeOf(C, key)
           j == StepsTo(C, h, b)
<1>1. map[b] \in HashEntry /\ key \in Nat /\ key # 0
  BY DEF HashGood, IsMap, HashEntry
<1>2. h \in 0..(C - 1)
  BY <1>1, ProbeIs
<1>3. j \in 0..(C - 1) /\ Round(C, h, j) = b
  BY <1>2, RoundIs
<1>4. \A i \in 0..(C - 1) : Round(C, h, i) \in 0..(C - 1) /\ StepsTo(C, h, Round(C, h, i)) = i
  BY <1>2, RoundIs
<1>5. j \in EndsAt(C, map, key)
  <2> HIDE DEF j
  <2> QED
    BY <1>3 DEF EndsAt
<1>6. ASSUME NEW i \in EndsAt(C, map, key) PROVE j <= i
  <2>1. i \in 0..(C - 1) /\ (map[Round(C, h, i)] = NoEntry \/ map[Round(C, h, i)].key = key)
    BY <1>6 DEF EndsAt
  <2> HIDE DEF key, h, j
  <2>2. CASE i < j
    <3>1. map[Round(C, h, i)] # NoEntry
      BY <2>1, <2>2 DEF HashGood, Reachable, h, j, key
    <3>2. Round(C, h, i) = b
      BY <1>4, <2>1, <3>1 DEF HashGood, KeysDiffer, key
    <3> QED
      BY <1>4, <2>1, <2>2, <3>2 DEF j
  <2> QED
    BY <1>3, <2>1, <2>2
<1> HIDE DEF key, h, j
<1>7. /\ Hash(C)!Find(map, key) = map[Round(C, h, j)].value
      /\ Hash(C)!BucketOf(map, key) = Round(C, h, j)
      /\ \A v : Hash(C)!Insert(map, key, v) =
                      [map EXCEPT ![Round(C, h, j)] = [key |-> key, value |-> v]]
  BY <1>1, <1>5, <1>6, SearchEnds DEF h
<1> QED
  BY <1>1, <1>3, <1>7 DEF key

\* A set of places has a first.
LEMMA FirstPlace ==
  ASSUME NEW n \in Nat, NEW S \in SUBSET (0..n), S # {}
  PROVE  \E j \in S : \A i \in S : j <= i
<1> DEFINE D == 0..n
<1>0. IsFiniteSet(D) /\ S \subseteq D
  BY FS_Interval
<1> HIDE DEF D
<1>1. IsFiniteSet(S)
  BY <1>0, FS_Subset
<1> USE DEF D
<1>2. S \in SUBSET Int
  OBVIOUS
<1> QED
  BY <1>1, <1>2, LeastElement

\* A search for another key ends at an unoccupied bucket behind occupied ones.
LEMMA NotFoundAt ==
  ASSUME NEW C \in Nat \ {0}, NEW map, IsMap(C, map), HasRoom(C, map),
         NEW key \in Nat \ {0}, \A b \in 0..(C - 1) : map[b].key # key
  PROVE  /\ Hash(C)!Find(map, key) = -1
         /\ \E j \in 0..(C - 1) :
              /\ map[Round(C, HomeOf(C, key), j)] = NoEntry
              /\ \A i \in 0..(C - 1) : i < j => map[Round(C, HomeOf(C, key), i)] # NoEntry
              /\ \A v : Hash(C)!Insert(map, key, v) =
                   [map EXCEPT ![Round(C, HomeOf(C, key), j)] = [key |-> key, value |-> v]]
<1> DEFINE h == HomeOf(C, key)
           S == EndsAt(C, map, key)
<1>1. h \in 0..(C - 1)
  BY ProbeIs
<1>2. S \subseteq 0..(C - 1)
  BY DEF EndsAt
<1>3. PICK b \in 0..(C - 1) : map[b] = NoEntry
  BY DEF HasRoom
<1>4. StepsTo(C, h, b) \in 0..(C - 1) /\ Round(C, h, StepsTo(C, h, b)) = b
  BY <1>1, RoundIs
<1>5. S # {}
  BY <1>3, <1>4 DEF EndsAt
<1>6. PICK j \in S : \A i \in S : j <= i
  <2>1. C - 1 \in Nat
    OBVIOUS
  <2> HIDE DEF S
  <2> QED
    BY <1>2, <1>5, <2>1, FirstPlace
<1>7. j \in 0..(C - 1) /\ (map[Round(C, h, j)] = NoEntry \/ map[Round(C, h, j)].key = key)
  BY <1>6 DEF EndsAt
<1>8. \A i \in 0..(C - 1) : Round(C, h, i) \in 0..(C - 1)
  BY <1>1, RoundIs
<1>9. map[Round(C, h, j)] = NoEntry
  BY <1>7, <1>8
<1>10. \A i \in 0..(C - 1) : i < j => map[Round(C, h, i)] # NoEntry
  <2> SUFFICES ASSUME NEW i \in 0..(C - 1), i < j, map[Round(C, h, i)] = NoEntry PROVE FALSE
    OBVIOUS
  <2>1. i \in S
    BY DEF EndsAt
  <2>2. j <= i
    BY <1>6, <2>1
  <2> QED
    BY <1>7, <2>2
<1>11. /\ Hash(C)!Find(map, key) = map[Round(C, h, j)].value
       /\ \A v : Hash(C)!Insert(map, key, v) =
                       [map EXCEPT ![Round(C, h, j)] = [key |-> key, value |-> v]]
  BY <1>6, SearchEnds
<1> QED
  BY <1>7, <1>9, <1>10, <1>11 DEF NoEntry

\* What is found is what is held.
LEMMA FindIs ==
  ASSUME NEW C \in Nat \ {0}, NEW map, HashGood(C, map), HasRoom(C, map), NEW key \in Nat \ {0}
  PROVE  /\ \A e \in Contents(C, map) : e.key = key => Hash(C)!Find(map, key) = e.value
         /\ (\A e \in Contents(C, map) : e.key # key) => Hash(C)!Find(map, key) = -1
<1>1. \A e \in Contents(C, map) : e.key = key => Hash(C)!Find(map, key) = e.value
  BY FoundAt DEF Contents
<1>2. ASSUME \A e \in Contents(C, map) : e.key # key
      PROVE  Hash(C)!Find(map, key) = -1
  <2>1. \A b \in 0..(C - 1) : map[b].key # key
    BY <1>2 DEF Contents, NoEntry
  <2> QED
    BY <2>1, NotFoundAt DEF HashGood
<1> QED
  BY <1>1, <1>2

\* An insert adds the entry, in place of one with the same key.
LEMMA InsertIs ==
  ASSUME NEW C \in Nat \ {0}, NEW map, HashGood(C, map), HasRoom(C, map),
         NEW key \in Nat \ {0}, NEW value \in Nat
  PROVE  /\ HashGood(C, Hash(C)!Insert(map, key, value))
         /\ Contents(C, Hash(C)!Insert(map, key, value)) =
              {e \in Contents(C, map) : e.key # key} \cup {[key |-> key, value |-> value]}
<1> DEFINE entry == [key |-> key, value |-> value]
<1>1. entry \in HashEntry /\ entry # NoEntry /\ entry.key = key
  BY DEF HashEntry, NoEntry
<1> HIDE DEF entry
<1>2. ASSUME NEW b \in 0..(C - 1), map[b] # NoEntry, map[b].key = key
      PROVE  /\ HashGood(C, [map EXCEPT ![b] = entry])
             /\ Contents(C, [map EXCEPT ![b] = entry]) =
                  {e \in Contents(C, map) : e.key # key} \cup {entry}
  <2> DEFINE m == [map EXCEPT ![b] = entry]
  <2>1. m \in [0..(C - 1) -> HashEntry \cup {NoEntry}] /\ m[b] = entry
        /\ \A c \in 0..(C - 1) : c # b => m[c] = map[c]
    BY <1>1 DEF HashGood, IsMap
  <2> HIDE DEF m
  <2>2. \A c \in 0..(C - 1) : (m[c] = NoEntry <=> map[c] = NoEntry) /\ (m[c] # NoEntry => m[c].key = map[c].key)
    BY <1>1, <1>2, <2>1
  <2>3. KeysDiffer(C, m)
    BY <2>2 DEF HashGood, KeysDiffer
  <2>4. Reachable(C, m)
    <3> SUFFICES ASSUME NEW c \in 0..(C - 1), m[c] # NoEntry, NEW i \in 0..(C - 1),
                        i < StepsTo(C, HomeOf(C, m[c].key), c)
                 PROVE  m[Round(C, HomeOf(C, m[c].key), i)] # NoEntry
      BY DEF Reachable
    <3>1. map[c] # NoEntry /\ m[c].key = map[c].key /\ map[c].key \in Nat
      BY <2>2, <1>2 DEF HashGood, IsMap, HashEntry
    <3>2. map[Round(C, HomeOf(C, map[c].key), i)] # NoEntry
      BY <3>1 DEF HashGood, Reachable
    <3>3. Round(C, HomeOf(C, map[c].key), i) \in 0..(C - 1)
      BY <3>1, ProbeIs, RoundIs
    <3> QED
      BY <2>2, <3>1, <3>2, <3>3
  <2>5. \A c \in 0..(C - 1) : c # b /\ map[c] # NoEntry => map[c].key # key
    BY <1>2 DEF HashGood, KeysDiffer
  <2>6. Contents(C, m) = {e \in Contents(C, map) : e.key # key} \cup {entry}
    <3>1. ASSUME NEW e \in Contents(C, m)
          PROVE  e \in {f \in Contents(C, map) : f.key # key} \cup {entry}
      <4>1. PICK c \in 0..(C - 1) : e = m[c] /\ m[c] # NoEntry
        BY DEF Contents
      <4> QED
        BY <2>1, <2>2, <2>5, <4>1 DEF Contents
    <3>2. ASSUME NEW e \in Contents(C, map), e.key # key PROVE e \in Contents(C, m)
      <4>1. PICK c \in 0..(C - 1) : e = map[c] /\ map[c] # NoEntry
        BY DEF Contents
      <4> QED
        BY <1>2, <2>1, <3>2, <4>1 DEF Contents
    <3>3. entry \in Contents(C, m)
      BY <1>1, <2>1 DEF Contents
    <3> QED
      BY <3>1, <3>2, <3>3
  <2> QED
    BY <2>1, <2>3, <2>4, <2>6 DEF HashGood, IsMap, m
<1>3. CASE \E b \in 0..(C - 1) : map[b] # NoEntry /\ map[b].key = key
  <2>1. PICK b \in 0..(C - 1) : map[b] # NoEntry /\ map[b].key = key
    BY <1>3
  <2>2. \A v : Hash(C)!Insert(map, map[b].key, v) = [map EXCEPT ![b] = [key |-> map[b].key, value |-> v]]
    <3>1. map[b] # NoEntry
      BY <2>1
    <3> QED
      BY <3>1, FoundAt
  <2>3. Hash(C)!Insert(map, key, value) = [map EXCEPT ![b] = entry]
    BY <2>1, <2>2 DEF entry
  <2> QED
    BY <1>2, <2>1, <2>3 DEF entry
<1>4. CASE \A b \in 0..(C - 1) : map[b] # NoEntry => map[b].key # key
  <2> DEFINE h == HomeOf(C, key)
  <2>1. \A b \in 0..(C - 1) : map[b].key # key
    BY <1>4 DEF NoEntry
  <2>2. PICK j \in 0..(C - 1) :
              /\ map[Round(C, h, j)] = NoEntry
              /\ \A i \in 0..(C - 1) : i < j => map[Round(C, h, i)] # NoEntry
              /\ Hash(C)!Insert(map, key, value) =  [map EXCEPT ![Round(C, h, j)] = entry]
    BY <2>1, NotFoundAt DEF HashGood, entry
  <2> DEFINE b == Round(C, h, j)
             m == [map EXCEPT ![b] = entry]
  <2>3. h \in 0..(C - 1) /\ b \in 0..(C - 1) /\ StepsTo(C, h, b) = j
    BY ProbeIs, RoundIs
  <2>4. m \in [0..(C - 1) -> HashEntry \cup {NoEntry}] /\ m[b] = entry
        /\ \A c \in 0..(C - 1) : c # b => m[c] = map[c]
    BY <1>1, <2>3 DEF HashGood, IsMap
  <2>5. map[b] = NoEntry /\ \A i \in 0..(C - 1) : i < j => map[Round(C, h, i)] # NoEntry
    BY <2>2
  <2>12. Hash(C)!Insert(map, key, value) = m
    BY <2>2
  <2> HIDE DEF m, b, h
  <2>6. \A c \in 0..(C - 1) : map[c] # NoEntry => m[c] # NoEntry
    BY <1>1, <2>4
  <2>7. KeysDiffer(C, m)
    <3> SUFFICES ASSUME NEW c \in 0..(C - 1), NEW d \in 0..(C - 1), m[c] # NoEntry, m[d] # NoEntry,
                        m[c].key = m[d].key
                 PROVE  c = d
      BY DEF KeysDiffer
    <3>1. CASE c # b /\ d # b
      BY <2>4, <3>1 DEF HashGood, KeysDiffer
    <3>2. CASE c = b \/ d = b
      BY <1>1, <2>1, <2>4, <3>2
    <3> QED
      BY <3>1, <3>2
  <2>8. Reachable(C, m)
    <3> SUFFICES ASSUME NEW c \in 0..(C - 1), m[c] # NoEntry, NEW i \in 0..(C - 1),
                        i < StepsTo(C, HomeOf(C, m[c].key), c)
                 PROVE  m[Round(C, HomeOf(C, m[c].key), i)] # NoEntry
      BY DEF Reachable
    <3>1. CASE c = b
      <4>1. map[Round(C, h, i)] # NoEntry
        BY <1>1, <2>3, <2>4, <2>5, <3>1 DEF h
      <4>2. Round(C, h, i) \in 0..(C - 1)
        BY <2>3, RoundIs
      <4> QED
        BY <1>1, <2>4, <2>6, <3>1, <4>1, <4>2 DEF h
    <3>2. CASE c # b
      <4>1. m[c] = map[c] /\ map[c].key \in Nat
        BY <2>4, <3>2 DEF HashGood, IsMap, HashEntry
      <4>2. map[Round(C, HomeOf(C, map[c].key), i)] # NoEntry
        BY <4>1 DEF HashGood, Reachable
      <4>3. Round(C, HomeOf(C, map[c].key), i) \in 0..(C - 1)
        BY <4>1, ProbeIs, RoundIs
      <4> QED
        BY <2>6, <4>1, <4>2, <4>3
    <3> QED
      BY <3>1, <3>2
  <2>9. ASSUME NEW e \in Contents(C, m)
        PROVE  e \in {f \in Contents(C, map) : f.key # key} \cup {entry}
    <3>1. PICK c \in 0..(C - 1) : e = m[c] /\ m[c] # NoEntry
      BY DEF Contents
    <3> QED
      BY <2>1, <2>4, <3>1 DEF Contents
  <2>10. ASSUME NEW e \in Contents(C, map) PROVE e \in Contents(C, m)
    <3>1. PICK c \in 0..(C - 1) : e = map[c] /\ map[c] # NoEntry
      BY DEF Contents
    <3> QED
      BY <2>4, <2>5, <3>1 DEF Contents
  <2>11. entry \in Contents(C, m)
    BY <1>1, <2>3, <2>4 DEF Contents
  <2> QED
    BY <2>4, <2>7, <2>8, <2>9, <2>10, <2>11, <2>12 DEF HashGood, IsMap, entry
<1> QED
  BY <1>3, <1>4

\* The home of a key in the row of buckets that begins at e.
HomeFrom(C, e, key) == StepsTo(C, e, HomeOf(C, key))

\* In the row that begins at e the entries up to place n are behind their homes, without
\* an unoccupied bucket between.
Packed(C, map, e, n) ==
  \A x \in 0..n : map[Round(C, e, x)] # NoEntry =>
    /\ HomeFrom(C, e, map[Round(C, e, x)].key) <= x
    /\ \A y \in HomeFrom(C, e, map[Round(C, e, x)].key)..x : map[Round(C, e, y)] # NoEntry

\* The way from h to b, seen from e: it passes e or is a part of the row.
LEMMA WayFrom ==
  ASSUME NEW C \in Nat \ {0}, NEW e \in 0..(C - 1), NEW h \in 0..(C - 1), NEW b \in 0..(C - 1)
  PROVE  /\ StepsTo(C, e, h) \in 0..(C - 1) /\ StepsTo(C, e, b) \in 0..(C - 1)
         /\ StepsTo(C, e, h) <= StepsTo(C, e, b) =>
              /\ StepsTo(C, h, b) = StepsTo(C, e, b) - StepsTo(C, e, h)
              /\ \A i \in 0..(StepsTo(C, e, b) - StepsTo(C, e, h)) :
                   Round(C, h, i) = Round(C, e, StepsTo(C, e, h) + i)
         /\ StepsTo(C, e, h) > StepsTo(C, e, b) =>
              /\ C - StepsTo(C, e, h) \in 0..(C - 1)
              /\ Round(C, h, C - StepsTo(C, e, h)) = e
              /\ StepsTo(C, h, b) = C - StepsTo(C, e, h) + StepsTo(C, e, b)
  BY DEF StepsTo, Round

\* Where a bucket is unoccupied the row that begins there is packed, and the other way.
LEMMA RowOf ==
  ASSUME NEW C \in Nat \ {0}, NEW map, IsMap(C, map), NEW e \in 0..(C - 1), map[e] = NoEntry
  PROVE  Reachable(C, map) <=> Packed(C, map, e, C - 1)
<1>1. Round(C, e, 0) = e /\ StepsTo(C, e, e) = 0
  BY DEF Round, StepsTo
<1>2. ASSUME NEW b \in 0..(C - 1), map[b] # NoEntry
      PROVE  HomeOf(C, map[b].key) \in 0..(C - 1) /\ StepsTo(C, e, b) # 0
  <2>1. map[b].key \in Nat
    BY <1>2 DEF IsMap, HashEntry
  <2>2. StepsTo(C, e, b) # 0
    <3>1. b # e
      BY <1>2
    <3> QED
      BY <3>1 DEF StepsTo
  <2> QED
    BY <2>1, <2>2, ProbeIs
<1>3. ASSUME Reachable(C, map) PROVE Packed(C, map, e, C - 1)
  <2> SUFFICES ASSUME NEW x \in 0..(C - 1), map[Round(C, e, x)] # NoEntry
               PROVE  /\ HomeFrom(C, e, map[Round(C, e, x)].key) <= x
                      /\ \A y \in HomeFrom(C, e, map[Round(C, e, x)].key)..x : map[Round(C, e, y)] # NoEntry
    BY DEF Packed
  <2> DEFINE b == Round(C, e, x)
             h == HomeOf(C, map[b].key)
             g == StepsTo(C, e, h)
  <2>1. b \in 0..(C - 1) /\ StepsTo(C, e, b) = x /\ h \in 0..(C - 1) /\ x # 0
    BY <1>2, RoundIs
  <2>2. \A i \in 0..(C - 1) : i < StepsTo(C, h, b) => map[Round(C, h, i)] # NoEntry
    BY <1>3, <2>1 DEF Reachable
  <2>3. map[b] # NoEntry /\ HomeFrom(C, e, map[b].key) = g
    BY DEF HomeFrom
  <2> HIDE DEF b, h
  <2>4. g \in 0..(C - 1) /\ g <= x
    <3>1. g \in 0..(C - 1)
      BY <2>1, WayFrom
    <3>2. CASE g > x
      <4>1. /\ C - g \in 0..(C - 1) /\ Round(C, h, C - g) = e /\ StepsTo(C, h, b) = C - g + x
        BY <2>1, <3>2, WayFrom
      <4>2. C - g < StepsTo(C, h, b)
        BY <2>1, <3>1, <4>1
      <4> QED
        BY <2>2, <4>1, <4>2
    <3> QED
      BY <3>1, <3>2
  <2>5. ASSUME NEW y \in g..x PROVE map[Round(C, e, y)] # NoEntry
    <3>1. CASE y = x
      BY <2>3, <3>1 DEF b
    <3>2. CASE y # x
      <4>1. y - g \in 0..(x - g) /\ y - g \in 0..(C - 1) /\ y - g < x - g /\ g + (y - g) = y
        BY <2>4, <2>5, <3>2
      <4>2. StepsTo(C, h, b) = x - g /\ Round(C, h, y - g) = Round(C, e, g + (y - g))
        BY <2>1, <2>4, <4>1, WayFrom
      <4> QED
        BY <2>2, <4>1, <4>2
    <3> QED
      BY <3>1, <3>2
  <2> QED
    BY <2>3, <2>4, <2>5 DEF b
<1>4. ASSUME Packed(C, map, e, C - 1) PROVE Reachable(C, map)
  <2> SUFFICES ASSUME NEW b \in 0..(C - 1), map[b] # NoEntry, NEW i \in 0..(C - 1),
                      i < StepsTo(C, HomeOf(C, map[b].key), b)
               PROVE  map[Round(C, HomeOf(C, map[b].key), i)] # NoEntry
    BY DEF Reachable
  <2> DEFINE h == HomeOf(C, map[b].key)
             x == StepsTo(C, e, b)
             g == StepsTo(C, e, h)
  <2>1. h \in 0..(C - 1) /\ x \in 0..(C - 1) /\ Round(C, e, x) = b
    BY <1>2, RoundIs
  <2>2. HomeFrom(C, e, map[b].key) = g
    BY DEF HomeFrom
  <2> HIDE DEF h, x
  <2>3. g <= x /\ \A y \in g..x : map[Round(C, e, y)] # NoEntry
    BY <1>4, <2>1, <2>2 DEF Packed
  <2>4. g \in 0..(C - 1)
    BY <2>1, WayFrom
  <2>5. StepsTo(C, h, b) = x - g /\ \A j \in 0..(x - g) : Round(C, h, j) = Round(C, e, g + j)
    BY <2>1, <2>3, WayFrom DEF x
  <2>6. i < x - g
    BY <2>5 DEF h
  <2>7. i \in 0..(x - g) /\ g + i \in g..x
    BY <2>1, <2>4, <2>6
  <2>8. map[Round(C, e, g + i)] # NoEntry
    BY <2>3, <2>7
  <2> QED
    BY <2>5, <2>7, <2>8 DEF h
<1> QED
  BY <1>3, <1>4

\* A new key goes to the first unoccupied bucket of the row from its home on.
LEMMA InsertInRow ==
  ASSUME NEW C \in Nat \ {0}, NEW w, IsMap(C, w), NEW e \in 0..(C - 1),
         NEW key \in Nat \ {0}, \A b \in 0..(C - 1) : w[b].key # key,
         NEW y \in 0..(C - 1), HomeFrom(C, e, key) <= y, w[Round(C, e, y)] = NoEntry,
         \A z \in HomeFrom(C, e, key)..(y - 1) : w[Round(C, e, z)] # NoEntry
  PROVE  \A v : Hash(C)!Insert(w, key, v) = [w EXCEPT ![Round(C, e, y)] = [key |-> key, value |-> v]]
<1> DEFINE h == HomeOf(C, key)
           b == Round(C, e, y)
           g == StepsTo(C, e, h)
<1>1. h \in 0..(C - 1) /\ b \in 0..(C - 1) /\ StepsTo(C, e, b) = y
  BY ProbeIs, RoundIs
<1>2. g = HomeFrom(C, e, key)
  BY DEF HomeFrom
<1> HIDE DEF h, b
<1>3. g \in 0..(C - 1) /\ \A i \in 0..(y - g) : Round(C, h, i) = Round(C, e, g + i)
  BY <1>1, <1>2, WayFrom
<1>4. y - g \in 0..(C - 1) /\ y - g \in 0..(y - g) /\ g + (y - g) = y
  BY <1>2, <1>3
<1>5. Round(C, h, y - g) = b
  BY <1>3, <1>4 DEF b
<1>6. y - g \in EndsAt(C, w, key)
  BY <1>4, <1>5 DEF EndsAt, h, b
<1>7. ASSUME NEW i \in EndsAt(C, w, key) PROVE y - g <= i
  <2>1. i \in 0..(C - 1) /\ (w[Round(C, h, i)] = NoEntry \/ w[Round(C, h, i)].key = key)
    BY <1>7 DEF EndsAt, h
  <2>2. Round(C, h, i) \in 0..(C - 1)
    BY <1>1, <2>1, RoundIs
  <2>3. w[Round(C, h, i)] = NoEntry
    BY <2>1, <2>2
  <2>4. CASE i < y - g
    <3>1. i \in 0..(y - g) /\ g + i \in g..(y - 1)
      BY <1>3, <1>4, <2>1, <2>4
    <3>2. Round(C, h, i) = Round(C, e, g + i)
      BY <1>3, <3>1
    <3> QED
      BY <1>2, <2>3, <3>1, <3>2
  <2> QED
    BY <1>4, <2>1, <2>4
<1>8. \A v : Hash(C)!Insert(w, key, v) = [w EXCEPT ![Round(C, HomeOf(C, key), y - g)] = [key |-> key, value |-> v]]
  <2> DEFINE j == y - g
  <2>1. j \in EndsAt(C, w, key) /\ \A i \in EndsAt(C, w, key) : j <= i
    BY <1>6, <1>7
  <2> HIDE DEF j
  <2>2. \A v : Hash(C)!Insert(w, key, v) = [w EXCEPT ![Round(C, HomeOf(C, key), j)] = [key |-> key, value |-> v]]
    BY <2>1, SearchEnds
  <2> QED
    BY <2>2 DEF j
<1> QED
  BY <1>5, <1>8 DEF h, b

\* What the rehash keeps when it has come to place p of the row that begins at e.
RowGood(C, w, e, p) ==
  /\ IsMap(C, w) /\ KeysDiffer(C, w) /\ w[e] = NoEntry
  /\ Packed(C, w, e, p)

\* Map n is w with the entry at place p behind bucket e inserted again.
TakenUp(C, w, e, p, n) ==
  /\ e \in 0..(C - 1) /\ p \in 1..(C - 1)
  /\ RowGood(C, w, e, p - 1) /\ w[Round(C, e, p)] # NoEntry
  /\ HomeFrom(C, e, w[Round(C, e, p)].key) \in 1..p
  /\ n = Hash(C)!Insert([w EXCEPT ![Round(C, e, p)] = NoEntry],
                        w[Round(C, e, p)].key, w[Round(C, e, p)].value)

\* The row behind e is good one place further, and nothing behind it changed.
RowFurther(C, w, e, p, n) ==
  /\ RowGood(C, n, e, p) /\ Contents(C, n) = Contents(C, w)
  /\ \A x \in (p + 1)..(C - 1) : n[Round(C, e, x)] = w[Round(C, e, x)]

\* One turn of the rehash: the entry at place p is taken out and inserted again.
LEMMA RehashStep ==
  ASSUME NEW C \in Nat \ {0}, NEW w, NEW e, NEW p, NEW n, TakenUp(C, w, e, p, n)
  PROVE  RowFurther(C, w, e, p, n)
<1> USE DEF TakenUp, RowFurther
<1>0. e \in 0..(C - 1) /\ p \in 1..(C - 1)
  OBVIOUS
<1> DEFINE b == Round(C, e, p)
           entry == w[b]
           g == HomeFrom(C, e, entry.key)
           v == [w EXCEPT ![b] = NoEntry]
           S == {z \in g..p : v[Round(C, e, z)] = NoEntry}
<1>1. b \in 0..(C - 1) /\ entry \in HashEntry /\ entry # NoEntry /\ entry.key \in Nat \ {0} /\ entry.value \in Nat
  <2>1. b \in 0..(C - 1)
    BY RoundIs
  <2>2. entry \in HashEntry \cup {NoEntry} /\ entry # NoEntry
    BY <2>1 DEF RowGood, IsMap
  <2> HIDE DEF entry, b
  <2> QED
    BY <2>1, <2>2 DEF HashEntry
<1>2. entry = [key |-> entry.key, value |-> entry.value]
  BY <1>1 DEF HashEntry
<1>3. /\ v \in [0..(C - 1) -> HashEntry \cup {NoEntry}] /\ v[b] = NoEntry
      /\ \A c \in 0..(C - 1) : c # b => v[c] = w[c]
  BY <1>1 DEF RowGood, IsMap
<1>4. w \in [0..(C - 1) -> HashEntry \cup {NoEntry}] /\ w[e] = NoEntry /\ g \in 1..p
  BY DEF RowGood, IsMap
<1>5. n = Hash(C)!Insert(v, entry.key, entry.value)
  OBVIOUS
<1>6. \A c \in 0..(C - 1) : v[c].key # entry.key
  <2> SUFFICES ASSUME NEW c \in 0..(C - 1) PROVE v[c].key # entry.key
    OBVIOUS
  <2>1. CASE v[c] = NoEntry
    BY <1>1, <2>1 DEF NoEntry
  <2>2. CASE v[c] # NoEntry
    BY <1>1, <1>3, <2>2 DEF RowGood, KeysDiffer
  <2> QED
    BY <2>1, <2>2
<1>7. \A x \in 0..(C - 1) : Round(C, e, x) \in 0..(C - 1) /\ StepsTo(C, e, Round(C, e, x)) = x
  BY RoundIs
<1>8. Round(C, e, 0) = e
  BY DEF Round
<1> HIDE DEF v, entry, b
<1>9. PICK y \in S : \A z \in S : y <= z
  <2>1. S \subseteq 0..p /\ p \in Nat
    BY <1>4
  <2>2. p \in S
    BY <1>3, <1>4 DEF b
  <2> HIDE DEF S
  <2> QED
    BY <2>1, <2>2, FirstPlace
<1>10. /\ y \in g..p /\ y \in 1..(C - 1) /\ v[Round(C, e, y)] = NoEntry
       /\ \A z \in g..(y - 1) : v[Round(C, e, z)] # NoEntry
  <2>1. y \in g..p /\ y \in 1..(C - 1) /\ v[Round(C, e, y)] = NoEntry
    BY <1>4, <1>9
  <2>2. ASSUME NEW z \in g..(y - 1) PROVE v[Round(C, e, z)] # NoEntry
    <3>1. z \in g..p /\ ~(y <= z)
      BY <1>4, <2>1
    <3> QED
      BY <1>9, <3>1
  <2> QED
    BY <2>1, <2>2
<1> DEFINE a == Round(C, e, y)
<1>11. n = [v EXCEPT ![a] = entry]
  <2>1. y \in 0..(C - 1) /\ g <= y
    BY <1>4, <1>10
  <2>2. n = [v EXCEPT ![a] = [key |-> entry.key, value |-> entry.value]]
    <3>1. IsMap(C, v) /\ entry.key \in Nat \ {0}
      BY <1>1, <1>3 DEF IsMap
    <3> DEFINE key == entry.key
    <3>2. key \in Nat \ {0} /\ (\A c \in 0..(C - 1) : v[c].key # key) /\ HomeFrom(C, e, key) <= y
          /\ \A z \in HomeFrom(C, e, key)..(y - 1) : v[Round(C, e, z)] # NoEntry
      BY <1>6, <1>10, <2>1, <3>1
    <3> HIDE DEF key
    <3>3. \A u : Hash(C)!Insert(v, key, u) = [v EXCEPT ![Round(C, e, y)] = [key |-> key, value |-> u]]
      BY <1>10, <2>1, <3>1, <3>2, InsertInRow
    <3> QED
      BY <1>5, <3>3 DEF key
  <2> QED
    BY <1>2, <2>2
<1>12. a \in 0..(C - 1) /\ a # e
  BY <1>7, <1>8, <1>10
<1>13. /\ n \in [0..(C - 1) -> HashEntry \cup {NoEntry}] /\ n[a] = entry
       /\ \A c \in 0..(C - 1) : c # a => n[c] = v[c]
  BY <1>1, <1>3, <1>11, <1>12
<1>14. b # e
  BY <1>1, <1>4 DEF entry
<1>15. n[e] = NoEntry
  BY <1>3, <1>4, <1>12, <1>13, <1>14
<1> HIDE DEF a, S
<1>16. KeysDiffer(C, n)
  <2> SUFFICES ASSUME NEW c \in 0..(C - 1), NEW d \in 0..(C - 1), n[c] # NoEntry, n[d] # NoEntry,
                      n[c].key = n[d].key, c # d
               PROVE  FALSE
    BY DEF KeysDiffer
  <2>1. CASE c # a /\ d # a
    <3>1. n[c] = v[c] /\ n[d] = v[d]
      BY <1>13, <2>1
    <3>2. c # b /\ d # b
      BY <1>3, <3>1
    <3> QED
      BY <1>3, <3>1, <3>2 DEF RowGood, KeysDiffer
  <2>2. CASE c = a \/ d = a
    BY <1>6, <1>13, <2>2
  <2> QED
    BY <2>1, <2>2
<1>17. Contents(C, n) = Contents(C, w)
  <2>1. ASSUME NEW f \in Contents(C, n) PROVE f \in Contents(C, w)
    <3>1. PICK c \in 0..(C - 1) : f = n[c] /\ f # NoEntry
      BY DEF Contents
    <3>2. CASE c = a
      BY <1>1, <1>13, <3>1, <3>2 DEF Contents, entry
    <3>3. CASE c # a
      <4>1. f = v[c] /\ c # b
        BY <1>3, <1>13, <3>1, <3>3
      <4> QED
        BY <1>3, <3>1, <4>1 DEF Contents
    <3> QED
      BY <3>2, <3>3
  <2>2. ASSUME NEW f \in Contents(C, w) PROVE f \in Contents(C, n)
    <3>1. PICK c \in 0..(C - 1) : f = w[c] /\ f # NoEntry
      BY DEF Contents
    <3>2. CASE c = b
      BY <1>1, <1>12, <1>13, <3>1, <3>2 DEF Contents, entry, a
    <3>3. CASE c # b
      <4>1. f = v[c] /\ c # a
        BY <1>3, <1>10, <3>1, <3>3 DEF a
      <4> QED
        BY <1>13, <3>1, <4>1 DEF Contents
    <3> QED
      BY <3>2, <3>3
  <2> QED
    BY <2>1, <2>2
<1>18. ASSUME NEW x \in (p + 1)..(C - 1) PROVE n[Round(C, e, x)] = w[Round(C, e, x)]
  <2>1. x \in 0..(C - 1) /\ x # p /\ x # y
    BY <1>10
  <2>2. Round(C, e, x) # b /\ Round(C, e, x) # a /\ Round(C, e, x) \in 0..(C - 1)
    BY <1>7, <1>10, <2>1 DEF a, b
  <2> QED
    BY <1>3, <1>13, <2>2
<1>19. \A x \in 0..(p - 1) : w[Round(C, e, x)] # NoEntry => n[Round(C, e, x)] # NoEntry
  <2> SUFFICES ASSUME NEW x \in 0..(p - 1), w[Round(C, e, x)] # NoEntry
               PROVE  n[Round(C, e, x)] # NoEntry
    OBVIOUS
  <2>1. x \in 0..(C - 1) /\ x # p /\ Round(C, e, x) # b /\ Round(C, e, x) \in 0..(C - 1)
    BY <1>7 DEF b
  <2>2. v[Round(C, e, x)] = w[Round(C, e, x)]
    BY <1>3, <2>1
  <2> QED
    BY <1>1, <1>13, <2>1, <2>2
<1>20. Packed(C, n, e, p)
  <2> SUFFICES ASSUME NEW x \in 0..p, n[Round(C, e, x)] # NoEntry
               PROVE  /\ HomeFrom(C, e, n[Round(C, e, x)].key) <= x
                      /\ \A z \in HomeFrom(C, e, n[Round(C, e, x)].key)..x : n[Round(C, e, z)] # NoEntry
    BY DEF Packed
  <2>1. CASE x = y
    <3>1. n[Round(C, e, x)] = entry /\ HomeFrom(C, e, entry.key) = g
      BY <1>13, <2>1 DEF a
    <3>2. ASSUME NEW z \in g..x PROVE n[Round(C, e, z)] # NoEntry
      <4>1. CASE z = y
        BY <1>1, <1>13, <4>1 DEF a
      <4>2. CASE z # y
        <5>1. z \in g..(y - 1) /\ z \in 0..(C - 1)
          BY <1>4, <1>10, <2>1, <3>2, <4>2
        <5>2. v[Round(C, e, z)] # NoEntry
          BY <1>10, <5>1
        <5>3. Round(C, e, z) \in 0..(C - 1)
          BY <1>7, <5>1
        <5> QED
          BY <1>1, <1>13, <5>2, <5>3
      <4> QED
        BY <4>1, <4>2
    <3>3. HomeFrom(C, e, n[Round(C, e, x)].key) = g /\ g <= x
      BY <1>4, <1>10, <2>1, <3>1
    <3> HIDE DEF g
    <3> QED
      BY <3>2, <3>3
  <2>2. CASE x # y
    <3> DEFINE c == Round(C, e, x)
    <3>1. x \in 0..(C - 1) /\ c \in 0..(C - 1) /\ c # a
      BY <1>7, <1>10, <2>2 DEF a
    <3>2. n[c] = v[c] /\ c # b
      BY <1>3, <1>13, <3>1
    <3>3. x # p /\ w[c] = n[c]
      BY <1>3, <3>1, <3>2 DEF b
    <3>4. x \in 0..(p - 1)
      BY <3>3
    <3>5. /\ HomeFrom(C, e, w[c].key) <= x
          /\ \A z \in HomeFrom(C, e, w[c].key)..x : w[Round(C, e, z)] # NoEntry
      BY <3>3, <3>4 DEF RowGood, Packed
    <3>6. HomeFrom(C, e, w[c].key) \in 0..(C - 1)
      <4>1. w[c].key \in Nat
        BY <1>4, <3>1, <3>3 DEF HashEntry
      <4>2. HomeOf(C, w[c].key) \in 0..(C - 1)
        BY <4>1, ProbeIs
      <4> QED
        BY <4>2, RoundIs DEF HomeFrom
    <3>7. ASSUME NEW z \in HomeFrom(C, e, w[c].key)..x PROVE n[Round(C, e, z)] # NoEntry
      <4>1. z \in 0..(p - 1) /\ w[Round(C, e, z)] # NoEntry
        BY <3>4, <3>5, <3>6, <3>7
      <4> QED
        BY <1>19, <4>1
    <3> QED
      BY <3>3, <3>5, <3>7
  <2> QED
    BY <2>1, <2>2
<1> QED
  BY <1>13, <1>15, <1>16, <1>17, <1>18, <1>20 DEF RowGood, IsMap

---------------------------------------------------------------------------
(* Recursive functions of a number. *)

\* f takes n steps, from base on.
StepsUp(f, n, base, step) == f = [i \in 0..n |-> IF i = 0 THEN base ELSE step[<<f[i - 1], i>>]]

\* A function that takes n steps of D, from base on, exists, and stays in D.
LEMMA StepsExist ==
  ASSUME NEW n \in Nat, NEW D, NEW base \in D, NEW step \in [D \X (1..n) -> D]
  PROVE  \E f : StepsUp(f, n, base, step) /\ \A i \in 0..n : f[i] \in D
<1> DEFINE upTo(k, f) == /\ f[0] = base
                         /\ \A i \in 1..k : f[i] = step[<<f[i - 1], i>>]
                         /\ \A i \in 0..k : f[i] \in D
           G == {k \in Nat : k <= n => \E f : upTo(k, f)}
<1>1. 0 \in G
  <2> DEFINE h == [i \in 0..0 |-> base]
  <2>1. upTo(0, h)
    OBVIOUS
  <2> QED
    BY <2>1
<1>2. ASSUME NEW k \in Nat, k \in G PROVE k + 1 \in G
  <2> SUFFICES ASSUME k + 1 <= n PROVE \E f : upTo(k + 1, f)
    OBVIOUS
  <2>1. PICK f : upTo(k, f)
    BY <1>2
  <2> DEFINE h == [i \in 0..(k + 1) |-> IF i = k + 1 THEN step[<<f[k], k + 1>>] ELSE f[i]]
  <2>2. k + 1 \in 1..n /\ f[k] \in D
    BY <2>1
  <2>3. step[<<f[k], k + 1>>] \in D
    BY <2>2
  <2>4. h[k + 1] = step[<<f[k], k + 1>>] /\ \A i \in 0..k : h[i] = f[i]
    OBVIOUS
  <2> HIDE DEF h
  <2>5. ASSUME NEW i \in 1..(k + 1) PROVE h[i] = step[<<h[i - 1], i>>]
    <3>1. CASE i = k + 1
      <4>1. i - 1 = k /\ h[k] = f[k]
        BY <2>4, <3>1
      <4> QED
        BY <2>4, <3>1, <4>1
    <3>2. CASE i # k + 1
      <4>1. i \in 1..k /\ i \in 0..k /\ i - 1 \in 0..k
        BY <3>2
      <4> QED
        BY <2>1, <2>4, <4>1
    <3> QED
      BY <3>1, <3>2
  <2>6. h[0] = base /\ \A i \in 0..(k + 1) : h[i] \in D
    <3>1. 0 \in 0..k /\ \A i \in 0..(k + 1) : i = k + 1 \/ i \in 0..k
      OBVIOUS
    <3> QED
      BY <2>1, <2>3, <2>4, <3>1
  <2>7. upTo(k + 1, h)
    BY <2>5, <2>6
  <2> QED
    BY <2>7
<1> HIDE DEF G
<1>3. n \in G
  BY <1>1, <1>2, NumberInduction
<1>4. PICK f : upTo(n, f)
  BY <1>3 DEF G
<1> DEFINE h == [i \in 0..n |-> f[i]]
<1>5. \A i \in 0..n : h[i] \in D /\ h[i] = IF i = 0 THEN base ELSE step[<<h[i - 1], i>>]
  <2> SUFFICES ASSUME NEW i \in 0..n
               PROVE  h[i] \in D /\ h[i] = IF i = 0 THEN base ELSE step[<<h[i - 1], i>>]
    OBVIOUS
  <2>1. CASE i = 0
    BY <1>4, <2>1
  <2>2. CASE i # 0
    <3>1. i \in 1..n /\ i - 1 \in 0..n
      BY <2>2
    <3>2. h[i] = f[i] /\ h[i - 1] = f[i - 1]
      BY <3>1
    <3> QED
      BY <1>4, <2>2, <3>1, <3>2
  <2> QED
    BY <2>1, <2>2
<1>6. h = [i \in 0..n |-> IF i = 0 THEN base ELSE step[<<h[i - 1], i>>]]
  BY <1>5
<1>7. StepsUp(h, n, base, step) /\ \A i \in 0..n : h[i] \in D
  BY <1>5, <1>6 DEF StepsUp
<1> QED
  BY <1>7

\* W is what the rehash of the cluster behind bucket s does to map m, bucket by bucket.
Rehashes(C, m, s, W) ==
  /\ W[0] = [map |-> m, done |-> FALSE]
  /\ \A i \in 1..(C - 1) : W[i] =
       IF W[i - 1].done \/ W[i - 1].map[Round(C, s, i)] = NoEntry
       THEN [map |-> W[i - 1].map, done |-> TRUE]
       ELSE [map |-> Hash(C)!Insert([W[i - 1].map EXCEPT ![Round(C, s, i)] = NoEntry],
                                    W[i - 1].map[Round(C, s, i)].key,
                                    W[i - 1].map[Round(C, s, i)].value),
             done |-> W[i - 1].done]
  /\ Hash(C)!RehashCluster(m, s) = W[C - 1].map

\* The rehash goes on from the freed bucket until a bucket is unoccupied.
LEMMA RehashTrace ==
  ASSUME NEW C \in Nat \ {0}, NEW m, IsMap(C, m), NEW s \in 0..(C - 1)
  PROVE  \E W : Rehashes(C, m, s, W)
<1> DEFINE M == [0..(C - 1) -> HashEntry \cup {NoEntry}]
           D == [map : M, done : BOOLEAN]
           N == C - 1
           base == [map |-> m, done |-> FALSE]
           turn(w, i) == IF w.done \/ w.map[Round(C, s, i)] = NoEntry
                         THEN [map |-> w.map, done |-> TRUE]
                         ELSE [map |-> Hash(C)!Insert([w.map EXCEPT ![Round(C, s, i)] = NoEntry],
                                         w.map[Round(C, s, i)].key, w.map[Round(C, s, i)].value),
                               done |-> w.done]
           step == [a \in D \X (1..N) |-> turn(a[1], a[2])]
           f == CHOOSE upto : upto = [i \in 0..(C - 1) |->
                  LET w == upto[i - 1]
                      b == (s + i) % C
                  IN  IF i = 0 THEN [map |-> m, done |-> FALSE]
                      ELSE IF w.done \/ ~Hash(C)!Occupied(w.map, b) THEN [w EXCEPT !.done = TRUE]
                      ELSE [w EXCEPT !.map = Hash(C)!Insert([w.map EXCEPT ![b] = Hash(C)!Unoccupied],
                                                    w.map[b].key, w.map[b].value)]]
<1>1. N \in Nat /\ base \in D
  BY DEF IsMap
<1>2. \A i \in 0..N : (s + i) % C = Round(C, s, i) /\ Round(C, s, i) \in 0..(C - 1)
  <2>1. s \in Nat
    OBVIOUS
  <2>2. HomeOf(C, s) = s
    BY DEF HomeOf
  <2>3. \A i \in 0..(C - 1) : (s + i) % C = Round(C, s, i)
    BY <2>1, <2>2, ProbeIs
  <2> QED
    BY <2>3, RoundIs
<1>3. ASSUME NEW map \in M, NEW key \in Nat \ {0}, NEW value \in Nat
      PROVE  Hash(C)!Insert(map, key, value) \in M
  <2>1. [key |-> key, value |-> value] \in HashEntry
    BY DEF HashEntry
  <2> QED
    BY <2>1 DEF Hash!Insert
<1>4. \A w \in D, i \in 1..N : turn(w, i) \in D
  <2> SUFFICES ASSUME NEW w \in D, NEW i \in 1..N PROVE turn(w, i) \in D
    OBVIOUS
  <2> DEFINE b == Round(C, s, i)
             map == w.map
             entry == map[b]
             freed == [map EXCEPT ![b] = NoEntry]
  <2>1. map \in M /\ w.done \in BOOLEAN /\ b \in 0..(C - 1)
    <3>1. map \in M /\ w.done \in BOOLEAN
      <4> HIDE DEF M
      <4> QED
        OBVIOUS
    <3>2. i \in 0..N
      BY <1>1
    <3> QED
      BY <1>2, <3>1, <3>2
  <2>2. CASE w.done \/ entry = NoEntry
    BY <2>1, <2>2
  <2>3. CASE ~(w.done \/ entry = NoEntry)
    <3>1. entry \in HashEntry /\ freed \in M
      BY <2>1, <2>3
    <3>2. entry.key \in Nat \ {0} /\ entry.value \in Nat
      BY <3>1 DEF HashEntry
    <3> HIDE DEF entry, freed, M
    <3>3. Hash(C)!Insert(freed, entry.key, entry.value) \in M
      BY <1>3, <3>1, <3>2
    <3>4. turn(w, i) = [map |-> Hash(C)!Insert(freed, entry.key, entry.value), done |-> w.done]
      BY <2>3 DEF entry, freed
    <3> QED
      BY <2>1, <3>3, <3>4
  <2> QED
    BY <2>2, <2>3
<1>5. step \in [D \X (1..N) -> D] /\ \A w \in D, i \in 1..N : step[<<w, i>>] = turn(w, i)
  <2> HIDE DEF turn, D
  <2> QED
    BY <1>4
<1> HIDE DEF step
<1>6. PICK g : StepsUp(g, N, base, step) /\ \A i \in 0..N : g[i] \in D
  <2>1. step \in [D \X (1..N) -> D] /\ N \in Nat /\ base \in D
    BY <1>1, <1>5
  <2> HIDE DEF D, base, N, f, turn
  <2> QED
    BY <2>1, StepsExist
<1>7. g = [i \in 0..(C - 1) |->
             LET w == g[i - 1]
                 b == (s + i) % C
             IN  IF i = 0 THEN [map |-> m, done |-> FALSE]
                 ELSE IF w.done \/ ~Hash(C)!Occupied(w.map, b) THEN [w EXCEPT !.done = TRUE]
                 ELSE [w EXCEPT !.map = Hash(C)!Insert([w.map EXCEPT ![b] = Hash(C)!Unoccupied],
                                               w.map[b].key, w.map[b].value)]]
  <2> HIDE DEF f
  <2>1. ASSUME NEW i \in 1..N
        PROVE  step[<<g[i - 1], i>>] =
                 LET w == g[i - 1]
                     b == (s + i) % C
                 IN  IF w.done \/ ~Hash(C)!Occupied(w.map, b) THEN [w EXCEPT !.done = TRUE]
                     ELSE [w EXCEPT !.map = Hash(C)!Insert([w.map EXCEPT ![b] = Hash(C)!Unoccupied],
                                               w.map[b].key, w.map[b].value)]
    <3> DEFINE w == g[i - 1]
    <3>1. w \in D /\ i \in 0..N
      <4>1. i - 1 \in 0..N /\ i \in 0..N
        BY <1>1
      <4> HIDE DEF D, base, turn, N
      <4> QED
        BY <1>6, <4>1
    <3> HIDE DEF w
    <3>2. step[<<w, i>>] = turn(w, i)
      BY <1>5, <3>1
    <3>3. (s + i) % C = Round(C, s, i)
      BY <1>2, <3>1
    <3>4. /\ \A d : [w EXCEPT !.done = d] = [map |-> w.map, done |-> d]
          /\ \A u : [w EXCEPT !.map = u] = [map |-> u, done |-> w.done]
      BY <3>1
    <3> DEFINE b == Round(C, s, i)
               u == Hash(C)!Insert([w.map EXCEPT ![b] = NoEntry], w.map[b].key, w.map[b].value)
    <3>5. turn(w, i) = IF w.done \/ w.map[b] = NoEntry THEN [w EXCEPT !.done = TRUE]
                       ELSE [w EXCEPT !.map = u]
      <4> HIDE DEF u, b
      <4> QED
        BY <3>4 DEF u, b
    <3> QED
      BY <3>2, <3>3, <3>5 DEF w, Hash!Occupied, Hash!Unoccupied, NoEntry
  <2>2. g = [i \in 0..N |-> IF i = 0 THEN base ELSE step[<<g[i - 1], i>>]]
    BY <1>6 DEF StepsUp
  <2>3. \A i \in 0..N : i = 0 \/ i \in 1..N
    BY <1>1
  <2> DEFINE body(i) == LET w == g[i - 1]
                            b == (s + i) % C
                        IN  IF w.done \/ ~Hash(C)!Occupied(w.map, b) THEN [w EXCEPT !.done = TRUE]
                            ELSE [w EXCEPT !.map = Hash(C)!Insert([w.map EXCEPT ![b] = Hash(C)!Unoccupied],
                                               w.map[b].key, w.map[b].value)]
  <2>4. \A i \in 1..N : step[<<g[i - 1], i>>] = body(i)
    BY <2>1
  <2> HIDE DEF D, step, turn, body
  <2>5. g = [i \in 0..N |-> IF i = 0 THEN base ELSE body(i)]
    <3> DEFINE k == [i \in 0..N |-> IF i = 0 THEN base ELSE body(i)]
               l == [i \in 0..N |-> IF i = 0 THEN base ELSE step[<<g[i - 1], i>>]]
    <3>1. \A i \in 0..N : k[i] = l[i]
      BY <2>3, <2>4
    <3>2. k = l
      BY <3>1
    <3> QED
      BY <2>2, <3>2, Zenon
  <2> QED
    BY <2>5 DEF body
<1>8. f = [i \in 0..(C - 1) |->
             LET w == f[i - 1]
                 b == (s + i) % C
             IN  IF i = 0 THEN [map |-> m, done |-> FALSE]
                 ELSE IF w.done \/ ~Hash(C)!Occupied(w.map, b) THEN [w EXCEPT !.done = TRUE]
                 ELSE [w EXCEPT !.map = Hash(C)!Insert([w.map EXCEPT ![b] = Hash(C)!Unoccupied],
                                               w.map[b].key, w.map[b].value)]]
  BY <1>7, Zenon
<1>9. Hash(C)!RehashCluster(m, s) = f[C - 1].map
  BY DEF Hash!RehashCluster
<1> HIDE DEF f
<1>10. f[0] = base /\ \A i \in 0..N : f[i] \in D
  <2> DEFINE G == {i \in Nat : i <= N => f[i] \in D}
  <2>1. f[0] = base
    BY <1>1, <1>8
  <2>2. ASSUME NEW i \in Nat, i \in G PROVE i + 1 \in G
    <3> SUFFICES ASSUME i + 1 <= N PROVE f[i + 1] \in D
      OBVIOUS
    <3> DEFINE j == i + 1
    <3>1. j \in 1..N /\ j \in 0..(C - 1) /\ j - 1 = i /\ j # 0 /\ f[i] \in D
      BY <1>1, <2>2
    <3> DEFINE w == f[j - 1]
               b == Round(C, s, j)
    <3>2. w \in D
      BY <3>1
    <3>3. (s + j) % C = b
      BY <1>2, <3>1
    <3> HIDE DEF j
    <3>4. f[j] = IF w.done \/ ~Hash(C)!Occupied(w.map, b) THEN [w EXCEPT !.done = TRUE]
                 ELSE [w EXCEPT !.map = Hash(C)!Insert([w.map EXCEPT ![b] = Hash(C)!Unoccupied],
                                               w.map[b].key, w.map[b].value)]
      BY <1>8, <3>1, <3>3
    <3> HIDE DEF w
    <3>5. /\ \A d : [w EXCEPT !.done = d] = [map |-> w.map, done |-> d]
          /\ \A u : [w EXCEPT !.map = u] = [map |-> u, done |-> w.done]
      BY <3>2
    <3>6. f[j] = turn(w, j)
      <4> DEFINE u == Hash(C)!Insert([w.map EXCEPT ![b] = Hash(C)!Unoccupied], w.map[b].key, w.map[b].value)
      <4>1. Hash(C)!Unoccupied = NoEntry
        BY DEF Hash!Unoccupied, NoEntry
      <4> QED
        BY <3>4, <3>5, <4>1 DEF Hash!Occupied
    <3>7. turn(w, j) \in D
      BY <1>4, <3>1, <3>2
    <3> QED
      BY <3>6, <3>7 DEF j
  <2> HIDE DEF G
  <2>3. 0 \in G
    BY <1>1, <2>1 DEF G
  <2>4. Nat \subseteq G
    BY <2>2, <2>3, NumberInduction
  <2> QED
    BY <1>1, <2>1, <2>4 DEF G
<1>11. ASSUME NEW j \in 1..N PROVE f[j] = turn(f[j - 1], j)
  <2> DEFINE w == f[j - 1]
             b == Round(C, s, j)
  <2>1. w \in D /\ j \in 0..(C - 1) /\ j # 0
    BY <1>1, <1>10
  <2>2. (s + j) % C = b
    BY <1>2, <2>1
  <2>3. f[j] = IF w.done \/ ~Hash(C)!Occupied(w.map, b) THEN [w EXCEPT !.done = TRUE]
               ELSE [w EXCEPT !.map = Hash(C)!Insert([w.map EXCEPT ![b] = Hash(C)!Unoccupied],
                                             w.map[b].key, w.map[b].value)]
    BY <1>8, <2>1, <2>2
  <2> HIDE DEF w
  <2>4. /\ \A d : [w EXCEPT !.done = d] = [map |-> w.map, done |-> d]
        /\ \A u : [w EXCEPT !.map = u] = [map |-> u, done |-> w.done]
    BY <2>1
  <2>5. f[j] = turn(w, j)
    <3>1. Hash(C)!Unoccupied = NoEntry
      BY DEF Hash!Unoccupied, NoEntry
    <3> QED
      BY <2>3, <2>4, <3>1 DEF Hash!Occupied
  <2> QED
    BY <2>5 DEF w
<1> QED
  BY <1>9, <1>10, <1>11 DEF Rehashes

\* The rehash puts the entries behind the freed bucket where they are found again.
LEMMA RehashIs ==
  ASSUME NEW C \in Nat \ {0}, NEW map, HashGood(C, map), HasRoom(C, map),
         NEW s \in 0..(C - 1), map[s] # NoEntry,
         NEW m, m = [map EXCEPT ![s] = NoEntry]
  PROVE  /\ HashGood(C, Hash(C)!RehashCluster(m, s))
         /\ Contents(C, Hash(C)!RehashCluster(m, s)) = Contents(C, m)
<1> DEFINE T == {i \in 0..(C - 1) : map[Round(C, s, i)] = NoEntry}
<1>1. /\ map \in [0..(C - 1) -> HashEntry \cup {NoEntry}]
      /\ m \in [0..(C - 1) -> HashEntry \cup {NoEntry}]
      /\ m[s] = NoEntry /\ \A c \in 0..(C - 1) : c # s => m[c] = map[c]
  BY DEF HashGood, IsMap
<1>2. PICK L \in T : \A i \in T : L <= i
  <2>1. PICK b \in 0..(C - 1) : map[b] = NoEntry
    BY DEF HasRoom
  <2>2. StepsTo(C, s, b) \in T
    BY <2>1, RoundIs
  <2>3. C - 1 \in Nat /\ T \subseteq 0..(C - 1)
    OBVIOUS
  <2> HIDE DEF T
  <2> QED
    BY <2>2, <2>3, FirstPlace
<1> DEFINE e == Round(C, s, L)
           X == C - L
<1>3. Round(C, s, 0) = s
  BY DEF Round
<1>4. L \in 1..(C - 1) /\ map[e] = NoEntry /\ X \in 1..(C - 1)
  BY <1>2, <1>3
<1>5. \A i \in 1..(L - 1) : map[Round(C, s, i)] # NoEntry
  <2> SUFFICES ASSUME NEW i \in 1..(L - 1), map[Round(C, s, i)] = NoEntry PROVE FALSE
    OBVIOUS
  <2>1. i \in T /\ ~(L <= i)
    BY <1>4
  <2> QED
    BY <1>2, <2>1
<1> HIDE DEF T
<1>6. e \in 0..(C - 1) /\ StepsTo(C, e, s) = X /\ \A i \in 0..(L - 1) : Round(C, s, i) = Round(C, e, X + i)
  <2>1. e \in 0..(C - 1)
    BY <1>4, RoundIs
  <2>2. StepsTo(C, e, s) = X
    BY <1>4 DEF StepsTo, Round
  <2>3. ASSUME NEW i \in 0..(L - 1) PROVE Round(C, s, i) = Round(C, e, X + i)
    BY <1>4, <2>3 DEF Round
  <2> QED
    BY <2>1, <2>2, <2>3
<1>7. Round(C, e, 0) = e
  BY <1>6 DEF Round
<1> HIDE DEF e
<1>8. Packed(C, map, e, C - 1)
  BY <1>4, <1>6, RowOf DEF HashGood
<1>9. \A x \in 0..(C - 1) : Round(C, e, x) \in 0..(C - 1) /\ StepsTo(C, e, Round(C, e, x)) = x
  BY <1>6, RoundIs
<1>10. s = Round(C, e, X)
  BY <1>3, <1>4, <1>6
<1>11. m[e] = NoEntry
  BY <1>1, <1>4, <1>6
<1>12. KeysDiffer(C, m)
  <2> SUFFICES ASSUME NEW b \in 0..(C - 1), NEW c \in 0..(C - 1), m[b] # NoEntry, m[c] # NoEntry,
                      m[b].key = m[c].key
               PROVE  b = c
    BY DEF KeysDiffer
  <2>1. m[b] = map[b] /\ m[c] = map[c]
    BY <1>1
  <2> QED
    BY <2>1 DEF HashGood, KeysDiffer
<1>13. ASSUME NEW x \in 1..(C - 1), map[Round(C, e, x)] # NoEntry
       PROVE  /\ HomeFrom(C, e, map[Round(C, e, x)].key) \in 1..x
              /\ \A y \in HomeFrom(C, e, map[Round(C, e, x)].key)..x : map[Round(C, e, y)] # NoEntry
  <2> DEFINE k == map[Round(C, e, x)].key
             g == HomeFrom(C, e, k)
  <2>1. k \in Nat
    BY <1>1, <1>9, <1>13 DEF HashEntry
  <2>2. g \in 0..(C - 1)
    BY <1>6, <2>1, ProbeIs, RoundIs DEF HomeFrom
  <2>3. g <= x /\ \A y \in g..x : map[Round(C, e, y)] # NoEntry
    BY <1>8, <1>13 DEF Packed
  <2> HIDE DEF g
  <2>4. g # 0
    <3>1. CASE g = 0
      <4>1. 0 \in g..x
        BY <3>1
      <4> QED
        BY <1>4, <1>7, <2>3, <4>1
    <3> QED
      BY <3>1
  <2> QED
    BY <2>2, <2>3, <2>4 DEF g
<1>14. Packed(C, m, e, X)
  <2> SUFFICES ASSUME NEW x \in 0..X, m[Round(C, e, x)] # NoEntry
               PROVE  /\ HomeFrom(C, e, m[Round(C, e, x)].key) <= x
                      /\ \A y \in HomeFrom(C, e, m[Round(C, e, x)].key)..x : m[Round(C, e, y)] # NoEntry
    BY DEF Packed
  <2> DEFINE c == Round(C, e, x)
             g == HomeFrom(C, e, map[c].key)
  <2>1. c # s /\ c # e
    BY <1>1, <1>11
  <2>2. x \in 1..(X - 1) /\ x \in 1..(C - 1) /\ c \in 0..(C - 1)
    BY <1>4, <1>7, <1>9, <1>10, <2>1
  <2>3. m[c] = map[c]
    BY <1>1, <2>1, <2>2
  <2>4. g \in 1..x /\ \A y \in g..x : map[Round(C, e, y)] # NoEntry
    BY <1>13, <2>2, <2>3
  <2>5. ASSUME NEW y \in g..x PROVE m[Round(C, e, y)] # NoEntry
    <3>1. y \in 0..(C - 1) /\ y # X
      BY <1>4, <2>2, <2>4, <2>5
    <3>2. Round(C, e, y) \in 0..(C - 1) /\ Round(C, e, y) # s
      BY <1>4, <1>9, <1>10, <3>1
    <3> QED
      BY <1>1, <2>4, <3>2
  <2> QED
    BY <2>3, <2>4, <2>5
<1>15. RowGood(C, m, e, X)
  BY <1>1, <1>11, <1>12, <1>14 DEF RowGood, IsMap
<1>16. PICK W : Rehashes(C, m, s, W)
  <2>1. IsMap(C, m)
    BY <1>1 DEF IsMap
  <2> QED
    BY <2>1, RehashTrace
<1> DEFINE good(i) == /\ W[i].done = FALSE
                      /\ RowGood(C, W[i].map, e, X + i) /\ Contents(C, W[i].map) = Contents(C, m)
                      /\ \A x \in (X + i + 1)..(C - 1) : W[i].map[Round(C, e, x)] = map[Round(C, e, x)]
           G == {i \in Nat : i <= L - 1 => good(i)}
<1>17. 0 \in G
  <2>1. ASSUME NEW x \in (X + 0 + 1)..(C - 1) PROVE m[Round(C, e, x)] = map[Round(C, e, x)]
    <3>1. x \in 0..(C - 1) /\ x # X /\ X \in 0..(C - 1)
      BY <1>4, <2>1
    <3>2. Round(C, e, x) \in 0..(C - 1) /\ Round(C, e, x) # s
      BY <1>9, <1>10, <3>1
    <3> QED
      BY <1>1, <3>2
  <2>2. X + 0 = X
    BY <1>4
  <2> HIDE DEF X
  <2>3. W[0].map = m /\ W[0].done = FALSE
    BY <1>16 DEF Rehashes
  <2> QED
    BY <1>15, <2>1, <2>2, <2>3
<1>18. ASSUME NEW i \in Nat, i \in G PROVE i + 1 \in G
  <2> HIDE DEF good
  <2> SUFFICES ASSUME i + 1 <= L - 1 PROVE good(i + 1)
    OBVIOUS
  <2>0. good(i)
    BY <1>4, <1>18
  <2> USE DEF good
  <2> DEFINE j == i + 1
             p == X + j
             w == W[i].map
             b == Round(C, e, p)
  <2>1. good(i)
    BY <2>0
  <2>2. /\ j \in 1..(L - 1) /\ j \in 0..(L - 1) /\ j - 1 = i /\ j \in 1..(C - 1) /\ p \in 1..(C - 1) /\ p - 1 = X + i
        /\ p \in (X + i + 1)..(C - 1) /\ p + 1 = X + j + 1 /\ X + i + 1 = p
    BY <1>4
  <2>3. Round(C, s, j) = b /\ map[b] # NoEntry
    BY <1>5, <1>6, <2>2
  <2>4. w[b] = map[b] /\ W[i].done = FALSE
    BY <2>1, <2>2
  <2> DEFINE n == Hash(C)!Insert([w EXCEPT ![b] = NoEntry], w[b].key, w[b].value)
  <2>5. W[j] = [map |-> n, done |-> FALSE]
    <3>1. W[j] = IF W[i].done \/ w[b] = NoEntry
                 THEN [map |-> w, done |-> TRUE]
                 ELSE [map |-> n, done |-> W[i].done]
      BY <1>16, <2>2, <2>3 DEF Rehashes
    <3> QED
      BY <2>3, <2>4, <3>1
  <2>6. HomeFrom(C, e, w[b].key) \in 1..p
    BY <1>13, <2>2, <2>3, <2>4
  <2>7. RowGood(C, w, e, p - 1)
    BY <2>1, <2>2
  <2>8. \A x \in p..(C - 1) : w[Round(C, e, x)] = map[Round(C, e, x)]
    BY <2>1, <2>2
  <2>9. Contents(C, w) = Contents(C, m)
    BY <2>1
  <2> HIDE DEF n, w, j, p, X, b
  <2>10. /\ RowGood(C, n, e, p) /\ Contents(C, n) = Contents(C, w)
         /\ \A x \in (p + 1)..(C - 1) : n[Round(C, e, x)] = w[Round(C, e, x)]
    <3>1. w[Round(C, e, p)] # NoEntry
      BY <2>3, <2>4 DEF b
    <3>2. HomeFrom(C, e, w[Round(C, e, p)].key) \in 1..p
      BY <2>6 DEF b
    <3>3. n = Hash(C)!Insert([w EXCEPT ![Round(C, e, p)] = NoEntry], w[Round(C, e, p)].key, w[Round(C, e, p)].value)
      BY DEF n, b
    <3>4. e \in 0..(C - 1) /\ p \in 1..(C - 1)
      BY <1>6, <2>2
    <3> QED
      <4>1. TakenUp(C, w, e, p, n)
        BY <2>7, <3>1, <3>2, <3>3, <3>4 DEF TakenUp
      <4>2. RowFurther(C, w, e, p, n)
        BY <4>1, RehashStep
      <4> QED
        BY <4>2 DEF RowFurther
  <2>11. ASSUME NEW x \in (p + 1)..(C - 1) PROVE n[Round(C, e, x)] = map[Round(C, e, x)]
    <3>1. x \in p..(C - 1)
      BY <2>2
    <3> QED
      BY <2>8, <2>10, <3>1
  <2>12. W[j].map = n /\ W[j].done = FALSE
    BY <2>5
  <2>13. RowGood(C, W[j].map, e, X + j) /\ Contents(C, W[j].map) = Contents(C, m)
    BY <2>9, <2>10, <2>12 DEF p
  <2>14. \A x \in (X + j + 1)..(C - 1) : W[j].map[Round(C, e, x)] = map[Round(C, e, x)]
    BY <2>2, <2>11, <2>12
  <2> QED
    BY <2>12, <2>13, <2>14 DEF j
<1>19. good(L - 1)
  <2> HIDE DEF G
  <2>1. Nat \subseteq G
    BY <1>17, <1>18, NumberInduction
  <2>2. L - 1 \in Nat
    BY <1>4
  <2>3. L - 1 \in G
    BY <2>1, <2>2
  <2> USE DEF G
  <2> HIDE DEF good
  <2> QED
    BY <2>2, <2>3
<1> DEFINE last == W[L - 1].map
<1>20. RowGood(C, last, e, C - 1) /\ Contents(C, last) = Contents(C, m)
  <2>1. X + (L - 1) = C - 1
    BY <1>4
  <2> HIDE DEF X
  <2> QED
    BY <1>19, <2>1
<1> HIDE DEF good, G
<1>21. HashGood(C, last)
  <2> HIDE DEF last
  <2> QED
    BY <1>6, <1>20, RowOf DEF RowGood, HashGood
<1> DEFINE H == {i \in Nat : i \in (L - 1)..(C - 1) => W[i].map = last /\ (i >= L => W[i].done)}
<1>22. \A i \in Nat : i \in H => i + 1 \in H
  <2> SUFFICES ASSUME NEW i \in Nat, i \in H, i + 1 \in (L - 1)..(C - 1)
               PROVE  W[i + 1].map = last /\ (i + 1 >= L => W[i + 1].done)
    OBVIOUS
  <2> DEFINE j == i + 1
  <2>1. CASE j = L - 1
    <3>1. ~(j >= L)
      BY <1>4, <2>1
    <3> QED
      BY <2>1, <3>1
  <2>2. CASE j # L - 1
    <3>1. i \in (L - 1)..(C - 1) /\ j \in 1..(C - 1) /\ j - 1 = i /\ (i >= L \/ j = L)
      BY <1>4, <2>2
    <3>2. W[i].map = last /\ (i >= L => W[i].done)
      BY <3>1
    <3>3. W[j] = IF W[i].done \/ W[i].map[Round(C, s, j)] = NoEntry
                 THEN [map |-> W[i].map, done |-> TRUE]
                 ELSE [map |-> Hash(C)!Insert([W[i].map EXCEPT ![Round(C, s, j)] = NoEntry],
                                              W[i].map[Round(C, s, j)].key,
                                              W[i].map[Round(C, s, j)].value),
                       done |-> W[i].done]
      BY <1>16, <3>1 DEF Rehashes
    <3>4. j = L => last[Round(C, s, j)] = NoEntry
      BY <1>20 DEF e, RowGood
    <3>5. W[j] = [map |-> W[i].map, done |-> TRUE]
      BY <3>1, <3>2, <3>3, <3>4
    <3> QED
      BY <3>2, <3>5
  <2> QED
    BY <2>1, <2>2
<1>23. 0 \in H
  <2>1. CASE L - 1 = 0
    BY <1>4, <2>1
  <2>2. CASE L - 1 # 0
    BY <1>4, <2>2
  <2> QED
    BY <2>1, <2>2
<1>24. W[C - 1].map = last
  <2> HIDE DEF H
  <2>1. Nat \subseteq H
    BY <1>22, <1>23, NumberInduction
  <2>2. C - 1 \in Nat /\ C - 1 \in (L - 1)..(C - 1)
    BY <1>4
  <2> QED
    BY <2>1, <2>2 DEF H
<1> QED
  BY <1>16, <1>20, <1>21, <1>24 DEF Rehashes

\* An erase removes the entry with its key, and nothing else.
LEMMA EraseIs ==
  ASSUME NEW C \in Nat \ {0}, NEW map, HashGood(C, map), HasRoom(C, map), NEW key \in Nat \ {0}
  PROVE  /\ HashGood(C, Hash(C)!Erase(map, key))
         /\ Contents(C, Hash(C)!Erase(map, key)) = {e \in Contents(C, map) : e.key # key}
<1>0. Hash(C)!NotFound = -1 /\ Hash(C)!Unoccupied = NoEntry
  BY DEF Hash!NotFound, Hash!Unoccupied, NoEntry
<1>1. CASE \E b \in 0..(C - 1) : map[b] # NoEntry /\ map[b].key = key
  <2>1. PICK b \in 0..(C - 1) : map[b] # NoEntry /\ map[b].key = key
    BY <1>1
  <2>2. map[b] \in HashEntry /\ Hash(C)!Find(map, map[b].key) = map[b].value /\ Hash(C)!BucketOf(map, map[b].key) = b
    <3>1. map[b] # NoEntry
      BY <2>1
    <3> QED
      BY <3>1, FoundAt
  <2>3. Hash(C)!Find(map, key) # -1 /\ Hash(C)!BucketOf(map, key) = b
    BY <2>1, <2>2 DEF HashEntry
  <2> DEFINE m == [map EXCEPT ![b] = NoEntry]
  <2>4. Hash(C)!Erase(map, key) = Hash(C)!RehashCluster(m, b)
    BY <1>0, <2>3 DEF Hash!Erase
  <2>5. /\ HashGood(C, Hash(C)!RehashCluster(m, b))
        /\ Contents(C, Hash(C)!RehashCluster(m, b)) = Contents(C, m)
    <3>1. map[b] # NoEntry
      BY <2>1
    <3> QED
      BY <3>1, RehashIs
  <2>6. m[b] = NoEntry /\ \A c \in 0..(C - 1) : c # b => m[c] = map[c]
    BY DEF HashGood, IsMap
  <2>7. \A c \in 0..(C - 1) : map[c] # NoEntry => (map[c].key = key <=> c = b)
    BY <2>1 DEF HashGood, KeysDiffer
  <2> HIDE DEF m
  <2>8. Contents(C, m) = {e \in Contents(C, map) : e.key # key}
    <3>1. ASSUME NEW f \in Contents(C, m) PROVE f \in Contents(C, map) /\ f.key # key
      <4>1. PICK c \in 0..(C - 1) : f = m[c] /\ f # NoEntry
        BY DEF Contents
      <4>2. c # b /\ f = map[c]
        BY <2>6, <4>1
      <4> QED
        BY <2>7, <4>1, <4>2 DEF Contents
    <3>2. ASSUME NEW f \in Contents(C, map), f.key # key PROVE f \in Contents(C, m)
      <4>1. PICK c \in 0..(C - 1) : f = map[c] /\ f # NoEntry
        BY DEF Contents
      <4>2. c # b /\ f = m[c]
        BY <2>1, <2>6, <3>2, <4>1
      <4> QED
        BY <4>1, <4>2 DEF Contents
    <3> QED
      BY <3>1, <3>2
  <2> QED
    BY <2>4, <2>5, <2>8
<1>2. CASE \A b \in 0..(C - 1) : map[b] # NoEntry => map[b].key # key
  <2>1. \A f \in Contents(C, map) : f.key # key
    BY <1>2 DEF Contents
  <2>2. Hash(C)!Find(map, key) = -1
    BY <2>1, FindIs
  <2>3. Hash(C)!Erase(map, key) = map
    BY <1>0, <2>2 DEF Hash!Erase
  <2> QED
    BY <2>1, <2>3
<1> QED
  BY <1>1, <1>2

\* An empty map.
LEMMA EmptyMapIs ==
  ASSUME NEW C \in Nat \ {0}
  PROVE  HashGood(C, Hash(C)!EmptyMap) /\ Contents(C, Hash(C)!EmptyMap) = {}
<1>1. Hash(C)!EmptyMap = [b \in 0..(C - 1) |-> NoEntry]
  BY DEF Hash!EmptyMap, Hash!Buckets, Hash!Unoccupied, NoEntry
<1> QED
  BY <1>1 DEF HashGood, IsMap, KeysDiffer, Reachable, Contents

\* A map with fewer entries than buckets has room.
LEMMA FewEntries ==
  ASSUME NEW C \in Nat \ {0}, NEW map, HashGood(C, map),
         NEW S, IsFiniteSet(S), Cardinality(S) < C,
         NEW at, \A f \in Contents(C, map) : at[f] \in S,
         \A f, g \in Contents(C, map) : at[f] = at[g] => f = g
  PROVE  HasRoom(C, map)
<1> SUFFICES ASSUME \A b \in 0..(C - 1) : map[b] # NoEntry PROVE FALSE
  BY DEF HasRoom
<1> DEFINE B == 0..(C - 1)
           h == [b \in B |-> at[map[b]]]
<1>1. \A b \in B : map[b] \in Contents(C, map)
  BY DEF Contents
<1>2. h \in Injection(B, S)
  <2>1. h \in [B -> S]
    BY <1>1
  <2>2. ASSUME NEW b \in B, NEW c \in B, h[b] = h[c] PROVE b = c
    <3>1. map[b] = map[c]
      BY <1>1, <2>2
    <3> QED
      BY <3>1 DEF HashGood, KeysDiffer
  <2> QED
    BY <2>1, <2>2 DEF Injection, IsInjective
<1>3. IsFiniteSet(B) /\ Cardinality(B) = C
  <2>1. 0 \in Int /\ C - 1 \in Int /\ (C - 1) - 0 + 1 = C /\ 0 <= C - 1
    OBVIOUS
  <2> QED
    BY <2>1, FS_Interval
<1> HIDE DEF h, B
<1>4. Cardinality(B) <= Cardinality(S)
  BY <1>2, <1>3, FS_Injection
<1>5. Cardinality(S) \in Nat
  BY FS_CardinalityType
<1> QED
  BY <1>3, <1>4, <1>5

---------------------------------------------------------------------------
(* What the two order books share.  Orders of a market book bk lie in nodes of a
   pool of P; loc[id] is the node of an order.  queue has the ids at every side and
   price, oldest first, and the nodes are linked in that order; b is the record of
   the book, with its nodes, its stack of free nodes and its map of C buckets. *)

NoLink == -1
BareNode == [order_id |-> 0, side |-> "None", price |-> 0, size |-> 0,
             next_idx |-> NoLink, prev_idx |-> NoLink]

SpotOf(o) == <<o.side, o.price>>

\* The node of the order at place k of a queue.
LinkedNode(bk, loc, q, k) ==
  [order_id |-> q[k], side |-> bk[q[k]].side, price |-> bk[q[k]].price, size |-> bk[q[k]].size,
   next_idx |-> IF k = Len(q) THEN NoLink ELSE loc[q[k + 1]],
   prev_idx |-> IF k = 1 THEN NoLink ELSE loc[q[k - 1]]]

IsBook(bk) ==
  /\ IsFiniteSet(DOMAIN bk) /\ DOMAIN bk \subseteq Nat \ {0}
  /\ bk = [id \in DOMAIN bk |-> bk[id]]
  /\ \A id \in DOMAIN bk : /\ bk[id] = [side |-> bk[id].side, price |-> bk[id].price, size |-> bk[id].size]
                           /\ bk[id].size \in Nat \ {0}

Queues(bk, queue) ==
  /\ queue = [at \in DOMAIN queue |-> queue[at]]
  /\ \A at \in DOMAIN queue :
       /\ queue[at] \in Seq(DOMAIN bk)
       /\ \A k \in 1..Len(queue[at]) : SpotOf(bk[queue[at][k]]) = at
       /\ \A j, k \in 1..Len(queue[at]) : queue[at][j] = queue[at][k] => j = k
  /\ \A id \in DOMAIN bk :
       SpotOf(bk[id]) \in DOMAIN queue /\ \E k \in 1..Len(queue[SpotOf(bk[id])]) : queue[SpotOf(bk[id])][k] = id

Located(P, b, bk, loc) ==
  /\ loc \in [DOMAIN bk -> 0..(P - 1)]
  /\ \A x, y \in DOMAIN bk : loc[x] = loc[y] => x = y
  /\ b.free \in Seq(0..(P - 1))
  /\ \A j, k \in 1..Len(b.free) : b.free[j] = b.free[k] => j = k
  /\ \A id \in DOMAIN bk : \A k \in 1..Len(b.free) : b.free[k] # loc[id]

Indexed(C, b, bk, loc) ==
  /\ HashGood(C, b.id_map)
  /\ Contents(C, b.id_map) = {[key |-> id, value |-> loc[id]] : id \in DOMAIN bk}

Holding(P, b, bk, queue, loc) ==
  /\ b.nodes = [n \in 0..(P - 1) |-> b.nodes[n]]
  /\ \A at \in DOMAIN queue : \A k \in 1..Len(queue[at]) :
       b.nodes[loc[queue[at][k]]] = LinkedNode(bk, loc, queue[at], k)
  /\ \A n \in 0..(P - 1) : (\A id \in DOMAIN bk : loc[id] # n) => b.nodes[n] = BareNode

Shelf(P, C, b, bk, queue, loc) ==
  /\ IsBook(bk) /\ Queues(bk, queue) /\ Located(P, b, bk, loc)
  /\ Indexed(C, b, bk, loc) /\ Holding(P, b, bk, queue, loc)

\* A function with a new point, and without one.
Widened(f, x, v) == [y \in DOMAIN f \cup {x} |-> IF y = x THEN v ELSE f[y]]
Shrunk(f, x) == [y \in DOMAIN f \ {x} |-> f[y]]

\* An order's record, and the queues with an id that lines up or without one at a place.
IsRest(o) == o = [side |-> o.side, price |-> o.price, size |-> o.size] /\ o.size \in Nat \ {0}
LinedUp(queue, at, id) == [queue EXCEPT ![at] = Append(@, id)]
Unlined(queue, at, p) == [queue EXCEPT ![at] = RemoveAt(@, p)]

---------------------------------------------------------------------------
(* The map. *)

\* The map has more buckets than the pool has nodes.
LEMMA RoomLeft ==
  ASSUME NEW P \in Nat, NEW C \in Nat \ {0}, P < C, NEW b, NEW bk, NEW loc,
         Located(P, b, bk, loc), Indexed(C, b, bk, loc)
  PROVE  HasRoom(C, b.id_map)
<1> DEFINE S == 0..(P - 1)
           map == b.id_map
           at == [f \in Contents(C, map) |-> f.value]
<1>1. IsFiniteSet(S) /\ Cardinality(S) = P
  <2>1. 0 \in Int /\ P - 1 \in Int
    OBVIOUS
  <2>2. IsFiniteSet(S) /\ Cardinality(S) = IF 0 > P - 1 THEN 0 ELSE (P - 1) - 0 + 1
    BY <2>1, FS_Interval
  <2> QED
    BY <2>2
<1>2. \A f \in Contents(C, map) : \E id \in DOMAIN bk : f = [key |-> id, value |-> loc[id]]
  BY DEF Indexed
<1>3. \A f \in Contents(C, map) : at[f] \in S
  BY <1>2 DEF Located
<1>4. \A f, g \in Contents(C, map) : at[f] = at[g] => f = g
  BY <1>2 DEF Located
<1>5. HashGood(C, map)
  BY DEF Indexed
<1> HIDE DEF S, map, at
<1>6. Cardinality(S) < C
  BY <1>1
<1>7. HasRoom(C, map)
  BY <1>1, <1>3, <1>4, <1>5, <1>6, FewEntries
<1> QED
  BY <1>7 DEF map

\* The map finds the orders of the book and no others.
LEMMA FindsOrders ==
  ASSUME NEW P \in Nat, NEW C \in Nat \ {0}, P < C, NEW b, NEW bk, NEW loc,
         IsBook(bk), Located(P, b, bk, loc), Indexed(C, b, bk, loc)
  PROVE  /\ \A id \in DOMAIN bk : Hash(C)!Find(b.id_map, id) = loc[id] /\ loc[id] # -1
         /\ \A id \in Nat \ {0} : id \notin DOMAIN bk => Hash(C)!Find(b.id_map, id) = -1
<1>1. HashGood(C, b.id_map) /\ HasRoom(C, b.id_map)
  BY RoomLeft DEF Indexed
<1>2. ASSUME NEW id \in DOMAIN bk PROVE Hash(C)!Find(b.id_map, id) = loc[id] /\ loc[id] # -1
  <2> DEFINE e == [key |-> id, value |-> loc[id]]
  <2>1. e \in Contents(C, b.id_map) /\ e.key = id /\ e.value = loc[id] /\ id \in Nat \ {0}
    BY DEF Indexed, IsBook
  <2> HIDE DEF e
  <2>2. Hash(C)!Find(b.id_map, id) = e.value
    BY <1>1, <2>1, FindIs
  <2>3. loc[id] \in 0..(P - 1)
    BY DEF Located
  <2> QED
    BY <2>1, <2>2, <2>3
<1>3. ASSUME NEW id \in Nat \ {0}, id \notin DOMAIN bk PROVE Hash(C)!Find(b.id_map, id) = -1
  <2>1. \A e \in Contents(C, b.id_map) : e.key # id
    BY <1>3 DEF Indexed
  <2> QED
    BY <1>1, <2>1, FindIs
<1> QED
  BY <1>2, <1>3

\* The map after an order is added.
LEMMA IndexedWith ==
  ASSUME NEW P \in Nat, NEW C \in Nat \ {0}, P < C, NEW b, NEW bk, NEW loc,
         Located(P, b, bk, loc), Indexed(C, b, bk, loc),
         NEW id \in Nat \ {0}, id \notin DOMAIN bk, NEW n \in Nat, NEW o,
         NEW b2, b2.id_map = Hash(C)!Insert(b.id_map, id, n)
  PROVE  Indexed(C, b2, Widened(bk, id, o), Widened(loc, id, n))
<1> DEFINE map == b.id_map
           map2 == b2.id_map
           loc2 == Widened(loc, id, n)
<1>1. HashGood(C, map) /\ HasRoom(C, map)
  BY RoomLeft DEF Indexed
<1>2. HashGood(C, map2) /\ Contents(C, map2) = {e \in Contents(C, map) : e.key # id} \cup {[key |-> id, value |-> n]}
  BY <1>1, InsertIs
<1>3. DOMAIN loc = DOMAIN bk /\ DOMAIN Widened(bk, id, o) = DOMAIN bk \cup {id}
  BY DEF Located, Widened
<1>4. loc2[id] = n /\ \A x \in DOMAIN bk : loc2[x] = loc[x]
  BY <1>3 DEF Widened
<1>5. Contents(C, map) = {[key |-> x, value |-> loc[x]] : x \in DOMAIN bk}
  BY DEF Indexed
<1> HIDE DEF map, map2, loc2
<1>6. {e \in Contents(C, map) : e.key # id} = {[key |-> x, value |-> loc2[x]] : x \in DOMAIN bk}
  BY <1>4, <1>5
<1>7. Contents(C, map2) = {[key |-> x, value |-> loc2[x]] : x \in DOMAIN bk \cup {id}}
  BY <1>2, <1>4, <1>6
<1> QED
  BY <1>2, <1>3, <1>7 DEF Indexed, map2, loc2

\* The map after an order is taken out.
LEMMA IndexedWithout ==
  ASSUME NEW P \in Nat, NEW C \in Nat \ {0}, P < C, NEW b, NEW bk, NEW loc,
         Located(P, b, bk, loc), Indexed(C, b, bk, loc),
         NEW id \in Nat \ {0}, NEW b2, b2.id_map = Hash(C)!Erase(b.id_map, id)
  PROVE  Indexed(C, b2, Shrunk(bk, id), Shrunk(loc, id))
<1> DEFINE map == b.id_map
           map2 == b2.id_map
           loc2 == Shrunk(loc, id)
<1>1. HashGood(C, map) /\ HasRoom(C, map)
  BY RoomLeft DEF Indexed
<1>2. HashGood(C, map2) /\ Contents(C, map2) = {e \in Contents(C, map) : e.key # id}
  BY <1>1, EraseIs
<1>3. DOMAIN loc = DOMAIN bk /\ DOMAIN Shrunk(bk, id) = DOMAIN bk \ {id}
  BY DEF Located, Shrunk
<1>4. \A x \in DOMAIN bk \ {id} : loc2[x] = loc[x]
  BY <1>3 DEF Shrunk
<1>5. Contents(C, map) = {[key |-> x, value |-> loc[x]] : x \in DOMAIN bk}
  BY DEF Indexed
<1> HIDE DEF map, map2, loc2
<1>6. Contents(C, map2) = {[key |-> x, value |-> loc2[x]] : x \in DOMAIN bk \ {id}}
  BY <1>2, <1>4, <1>5
<1> QED
  BY <1>2, <1>3, <1>6 DEF Indexed, map2, loc2

---------------------------------------------------------------------------
(* The pool. *)

\* The last of a nonempty sequence and those before it.
LEMMA FrontIs ==
  ASSUME NEW X, NEW s \in Seq(X), s # <<>>
  PROVE  /\ Len(s) \in Nat \ {0} /\ Last(s) = s[Len(s)] /\ Last(s) \in X
         /\ Front(s) \in Seq(X) /\ Len(Front(s)) = Len(s) - 1
         /\ \A k \in 1..(Len(s) - 1) : Front(s)[k] = s[k]
<1>1. Len(s) \in Nat \ {0} /\ \A k \in 1..Len(s) : s[k] \in X
  BY EmptySeq, LenProperties, ElementOfSeq
<1>2. Last(s) = s[Len(s)]
  BY DEF Last
<1>3. 1 \in Int /\ Len(s) - 1 \in Int /\ \A k \in 1..(Len(s) - 1) : s[k] \in X
  BY <1>1
<1>4. /\ SubSeq(s, 1, Len(s) - 1) \in Seq(X)
      /\ Len(SubSeq(s, 1, Len(s) - 1)) = IF 1 <= Len(s) - 1 THEN Len(s) - 1 - 1 + 1 ELSE 0
      /\ \A k \in 1..(Len(s) - 1 - 1 + 1) : SubSeq(s, 1, Len(s) - 1)[k] = s[1 + k - 1]
  BY <1>3, SubSeqProperties
<1>5. Front(s) = SubSeq(s, 1, Len(s) - 1)
  BY DEF Front
<1> DEFINE n == Len(s)
           r == Front(s)
<1>6. n \in Nat \ {0} /\ s[n] \in X
  BY <1>1
<1>7. /\ r \in Seq(X) /\ Len(r) = IF 1 <= n - 1 THEN n - 1 - 1 + 1 ELSE 0
      /\ \A k \in 1..(n - 1 - 1 + 1) : r[k] = s[1 + k - 1]
  BY <1>4, <1>5
<1>8. Last(s) = s[n]
  BY <1>2
<1> HIDE DEF n, r
<1>9. Len(r) = n - 1 /\ \A k \in 1..(n - 1) : r[k] = s[k]
  BY <1>6, <1>7
<1>10. n \in Nat \ {0} /\ Last(s) = s[n] /\ Last(s) \in X /\ r \in Seq(X) /\ Len(r) = n - 1 /\ \A k \in 1..(n - 1) : r[k] = s[k]
  BY <1>6, <1>7, <1>8, <1>9
<1> QED
  BY <1>10 DEF n, r

\* A node is handed out.
LEMMA SpotsWith ==
  ASSUME NEW P \in Nat, NEW b, NEW bk, NEW loc, Located(P, b, bk, loc), b.free # <<>>,
         NEW id, id \notin DOMAIN bk, NEW o,
         NEW b2, b2.free = Front(b.free)
  PROVE  /\ Last(b.free) \in 0..(P - 1) /\ \A x \in DOMAIN bk : loc[x] # Last(b.free)
         /\ Located(P, b2, Widened(bk, id, o), Widened(loc, id, Last(b.free)))
<1> DEFINE n == Last(b.free)
           s == b.free
           r == b2.free
           loc2 == Widened(loc, id, n)
<1>1. /\ Len(s) \in Nat \ {0} /\ n = s[Len(s)] /\ n \in 0..(P - 1)
      /\ r \in Seq(0..(P - 1)) /\ Len(r) = Len(s) - 1
      /\ \A k \in 1..(Len(s) - 1) : r[k] = s[k]
  <2> DEFINE X == 0..(P - 1)
  <2>1. s \in Seq(X) /\ s # <<>> /\ r = Front(s)
    BY DEF Located
  <2> HIDE DEF s, r, X
  <2>2. /\ Len(s) \in Nat \ {0} /\ Last(s) = s[Len(s)] /\ Last(s) \in X
        /\ Front(s) \in Seq(X) /\ Len(Front(s)) = Len(s) - 1
        /\ \A k \in 1..(Len(s) - 1) : Front(s)[k] = s[k]
    BY <2>1, FrontIs
  <2> QED
    BY <2>1, <2>2 DEF X, s
<1> DEFINE len == Len(s)
           rlen == Len(r)
<1>0. /\ \A j, k \in 1..len : s[j] = s[k] => j = k
      /\ \A x \in DOMAIN bk : \A k \in 1..len : s[k] # loc[x]
      /\ rlen = len - 1 /\ len \in Nat \ {0} /\ n = s[len]
  BY <1>1 DEF Located
<1>2. \A x \in DOMAIN bk : loc[x] # n
  BY <1>0
<1>3. DOMAIN loc = DOMAIN bk /\ DOMAIN Widened(bk, id, o) = DOMAIN bk \cup {id}
  BY DEF Located, Widened
<1>4. loc2 \in [DOMAIN bk \cup {id} -> 0..(P - 1)] /\ loc2[id] = n /\ \A x \in DOMAIN bk : loc2[x] = loc[x]
  BY <1>1, <1>3 DEF Widened, Located
<1> HIDE DEF n, loc2
<1>5. \A x, y \in DOMAIN bk \cup {id} : loc2[x] = loc2[y] => x = y
  BY <1>2, <1>4 DEF Located
<1>6. \A j, k \in 1..rlen : r[j] = r[k] => j = k
  <2> SUFFICES ASSUME NEW j \in 1..rlen, NEW k \in 1..rlen, r[j] = r[k] PROVE j = k
    OBVIOUS
  <2>1. r[j] = s[j] /\ r[k] = s[k]
    BY <1>0, <1>1
  <2> HIDE DEF len, rlen, s, r
  <2>2. j \in 1..len /\ k \in 1..len
    BY <1>0
  <2> QED
    BY <1>0, <2>1, <2>2
<1>7. \A x \in DOMAIN bk \cup {id} : \A k \in 1..rlen : r[k] # loc2[x]
  <2> SUFFICES ASSUME NEW x \in DOMAIN bk \cup {id}, NEW k \in 1..rlen PROVE r[k] # loc2[x]
    OBVIOUS
  <2>1. r[k] = s[k]
    BY <1>0, <1>1
  <2> HIDE DEF len, rlen, s, r
  <2>2. k \in 1..len /\ k # len /\ len \in 1..len
    BY <1>0
  <2> QED
    BY <1>0, <1>4, <2>1, <2>2
<1>8. Located(P, b2, Widened(bk, id, o), loc2)
  BY <1>1, <1>3, <1>4, <1>5, <1>6, <1>7 DEF Located
<1> QED
  BY <1>1, <1>2, <1>8 DEF n, loc2

\* A node is given back.
LEMMA SpotsWithout ==
  ASSUME NEW P \in Nat, NEW b, NEW bk, NEW loc, Located(P, b, bk, loc),
         NEW id \in DOMAIN bk, NEW b2, b2.free = Append(b.free, loc[id])
  PROVE  Located(P, b2, Shrunk(bk, id), Shrunk(loc, id))
<1> DEFINE n == loc[id]
           s == b.free
           r == b2.free
           loc2 == Shrunk(loc, id)
<1>1. s \in Seq(0..(P - 1)) /\ Len(s) \in Nat /\ n \in 0..(P - 1)
  BY DEF Located
<1>2. r \in Seq(0..(P - 1)) /\ Len(r) = Len(s) + 1 /\ r[Len(s) + 1] = n /\ \A k \in 1..Len(s) : r[k] = s[k]
  BY <1>1
<1>3. DOMAIN loc = DOMAIN bk /\ DOMAIN Shrunk(bk, id) = DOMAIN bk \ {id}
  BY DEF Located, Shrunk
<1>4. loc2 \in [DOMAIN bk \ {id} -> 0..(P - 1)] /\ \A x \in DOMAIN bk \ {id} : loc2[x] = loc[x] /\ loc[x] # n
  BY <1>3 DEF Shrunk, Located
<1> HIDE DEF n, loc2
<1>5. \A x, y \in DOMAIN bk \ {id} : loc2[x] = loc2[y] => x = y
  BY <1>4 DEF Located
<1>6. \A j, k \in 1..Len(r) : r[j] = r[k] => j = k
  <2> SUFFICES ASSUME NEW j \in 1..Len(r), NEW k \in 1..Len(r), r[j] = r[k] PROVE j = k
    OBVIOUS
  <2>1. \A i \in 1..Len(s) : r[i] # n
    BY <1>2 DEF Located, n
  <2>2. CASE j \in 1..Len(s) /\ k \in 1..Len(s)
    BY <1>2, <2>2 DEF Located
  <2> QED
    BY <1>1, <1>2, <2>1, <2>2
<1>7. \A x \in DOMAIN bk \ {id} : \A k \in 1..Len(r) : r[k] # loc2[x]
  BY <1>1, <1>2, <1>4 DEF Located
<1>8. Located(P, b2, Shrunk(bk, id), loc2)
  BY <1>2, <1>3, <1>4, <1>5, <1>6, <1>7 DEF Located
<1> QED
  BY <1>8 DEF loc2

---------------------------------------------------------------------------
(* Sequences. *)

\* A sequence without one of its elements.
LEMMA RemoveAtIs ==
  ASSUME NEW X, NEW s \in Seq(X), NEW i \in 1..Len(s)
  PROVE  /\ RemoveAt(s, i) \in Seq(X) /\ Len(RemoveAt(s, i)) = Len(s) - 1
         /\ \A k \in 1..(Len(s) - 1) : RemoveAt(s, i)[k] = s[IF k < i THEN k ELSE k + 1]
<1> DEFINE n == Len(s)
           a == SubSeq(s, 1, i - 1)
           b == SubSeq(s, i + 1, n)
           c == a \o b
           p == Len(a)
           q == Len(b)
<1>1. RemoveAt(s, i) = c
  BY DEF RemoveAt
<1>2. n \in Nat /\ i \in 1..n /\ \A k \in 1..n : s[k] \in X
  BY LenProperties, ElementOfSeq
<1>3. a \in Seq(X) /\ p = i - 1 /\ \A k \in 1..(i - 1) : a[k] = s[k]
  <2>1. /\ 1 \in Int /\ i - 1 \in Int /\ \A k \in 1..(i - 1) : s[k] \in X
    BY <1>2
  <2>2. /\ a \in Seq(X) /\ p = IF 1 <= i - 1 THEN i - 1 - 1 + 1 ELSE 0
        /\ \A k \in 1..(i - 1 - 1 + 1) : a[k] = s[1 + k - 1]
    BY <2>1, SubSeqProperties
  <2> HIDE DEF a, p
  <2> QED
    BY <1>2, <2>2
<1>4. b \in Seq(X) /\ q = n - i /\ \A k \in 1..(n - i) : b[k] = s[k + i]
  <2>1. /\ n \in Int /\ i + 1 \in Int /\ \A k \in (i + 1)..n : s[k] \in X
    BY <1>2
  <2>2. /\ b \in Seq(X) /\ q = IF i + 1 <= n THEN n - (i + 1) + 1 ELSE 0
        /\ \A k \in 1..(n - (i + 1) + 1) : b[k] = s[(i + 1) + k - 1]
    BY <2>1, SubSeqProperties
  <2> HIDE DEF n, b, q
  <2> QED
    BY <1>2, <2>2
<1>5. c \in Seq(X) /\ Len(c) = p + q /\ \A k \in 1..(p + q) : c[k] = IF k <= p THEN a[k] ELSE b[k - p]
  BY <1>3, <1>4, ConcatProperties
<1> HIDE DEF a, b, c, n, p, q
<1>6. p \in Nat /\ q \in Nat /\ p + q = n - 1
  BY <1>2, <1>3, <1>4
<1>7. ASSUME NEW k \in 1..(n - 1) PROVE c[k] = s[IF k < i THEN k ELSE k + 1]
  <2>1. CASE k < i
    <3>1. k \in 1..(i - 1) /\ k <= p /\ k \in 1..(p + q)
      BY <1>2, <1>3, <1>6, <2>1
    <3>2. c[k] = a[k] /\ a[k] = s[k]
      BY <1>3, <1>5, <3>1
    <3> QED
      BY <2>1, <3>2
  <2>2. CASE ~(k < i)
    <3>1. k - p \in 1..(n - i) /\ ~(k <= p) /\ k \in 1..(p + q) /\ k - p + i = k + 1
      BY <1>2, <1>3, <1>6, <2>2
    <3>2. c[k] = b[k - p] /\ b[k - p] = s[k - p + i]
      BY <1>4, <1>5, <3>1
    <3> QED
      BY <2>2, <3>1, <3>2
  <2> QED
    BY <2>1, <2>2
<1>8. Len(c) = n - 1
  BY <1>5, <1>6
<1> QED
  BY <1>1, <1>5, <1>7, <1>8 DEF n

\* A sequence with one element more.
LEMMA InsertAtIs ==
  ASSUME NEW X, NEW s \in Seq(X), NEW i \in 1..(Len(s) + 1), NEW e \in X
  PROVE  /\ InsertAt(s, i, e) \in Seq(X) /\ Len(InsertAt(s, i, e)) = Len(s) + 1
         /\ \A k \in 1..(Len(s) + 1) :
              InsertAt(s, i, e)[k] = IF k < i THEN s[k] ELSE IF k = i THEN e ELSE s[k - 1]
<1> DEFINE n == Len(s)
           a == SubSeq(s, 1, i - 1)
           b == SubSeq(s, i, n)
           d == <<e>>
           h == a \o d
           c == h \o b
           p == Len(a)
           q == Len(b)
<1>1. InsertAt(s, i, e) = c
  BY DEF InsertAt
<1>2. n \in Nat /\ i \in 1..(n + 1) /\ \A k \in 1..n : s[k] \in X
  BY LenProperties, ElementOfSeq
<1>3. a \in Seq(X) /\ p = i - 1 /\ \A k \in 1..(i - 1) : a[k] = s[k]
  <2>1. /\ 1 \in Int /\ i - 1 \in Int /\ \A k \in 1..(i - 1) : s[k] \in X
    BY <1>2
  <2>2. /\ a \in Seq(X) /\ p = IF 1 <= i - 1 THEN i - 1 - 1 + 1 ELSE 0
        /\ \A k \in 1..(i - 1 - 1 + 1) : a[k] = s[1 + k - 1]
    BY <2>1, SubSeqProperties
  <2> HIDE DEF a, p
  <2> QED
    BY <1>2, <2>2
<1>4. b \in Seq(X) /\ q = n - i + 1 /\ \A k \in 1..(n - i + 1) : b[k] = s[i + k - 1]
  <2>1. /\ n \in Int /\ i \in Int /\ \A k \in i..n : s[k] \in X
    BY <1>2
  <2>2. /\ b \in Seq(X) /\ q = IF i <= n THEN n - i + 1 ELSE 0
        /\ \A k \in 1..(n - i + 1) : b[k] = s[i + k - 1]
    BY <2>1, SubSeqProperties
  <2> HIDE DEF n, b, q
  <2> QED
    BY <1>2, <2>2
<1>5. d \in Seq(X) /\ Len(d) = 1 /\ d[1] = e
  OBVIOUS
<1> HIDE DEF d
<1>6. h \in Seq(X) /\ Len(h) = p + 1 /\ \A k \in 1..(p + 1) : h[k] = IF k <= p THEN a[k] ELSE d[k - p]
  BY <1>3, <1>5, ConcatProperties, SMTT(30)
<1> HIDE DEF h
<1>7. /\ c \in Seq(X) /\ Len(c) = (p + 1) + q
      /\ \A k \in 1..((p + 1) + q) : c[k] = IF k <= p + 1 THEN h[k] ELSE b[k - (p + 1)]
  <2>1. /\ c \in Seq(X) /\ Len(c) = Len(h) + q
        /\ \A k \in 1..(Len(h) + q) : c[k] = IF k <= Len(h) THEN h[k] ELSE b[k - Len(h)]
    BY <1>4, <1>6, ConcatProperties
  <2> QED
    BY <1>6, <2>1
<1> HIDE DEF a, b, c, n, p, q
<1>8. p \in Nat /\ q \in Nat /\ (p + 1) + q = n + 1
  BY <1>2, <1>3, <1>4
<1>9. ASSUME NEW k \in 1..(n + 1) PROVE c[k] = IF k < i THEN s[k] ELSE IF k = i THEN e ELSE s[k - 1]
  <2>0. k \in 1..((p + 1) + q) /\ i = p + 1 /\ i \in Int /\ k \in Int
    BY <1>2, <1>3, <1>8
  <2>1. CASE k < i
    <3>1. k \in 1..(i - 1) /\ k <= p /\ k <= p + 1 /\ k \in 1..(p + 1)
      BY <1>3, <1>8, <2>0, <2>1
    <3>2. c[k] = h[k] /\ h[k] = a[k] /\ a[k] = s[k]
      BY <1>3, <1>6, <1>7, <2>0, <3>1
    <3> QED
      BY <2>1, <3>2
  <2>2. CASE k = i
    <3>1. k <= p + 1 /\ k \in 1..(p + 1) /\ ~(k <= p) /\ k - p = 1
      BY <1>8, <2>0, <2>2
    <3>2. c[k] = h[k] /\ h[k] = d[1]
      BY <1>6, <1>7, <2>0, <3>1
    <3> QED
      BY <1>5, <2>0, <2>2, <3>2
  <2>3. CASE k > i
    <3>1. ~(k <= p + 1) /\ k - (p + 1) \in 1..(n - i + 1) /\ i + (k - (p + 1)) - 1 = k - 1
      BY <1>8, <2>0, <2>3, <1>2
    <3>2. c[k] = b[k - (p + 1)]
      BY <1>7, <2>0, <3>1
    <3>3. b[k - (p + 1)] = s[k - 1]
      BY <1>4, <3>1
    <3> QED
      BY <2>0, <2>3, <3>2, <3>3
  <2> QED
    BY <2>0, <2>1, <2>2, <2>3
<1>10. Len(c) = n + 1
  BY <1>7, <1>8
<1> QED
  BY <1>1, <1>7, <1>9, <1>10 DEF n

---------------------------------------------------------------------------
(* The queues. *)

\* What an element appended does.
LEMMA AppendIs ==
  ASSUME NEW X, NEW s \in Seq(X), NEW x \in X
  PROVE  /\ Append(s, x) \in Seq(X) /\ Len(Append(s, x)) = Len(s) + 1 /\ Len(s) \in Nat
         /\ Append(s, x)[Len(s) + 1] = x /\ \A k \in 1..Len(s) : Append(s, x)[k] = s[k] /\ s[k] \in X
  OBVIOUS

\* The orders with a new one.
LEMMA RestingWith ==
  ASSUME NEW bk, IsBook(bk), NEW id \in Nat \ {0}, id \notin DOMAIN bk,
         NEW o, IsRest(o)
  PROVE  /\ IsBook(Widened(bk, id, o)) /\ DOMAIN Widened(bk, id, o) = DOMAIN bk \cup {id}
         /\ Widened(bk, id, o)[id] = o /\ \A x \in DOMAIN bk : Widened(bk, id, o)[x] = bk[x]
<1> DEFINE bk2 == Widened(bk, id, o)
<1>1. /\ bk2 = [x \in DOMAIN bk \cup {id} |-> IF x = id THEN o ELSE bk[x]]
      /\ DOMAIN bk2 = DOMAIN bk \cup {id} /\ bk2[id] = o /\ \A x \in DOMAIN bk : bk2[x] = bk[x]
  BY DEF Widened
<1>2. IsFiniteSet(DOMAIN bk \cup {id})
  BY FS_AddElement DEF IsBook
<1> HIDE DEF bk2
<1>3. bk2 = [x \in DOMAIN bk2 |-> bk2[x]]
  BY <1>1
<1>4. ASSUME NEW x \in DOMAIN bk2
      PROVE  /\ bk2[x] = [side |-> bk2[x].side, price |-> bk2[x].price, size |-> bk2[x].size]
             /\ bk2[x].size \in Nat \ {0}
  <2>1. CASE x = id
    BY <1>1, <2>1 DEF IsRest
  <2>2. CASE x # id
    BY <1>1, <2>2 DEF IsBook
  <2> QED
    BY <2>1, <2>2
<1>5. IsBook(bk2)
  BY <1>1, <1>2, <1>3, <1>4 DEF IsBook
<1> QED
  BY <1>1, <1>5 DEF bk2

\* The orders without one.
LEMMA RestingWithout ==
  ASSUME NEW bk, IsBook(bk), NEW id
  PROVE  /\ IsBook(Shrunk(bk, id)) /\ DOMAIN Shrunk(bk, id) = DOMAIN bk \ {id}
         /\ \A x \in DOMAIN bk \ {id} : Shrunk(bk, id)[x] = bk[x]
<1> DEFINE bk2 == Shrunk(bk, id)
<1>1. /\ bk2 = [x \in DOMAIN bk \ {id} |-> bk[x]]
      /\ DOMAIN bk2 = DOMAIN bk \ {id} /\ \A x \in DOMAIN bk \ {id} : bk2[x] = bk[x]
  BY DEF Shrunk
<1>2. IsFiniteSet(DOMAIN bk \ {id})
  BY FS_RemoveElement DEF IsBook
<1> HIDE DEF bk2
<1>3. bk2 = [x \in DOMAIN bk2 |-> bk2[x]]
  BY <1>1
<1>5. IsBook(bk2)
  BY <1>1, <1>2, <1>3 DEF IsBook
<1> QED
  BY <1>1, <1>5 DEF bk2

\* An order of another size.
Sized(bk, id, size) == [bk EXCEPT ![id].size = size]

\* A book in which one order has another size.
LEMMA RestingSized ==
  ASSUME NEW bk, IsBook(bk), NEW id \in DOMAIN bk, NEW size \in Nat \ {0}
  PROVE  /\ IsBook(Sized(bk, id, size)) /\ DOMAIN Sized(bk, id, size) = DOMAIN bk
         /\ Sized(bk, id, size)[id] = [side |-> bk[id].side, price |-> bk[id].price, size |-> size]
         /\ \A x \in DOMAIN bk : x # id => Sized(bk, id, size)[x] = bk[x]
         /\ \A x \in DOMAIN bk : /\ Sized(bk, id, size)[x].side = bk[x].side
                                 /\ Sized(bk, id, size)[x].price = bk[x].price
<1> DEFINE bk2 == Sized(bk, id, size)
<1>0. bk[id] = [side |-> bk[id].side, price |-> bk[id].price, size |-> bk[id].size]
  BY DEF IsBook
<1>1. bk2 = [x \in DOMAIN bk |-> IF x = id THEN [side |-> bk[id].side, price |-> bk[id].price, size |-> size]
                                 ELSE bk[x]]
  <2>1. bk2 = [x \in DOMAIN bk |-> IF x = id THEN [bk[x] EXCEPT !.size = size] ELSE bk[x]]
    BY DEF Sized, IsBook
  <2>2. [bk[id] EXCEPT !.size = size] = [side |-> bk[id].side, price |-> bk[id].price, size |-> size]
    BY <1>0
  <2> QED
    BY <2>1, <2>2
<1>2. /\ DOMAIN bk2 = DOMAIN bk /\ bk2[id] = [side |-> bk[id].side, price |-> bk[id].price, size |-> size]
      /\ \A x \in DOMAIN bk : x # id => bk2[x] = bk[x]
      /\ bk2 = [x \in DOMAIN bk2 |-> bk2[x]]
  BY <1>1
<1> HIDE DEF bk2
<1>3. ASSUME NEW x \in DOMAIN bk2
      PROVE  /\ bk2[x] = [side |-> bk2[x].side, price |-> bk2[x].price, size |-> bk2[x].size]
             /\ bk2[x].size \in Nat \ {0} /\ bk2[x].side = bk[x].side /\ bk2[x].price = bk[x].price
  <2>1. CASE x = id
    BY <1>2, <2>1
  <2>2. CASE x # id
    BY <1>2, <2>2 DEF IsBook
  <2> QED
    BY <2>1, <2>2
<1>4. IsBook(bk2)
  BY <1>2, <1>3 DEF IsBook
<1> QED
  BY <1>2, <1>3, <1>4 DEF bk2

\* A function changed at one point.
LEMMA ChangedAt ==
  ASSUME NEW f, f = [x \in DOMAIN f |-> f[x]], NEW a \in DOMAIN f, NEW v
  PROVE  /\ [f EXCEPT ![a] = v] = [x \in DOMAIN f |-> IF x = a THEN v ELSE f[x]]
         /\ DOMAIN [f EXCEPT ![a] = v] = DOMAIN f
         /\ [f EXCEPT ![a] = v][a] = v
         /\ \A x \in DOMAIN f : x # a => [f EXCEPT ![a] = v][x] = f[x]
         /\ [f EXCEPT ![a] = v] = [x \in DOMAIN [f EXCEPT ![a] = v] |-> [f EXCEPT ![a] = v][x]]
  OBVIOUS

\* One queue changed.
LEMMA QueueChanged ==
  ASSUME NEW bk, NEW queue, Queues(bk, queue), NEW at \in DOMAIN queue, NEW v,
         NEW queue2, queue2 = [queue EXCEPT ![at] = v]
  PROVE  /\ queue2 = [a \in DOMAIN queue2 |-> queue2[a]] /\ DOMAIN queue2 = DOMAIN queue /\ queue2[at] = v
         /\ \A a \in DOMAIN queue : a # at => queue2[a] = queue[a]
<1>1. queue = [a \in DOMAIN queue |-> queue[a]]
  BY DEF Queues
<1> QED
  BY <1>1, ChangedAt

\* The queues when an order comes to one.
LEMMA QueuesWith ==
  ASSUME NEW bk, NEW queue, Queues(bk, queue), NEW id, id \notin DOMAIN bk,
         NEW o, SpotOf(o) \in DOMAIN queue
  PROVE  Queues(Widened(bk, id, o), LinedUp(queue, SpotOf(o), id))
<1> DEFINE bk2 == Widened(bk, id, o)
           at == SpotOf(o)
           q == queue[at]
           queue2 == LinedUp(queue, at, id)
           n == Len(q)
<1>1. DOMAIN bk2 = DOMAIN bk \cup {id} /\ bk2[id] = o /\ \A x \in DOMAIN bk : bk2[x] = bk[x]
  BY DEF Widened
<1>2. /\ queue2 = [a \in DOMAIN queue2 |-> queue2[a]] /\ DOMAIN queue2 = DOMAIN queue /\ queue2[at] = Append(q, id)
      /\ \A a \in DOMAIN queue : a # at => queue2[a] = queue[a]
  <2> DEFINE v == Append(q, id)
  <2>1. queue2 = [queue EXCEPT ![at] = v] /\ at \in DOMAIN queue /\ queue = [a \in DOMAIN queue |-> queue[a]]
    BY DEF Queues, LinedUp
  <2> HIDE DEF v, at, queue2
  <2> QED
    BY <2>1, ChangedAt DEF v
<1>3. q \in Seq(DOMAIN bk)
  BY DEF Queues
<1> HIDE DEF queue2, bk2
<1>4. q \in Seq(DOMAIN bk2) /\ id \in DOMAIN bk2
  BY <1>1, <1>3
<1> HIDE DEF q
<1>5. /\ queue2[at] \in Seq(DOMAIN bk2) /\ Len(queue2[at]) = n + 1 /\ n \in Nat
      /\ queue2[at][n + 1] = id /\ \A k \in 1..n : queue2[at][k] = q[k]
  BY <1>2, <1>4, AppendIs
<1>6. /\ \A k \in 1..n : q[k] \in DOMAIN bk /\ SpotOf(bk[q[k]]) = at
      /\ \A j, k \in 1..n : q[j] = q[k] => j = k
  BY <1>3, ElementOfSeq DEF Queues, q
<1> HIDE DEF n, at
<1>7. ASSUME NEW a \in DOMAIN queue2
      PROVE  /\ queue2[a] \in Seq(DOMAIN bk2)
             /\ \A k \in 1..Len(queue2[a]) : SpotOf(bk2[queue2[a][k]]) = a
             /\ \A j, k \in 1..Len(queue2[a]) : queue2[a][j] = queue2[a][k] => j = k
  <2>1. CASE a = at
    <3>1. ASSUME NEW k \in 1..(n + 1) PROVE SpotOf(bk2[queue2[at][k]]) = at
      <4>1. CASE k = n + 1
        BY <1>1, <1>5, <4>1 DEF at
      <4>2. CASE k # n + 1
        <5>1. k \in 1..n
          BY <1>5, <4>2
        <5> QED
          BY <1>1, <1>5, <1>6, <5>1
      <4> QED
        BY <4>1, <4>2
    <3>2. ASSUME NEW j \in 1..(n + 1), NEW k \in 1..(n + 1), queue2[at][j] = queue2[at][k] PROVE j = k
      <4>1. j \in 1..n \/ j = n + 1
        BY <1>5
      <4>2. k \in 1..n \/ k = n + 1
        BY <1>5
      <4> QED
        BY <1>5, <1>6, <3>2, <4>1, <4>2
    <3> QED
      BY <1>5, <2>1, <3>1, <3>2
  <2>2. CASE a # at
    <3>1. queue2[a] = queue[a] /\ queue[a] \in Seq(DOMAIN bk) /\ a \in DOMAIN queue
      BY <1>2, <2>2 DEF Queues
    <3>2. queue[a] \in Seq(DOMAIN bk2)
      BY <1>1, <3>1
    <3>3. \A k \in 1..Len(queue[a]) : queue[a][k] \in DOMAIN bk
      BY <3>1, ElementOfSeq
    <3>4. /\ \A k \in 1..Len(queue[a]) : SpotOf(bk[queue[a][k]]) = a
          /\ \A j, k \in 1..Len(queue[a]) : queue[a][j] = queue[a][k] => j = k
      BY <3>1 DEF Queues
    <3>5. \A k \in 1..Len(queue[a]) : SpotOf(bk2[queue[a][k]]) = a
      BY <1>1, <3>3, <3>4
    <3> QED
      BY <3>1, <3>2, <3>4, <3>5
  <2> QED
    BY <2>1, <2>2
<1>8. ASSUME NEW x \in DOMAIN bk2
      PROVE  SpotOf(bk2[x]) \in DOMAIN queue2 /\ \E k \in 1..Len(queue2[SpotOf(bk2[x])]) : queue2[SpotOf(bk2[x])][k] = x
  <2>1. CASE x = id
    <3>1. SpotOf(bk2[x]) = at /\ at \in DOMAIN queue2
      BY <1>1, <1>2, <2>1 DEF at
    <3>2. n + 1 \in 1..Len(queue2[at]) /\ queue2[at][n + 1] = x
      BY <1>5, <2>1
    <3> QED
      BY <3>1, <3>2
  <2>2. CASE x # id
    <3> DEFINE a == SpotOf(bk[x])
    <3>1. bk2[x] = bk[x] /\ x \in DOMAIN bk /\ a \in DOMAIN queue
      BY <1>1, <2>2 DEF Queues
    <3>2. PICK k \in 1..Len(queue[a]) : queue[a][k] = x
      BY <3>1 DEF Queues
    <3> HIDE DEF a
    <3>3. k \in 1..Len(queue2[a]) /\ queue2[a][k] = x
      <4>1. CASE a = at
        <5>1. k \in 1..n /\ q[k] = x
          BY <3>2, <4>1 DEF n, q
        <5>2. k \in 1..(n + 1)
          BY <1>5, <5>1
        <5> QED
          BY <1>5, <4>1, <5>1, <5>2
      <4>2. CASE a # at
        BY <1>2, <3>1, <3>2, <4>2
      <4> QED
        BY <4>1, <4>2
    <3>4. SpotOf(bk2[x]) = a /\ a \in DOMAIN queue2
      BY <1>2, <3>1 DEF a
    <3> QED
      BY <3>3, <3>4
  <2> QED
    BY <2>1, <2>2
<1>9. Queues(bk2, queue2)
  BY <1>2, <1>7, <1>8 DEF Queues
<1> QED
  BY <1>9 DEF bk2, queue2, at

\* The queues when the order at place p of one leaves it.
LEMMA QueuesWithout ==
  ASSUME NEW bk, NEW queue, Queues(bk, queue), NEW at \in DOMAIN queue, NEW p \in 1..Len(queue[at]),
         NEW id, id = queue[at][p]
  PROVE  Queues(Shrunk(bk, id), Unlined(queue, at, p))
<1> DEFINE bk2 == Shrunk(bk, id)
           q == queue[at]
           r == RemoveAt(q, p)
           queue2 == Unlined(queue, at, p)
           n == Len(q)
           D == DOMAIN bk \ {id}
<1>1. DOMAIN bk2 = D /\ \A x \in D : bk2[x] = bk[x]
  BY DEF Shrunk
<1>2. /\ queue2 = [a \in DOMAIN queue2 |-> queue2[a]] /\ DOMAIN queue2 = DOMAIN queue /\ queue2[at] = r
      /\ \A a \in DOMAIN queue : a # at => queue2[a] = queue[a]
  <2>1. queue2 = [queue EXCEPT ![at] = r] /\ queue = [a \in DOMAIN queue |-> queue[a]]
    BY DEF Queues, Unlined
  <2> HIDE DEF r, queue2
  <2> QED
    BY <2>1, ChangedAt
<1>3. q \in Seq(DOMAIN bk) /\ p \in 1..n /\ n \in Nat /\ \A k \in 1..n : q[k] \in DOMAIN bk /\ SpotOf(bk[q[k]]) = at
  BY ElementOfSeq, LenProperties DEF Queues
<1>4. \A j, k \in 1..n : q[j] = q[k] => j = k
  BY DEF Queues
<1> HIDE DEF queue2, bk2
<1>5. /\ r \in Seq(DOMAIN bk) /\ Len(r) = n - 1
      /\ \A k \in 1..(n - 1) : r[k] = q[IF k < p THEN k ELSE k + 1]
  BY <1>3, RemoveAtIs
<1>6. q[p] = id /\ id \in DOMAIN bk /\ SpotOf(bk[id]) = at
  BY <1>3
<1> HIDE DEF q, r
<1>7. ASSUME NEW k \in 1..(n - 1)
      PROVE  /\ (IF k < p THEN k ELSE k + 1) \in 1..n /\ (IF k < p THEN k ELSE k + 1) # p
             /\ r[k] \in D /\ SpotOf(bk[r[k]]) = at
  <2> DEFINE j == IF k < p THEN k ELSE k + 1
  <2>1. j \in 1..n /\ j # p
    BY <1>3
  <2>2. r[k] = q[j]
    BY <1>5
  <2> HIDE DEF j
  <2>3. q[j] # id
    BY <1>3, <1>4, <1>6, <2>1
  <2> QED
    BY <1>3, <2>1, <2>2, <2>3 DEF j
<1>8. r \in Seq(D)
  <2>1. n - 1 \in Nat
    BY <1>3
  <2>2. r = [k \in 1..(n - 1) |-> r[k]]
    BY <1>5, LenProperties
  <2> HIDE DEF n, D
  <2> QED
    BY <1>7, <2>1, <2>2, IsASeq
<1> HIDE DEF n, D
<1>9. ASSUME NEW a \in DOMAIN queue2
      PROVE  /\ queue2[a] \in Seq(D)
             /\ \A k \in 1..Len(queue2[a]) : SpotOf(bk2[queue2[a][k]]) = a
             /\ \A j, k \in 1..Len(queue2[a]) : queue2[a][j] = queue2[a][k] => j = k
  <2>1. CASE a = at
    <3>1. \A k \in 1..(n - 1) : SpotOf(bk2[r[k]]) = at
      BY <1>1, <1>7
    <3>2. ASSUME NEW j \in 1..(n - 1), NEW k \in 1..(n - 1), r[j] = r[k] PROVE j = k
      <4> DEFINE x == IF j < p THEN j ELSE j + 1
                 y == IF k < p THEN k ELSE k + 1
      <4>1. q[x] = q[y] /\ x \in 1..n /\ y \in 1..n
        BY <1>5, <1>7, <3>2
      <4>2. x = y
        <5> HIDE DEF x, y
        <5> QED
          BY <1>4, <4>1
      <4> QED
        BY <1>3, <4>2
    <3> QED
      BY <1>2, <1>5, <1>8, <2>1, <3>1, <3>2
  <2>2. CASE a # at
    <3>1. queue2[a] = queue[a] /\ queue[a] \in Seq(DOMAIN bk) /\ a \in DOMAIN queue /\ Len(queue[a]) \in Nat
      BY <1>2, <2>2, LenProperties DEF Queues
    <3>2. /\ \A k \in 1..Len(queue[a]) : SpotOf(bk[queue[a][k]]) = a
          /\ \A j, k \in 1..Len(queue[a]) : queue[a][j] = queue[a][k] => j = k
      BY <3>1 DEF Queues
    <3>3. \A k \in 1..Len(queue[a]) : queue[a][k] \in DOMAIN bk
      BY <3>1, ElementOfSeq
    <3>4. \A k \in 1..Len(queue[a]) : queue[a][k] \in D
      BY <1>6, <2>2, <3>2, <3>3 DEF D
    <3>5. queue[a] \in Seq(D)
      <4>1. queue[a] = [k \in 1..Len(queue[a]) |-> queue[a][k]]
        BY <3>1, LenProperties
      <4> QED
        BY <3>1, <3>4, <4>1, IsASeq
    <3>6. \A k \in 1..Len(queue[a]) : SpotOf(bk2[queue[a][k]]) = a
      BY <1>1, <3>2, <3>4
    <3> QED
      BY <3>1, <3>2, <3>5, <3>6
  <2> QED
    BY <2>1, <2>2
<1>10. ASSUME NEW x \in D
       PROVE  SpotOf(bk2[x]) \in DOMAIN queue2 /\ \E k \in 1..Len(queue2[SpotOf(bk2[x])]) : queue2[SpotOf(bk2[x])][k] = x
  <2> DEFINE a == SpotOf(bk[x])
  <2>1. bk2[x] = bk[x] /\ x \in DOMAIN bk /\ x # id /\ a \in DOMAIN queue
    BY <1>1 DEF Queues, D
  <2>2. PICK k \in 1..Len(queue[a]) : queue[a][k] = x
    BY <2>1 DEF Queues
  <2> HIDE DEF a
  <2>3. \E i \in 1..Len(queue2[a]) : queue2[a][i] = x
    <3>1. CASE a = at
      <4>1. k \in 1..n /\ q[k] = x
        BY <2>2, <3>1 DEF n, q
      <4>2. k # p
        BY <1>6, <2>1, <4>1
      <4> DEFINE i == IF k < p THEN k ELSE k - 1
      <4>3. i \in 1..(n - 1) /\ (IF i < p THEN i ELSE i + 1) = k
        BY <1>3, <4>1, <4>2
      <4>4. r[i] = q[IF i < p THEN i ELSE i + 1]
        BY <1>5, <4>3
      <4> HIDE DEF i
      <4> QED
        BY <1>2, <1>5, <3>1, <4>1, <4>3, <4>4
    <3>2. CASE a # at
      BY <1>2, <2>1, <2>2, <3>2
    <3> QED
      BY <3>1, <3>2
  <2>4. SpotOf(bk2[x]) = a /\ a \in DOMAIN queue2
    BY <1>2, <2>1 DEF a
  <2> QED
    BY <2>3, <2>4
<1>11. Queues(bk2, queue2)
  BY <1>1, <1>2, <1>9, <1>10 DEF Queues
<1> QED
  BY <1>11 DEF bk2, queue2

\* The queues when an order changes its size and stays.
LEMMA QueuesSized ==
  ASSUME NEW bk, IsBook(bk), NEW queue, Queues(bk, queue), NEW id \in DOMAIN bk, NEW size \in Nat \ {0}
  PROVE  Queues(Sized(bk, id, size), queue)
<1> DEFINE bk2 == Sized(bk, id, size)
<1>1. DOMAIN bk2 = DOMAIN bk /\ \A x \in DOMAIN bk : bk2[x].side = bk[x].side /\ bk2[x].price = bk[x].price
  BY RestingSized
<1> HIDE DEF bk2
<1>2. \A x \in DOMAIN bk : SpotOf(bk2[x]) = SpotOf(bk[x])
  BY <1>1 DEF SpotOf
<1>3. \A a \in DOMAIN queue : \A k \in 1..Len(queue[a]) : queue[a][k] \in DOMAIN bk
  BY ElementOfSeq DEF Queues
<1>4. Queues(bk2, queue)
  BY <1>1, <1>2, <1>3 DEF Queues
<1> QED
  BY <1>4 DEF bk2

---------------------------------------------------------------------------
(* The nodes. *)

\* Who stands where: a place in a queue, its order, and its node.
LEMMA PlacesDiffer ==
  ASSUME NEW P, NEW b, NEW bk, NEW queue, NEW loc, Queues(bk, queue), Located(P, b, bk, loc),
         NEW a \in DOMAIN queue, NEW j \in 1..Len(queue[a]),
         NEW c \in DOMAIN queue, NEW k \in 1..Len(queue[c])
  PROVE  /\ queue[a][j] \in DOMAIN bk /\ loc[queue[a][j]] \in 0..(P - 1)
         /\ queue[a][j] = queue[c][k] => a = c /\ j = k
         /\ loc[queue[a][j]] = loc[queue[c][k]] => a = c /\ j = k
<1>1. /\ queue[a] \in Seq(DOMAIN bk) /\ queue[c] \in Seq(DOMAIN bk)
      /\ SpotOf(bk[queue[a][j]]) = a /\ SpotOf(bk[queue[c][k]]) = c
      /\ a = c => (queue[a][j] = queue[c][k] => j = k)
  BY DEF Queues
<1>2. queue[a][j] \in DOMAIN bk /\ queue[c][k] \in DOMAIN bk
  BY <1>1, ElementOfSeq
<1>3. queue[a][j] = queue[c][k] => a = c
  BY <1>1
<1>4. loc[queue[a][j]] = loc[queue[c][k]] => queue[a][j] = queue[c][k]
  BY <1>2 DEF Located
<1>5. loc[queue[a][j]] \in 0..(P - 1)
  BY <1>2 DEF Located
<1> QED
  BY <1>1, <1>2, <1>3, <1>4, <1>5

\* The node at the end of a queue, and the two links to a node's neighbours.
TailOf(loc, q) == IF q = <<>> THEN NoLink ELSE loc[q[Len(q)]]
HeadOf(loc, q) == IF q = <<>> THEN NoLink ELSE loc[q[1]]

\* A node of b with another link.
LinkedOn(node, n) == [node EXCEPT !.next_idx = n]
LinkedBack(node, n) == [node EXCEPT !.prev_idx = n]

\* The nodes of b2 are those of b with a new order in node n behind node tail; without the
\* order in node n, which was linked to next and prev; with an order in node n of a new size.
NodeAdded(P, b, b2, id, o, n, tail) ==
  b2.nodes = [k \in 0..(P - 1) |->
                IF k = n THEN [order_id |-> id, side |-> o.side, price |-> o.price, size |-> o.size,
                               next_idx |-> NoLink, prev_idx |-> tail]
                ELSE IF k = tail THEN LinkedOn(b.nodes[k], n) ELSE b.nodes[k]]
NodeTaken(P, b, b2, n, next, prev) ==
  b2.nodes = [k \in 0..(P - 1) |->
                IF k = n THEN BareNode ELSE IF k = prev THEN LinkedOn(b.nodes[k], next)
                ELSE IF k = next THEN LinkedBack(b.nodes[k], prev) ELSE b.nodes[k]]
NodeSized(b, b2, n, size) == b2.nodes = [b.nodes EXCEPT ![n].size = size]

\* A new order in a free node becomes the tail.
LEMMA HoldingWith ==
  ASSUME NEW P \in Nat, NEW b, NEW bk, NEW queue, NEW loc,
         Queues(bk, queue), Located(P, b, bk, loc), Holding(P, b, bk, queue, loc),
         NEW id, id \notin DOMAIN bk, NEW o, SpotOf(o) \in DOMAIN queue,
         NEW n \in 0..(P - 1), \A x \in DOMAIN bk : loc[x] # n,
         NEW b2,
         NodeAdded(P, b, b2, id, o, n, TailOf(loc, queue[SpotOf(o)]))
  PROVE  Holding(P, b2, Widened(bk, id, o), LinedUp(queue, SpotOf(o), id), Widened(loc, id, n))
<1> DEFINE bk2 == Widened(bk, id, o)
           loc2 == Widened(loc, id, n)
           at == SpotOf(o)
           q == queue[at]
           r == Append(q, id)
           queue2 == LinedUp(queue, at, id)
           m == Len(q)
           tail == TailOf(loc, q)
           nodes == b.nodes
           nodes2 == b2.nodes
           new == [order_id |-> id, side |-> o.side, price |-> o.price, size |-> o.size,
                   next_idx |-> NoLink, prev_idx |-> tail]
<1>1. DOMAIN bk2 = DOMAIN bk \cup {id} /\ bk2[id] = o /\ \A x \in DOMAIN bk : bk2[x] = bk[x]
  BY DEF Widened
<1>2. DOMAIN loc2 = DOMAIN bk \cup {id} /\ loc2[id] = n /\ \A x \in DOMAIN bk : loc2[x] = loc[x]
  <2>1. DOMAIN loc = DOMAIN bk
    BY DEF Located
  <2> QED
    BY <2>1 DEF Widened
<1>3. /\ queue2 = [a \in DOMAIN queue2 |-> queue2[a]] /\ DOMAIN queue2 = DOMAIN queue /\ queue2[at] = r
      /\ \A a \in DOMAIN queue : a # at => queue2[a] = queue[a]
  <2>1. queue2 = [queue EXCEPT ![at] = r] /\ at \in DOMAIN queue
    BY DEF LinedUp
  <2> HIDE DEF r, at, queue2, bk2, loc2, q, m, tail, nodes, nodes2, new
  <2> QED
    BY <2>1, QueueChanged
<1>4. q \in Seq(DOMAIN bk) /\ at \in DOMAIN queue
  BY DEF Queues
<1>5. m \in Nat /\ Len(r) = m + 1 /\ r[m + 1] = id /\ \A k \in 1..m : r[k] = q[k] /\ q[k] \in DOMAIN bk
  BY <1>4
<1>6. \A k \in 0..(P - 1) : nodes2[k] = IF k = n THEN new ELSE IF k = tail THEN LinkedOn(nodes[k], n) ELSE nodes[k]
  BY DEF NodeAdded
<1>7. nodes2 = [k \in 0..(P - 1) |-> nodes2[k]]
  BY DEF NodeAdded
<1>8. tail = (IF m = 0 THEN NoLink ELSE loc[q[m]]) /\ (m = 0 <=> q = <<>>)
  <2>1. m = 0 <=> q = <<>>
    BY <1>4, EmptySeq
  <2> QED
    BY <2>1 DEF TailOf
<1>9. ASSUME NEW a \in DOMAIN queue, NEW k \in 1..Len(queue[a])
      PROVE  /\ queue[a][k] \in DOMAIN bk /\ loc[queue[a][k]] \in 0..(P - 1) /\ loc[queue[a][k]] # n
             /\ loc[queue[a][k]] = tail => a = at /\ k = m
             /\ nodes[loc[queue[a][k]]] = LinkedNode(bk, loc, queue[a], k)
  <2>1. queue[a][k] \in DOMAIN bk /\ loc[queue[a][k]] \in 0..(P - 1) /\ loc[queue[a][k]] # n
    BY PlacesDiffer
  <2>2. ASSUME loc[queue[a][k]] = tail PROVE a = at /\ k = m
    <3>1. m # 0
      BY <1>8, <2>1, <2>2 DEF NoLink
    <3>2. m \in 1..Len(queue[at]) /\ loc[queue[a][k]] = loc[queue[at][m]]
      BY <1>5, <1>8, <2>2, <3>1
    <3> HIDE DEF at, m
    <3> QED
      BY <1>4, <3>2, PlacesDiffer
  <2>3. nodes[loc[queue[a][k]]] = LinkedNode(bk, loc, queue[a], k)
    BY DEF Holding
  <2> QED
    BY <2>1, <2>2, <2>3
<1>10. \A a \in DOMAIN queue : \A k \in 1..Len(queue[a]) : queue[a][k] \in DOMAIN bk /\ Len(queue[a]) \in Nat
  BY ElementOfSeq, LenProperties DEF Queues
<1> HIDE DEF bk2, loc2, queue2, nodes2, nodes, tail, m, q, r, at
<1>11. ASSUME NEW a \in DOMAIN queue2, NEW k \in 1..Len(queue2[a])
       PROVE  nodes2[loc2[queue2[a][k]]] = LinkedNode(bk2, loc2, queue2[a], k)
  <2>1. CASE a # at
    <3>1. queue2[a] = queue[a] /\ a \in DOMAIN queue /\ k \in 1..Len(queue[a])
      BY <1>3, <2>1
    <3> DEFINE x == queue[a][k]
    <3>2. x \in DOMAIN bk /\ loc2[x] = loc[x] /\ loc[x] \in 0..(P - 1) /\ loc[x] # n /\ loc[x] # tail /\ bk2[x] = bk[x]
      BY <1>1, <1>2, <1>9, <2>1, <3>1
    <3>3. nodes2[loc2[x]] = LinkedNode(bk, loc, queue[a], k)
      BY <1>6, <1>9, <3>1, <3>2
    <3>4. k # Len(queue[a]) => loc2[queue[a][k + 1]] = loc[queue[a][k + 1]]
      <4>1. k # Len(queue[a]) => k + 1 \in 1..Len(queue[a])
        BY <1>10, <3>1
      <4> QED
        BY <1>2, <1>10, <3>1, <4>1
    <3>5. k # 1 => loc2[queue[a][k - 1]] = loc[queue[a][k - 1]]
      <4>1. k # 1 => k - 1 \in 1..Len(queue[a])
        BY <1>10, <3>1
      <4> QED
        BY <1>2, <1>10, <3>1, <4>1
    <3>6. LinkedNode(bk2, loc2, queue[a], k) = LinkedNode(bk, loc, queue[a], k)
      BY <3>2, <3>4, <3>5 DEF LinkedNode
    <3> QED
      BY <3>1, <3>3, <3>6
  <2>2. CASE a = at /\ k # m + 1
    <3>1. k \in 1..m /\ queue2[a] = r /\ r[k] = q[k] /\ k \in 1..Len(queue[at]) /\ q = queue[at]
      BY <1>3, <1>5, <2>2 DEF m, q
    <3> DEFINE x == q[k]
    <3>2. /\ x \in DOMAIN bk /\ loc2[x] = loc[x] /\ loc[x] \in 0..(P - 1) /\ loc[x] # n /\ bk2[x] = bk[x]
          /\ (loc[x] = tail => k = m) /\ nodes[loc[x]] = LinkedNode(bk, loc, q, k)
      BY <1>1, <1>2, <1>4, <1>9, <3>1
    <3>3. k # 1 => r[k - 1] = q[k - 1] /\ loc2[q[k - 1]] = loc[q[k - 1]]
      BY <1>2, <1>5, <3>1
    <3>4. CASE k = m
      <4>1. loc[x] = tail /\ nodes2[loc[x]] = LinkedOn(nodes[loc[x]], n)
        BY <1>6, <1>8, <3>1, <3>2, <3>4
      <4>2. k # Len(r) /\ r[k + 1] = id /\ loc2[id] = n
        BY <1>2, <1>5, <3>4
      <4>3. LinkedNode(bk2, loc2, r, k) = LinkedOn(LinkedNode(bk, loc, q, k), n)
        <5> DEFINE pv == IF k = 1 THEN NoLink ELSE loc[q[k - 1]]
                   nx == IF k = Len(q) THEN NoLink ELSE loc[q[k + 1]]
        <5>1. LinkedNode(bk2, loc2, r, k) =
                [order_id |-> x, side |-> bk[x].side, price |-> bk[x].price, size |-> bk[x].size,
                 next_idx |-> n, prev_idx |-> pv]
          BY <3>1, <3>2, <3>3, <4>2 DEF LinkedNode
        <5>2. LinkedNode(bk, loc, q, k) =
                [order_id |-> x, side |-> bk[x].side, price |-> bk[x].price, size |-> bk[x].size,
                 next_idx |-> nx, prev_idx |-> pv]
          BY DEF LinkedNode
        <5> HIDE DEF pv, nx, x
        <5> QED
          BY <5>1, <5>2 DEF LinkedOn
      <4> QED
        BY <3>1, <3>2, <4>1, <4>3
    <3>5. CASE k # m
      <4>1. nodes2[loc[x]] = nodes[loc[x]]
        BY <1>6, <3>2, <3>5
      <4>2. k # Len(r) /\ k # Len(q) /\ r[k + 1] = q[k + 1] /\ loc2[q[k + 1]] = loc[q[k + 1]]
        BY <1>2, <1>5, <3>1, <3>5 DEF m
      <4>3. LinkedNode(bk2, loc2, r, k) = LinkedNode(bk, loc, q, k)
        BY <3>1, <3>2, <3>3, <4>2 DEF LinkedNode
      <4> QED
        BY <3>1, <3>2, <4>1, <4>3
    <3> QED
      BY <3>4, <3>5
  <2>3. CASE a = at /\ k = m + 1
    <3>1. queue2[a] = r /\ r[k] = id /\ loc2[id] = n /\ nodes2[n] = new /\ k = Len(r)
      BY <1>2, <1>3, <1>5, <1>6, <2>3
    <3>2. tail = IF k = 1 THEN NoLink ELSE loc2[r[k - 1]]
      <4>1. CASE m = 0
        BY <1>8, <2>3, <4>1
      <4>2. CASE m # 0
        <5>1. k # 1 /\ k - 1 = m /\ m \in 1..m
          BY <1>5, <2>3, <4>2
        <5>2. r[m] = q[m] /\ loc2[q[m]] = loc[q[m]]
          BY <1>2, <1>5, <5>1
        <5> QED
          BY <1>8, <4>2, <5>1, <5>2
      <4> QED
        BY <4>1, <4>2
    <3>3. new = LinkedNode(bk2, loc2, r, k)
      BY <1>1, <3>1, <3>2 DEF LinkedNode
    <3> QED
      BY <3>1, <3>3
  <2> QED
    BY <2>1, <2>2, <2>3
<1>12. ASSUME NEW k \in 0..(P - 1), \A x \in DOMAIN bk2 : loc2[x] # k PROVE nodes2[k] = BareNode
  <2>1. k # n /\ \A x \in DOMAIN bk : loc[x] # k
    BY <1>1, <1>2, <1>12
  <2>2. k # tail
    <3>1. CASE m = 0
      BY <1>8, <3>1 DEF NoLink
    <3>2. CASE m # 0
      <4>1. m \in 1..m
        BY <1>5, <3>2
      <4> QED
        BY <1>5, <1>8, <2>1, <3>2, <4>1
    <3> QED
      BY <3>1, <3>2
  <2>3. nodes[k] = BareNode
    BY <2>1 DEF Holding, nodes
  <2> QED
    BY <1>6, <2>1, <2>2, <2>3
<1>13. Holding(P, b2, bk2, queue2, loc2)
  BY <1>7, <1>11, <1>12 DEF Holding, nodes2
<1> QED
  BY <1>13 DEF bk2, queue2, loc2, at

\* The node of an order at a place, written out.
LEMMA NodeIs ==
  ASSUME NEW bk, NEW loc, NEW q, NEW k, NEW next, NEW prev,
         next = (IF k = Len(q) THEN NoLink ELSE loc[q[k + 1]]),
         prev = (IF k = 1 THEN NoLink ELSE loc[q[k - 1]])
  PROVE  /\ LinkedNode(bk, loc, q, k) =
              [order_id |-> q[k], side |-> bk[q[k]].side, price |-> bk[q[k]].price, size |-> bk[q[k]].size,
               next_idx |-> next, prev_idx |-> prev]
         /\ LinkedNode(bk, loc, q, k).next_idx = next /\ LinkedNode(bk, loc, q, k).prev_idx = prev
<1>1. LinkedNode(bk, loc, q, k) =
        [order_id |-> q[k], side |-> bk[q[k]].side, price |-> bk[q[k]].price, size |-> bk[q[k]].size,
         next_idx |-> next, prev_idx |-> prev]
  BY DEF LinkedNode
<1> QED
  BY <1>1

\* A node linked to others.
LEMMA LinkedIs ==
  ASSUME NEW id, NEW side, NEW price, NEW size, NEW next, NEW prev, NEW n,
         NEW node, node = [order_id |-> id, side |-> side, price |-> price, size |-> size,
                           next_idx |-> next, prev_idx |-> prev]
  PROVE  /\ LinkedOn(node, n) = [order_id |-> id, side |-> side, price |-> price, size |-> size,
                                 next_idx |-> n, prev_idx |-> prev]
         /\ LinkedBack(node, n) = [order_id |-> id, side |-> side, price |-> price, size |-> size,
                                   next_idx |-> next, prev_idx |-> n]
  BY DEF LinkedOn, LinkedBack

\* A node leaves its queue: its neighbours are linked to each other.
LEMMA HoldingWithout ==
  ASSUME NEW P \in Nat, NEW b, NEW bk, NEW queue, NEW loc,
         Queues(bk, queue), Located(P, b, bk, loc), Holding(P, b, bk, queue, loc),
         NEW at \in DOMAIN queue, NEW p \in 1..Len(queue[at]), NEW id, id = queue[at][p],
         NEW n, n = loc[id], NEW next, NEW prev,
         next = b.nodes[n].next_idx, prev = b.nodes[n].prev_idx,
         NEW b2,
         NodeTaken(P, b, b2, n, next, prev)
  PROVE  Holding(P, b2, Shrunk(bk, id), Unlined(queue, at, p), Shrunk(loc, id))
<1> DEFINE bk2 == Shrunk(bk, id)
           loc2 == Shrunk(loc, id)
           q == queue[at]
           r == RemoveAt(q, p)
           queue2 == Unlined(queue, at, p)
           m == Len(q)
           nodes == b.nodes
           nodes2 == b2.nodes
           D == DOMAIN bk \ {id}
<1>1. DOMAIN bk2 = D /\ \A x \in D : bk2[x] = bk[x]
  BY DEF Shrunk
<1>2. DOMAIN loc2 = D /\ \A x \in D : loc2[x] = loc[x]
  <2>1. DOMAIN loc = DOMAIN bk
    BY DEF Located
  <2> QED
    BY <2>1 DEF Shrunk
<1>3. /\ queue2 = [a \in DOMAIN queue2 |-> queue2[a]] /\ DOMAIN queue2 = DOMAIN queue /\ queue2[at] = r
      /\ \A a \in DOMAIN queue : a # at => queue2[a] = queue[a]
  <2>1. queue2 = [queue EXCEPT ![at] = r]
    BY DEF Unlined
  <2> HIDE DEF r, queue2, bk2, loc2, q, m, nodes, nodes2, D
  <2> QED
    BY <2>1, QueueChanged
<1>4. q \in Seq(DOMAIN bk) /\ p \in 1..m /\ m \in Nat /\ \A k \in 1..m : q[k] \in DOMAIN bk
  BY ElementOfSeq, LenProperties DEF Queues
<1>5. /\ r \in Seq(DOMAIN bk) /\ Len(r) = m - 1
      /\ \A k \in 1..(m - 1) : r[k] = q[IF k < p THEN k ELSE k + 1]
  <2> HIDE DEF q
  <2> QED
    BY <1>4, RemoveAtIs
<1>6. \A k \in 0..(P - 1) : nodes2[k] = IF k = n THEN BareNode ELSE IF k = prev THEN LinkedOn(nodes[k], next)
                       ELSE IF k = next THEN LinkedBack(nodes[k], prev) ELSE nodes[k]
  BY DEF NodeTaken
<1>7. nodes2 = [k \in 0..(P - 1) |-> nodes2[k]]
  BY DEF NodeTaken
<1>8. q[p] = id /\ nodes[n] = LinkedNode(bk, loc, q, p)
  BY DEF Holding
<1>9. next = (IF p = m THEN NoLink ELSE loc[q[p + 1]]) /\ prev = (IF p = 1 THEN NoLink ELSE loc[q[p - 1]])
  <2>1. LinkedNode(bk, loc, q, p).next_idx = (IF p = m THEN NoLink ELSE loc[q[p + 1]])
    BY NodeIs
  <2>2. LinkedNode(bk, loc, q, p).prev_idx = (IF p = 1 THEN NoLink ELSE loc[q[p - 1]])
    BY NodeIs
  <2> QED
    BY <1>8, <2>1, <2>2
<1>10. ASSUME NEW a \in DOMAIN queue, NEW k \in 1..Len(queue[a])
       PROVE  /\ queue[a][k] \in DOMAIN bk /\ loc[queue[a][k]] \in 0..(P - 1)
              /\ (a = at /\ k = p) <=> queue[a][k] = id
              /\ loc[queue[a][k]] = n => a = at /\ k = p
              /\ loc[queue[a][k]] = next <=> a = at /\ k = p + 1
              /\ loc[queue[a][k]] = prev <=> a = at /\ k = p - 1
              /\ nodes[loc[queue[a][k]]] = LinkedNode(bk, loc, queue[a], k)
  <2> DEFINE x == queue[a][k]
  <2>1. x \in DOMAIN bk /\ loc[x] \in 0..(P - 1) /\ loc[x] # NoLink
    <3>1. x \in DOMAIN bk /\ loc[x] \in 0..(P - 1)
      BY PlacesDiffer
    <3> QED
      BY <3>1 DEF NoLink
  <2>2. \A j \in 1..Len(queue[at]) : /\ x = queue[at][j] => a = at /\ k = j
                                     /\ loc[x] = loc[queue[at][j]] => a = at /\ k = j
    BY PlacesDiffer
  <2>3. (a = at /\ k = p) <=> x = id
    BY <2>2
  <2>4. loc[x] = n => a = at /\ k = p
    BY <2>2
  <2>5. loc[x] = next <=> a = at /\ k = p + 1
    <3>1. CASE p = m
      BY <1>4, <1>9, <2>1, <3>1
    <3>2. CASE p # m
      <4>1. p + 1 \in 1..m /\ next = loc[queue[at][p + 1]]
        BY <1>4, <1>9, <3>2
      <4> QED
        BY <2>2, <4>1
    <3> QED
      BY <3>1, <3>2
  <2>6. loc[x] = prev <=> a = at /\ k = p - 1
    <3>1. CASE p = 1
      BY <1>4, <1>9, <2>1, <3>1
    <3>2. CASE p # 1
      <4>1. p - 1 \in 1..m /\ prev = loc[queue[at][p - 1]]
        BY <1>4, <1>9, <3>2
      <4> QED
        BY <2>2, <4>1
    <3> QED
      BY <3>1, <3>2
  <2>7. nodes[loc[x]] = LinkedNode(bk, loc, queue[a], k)
    BY DEF Holding
  <2> QED
    BY <2>1, <2>3, <2>4, <2>5, <2>6, <2>7
<1>11. \A a \in DOMAIN queue : \A k \in 1..Len(queue[a]) : queue[a][k] \in DOMAIN bk /\ Len(queue[a]) \in Nat
  BY ElementOfSeq, LenProperties DEF Queues
<1> HIDE DEF bk2, loc2, queue2, nodes2, nodes, m, q, r
<1>12. ASSUME NEW a \in DOMAIN queue2, NEW k \in 1..Len(queue2[a])
       PROVE  nodes2[loc2[queue2[a][k]]] = LinkedNode(bk2, loc2, queue2[a], k)
  <2>1. CASE a # at
    <3>1. queue2[a] = queue[a] /\ a \in DOMAIN queue /\ k \in 1..Len(queue[a])
      BY <1>3, <2>1
    <3> DEFINE x == queue[a][k]
    <3>0. \A j \in 1..Len(queue[a]) : queue[a][j] \in D /\ loc2[queue[a][j]] = loc[queue[a][j]]
      BY <1>2, <1>10, <2>1, <3>1
    <3>2. x \in D /\ loc2[x] = loc[x] /\ loc[x] \in 0..(P - 1) /\ loc[x] # n /\ loc[x] # next /\ loc[x] # prev /\ bk2[x] = bk[x]
      BY <1>1, <1>10, <2>1, <3>0, <3>1
    <3>3. nodes2[loc2[x]] = LinkedNode(bk, loc, queue[a], k)
      <4>1. nodes[loc[x]] = LinkedNode(bk, loc, queue[a], k)
        BY <1>10, <3>1
      <4> HIDE DEF x
      <4>2. nodes2[loc[x]] = nodes[loc[x]]
        BY <1>6, <3>2
      <4> QED
        BY <3>2, <4>1, <4>2
    <3>4. k # Len(queue[a]) => loc2[queue[a][k + 1]] = loc[queue[a][k + 1]]
      <4>1. k # Len(queue[a]) => k + 1 \in 1..Len(queue[a])
        BY <1>11, <3>1
      <4> QED
        BY <3>0, <4>1
    <3>5. k # 1 => loc2[queue[a][k - 1]] = loc[queue[a][k - 1]]
      <4>1. k # 1 => k - 1 \in 1..Len(queue[a])
        BY <1>11, <3>1
      <4> QED
        BY <3>0, <4>1
    <3>6. LinkedNode(bk2, loc2, queue[a], k) = LinkedNode(bk, loc, queue[a], k)
      BY <3>2, <3>4, <3>5 DEF LinkedNode
    <3> QED
      BY <3>1, <3>3, <3>6
  <2>2. CASE a = at
    <3> DEFINE j == IF k < p THEN k ELSE k + 1
               x == q[j]
               nx == IF j = m THEN NoLink ELSE loc[q[j + 1]]
               pv == IF j = 1 THEN NoLink ELSE loc[q[j - 1]]
    <3>1. queue2[a] = r /\ Len(r) = m - 1 /\ k \in 1..(m - 1)
      BY <1>3, <1>5, <2>2
    <3>2. j \in 1..m /\ j # p /\ r[k] = x
      BY <1>4, <1>5, <3>1
    <3>3. \A i \in 1..m : i # p => q[i] \in D /\ loc2[q[i]] = loc[q[i]] /\ bk2[q[i]] = bk[q[i]]
      BY <1>1, <1>2, <1>10 DEF m, q
    <3>4. IF k = m - 1 THEN NoLink = (IF j = p - 1 THEN next ELSE nx)
          ELSE loc2[r[k + 1]] = (IF j = p - 1 THEN next ELSE nx)
      <4>1. CASE k = m - 1
        <5>1. IF j = p - 1 THEN p = m ELSE j = m
          BY <1>4, <3>1, <4>1
        <5> HIDE DEF j
        <5> QED
          BY <1>9, <4>1, <5>1
      <4>2. CASE k # m - 1
        <5>0. k + 1 \in 1..(m - 1) /\ (k + 1) + 1 = k + 2
          BY <1>4, <3>1, <4>2
        <5>1. k + 1 \in 1..(m - 1) /\ r[k + 1] = q[IF k + 1 < p THEN k + 1 ELSE k + 2]
          <6> DEFINE i == k + 1
          <6>1. r[i] = q[IF i < p THEN i ELSE i + 1]
            BY <1>5, <5>0
          <6> QED
            BY <5>0, <6>1
        <5>2. (IF k + 1 < p THEN k + 1 ELSE k + 2) \in 1..m /\ (IF k + 1 < p THEN k + 1 ELSE k + 2) # p
          BY <1>4, <5>1
        <5>3. loc2[r[k + 1]] = loc[q[IF k + 1 < p THEN k + 1 ELSE k + 2]]
          BY <3>3, <5>1, <5>2
        <5>4. (IF k + 1 < p THEN k + 1 ELSE k + 2) = IF j = p - 1 THEN p + 1 ELSE j + 1
          BY <1>4, <3>1
        <5>5. IF j = p - 1 THEN p # m ELSE j # m
          BY <1>4, <3>1, <4>2
        <5> HIDE DEF j
        <5> QED
          BY <1>9, <4>2, <5>3, <5>4, <5>5
      <4> QED
        BY <4>1, <4>2
    <3>5. IF k = 1 THEN NoLink = (IF j = p + 1 THEN prev ELSE pv)
          ELSE loc2[r[k - 1]] = (IF j = p + 1 THEN prev ELSE pv)
      <4>1. CASE k = 1
        BY <1>4, <1>9, <3>1, <4>1
      <4>2. CASE k # 1
        <5>1. k - 1 \in 1..(m - 1) /\ r[k - 1] = q[IF k - 1 < p THEN k - 1 ELSE k]
          BY <1>4, <1>5, <3>1, <4>2
        <5>2. (IF k - 1 < p THEN k - 1 ELSE k) \in 1..m /\ (IF k - 1 < p THEN k - 1 ELSE k) # p
          BY <1>4, <5>1, <3>1
        <5>3. loc2[r[k - 1]] = loc[q[IF k - 1 < p THEN k - 1 ELSE k]]
          BY <3>3, <5>1, <5>2
        <5>4. (IF k - 1 < p THEN k - 1 ELSE k) = IF j = p + 1 THEN p - 1 ELSE j - 1
          BY <1>4, <3>1
        <5>5. IF j = p + 1 THEN p # 1 ELSE j # 1
          BY <1>4, <3>1, <4>2
        <5> HIDE DEF j
        <5> QED
          BY <1>9, <4>2, <5>3, <5>4, <5>5
      <4> QED
        BY <4>1, <4>2
    <3>6. x \in DOMAIN bk /\ bk2[x] = bk[x] /\ loc2[x] = loc[x] /\ loc[x] \in 0..(P - 1) /\ loc[x] # n
          /\ (loc[x] = next <=> j = p + 1) /\ (loc[x] = prev <=> j = p - 1)
          /\ nodes[loc[x]] = LinkedNode(bk, loc, q, j)
      BY <1>10, <3>2, <3>3 DEF q, m
    <3>7. LinkedNode(bk, loc, q, j) = [order_id |-> x, side |-> bk[x].side, price |-> bk[x].price,
                                       size |-> bk[x].size, next_idx |-> nx, prev_idx |-> pv]
      BY DEF LinkedNode, m
    <3>8. LinkedNode(bk2, loc2, r, k) =
            [order_id |-> x, side |-> bk[x].side, price |-> bk[x].price, size |-> bk[x].size,
             next_idx |-> IF j = p - 1 THEN next ELSE nx, prev_idx |-> IF j = p + 1 THEN prev ELSE pv]
      <4> HIDE DEF j, x, nx, pv
      <4> QED
        BY <3>1, <3>2, <3>4, <3>5, <3>6 DEF LinkedNode
    <3>9. nodes2[loc[x]] = LinkedNode(bk2, loc2, r, k)
      <4>1. ~(j = p - 1 /\ j = p + 1)
        BY <1>4, <3>2
      <4> HIDE DEF j, x, nx, pv
      <4>2. CASE j = p - 1
        <5>1. nodes2[loc[x]] = LinkedOn(nodes[loc[x]], next)
          BY <1>6, <3>6, <4>2
        <5>2. LinkedOn(LinkedNode(bk, loc, q, j), next) =
                [order_id |-> x, side |-> bk[x].side, price |-> bk[x].price, size |-> bk[x].size,
                 next_idx |-> next, prev_idx |-> pv]
          BY <3>7, LinkedIs
        <5> QED
          BY <3>6, <3>8, <4>1, <4>2, <5>1, <5>2
      <4>3. CASE j = p + 1
        <5>1. nodes2[loc[x]] = LinkedBack(nodes[loc[x]], prev)
          BY <1>6, <3>6, <4>1, <4>3
        <5>2. LinkedBack(LinkedNode(bk, loc, q, j), prev) =
                [order_id |-> x, side |-> bk[x].side, price |-> bk[x].price, size |-> bk[x].size,
                 next_idx |-> nx, prev_idx |-> prev]
          BY <3>7, LinkedIs
        <5> QED
          BY <3>6, <3>8, <4>1, <4>3, <5>1, <5>2
      <4>4. CASE j # p - 1 /\ j # p + 1
        BY <1>6, <3>6, <3>7, <3>8, <4>4
      <4> QED
        BY <4>2, <4>3, <4>4
    <3> QED
      BY <3>1, <3>2, <3>6, <3>9
  <2> QED
    BY <2>1, <2>2
<1>13. ASSUME NEW k \in 0..(P - 1), \A x \in DOMAIN bk2 : loc2[x] # k PROVE nodes2[k] = BareNode
  <2>1. CASE k = n
    BY <1>6, <2>1
  <2>2. CASE k # n
    <3>1. \A x \in DOMAIN bk : loc[x] # k
      BY <1>1, <1>2, <1>13, <2>2
    <3>2. k # next /\ k # prev
      <4>1. \A i \in 1..m : loc[q[i]] # k
        BY <1>4, <3>1
      <4>2. (p # m => p + 1 \in 1..m) /\ (p # 1 => p - 1 \in 1..m)
        BY <1>4
      <4> QED
        BY <1>9, <4>1, <4>2 DEF NoLink
    <3>3. nodes[k] = BareNode
      BY <3>1 DEF Holding, nodes
    <3> QED
      BY <1>6, <2>2, <3>2, <3>3
  <2> QED
    BY <2>1, <2>2
<1>14. Holding(P, b2, bk2, queue2, loc2)
  BY <1>7, <1>12, <1>13, <1>1 DEF Holding, nodes2
<1> QED
  BY <1>14 DEF bk2, queue2, loc2

\* A function by its values.
IsFunction(f, D) == f = [x \in D |-> f[x]]

\* An order changes its size where it stands.
LEMMA HoldingSized ==
  ASSUME NEW P \in Nat, NEW b, NEW bk, NEW queue, NEW loc, IsBook(bk),
         Queues(bk, queue), Located(P, b, bk, loc), Holding(P, b, bk, queue, loc),
         NEW id \in DOMAIN bk, NEW size \in Nat \ {0},
         NEW b2, NodeSized(b, b2, loc[id], size)
  PROVE  Holding(P, b2, Sized(bk, id, size), queue, loc)
<1> DEFINE bk2 == Sized(bk, id, size)
           nodes == b.nodes
           nodes2 == b2.nodes
           n == loc[id]
<1>1. /\ DOMAIN bk2 = DOMAIN bk /\ bk2[id].size = size
      /\ \A x \in DOMAIN bk : /\ bk2[x].side = bk[x].side /\ bk2[x].price = bk[x].price
                              /\ x # id => bk2[x] = bk[x]
  <2>1. /\ DOMAIN bk2 = DOMAIN bk
        /\ bk2[id] = [side |-> bk[id].side, price |-> bk[id].price, size |-> size]
        /\ \A x \in DOMAIN bk : x # id => bk2[x] = bk[x]
        /\ \A x \in DOMAIN bk : bk2[x].side = bk[x].side /\ bk2[x].price = bk[x].price
    BY RestingSized
  <2> HIDE DEF bk2
  <2>2. bk2[id].size = size
    BY <2>1
  <2> QED
    BY <2>1, <2>2
<1>2. n \in 0..(P - 1) /\ \A x \in DOMAIN bk : loc[x] = n => x = id
  BY DEF Located
<1>3. /\ nodes2 = [k \in 0..(P - 1) |-> nodes2[k]] /\ nodes2[n] = [nodes[n] EXCEPT !.size = size]
      /\ \A k \in 0..(P - 1) : k # n => nodes2[k] = nodes[k]
  <2>1. nodes = [k \in 0..(P - 1) |-> nodes[k]]
    BY DEF Holding
  <2>2. nodes2 = [nodes EXCEPT ![n] = [nodes[n] EXCEPT !.size = size]]
    BY DEF NodeSized
  <2> DEFINE v == [nodes[n] EXCEPT !.size = size]
             N == 0..(P - 1)
  <2>3. IsFunction(nodes, N) /\ nodes2 = [nodes EXCEPT ![n] = v] /\ n \in N
    BY <1>2, <2>1, <2>2 DEF IsFunction
  <2> HIDE DEF nodes, nodes2, n, v, N
  <2>4. nodes2 = [k \in N |-> nodes2[k]] /\ nodes2[n] = v /\ \A k \in N : k # n => nodes2[k] = nodes[k]
    BY <2>3 DEF IsFunction
  <2> QED
    BY <2>4 DEF v, N
<1> HIDE DEF bk2, nodes, nodes2
<1>4. ASSUME NEW a \in DOMAIN queue, NEW k \in 1..Len(queue[a])
      PROVE  nodes2[loc[queue[a][k]]] = LinkedNode(bk2, loc, queue[a], k)
  <2> DEFINE x == queue[a][k]
             nx == IF k = Len(queue[a]) THEN NoLink ELSE loc[queue[a][k + 1]]
             pv == IF k = 1 THEN NoLink ELSE loc[queue[a][k - 1]]
  <2> SUFFICES nodes2[loc[x]] = LinkedNode(bk2, loc, queue[a], k)
    OBVIOUS
  <2>1. x \in DOMAIN bk /\ loc[x] \in 0..(P - 1)
    BY PlacesDiffer
  <2>2. nodes[loc[x]] = [order_id |-> x, side |-> bk[x].side, price |-> bk[x].price, size |-> bk[x].size,
                         next_idx |-> nx, prev_idx |-> pv]
    <3>1. nodes[loc[x]] = LinkedNode(bk, loc, queue[a], k)
      BY DEF Holding, nodes
    <3>2. LinkedNode(bk, loc, queue[a], k) =
            [order_id |-> x, side |-> bk[x].side, price |-> bk[x].price, size |-> bk[x].size,
             next_idx |-> nx, prev_idx |-> pv]
      BY DEF LinkedNode
    <3> QED
      BY <3>1, <3>2
  <2>3. LinkedNode(bk2, loc, queue[a], k) =
          [order_id |-> x, side |-> bk2[x].side, price |-> bk2[x].price, size |-> bk2[x].size,
           next_idx |-> nx, prev_idx |-> pv]
    BY DEF LinkedNode
  <2> HIDE DEF x, nx, pv
  <2>4. CASE x = id
    <3>1. nodes2[loc[x]] = [nodes[loc[x]] EXCEPT !.size = size]
      BY <1>3, <2>4
    <3>2. nodes2[loc[x]] = [order_id |-> x, side |-> bk[x].side, price |-> bk[x].price, size |-> size,
                            next_idx |-> nx, prev_idx |-> pv]
      BY <2>2, <3>1
    <3> QED
      BY <1>1, <2>1, <2>3, <2>4, <3>2
  <2>5. CASE x # id
    <3>1. loc[x] # n
      BY <1>2, <2>1, <2>5
    <3>2. nodes2[loc[x]] = nodes[loc[x]]
      BY <1>3, <2>1, <3>1
    <3> QED
      BY <1>1, <2>1, <2>2, <2>3, <2>5, <3>2
  <2> QED
    BY <2>4, <2>5
<1>5. ASSUME NEW k \in 0..(P - 1), \A x \in DOMAIN bk2 : loc[x] # k PROVE nodes2[k] = BareNode
  <2>1. k # n /\ nodes[k] = BareNode
    BY <1>1, <1>5 DEF Holding, nodes
  <2> QED
    BY <1>3, <2>1
<1>6. Holding(P, b2, bk2, queue, loc)
  BY <1>3, <1>4, <1>5 DEF Holding, nodes2
<1> QED
  BY <1>6 DEF bk2

---------------------------------------------------------------------------
(* The shelf. *)

\* An order is put on the shelf, in a free node.
LEMMA ShelfWith ==
  ASSUME NEW P \in Nat, NEW C \in Nat \ {0}, P < C, NEW b, NEW bk, NEW queue, NEW loc,
         Shelf(P, C, b, bk, queue, loc), b.free # <<>>,
         NEW id \in Nat \ {0}, id \notin DOMAIN bk,
         NEW o, IsRest(o),
         SpotOf(o) \in DOMAIN queue,
         NEW n, n = Last(b.free),
         NEW b2, b2.free = Front(b.free), b2.id_map = Hash(C)!Insert(b.id_map, id, n),
         NodeAdded(P, b, b2, id, o, n, TailOf(loc, queue[SpotOf(o)]))
  PROVE  /\ Shelf(P, C, b2, Widened(bk, id, o), LinedUp(queue, SpotOf(o), id), Widened(loc, id, n))
         /\ n \in 0..(P - 1) /\ \A x \in DOMAIN bk : loc[x] # n
<1>1. IsBook(Widened(bk, id, o))
  BY RestingWith DEF Shelf
<1>2. Queues(Widened(bk, id, o), LinedUp(queue, SpotOf(o), id))
  BY QueuesWith DEF Shelf
<1>3. n \in 0..(P - 1) /\ (\A x \in DOMAIN bk : loc[x] # n) /\ Located(P, b2, Widened(bk, id, o), Widened(loc, id, n))
  BY SpotsWith DEF Shelf
<1>4. Indexed(C, b2, Widened(bk, id, o), Widened(loc, id, n))
  <2>1. n \in Nat
    BY <1>3
  <2> QED
    BY <2>1, IndexedWith DEF Shelf
<1>5. Holding(P, b2, Widened(bk, id, o), LinedUp(queue, SpotOf(o), id), Widened(loc, id, n))
  BY <1>3, HoldingWith DEF Shelf
<1> QED
  BY <1>1, <1>2, <1>3, <1>4, <1>5 DEF Shelf

\* An order leaves the shelf, and its node is free.
LEMMA ShelfWithout ==
  ASSUME NEW P \in Nat, NEW C \in Nat \ {0}, P < C, NEW b, NEW bk, NEW queue, NEW loc,
         Shelf(P, C, b, bk, queue, loc),
         NEW at \in DOMAIN queue, NEW p \in 1..Len(queue[at]), NEW id, id = queue[at][p],
         NEW n, n = loc[id], NEW next, NEW prev,
         next = b.nodes[n].next_idx, prev = b.nodes[n].prev_idx,
         NEW b2, b2.free = Append(b.free, n), b2.id_map = Hash(C)!Erase(b.id_map, id),
         NodeTaken(P, b, b2, n, next, prev)
  PROVE  Shelf(P, C, b2, Shrunk(bk, id), Unlined(queue, at, p), Shrunk(loc, id))
<1>1. id \in DOMAIN bk /\ id \in Nat \ {0}
  BY ElementOfSeq DEF Shelf, Queues, IsBook
<1>2. IsBook(Shrunk(bk, id))
  BY RestingWithout DEF Shelf
<1>3. Queues(Shrunk(bk, id), Unlined(queue, at, p))
  BY QueuesWithout DEF Shelf
<1>4. Located(P, b2, Shrunk(bk, id), Shrunk(loc, id))
  BY <1>1, SpotsWithout DEF Shelf
<1>5. Indexed(C, b2, Shrunk(bk, id), Shrunk(loc, id))
  BY <1>1, IndexedWithout DEF Shelf
<1>6. Holding(P, b2, Shrunk(bk, id), Unlined(queue, at, p), Shrunk(loc, id))
  BY HoldingWithout DEF Shelf
<1> QED
  BY <1>2, <1>3, <1>4, <1>5, <1>6 DEF Shelf

\* An order changes its size and keeps its place.
LEMMA ShelfSized ==
  ASSUME NEW P \in Nat, NEW C \in Nat \ {0}, NEW b, NEW bk, NEW queue, NEW loc,
         Shelf(P, C, b, bk, queue, loc), NEW id \in DOMAIN bk, NEW size \in Nat \ {0},
         NEW b2, b2.free = b.free, b2.id_map = b.id_map,
         NodeSized(b, b2, loc[id], size)
  PROVE  Shelf(P, C, b2, Sized(bk, id, size), queue, loc)
<1>1. IsBook(Sized(bk, id, size)) /\ DOMAIN Sized(bk, id, size) = DOMAIN bk
  BY RestingSized DEF Shelf
<1>2. Queues(Sized(bk, id, size), queue)
  BY QueuesSized DEF Shelf
<1>3. Located(P, b2, Sized(bk, id, size), loc)
  BY <1>1 DEF Shelf, Located
<1>4. Indexed(C, b2, Sized(bk, id, size), loc)
  BY <1>1 DEF Shelf, Indexed
<1>5. Holding(P, b2, Sized(bk, id, size), queue, loc)
  BY HoldingSized DEF Shelf
<1> QED
  BY <1>1, <1>2, <1>3, <1>4, <1>5 DEF Shelf

\* A shelf with nothing on it.
LEMMA ShelfEmpty ==
  ASSUME NEW P \in Nat, NEW C \in Nat \ {0}, NEW bk, bk = [id \in {} |-> 0],
         NEW loc, loc = [id \in {} |-> 0],
         NEW queue, NEW ats, queue = [at \in ats |-> <<>>],
         NEW b, b.nodes = [n \in 0..(P - 1) |-> BareNode], b.id_map = Hash(C)!EmptyMap,
         b.free \in Seq(0..(P - 1)), \A j, k \in 1..Len(b.free) : b.free[j] = b.free[k] => j = k
  PROVE  Shelf(P, C, b, bk, queue, loc)
<1>1. DOMAIN bk = {} /\ DOMAIN loc = {} /\ DOMAIN queue = ats /\ \A at \in ats : queue[at] = <<>>
  OBVIOUS
<1>2. IsBook(bk)
  BY <1>1, FS_EmptySet DEF IsBook
<1>3. Queues(bk, queue)
  <2>1. Len(<<>>) = 0 /\ 1..0 = {} /\ <<>> \in Seq(DOMAIN bk)
    OBVIOUS
  <2> QED
    BY <1>1, <2>1 DEF Queues
<1>4. Located(P, b, bk, loc)
  BY <1>1 DEF Located
<1>5. Indexed(C, b, bk, loc)
  BY <1>1, EmptyMapIs DEF Indexed
<1>6. Holding(P, b, bk, queue, loc)
  <2>1. Len(<<>>) = 0 /\ 1..0 = {}
    OBVIOUS
  <2> QED
    BY <1>1, <2>1 DEF Holding
<1> QED
  BY <1>2, <1>3, <1>4, <1>5, <1>6 DEF Shelf

---------------------------------------------------------------------------
(* The levels. *)

HoldersAt(bk, at) == {id \in DOMAIN bk : SpotOf(bk[id]) = at}
SizesIn(bk) == [id \in DOMAIN bk |-> bk[id].size]
TotalAt(bk, at) == SumOver(SizesIn(bk), HoldersAt(bk, at))

\* What a level records of the orders at its side and price.
LevelRecord(bk, queue, loc, at) ==
  [price |-> at[2], total_qty |-> TotalAt(bk, at),
   head_idx |-> HeadOf(loc, queue[at]), tail_idx |-> TailOf(loc, queue[at])]

\* The orders at a place are finitely many, and their sizes positive.
LEMMA SizesAre ==
  ASSUME NEW bk, IsBook(bk), NEW at
  PROVE  /\ IsFiniteSet(HoldersAt(bk, at)) /\ Weighs(SizesIn(bk), HoldersAt(bk, at))
         /\ \A id \in DOMAIN bk : SizesIn(bk)[id] = bk[id].size /\ bk[id].size \in Nat \ {0}
<1>1. IsFiniteSet(HoldersAt(bk, at))
  BY FS_Subset DEF IsBook, HoldersAt
<1>2. \A id \in DOMAIN bk : SizesIn(bk)[id] = bk[id].size /\ bk[id].size \in Nat \ {0}
  BY DEF IsBook, SizesIn
<1>3. Weighs(SizesIn(bk), HoldersAt(bk, at))
  BY <1>2 DEF Weighs, HoldersAt
<1> QED
  BY <1>1, <1>2, <1>3

\* A level has quantity when its queue is not empty.
LEMMA TotalIs ==
  ASSUME NEW bk, IsBook(bk), NEW queue, Queues(bk, queue), NEW at \in DOMAIN queue
  PROVE  /\ TotalAt(bk, at) \in Nat /\ (TotalAt(bk, at) = 0 <=> queue[at] = <<>>)
         /\ \A id \in HoldersAt(bk, at) : bk[id].size <= TotalAt(bk, at)
<1> DEFINE S == HoldersAt(bk, at)
           w == SizesIn(bk)
<1>1. IsFiniteSet(S) /\ \A x \in S : w[x] = bk[x].size /\ w[x] \in Nat \ {0}
  BY SizesAre DEF HoldersAt
<1>2. SumOver(w, S) \in Nat /\ \A x \in S : w[x] <= SumOver(w, S)
  <2> HIDE DEF S, w
  <2> QED
    BY <1>1, SumOfNaturals
<1>3. CASE queue[at] = <<>>
  <2>1. S = {}
    <3> SUFFICES ASSUME NEW id \in S PROVE FALSE
      OBVIOUS
    <3>1. id \in DOMAIN bk /\ SpotOf(bk[id]) = at
      BY DEF HoldersAt
    <3>2. \E k \in 1..Len(queue[at]) : queue[at][k] = id
      BY <3>1 DEF Queues
    <3> QED
      BY <1>3, <3>2
  <2>2. SumOver(w, S) = 0
    BY <2>1, SumOfNone
  <2> QED
    BY <1>1, <1>2, <1>3, <2>2 DEF TotalAt
<1>4. CASE queue[at] # <<>>
  <2>1. queue[at] \in Seq(DOMAIN bk)
    BY DEF Queues
  <2>2. Len(queue[at]) \in Nat /\ Len(queue[at]) # 0
    BY <1>4, <2>1, EmptySeq, LenProperties
  <2>3. 1 \in 1..Len(queue[at])
    BY <2>2
  <2>4. queue[at][1] \in S
    BY <2>1, <2>3, ElementOfSeq DEF Queues, HoldersAt
  <2> HIDE DEF S, w
  <2>5. w[queue[at][1]] <= SumOver(w, S) /\ w[queue[at][1]] \in Nat \ {0}
    BY <1>1, <1>2, <2>4
  <2>6. SumOver(w, S) # 0
    BY <1>2, <2>5
  <2> QED
    BY <1>1, <1>2, <1>4, <2>6 DEF TotalAt, S, w
<1> QED
  BY <1>3, <1>4

\* The quantity at a price with an order more.
LEMMA TotalWith ==
  ASSUME NEW bk, IsBook(bk), NEW id \in Nat \ {0}, id \notin DOMAIN bk,
         NEW o, IsRest(o), NEW at
  PROVE  TotalAt(Widened(bk, id, o), at) = IF at = SpotOf(o) THEN TotalAt(bk, at) + o.size ELSE TotalAt(bk, at)
<1> DEFINE bk2 == Widened(bk, id, o)
           S == HoldersAt(bk, at)
           T == HoldersAt(bk2, at)
           w == SizesIn(bk)
           v == SizesIn(bk2)
<1>1. IsBook(bk2) /\ DOMAIN bk2 = DOMAIN bk \cup {id} /\ bk2[id] = o /\ \A x \in DOMAIN bk : bk2[x] = bk[x]
  BY RestingWith
<1> HIDE DEF bk2
<1>2. T = IF at = SpotOf(o) THEN S \cup {id} ELSE S
  BY <1>1 DEF HoldersAt
<1>3. IsFiniteSet(S) /\ Weighs(w, S) /\ IsFiniteSet(T) /\ Weighs(v, T)
  BY <1>1, SizesAre
<1>4. (\A x \in S : w[x] = v[x]) /\ v[id] = o.size /\ id \notin S
  BY <1>1, SizesAre DEF HoldersAt, SizesIn
<1> HIDE DEF S, T, w, v
<1>5. SumOver(w, S) = SumOver(v, S) /\ SumOver(w, S) \in Int
  BY <1>3, <1>4, SumSame, SumWithout
<1>6. CASE at = SpotOf(o)
  <2>1. id \in T /\ T \ {id} = S
    BY <1>2, <1>4, <1>6
  <2>2. SumOver(v, T) = v[id] + SumOver(v, T \ {id})
    BY <1>3, <2>1, SumWithout
  <2>3. o.size \in Int /\ SumOver(v, T) = o.size + SumOver(w, S)
    BY <1>4, <1>5, <2>1, <2>2 DEF IsRest
  <2>4. SumOver(v, T) = SumOver(w, S) + o.size
    BY <1>5, <2>3
  <2> QED
    BY <1>6, <2>4 DEF TotalAt, S, T, v, w, bk2
<1>7. CASE at # SpotOf(o)
  BY <1>2, <1>5, <1>7 DEF TotalAt, S, T, v, w, bk2
<1> QED
  BY <1>6, <1>7

\* The quantity at a price with an order less.
LEMMA TotalWithout ==
  ASSUME NEW bk, IsBook(bk), NEW id \in DOMAIN bk, NEW at
  PROVE  TotalAt(Shrunk(bk, id), at) = IF at = SpotOf(bk[id]) THEN TotalAt(bk, at) - bk[id].size ELSE TotalAt(bk, at)
<1> DEFINE bk2 == Shrunk(bk, id)
           S == HoldersAt(bk, at)
           T == HoldersAt(bk2, at)
           w == SizesIn(bk)
           v == SizesIn(bk2)
<1>1. IsBook(bk2) /\ DOMAIN bk2 = DOMAIN bk \ {id} /\ \A x \in DOMAIN bk \ {id} : bk2[x] = bk[x]
  BY RestingWithout
<1> HIDE DEF bk2
<1>2. T = S \ {id} /\ (id \in S <=> at = SpotOf(bk[id]))
  BY <1>1 DEF HoldersAt
<1>3. IsFiniteSet(S) /\ Weighs(w, S) /\ IsFiniteSet(T) /\ Weighs(v, T)
  BY <1>1, SizesAre
<1>4. (\A x \in T : v[x] = w[x]) /\ w[id] = bk[id].size /\ bk[id].size \in Nat
  BY <1>1, SizesAre DEF HoldersAt, SizesIn
<1> HIDE DEF S, T, w, v
<1>5. SumOver(v, T) = SumOver(w, T) /\ SumOver(v, T) \in Int
  BY <1>3, <1>4, SumSame, SumWithout
<1>6. CASE at = SpotOf(bk[id])
  <2>2. SumOver(w, S) = w[id] + SumOver(w, S \ {id})
    BY <1>2, <1>3, <1>6, SumWithout
  <2>3. SumOver(v, T) = SumOver(w, S) - bk[id].size
    BY <1>2, <1>4, <1>5, <2>2
  <2> QED
    BY <1>6, <2>3 DEF TotalAt, S, T, v, w, bk2
<1>7. CASE at # SpotOf(bk[id])
  <2>1. T = S
    BY <1>2, <1>7
  <2> QED
    BY <1>5, <1>7, <2>1 DEF TotalAt, S, T, v, w, bk2
<1> QED
  BY <1>6, <1>7

\* The quantity at a price with an order of another size.
LEMMA TotalSized ==
  ASSUME NEW bk, IsBook(bk), NEW id \in DOMAIN bk, NEW size \in Nat \ {0}, NEW at
  PROVE  TotalAt(Sized(bk, id, size), at) =
           IF at = SpotOf(bk[id]) THEN TotalAt(bk, at) - bk[id].size + size ELSE TotalAt(bk, at)
<1> DEFINE bk2 == Sized(bk, id, size)
           S == HoldersAt(bk, at)
           w == SizesIn(bk)
           v == SizesIn(bk2)
<1>1. /\ IsBook(bk2) /\ DOMAIN bk2 = DOMAIN bk
      /\ bk2[id] = [side |-> bk[id].side, price |-> bk[id].price, size |-> size]
      /\ \A x \in DOMAIN bk : x # id => bk2[x] = bk[x]
      /\ \A x \in DOMAIN bk : bk2[x].side = bk[x].side /\ bk2[x].price = bk[x].price
  BY RestingSized
<1> HIDE DEF bk2
<1>2. HoldersAt(bk2, at) = S /\ (id \in S <=> at = SpotOf(bk[id]))
  BY <1>1 DEF HoldersAt, SpotOf
<1>3. IsFiniteSet(S) /\ Weighs(w, S) /\ Weighs(v, S)
  BY <1>1, <1>2, SizesAre
<1>4. /\ \A x \in S : x # id => v[x] = w[x]
      /\ w[id] = bk[id].size /\ bk[id].size \in Nat /\ v[id] = size
  <2>1. \A x \in DOMAIN bk : w[x] = bk[x].size /\ bk[x].size \in Nat
    BY SizesAre
  <2>2. \A x \in DOMAIN bk : v[x] = bk2[x].size
    BY <1>1 DEF SizesIn
  <2>3. bk2[id].size = size
    BY <1>1
  <2>4. S \subseteq DOMAIN bk
    BY DEF HoldersAt
  <2> HIDE DEF S, w, v
  <2> QED
    BY <1>1, <2>1, <2>2, <2>3, <2>4
<1> HIDE DEF S, w, v
<1>5. CASE at = SpotOf(bk[id])
  <2>0. id \in S /\ IsFiniteSet(S \ {id}) /\ Weighs(w, S \ {id}) /\ \A x \in S \ {id} : w[x] = v[x]
    BY <1>2, <1>3, <1>4, <1>5, FS_RemoveElement DEF Weighs
  <2>1. SumOver(w, S \ {id}) = SumOver(v, S \ {id})
    BY <2>0, SumSame
  <2>2. SumOver(w, S) = w[id] + SumOver(w, S \ {id}) /\ SumOver(v, S) = v[id] + SumOver(v, S \ {id}) /\ SumOver(w, S \ {id}) \in Int
    BY <1>3, <2>0, SumWithout
  <2>3. SumOver(v, S) = SumOver(w, S) - bk[id].size + size
    BY <1>4, <2>1, <2>2
  <2> QED
    BY <1>2, <1>5, <2>3 DEF TotalAt, S, v, w, bk2
<1>6. CASE at # SpotOf(bk[id])
  <2>1. \A x \in S : w[x] = v[x]
    BY <1>2, <1>4, <1>6
  <2>2. SumOver(w, S) = SumOver(v, S)
    BY <1>3, <2>1, SumSame
  <2> QED
    BY <1>2, <1>6, <2>2 DEF TotalAt, S, v, w, bk2
<1> QED
  BY <1>5, <1>6

\* The level an order is added to; the other levels stay.
LEMMA LevelWith ==
  ASSUME NEW P \in Nat, NEW C, NEW b, NEW bk, NEW queue, NEW loc, Shelf(P, C, b, bk, queue, loc),
         NEW id \in Nat \ {0}, id \notin DOMAIN bk,
         NEW o, IsRest(o),
         NEW at, at = SpotOf(o), at \in DOMAIN queue, NEW n,
         NEW queue2, queue2 = LinedUp(queue, at, id)
  PROVE  /\ LevelRecord(Widened(bk, id, o), queue2, Widened(loc, id, n), at) =
              [price |-> at[2], total_qty |-> TotalAt(bk, at) + o.size,
               head_idx |-> IF HeadOf(loc, queue[at]) = NoLink THEN n ELSE HeadOf(loc, queue[at]),
               tail_idx |-> n]
         /\ \A a \in DOMAIN queue : a # at =>
              LevelRecord(Widened(bk, id, o), queue2, Widened(loc, id, n), a) = LevelRecord(bk, queue, loc, a)
<1> DEFINE bk2 == Widened(bk, id, o)
           loc2 == Widened(loc, id, n)
           q == queue[at]
           r == Append(q, id)
<1>1. \A a : TotalAt(bk2, a) = IF a = at THEN TotalAt(bk, a) + o.size ELSE TotalAt(bk, a)
  BY TotalWith DEF Shelf
<1>2. loc2[id] = n /\ \A x \in DOMAIN bk : loc2[x] = loc[x] /\ loc[x] # NoLink
  <2>1. DOMAIN loc = DOMAIN bk
    BY DEF Shelf, Located
  <2>2. \A x \in DOMAIN bk : loc[x] \in 0..(P - 1)
    BY DEF Shelf, Located
  <2> QED
    BY <2>1, <2>2 DEF Widened, NoLink
<1>3. queue2[at] = r /\ \A a \in DOMAIN queue : a # at => queue2[a] = queue[a]
  <2>1. queue2 = [queue EXCEPT ![at] = r] /\ Queues(bk, queue)
    BY DEF Shelf, LinedUp
  <2> HIDE DEF r
  <2> QED
    BY <2>1, QueueChanged
<1>4. q \in Seq(DOMAIN bk) /\ \A a \in DOMAIN queue : queue[a] \in Seq(DOMAIN bk)
  BY DEF Shelf, Queues
<1>5. Len(q) \in Nat /\ Len(r) = Len(q) + 1 /\ r[Len(q) + 1] = id /\ (\A k \in 1..Len(q) : r[k] = q[k]) /\ r # <<>>
  BY <1>4
<1> HIDE DEF bk2, loc2
<1>6. TailOf(loc2, queue2[at]) = n
  BY <1>2, <1>3, <1>5 DEF TailOf
<1>7. HeadOf(loc2, queue2[at]) = IF HeadOf(loc, q) = NoLink THEN n ELSE HeadOf(loc, q)
  <2> HIDE DEF q, r
  <2>1. CASE q = <<>>
    <3>1. r[1] = id
      BY <1>5, <2>1
    <3> QED
      BY <1>2, <1>3, <1>5, <2>1, <3>1 DEF HeadOf
  <2>2. CASE q # <<>>
    <3>1. 1 \in 1..Len(q) /\ q[1] \in DOMAIN bk
      BY <1>4, <1>5, <2>2, EmptySeq, ElementOfSeq
    <3>2. r[1] = q[1]
      BY <1>5, <3>1
    <3> QED
      BY <1>2, <1>3, <1>5, <2>2, <3>1, <3>2 DEF HeadOf
  <2> QED
    BY <2>1, <2>2
<1>8. ASSUME NEW a \in DOMAIN queue, a # at
      PROVE  TailOf(loc2, queue2[a]) = TailOf(loc, queue[a]) /\ HeadOf(loc2, queue2[a]) = HeadOf(loc, queue[a])
  <2>1. queue2[a] = queue[a] /\ queue[a] \in Seq(DOMAIN bk)
    BY <1>3, <1>4, <1>8
  <2>2. queue[a] # <<>> => queue[a][1] \in DOMAIN bk /\ queue[a][Len(queue[a])] \in DOMAIN bk
    <3> SUFFICES ASSUME queue[a] # <<>> PROVE 1 \in 1..Len(queue[a]) /\ Len(queue[a]) \in 1..Len(queue[a])
      BY <2>1, ElementOfSeq
    <3>1. Len(queue[a]) \in Nat \ {0}
      BY <2>1, EmptySeq, LenProperties
    <3> QED
      BY <3>1
  <2> QED
    BY <1>2, <2>1, <2>2 DEF TailOf, HeadOf
<1> HIDE DEF q, r
<1>9. LevelRecord(bk2, queue2, loc2, at) =
        [price |-> at[2], total_qty |-> TotalAt(bk, at) + o.size,
         head_idx |-> IF HeadOf(loc, q) = NoLink THEN n ELSE HeadOf(loc, q), tail_idx |-> n]
  BY <1>1, <1>6, <1>7 DEF LevelRecord
<1>10. \A a \in DOMAIN queue : a # at => LevelRecord(bk2, queue2, loc2, a) = LevelRecord(bk, queue, loc, a)
  BY <1>1, <1>8 DEF LevelRecord
<1> QED
  BY <1>9, <1>10 DEF bk2, loc2, q

\* The level an order leaves; the other levels stay.
LEMMA LevelWithout ==
  ASSUME NEW P \in Nat, NEW C, NEW b, NEW bk, NEW queue, NEW loc, Shelf(P, C, b, bk, queue, loc),
         NEW at \in DOMAIN queue, NEW p \in 1..Len(queue[at]), NEW id, id = queue[at][p],
         NEW next, NEW prev, next = b.nodes[loc[id]].next_idx, prev = b.nodes[loc[id]].prev_idx,
         NEW queue2, queue2 = Unlined(queue, at, p)
  PROVE  /\ LevelRecord(Shrunk(bk, id), queue2, Shrunk(loc, id), at) =
              [price |-> at[2], total_qty |-> TotalAt(bk, at) - bk[id].size,
               head_idx |-> IF prev = NoLink THEN next ELSE HeadOf(loc, queue[at]),
               tail_idx |-> IF next = NoLink THEN prev ELSE TailOf(loc, queue[at])]
         /\ \A a \in DOMAIN queue : a # at =>
              LevelRecord(Shrunk(bk, id), queue2, Shrunk(loc, id), a) = LevelRecord(bk, queue, loc, a)
<1> DEFINE bk2 == Shrunk(bk, id)
           loc2 == Shrunk(loc, id)
           q == queue[at]
           r == RemoveAt(q, p)
           m == Len(q)
<1>0. q \in Seq(DOMAIN bk) /\ id \in DOMAIN bk /\ SpotOf(bk[id]) = at /\ m \in Nat
      /\ \A k \in 1..m : q[k] \in DOMAIN bk /\ (q[k] = id => k = p)
  BY ElementOfSeq, LenProperties DEF Shelf, Queues
<1>1. \A a : TotalAt(bk2, a) = IF a = at THEN TotalAt(bk, a) - bk[id].size ELSE TotalAt(bk, a)
  BY <1>0, TotalWithout DEF Shelf
<1>2. /\ \A x \in DOMAIN bk : x # id => loc2[x] = loc[x]
      /\ \A x \in DOMAIN bk : loc[x] # NoLink
  <2>1. DOMAIN loc = DOMAIN bk
    BY DEF Shelf, Located
  <2>2. \A x \in DOMAIN bk : loc[x] \in 0..(P - 1)
    BY DEF Shelf, Located
  <2> QED
    BY <2>1, <2>2 DEF Shrunk, NoLink
<1>3. queue2[at] = r /\ \A a \in DOMAIN queue : a # at => queue2[a] = queue[a]
  <2>1. queue2 = [queue EXCEPT ![at] = r] /\ Queues(bk, queue)
    BY DEF Shelf, Unlined
  <2> HIDE DEF r
  <2> QED
    BY <2>1, QueueChanged
<1>4. \A a \in DOMAIN queue : queue[a] \in Seq(DOMAIN bk)
  BY DEF Shelf, Queues
<1>5. /\ r \in Seq(DOMAIN bk) /\ Len(r) = m - 1
      /\ \A k \in 1..(m - 1) : r[k] = q[IF k < p THEN k ELSE k + 1]
  <2> HIDE DEF q
  <2> QED
    BY <1>0, RemoveAtIs DEF m, q
<1>6. next = (IF p = m THEN NoLink ELSE loc[q[p + 1]]) /\ prev = (IF p = 1 THEN NoLink ELSE loc[q[p - 1]])
  <2>1. b.nodes[loc[id]] = LinkedNode(bk, loc, q, p)
    BY DEF Shelf, Holding
  <2>2. LinkedNode(bk, loc, q, p).next_idx = (IF p = m THEN NoLink ELSE loc[q[p + 1]])
    BY NodeIs
  <2>3. LinkedNode(bk, loc, q, p).prev_idx = (IF p = 1 THEN NoLink ELSE loc[q[p - 1]])
    BY NodeIs
  <2> QED
    BY <2>1, <2>2, <2>3
<1>7. q # <<>> /\ HeadOf(loc, q) = loc[q[1]] /\ TailOf(loc, q) = loc[q[m]] /\ p \in 1..m
  <2>1. q # <<>> /\ p \in 1..m
    OBVIOUS
  <2> QED
    BY <2>1 DEF HeadOf, TailOf
<1> HIDE DEF bk2, loc2, q, r, m
<1>8. r = <<>> <=> m = 1
  BY <1>0, <1>5, <1>7, EmptySeq
<1>9. HeadOf(loc2, r) = IF prev = NoLink THEN next ELSE HeadOf(loc, q)
  <2>1. CASE m = 1
    <3>1. p = 1 /\ p = m
      BY <1>7, <2>1
    <3>2. HeadOf(loc2, r) = NoLink
      BY <1>8, <2>1 DEF HeadOf
    <3> QED
      BY <1>6, <3>1, <3>2
  <2>2. CASE m # 1 /\ p = 1
    <3>0. m \in Nat /\ m # 1 /\ p = 1 /\ p \in 1..m
      BY <1>0, <1>7, <2>2
    <3>a. 1 \in 1..(m - 1) /\ 2 \in 1..m /\ p + 1 = 2 /\ 1 + 1 = 2 /\ ~(1 < p)
      BY <3>0
    <3>b. r[1] = q[1 + 1]
      BY <1>5, <3>a
    <3>1. 1 \in 1..(m - 1) /\ r[1] = q[2] /\ 2 \in 1..m /\ p + 1 = 2
      BY <3>a, <3>b
    <3>2. q[2] \in DOMAIN bk /\ q[2] # id
      BY <1>0, <2>2, <3>1
    <3>3. next = loc[q[2]] /\ prev = NoLink
      BY <1>6, <2>2, <3>1
    <3> QED
      BY <1>2, <1>8, <2>2, <3>1, <3>2, <3>3 DEF HeadOf
  <2>3. CASE p # 1
    <3>1. 1 \in 1..(m - 1) /\ 1 \in 1..m /\ p - 1 \in 1..m /\ 1 < p /\ m # 1
      BY <1>0, <1>7, <2>3
    <3>2. r[1] = q[1] /\ q[1] \in DOMAIN bk /\ q[1] # id /\ q[p - 1] \in DOMAIN bk
      BY <1>0, <1>5, <2>3, <3>1
    <3>3. prev # NoLink
      BY <1>2, <1>6, <2>3, <3>2
    <3> QED
      BY <1>2, <1>7, <1>8, <3>1, <3>2, <3>3 DEF HeadOf
  <2> QED
    BY <2>1, <2>2, <2>3
<1>10. TailOf(loc2, r) = IF next = NoLink THEN prev ELSE TailOf(loc, q)
  <2>1. CASE m = 1
    <3>1. p = 1 /\ p = m
      BY <1>7, <2>1
    <3>2. TailOf(loc2, r) = NoLink
      BY <1>8, <2>1 DEF TailOf
    <3> QED
      BY <1>6, <3>1, <3>2
  <2>2. CASE m # 1 /\ p = m
    <3>1. m - 1 \in 1..(m - 1) /\ m - 1 < p /\ m - 1 \in 1..m /\ m - 1 # p
      BY <1>0, <1>7, <2>2
    <3>2. r[m - 1] = q[m - 1]
      BY <1>5, <3>1
    <3>3. q[m - 1] \in DOMAIN bk /\ q[m - 1] # id
      BY <1>0, <3>1
    <3>4. next = NoLink /\ prev = loc[q[m - 1]]
      BY <1>6, <1>7, <2>2
    <3> QED
      BY <1>2, <1>5, <1>8, <2>2, <3>2, <3>3, <3>4 DEF TailOf
  <2>3. CASE p # m
    <3>0. m \in Nat /\ p # m /\ p \in 1..m
      BY <1>0, <1>7, <2>3
    <3>1. m - 1 \in 1..(m - 1) /\ ~(m - 1 < p) /\ (m - 1) + 1 = m /\ m \in 1..m /\ p + 1 \in 1..m /\ m # 1
      BY <3>0
    <3>2. r[m - 1] = q[m]
      BY <1>5, <3>1
    <3>3. q[m] \in DOMAIN bk /\ q[m] # id /\ q[p + 1] \in DOMAIN bk
      BY <1>0, <2>3, <3>1
    <3>4. next # NoLink
      BY <1>2, <1>6, <2>3, <3>3
    <3> QED
      BY <1>2, <1>5, <1>7, <1>8, <3>1, <3>2, <3>3, <3>4 DEF TailOf
  <2> QED
    BY <2>1, <2>2, <2>3
<1>11. ASSUME NEW a \in DOMAIN queue, a # at
       PROVE  TailOf(loc2, queue2[a]) = TailOf(loc, queue[a]) /\ HeadOf(loc2, queue2[a]) = HeadOf(loc, queue[a])
  <2>1. queue2[a] = queue[a] /\ queue[a] \in Seq(DOMAIN bk)
    BY <1>3, <1>4, <1>11
  <2>2. \A k \in 1..Len(queue[a]) : queue[a][k] \in DOMAIN bk /\ queue[a][k] # id
    <3> SUFFICES ASSUME NEW k \in 1..Len(queue[a]) PROVE queue[a][k] \in DOMAIN bk /\ queue[a][k] # id
      OBVIOUS
    <3>1. queue[a][k] \in DOMAIN bk
      BY <2>1, ElementOfSeq
    <3>2. SpotOf(bk[queue[a][k]]) = a
      BY DEF Shelf, Queues
    <3> QED
      BY <1>0, <1>11, <3>1, <3>2
  <2>3. queue[a] # <<>> => 1 \in 1..Len(queue[a]) /\ Len(queue[a]) \in 1..Len(queue[a])
    <3> SUFFICES ASSUME queue[a] # <<>> PROVE 1 \in 1..Len(queue[a]) /\ Len(queue[a]) \in 1..Len(queue[a])
      OBVIOUS
    <3>1. Len(queue[a]) \in Nat \ {0}
      BY <2>1, EmptySeq, LenProperties
    <3> QED
      BY <3>1
  <2> QED
    BY <1>2, <2>1, <2>2, <2>3 DEF TailOf, HeadOf
<1>12. LevelRecord(bk2, queue2, loc2, at) =
         [price |-> at[2], total_qty |-> TotalAt(bk, at) - bk[id].size,
          head_idx |-> IF prev = NoLink THEN next ELSE HeadOf(loc, q),
          tail_idx |-> IF next = NoLink THEN prev ELSE TailOf(loc, q)]
  BY <1>1, <1>3, <1>9, <1>10 DEF LevelRecord
<1>13. \A a \in DOMAIN queue : a # at => LevelRecord(bk2, queue2, loc2, a) = LevelRecord(bk, queue, loc, a)
  BY <1>1, <1>11 DEF LevelRecord
<1> QED
  BY <1>12, <1>13 DEF bk2, loc2, q

\* The level of an order that changes its size; the other levels stay.
LEMMA LevelSized ==
  ASSUME NEW bk, IsBook(bk), NEW queue, NEW loc, NEW id \in DOMAIN bk, NEW size \in Nat \ {0},
         NEW at, at = SpotOf(bk[id])
  PROVE  /\ LevelRecord(Sized(bk, id, size), queue, loc, at) =
              [price |-> at[2], total_qty |-> TotalAt(bk, at) - bk[id].size + size,
               head_idx |-> HeadOf(loc, queue[at]), tail_idx |-> TailOf(loc, queue[at])]
         /\ \A a : a # at => LevelRecord(Sized(bk, id, size), queue, loc, a) = LevelRecord(bk, queue, loc, a)
  BY TotalSized DEF LevelRecord

---------------------------------------------------------------------------
(* What the models read off a shelf. *)

\* The greatest of some places is one of them.
LEMMA MaxInside ==
  ASSUME NEW n \in Nat, NEW T \in SUBSET (1..n), T # {}
  PROVE  Max(T) \in 1..n
<1>1. IsFiniteSet(T)
  <2>1. IsFiniteSet(1..n)
    BY FS_Interval
  <2> QED
    BY <2>1, FS_Subset
<1>2. T \in SUBSET Int
  OBVIOUS
<1> QED
  BY <1>1, <1>2, GreatestElement

\* Those of a queue that are among some ids, in their order.
KeptIn(q, ids) == FoldLeft(LAMBDA kept, id : IF id \in ids THEN Append(kept, id) ELSE kept, <<>>, q)

\* The states of the walk that keeps some of a sequence.
LEMMA KeptTrace ==
  ASSUME NEW D, <<>> \in D, NEW X, NEW s \in Seq(X), NEW ids,
         \A w \in D, y \in X : (IF y \in ids THEN Append(w, y) ELSE w) \in D
  PROVE  \E W : /\ W[0] = <<>>
                /\ \A k \in 1..Len(s) : W[k] = (IF s[k] \in ids THEN Append(W[k - 1], s[k]) ELSE W[k - 1])
                /\ KeptIn(s, ids) = W[Len(s)]
                /\ \A k \in 0..Len(s) : W[k] \in D
<1> DEFINE base == <<>>
           n == Len(s)
           step == [a \in D \X (1..n) |-> (IF s[a[2]] \in ids THEN Append(a[1], s[a[2]]) ELSE a[1])]
           f == CHOOSE g : g = [T \in SUBSET (DOMAIN s) |->
                  IF T = {} THEN base ELSE (IF s[Max(T)] \in ids THEN Append(g[T \ {Max(T)}], s[Max(T)]) ELSE g[T \ {Max(T)}])]
           W == [k \in 0..n |-> f[1..k]]
<1>1. n \in Nat /\ DOMAIN s = 1..n /\ \A k \in 1..n : s[k] \in X
  OBVIOUS
<1>2. KeptIn(s, ids) = f[DOMAIN s]
  BY DEF KeptIn, FoldLeft, MapThenFoldSet
<1> HIDE DEF n
<1>3. step \in [D \X (1..n) -> D] /\ \A w \in D, k \in 1..n : step[<<w, k>>] = (IF s[k] \in ids THEN Append(w, s[k]) ELSE w)
  BY <1>1
<1> HIDE DEF step
<1>4. PICK g : FoldsUp(g, n, base, step) /\ \A T \in SUBSET (1..n) : g[T] \in D
  <2>1. n \in Nat /\ step \in [D \X (1..n) -> D]
    BY <1>1, <1>3
  <2> HIDE DEF W, f
  <2> QED
    BY <2>1, FoldUp
<1>5. \A T \in SUBSET (1..n) : T # {} => Max(T) \in 1..n
  BY <1>1, MaxInside
<1>6. g = [T \in SUBSET (DOMAIN s) |->
             IF T = {} THEN base ELSE (IF s[Max(T)] \in ids THEN Append(g[T \ {Max(T)}], s[Max(T)]) ELSE g[T \ {Max(T)}])]
  <2>1. ASSUME NEW T \in SUBSET (1..n), T # {}
        PROVE  step[<<g[T \ {Max(T)}], Max(T)>>] = (IF s[Max(T)] \in ids THEN Append(g[T \ {Max(T)}], s[Max(T)]) ELSE g[T \ {Max(T)}])
    <3>1. T \ {Max(T)} \in SUBSET (1..n)
      OBVIOUS
    <3> QED
      BY <1>3, <1>4, <1>5, <2>1, <3>1
  <2> QED
    BY <1>1, <1>4, <2>1 DEF FoldsUp
<1>7. f = [T \in SUBSET (DOMAIN s) |->
             IF T = {} THEN base ELSE (IF s[Max(T)] \in ids THEN Append(f[T \ {Max(T)}], s[Max(T)]) ELSE f[T \ {Max(T)}])]
  BY <1>6, Zenon
<1> HIDE DEF f
<1>8. f[1..0] = base
  BY <1>1, <1>7, Segments
<1>9. ASSUME NEW k \in 1..n PROVE f[1..k] = (IF s[k] \in ids THEN Append(f[1..(k - 1)], s[k]) ELSE f[1..(k - 1)])
  <2>1. Max(1..k) = k /\ (1..k) \ {k} = 1..(k - 1) /\ 1..k # {} /\ 1..k \in SUBSET (DOMAIN s)
    <3>1. k \in Nat /\ k # 0 /\ 1..k \in SUBSET (1..n)
      BY <1>1
    <3> QED
      BY <1>1, <3>1, Segments
  <2>2. f[1..k] = (IF s[Max(1..k)] \in ids THEN Append(f[(1..k) \ {Max(1..k)}], s[Max(1..k)]) ELSE f[(1..k) \ {Max(1..k)}])
    BY <1>7, <2>1, Zenon
  <2> QED
    BY <2>1, <2>2
<1>10. /\ W[0] = <<>>
       /\ \A k \in 1..n : W[k] = (IF s[k] \in ids THEN Append(W[k - 1], s[k]) ELSE W[k - 1])
       /\ W[n] = f[DOMAIN s]
  <2>1. \A k \in 0..n : W[k] = f[1..k]
    OBVIOUS
  <2>2. 0 \in 0..n /\ n \in 0..n /\ \A k \in 1..n : k \in 0..n /\ k - 1 \in 0..n
    BY <1>1
  <2> HIDE DEF W
  <2> QED
    BY <1>1, <1>8, <1>9, <2>1, <2>2
<1>11. \A k \in 0..n : W[k] \in D
  <2> DEFINE G == {k \in Nat : k <= n => W[k] \in D}
  <2> HIDE DEF W
  <2>1. 0 \in G
    BY <1>10
  <2>2. ASSUME NEW k \in Nat, k \in G PROVE k + 1 \in G
    <3> SUFFICES ASSUME k + 1 <= n PROVE W[k + 1] \in D
      OBVIOUS
    <3>1. k + 1 \in 1..n /\ (k + 1) - 1 = k /\ W[k] \in D /\ s[k + 1] \in X
      BY <1>1, <2>2
    <3> DEFINE w == W[k]
               y == s[k + 1]
    <3>2. W[k + 1] = (IF y \in ids THEN Append(w, y) ELSE w)
      BY <1>10, <3>1
    <3> HIDE DEF w, y
    <3>3. (IF y \in ids THEN Append(w, y) ELSE w) \in D
      BY <3>1 DEF w, y
    <3> QED
      BY <3>2, <3>3
  <2> HIDE DEF G
  <2>3. Nat \subseteq G
    BY <2>1, <2>2, NumberInduction
  <2> QED
    BY <1>1, <2>3 DEF G
<1> QED
  BY <1>2, <1>10, <1>11 DEF n

\* W is the walk that keeps some of a sequence.
KeptBy(W, X, q, ids) ==
  /\ W[0] = <<>>
  /\ \A k \in 1..Len(q) : W[k] = (IF q[k] \in ids THEN Append(W[k - 1], q[k]) ELSE W[k - 1])
  /\ KeptIn(q, ids) = W[Len(q)]
  /\ \A k \in 0..Len(q) : W[k] \in Seq(X)

\* There is that walk.
LEMMA KeptWalk ==
  ASSUME NEW X, NEW q \in Seq(X), NEW ids
  PROVE  \E W : KeptBy(W, X, q, ids)
<1> DEFINE D == Seq(X)
<1>1. <<>> \in D /\ \A w \in D, y \in X : (IF y \in ids THEN Append(w, y) ELSE w) \in D
  OBVIOUS
<1> HIDE DEF D
<1>2. \E W : /\ W[0] = <<>>
             /\ \A k \in 1..Len(q) : W[k] = (IF q[k] \in ids THEN Append(W[k - 1], q[k]) ELSE W[k - 1])
             /\ KeptIn(q, ids) = W[Len(q)]
             /\ \A k \in 0..Len(q) : W[k] \in D
  BY <1>1, KeptTrace
<1> QED
  BY <1>2 DEF KeptBy, D

\* A queue stays whole, goes, or loses the one that does not stay.
LEMMA KeptIs ==
  ASSUME NEW X, NEW q \in Seq(X), NEW ids
  PROVE  /\ (\A k \in 1..Len(q) : q[k] \in ids) => KeptIn(q, ids) = q
         /\ (\A k \in 1..Len(q) : q[k] \notin ids) => KeptIn(q, ids) = <<>>
         /\ \A p \in 1..Len(q) : (\A k \in 1..Len(q) : q[k] \in ids <=> k # p) => KeptIn(q, ids) = RemoveAt(q, p)
<1> DEFINE n == Len(q)
           D == Seq(X)
<1>1. n \in Nat /\ \A k \in 1..n : q[k] \in X
  BY ElementOfSeq, LenProperties
<1>2. PICK W : /\ W[0] = <<>>
               /\ \A k \in 1..n : W[k] = (IF q[k] \in ids THEN Append(W[k - 1], q[k]) ELSE W[k - 1])
               /\ KeptIn(q, ids) = W[n]
               /\ \A k \in 0..n : W[k] \in D
  <2>1. <<>> \in D /\ \A w \in D, y \in X : (IF y \in ids THEN Append(w, y) ELSE w) \in D
    OBVIOUS
  <2> HIDE DEF D
  <2> QED
    BY <2>1, KeptTrace
<1> HIDE DEF n
<1>3. ASSUME \A k \in 1..n : q[k] \in ids PROVE W[n] = q
  <2> DEFINE G == {k \in Nat : k <= n => Len(W[k]) = k /\ \A j \in 1..k : W[k][j] = q[j]}
  <2>1. 0 \in G
    BY <1>2
  <2>2. ASSUME NEW k \in Nat, k \in G PROVE k + 1 \in G
    <3> SUFFICES ASSUME k + 1 <= n PROVE Len(W[k + 1]) = k + 1 /\ \A j \in 1..(k + 1) : W[k + 1][j] = q[j]
      OBVIOUS
    <3>1. k + 1 \in 1..n /\ (k + 1) - 1 = k /\ k \in 0..n /\ k <= n
      BY <1>1
    <3>2. Len(W[k]) = k /\ \A j \in 1..k : W[k][j] = q[j]
      BY <2>2, <3>1
    <3>3. W[k + 1] = Append(W[k], q[k + 1]) /\ W[k] \in D /\ q[k + 1] \in X
      BY <1>1, <1>2, <1>3, <3>1
    <3> DEFINE w == W[k]
               y == q[k + 1]
    <3>4. /\ Len(Append(w, y)) = Len(w) + 1 /\ Append(w, y)[Len(w) + 1] = y
          /\ \A j \in 1..Len(w) : Append(w, y)[j] = w[j]
      BY <3>3
    <3> HIDE DEF w, y
    <3>5. Len(w) = k /\ \A j \in 1..(k + 1) : j = k + 1 \/ j \in 1..k
      BY <3>2 DEF w
    <3> QED
      BY <3>2, <3>3, <3>4, <3>5 DEF w, y
  <2> HIDE DEF G
  <2>3. n \in G
    BY <1>1, <2>1, <2>2, NumberInduction
  <2>4. Len(W[n]) = n /\ (\A j \in 1..n : W[n][j] = q[j]) /\ W[n] \in D
    BY <1>1, <1>2, <2>3 DEF G
  <2> QED
    BY <2>4, SeqEqual DEF n
<1>4. ASSUME \A k \in 1..n : q[k] \notin ids PROVE W[n] = <<>>
  <2> DEFINE G == {k \in Nat : k <= n => W[k] = <<>>}
  <2>1. 0 \in G
    BY <1>2
  <2>2. ASSUME NEW k \in Nat, k \in G PROVE k + 1 \in G
    <3> SUFFICES ASSUME k + 1 <= n PROVE W[k + 1] = <<>>
      OBVIOUS
    <3>1. k + 1 \in 1..n /\ (k + 1) - 1 = k /\ k <= n
      BY <1>1
    <3> QED
      BY <1>2, <1>4, <2>2, <3>1
  <2> HIDE DEF G
  <2>3. n \in G
    BY <1>1, <2>1, <2>2, NumberInduction
  <2> QED
    BY <1>1, <2>3 DEF G
<1>5. ASSUME NEW p \in 1..n, \A k \in 1..n : q[k] \in ids <=> k # p PROVE W[n] = RemoveAt(q, p)
  <2> DEFINE len(k) == IF k < p THEN k ELSE k - 1
             G == {k \in Nat : k <= n => /\ Len(W[k]) = len(k)
                                         /\ \A j \in 1..len(k) : W[k][j] = q[IF j < p THEN j ELSE j + 1]}
  <2>1. 0 \in G
    <3>1. Len(W[0]) = 0 /\ len(0) = 0
      BY <1>2
    <3> QED
      BY <3>1
  <2>2. ASSUME NEW k \in Nat, k \in G PROVE k + 1 \in G
    <3> SUFFICES ASSUME k + 1 <= n
                 PROVE  Len(W[k + 1]) = len(k + 1) /\ \A j \in 1..len(k + 1) : W[k + 1][j] = q[IF j < p THEN j ELSE j + 1]
      OBVIOUS
    <3>1. k + 1 \in 1..n /\ (k + 1) - 1 = k /\ k \in 0..n /\ k <= n
      BY <1>1
    <3>2. Len(W[k]) = len(k) /\ \A j \in 1..len(k) : W[k][j] = q[IF j < p THEN j ELSE j + 1]
      BY <2>2, <3>1
    <3>3. W[k] \in D /\ q[k + 1] \in X
      BY <1>1, <1>2, <3>1
    <3>4. CASE k + 1 = p
      <4>1. W[k + 1] = W[k]
        BY <1>2, <1>5, <3>1, <3>4
      <4>2. len(k + 1) = len(k)
        BY <3>4
      <4> HIDE DEF len
      <4> QED
        BY <3>2, <4>1, <4>2
    <3>5. CASE k + 1 # p
      <4>1. W[k + 1] = Append(W[k], q[k + 1])
        BY <1>2, <1>5, <3>1, <3>5
      <4> DEFINE w == W[k]
                 y == q[k + 1]
      <4>2. /\ Len(Append(w, y)) = Len(w) + 1 /\ Append(w, y)[Len(w) + 1] = y
            /\ \A j \in 1..Len(w) : Append(w, y)[j] = w[j]
        BY <3>3
      <4>3. /\ len(k + 1) = len(k) + 1 /\ \A j \in 1..(len(k) + 1) : j = len(k) + 1 \/ j \in 1..len(k)
            /\ (IF len(k) + 1 < p THEN len(k) + 1 ELSE (len(k) + 1) + 1) = k + 1
        BY <3>5
      <4> HIDE DEF w, y, len
      <4>4. Len(w) = len(k)
        BY <3>2 DEF w
      <4>5. q[IF len(k) + 1 < p THEN len(k) + 1 ELSE (len(k) + 1) + 1] = y
        BY <4>3 DEF y
      <4> QED
        BY <3>2, <4>1, <4>2, <4>3, <4>4, <4>5 DEF w, y
    <3> QED
      BY <3>4, <3>5
  <2> HIDE DEF G
  <2>3. n \in G
    BY <1>1, <2>1, <2>2, NumberInduction
  <2>4. Len(W[n]) = n - 1 /\ (\A j \in 1..(n - 1) : W[n][j] = q[IF j < p THEN j ELSE j + 1]) /\ W[n] \in D
    <3>1. len(n) = n - 1 /\ n \in 0..n /\ n <= n
      BY <1>1, <1>5
    <3> HIDE DEF len
    <3>2. Len(W[n]) = len(n) /\ \A j \in 1..len(n) : W[n][j] = q[IF j < p THEN j ELSE j + 1]
      BY <2>3, <3>1 DEF G
    <3> QED
      BY <1>2, <3>1, <3>2
  <2>5. /\ RemoveAt(q, p) \in D /\ Len(RemoveAt(q, p)) = n - 1
        /\ \A k \in 1..(n - 1) : RemoveAt(q, p)[k] = q[IF k < p THEN k ELSE k + 1]
    BY <1>5, RemoveAtIs DEF n
  <2> DEFINE r == RemoveAt(q, p)
             w == W[n]
  <2>6. w \in Seq(X) /\ r \in Seq(X) /\ Len(w) = Len(r) /\ Len(w) = n - 1
        /\ \A k \in 1..(n - 1) : w[k] = r[k]
    BY <2>4, <2>5
  <2> HIDE DEF r, w
  <2>7. w = r
    BY <2>6, SeqEqual
  <2> QED
    BY <2>7 DEF r, w
<1> QED
  BY <1>2, <1>3, <1>4, <1>5 DEF n

---------------------------------------------------------------------------
\* The nodes met from a head on, following at most P links.
NodesMet(P, nodes, head) ==
  LET upto[k \in 0..P] ==
        LET q == upto[k - 1]
            n == IF k = 1 THEN head ELSE IF q = <<>> THEN NoLink ELSE nodes[Last(q)].next_idx
        IN  IF k = 0 THEN <<>> ELSE IF n = NoLink THEN q ELSE Append(q, n)
  IN  upto[P]

\* The nodes c are linked from the head on.
LinkedFrom(head, nodes, c) ==
  /\ head = IF c = <<>> THEN NoLink ELSE c[1]
  /\ \A k \in 1..Len(c) : nodes[c[k]].next_idx = IF k = Len(c) THEN NoLink ELSE c[k + 1]

\* One more link of those that P allow is followed.
Further(nodes, head, q, k) ==
  LET n == IF k = 1 THEN head ELSE IF q = <<>> THEN NoLink ELSE nodes[Last(q)].next_idx
  IN  IF k = 0 THEN <<>> ELSE IF n = NoLink THEN q ELSE Append(q, n)

FirstOf(c, k) == SubSeq(c, 1, IF k < Len(c) THEN k ELSE Len(c))

\* The first elements of a sequence.
LEMMA FirstOfIs ==
  ASSUME NEW X, NEW c \in Seq(X), NEW k \in Nat
  PROVE  /\ FirstOf(c, k) \in Seq(X) /\ Len(FirstOf(c, k)) = IF k < Len(c) THEN k ELSE Len(c)
         /\ \A j \in 1..Len(FirstOf(c, k)) : FirstOf(c, k)[j] = c[j]
<1> DEFINE n == IF k < Len(c) THEN k ELSE Len(c)
           r == SubSeq(c, 1, n)
<1>1. n \in Nat /\ n <= Len(c) /\ \A j \in 1..Len(c) : c[j] \in X
  BY LenProperties, ElementOfSeq
<1>2. n = IF k < Len(c) THEN k ELSE Len(c)
  OBVIOUS
<1> HIDE DEF n
<1>3. 1 \in Int /\ n \in Int /\ \A j \in 1..n : c[j] \in X
  BY <1>1
<1>4. r \in Seq(X) /\ Len(r) = (IF 1 <= n THEN n - 1 + 1 ELSE 0) /\ \A j \in 1..(n - 1 + 1) : r[j] = c[1 + j - 1]
  BY <1>3, SubSeqProperties
<1> HIDE DEF r
<1>5. r \in Seq(X) /\ Len(r) = n /\ \A j \in 1..n : r[j] = c[j]
  <2>1. Len(r) = n
    BY <1>1, <1>4
  <2>2. ASSUME NEW j \in 1..n PROVE r[j] = c[j]
    <3>1. j \in 1..(n - 1 + 1) /\ 1 + j - 1 = j
      BY <1>1
    <3> QED
      BY <1>4, <3>1
  <2> QED
    BY <1>4, <2>1, <2>2
<1>6. FirstOf(c, k) = r
  BY <1>2 DEF FirstOf, r
<1> QED
  BY <1>2, <1>5, <1>6

\* Each link leads one node further, until the last.
LEMMA FurtherIs ==
  ASSUME NEW c \in Seq(Nat), NEW nodes, NEW head, LinkedFrom(head, nodes, c), NEW k \in Nat \ {0}
  PROVE  FirstOf(c, k) = Further(nodes, head, FirstOf(c, k - 1), k)
<1> DEFINE m == Len(c)
           q == FirstOf(c, k - 1)
           r == FirstOf(c, k)
           n == IF k = 1 THEN head ELSE IF q = <<>> THEN NoLink ELSE nodes[Last(q)].next_idx
<1>1. m \in Nat /\ (m = 0 <=> c = <<>>) /\ k - 1 \in Nat /\ \A j \in 1..m : c[j] \in Nat
  BY EmptySeq, LenProperties, ElementOfSeq
<1>2. q \in Seq(Nat) /\ Len(q) = (IF k - 1 < m THEN k - 1 ELSE m) /\ \A j \in 1..Len(q) : q[j] = c[j]
  BY <1>1, FirstOfIs
<1>3. r \in Seq(Nat) /\ Len(r) = (IF k < m THEN k ELSE m) /\ \A j \in 1..Len(r) : r[j] = c[j]
  BY <1>1, FirstOfIs
<1>4. Further(nodes, head, q, k) = IF n = NoLink THEN q ELSE Append(q, n)
  BY DEF Further
<1>5. head = (IF c = <<>> THEN NoLink ELSE c[1])
      /\ \A j \in 1..m : nodes[c[j]].next_idx = IF j = m THEN NoLink ELSE c[j + 1]
  BY DEF LinkedFrom
<1> HIDE DEF q, r, m
<1>6. k # 1 /\ q # <<>> => Last(q) = c[Len(q)] /\ Len(q) \in 1..m
  <2> SUFFICES ASSUME k # 1, q # <<>> PROVE Last(q) = c[Len(q)] /\ Len(q) \in 1..m
    OBVIOUS
  <2>1. Len(q) \in Nat \ {0} /\ Last(q) = q[Len(q)]
    BY <1>2, FrontIs
  <2>2. Len(q) \in 1..Len(q) /\ Len(q) \in 1..m
    BY <1>1, <1>2, <2>1
  <2> QED
    BY <1>2, <2>1, <2>2
<1>7. q = <<>> <=> Len(q) = 0
  BY <1>2, EmptySeq
<1>8. CASE k <= m
  <2>1. n = c[k] /\ c[k] \in Nat
    <3>1. k \in 1..m
      BY <1>8
    <3>2. CASE k = 1
      BY <1>1, <1>5, <3>1, <3>2
    <3>3. CASE k # 1
      <4>1. Len(q) = k - 1 /\ k - 1 # 0 /\ k - 1 # m /\ (k - 1) + 1 = k
        BY <1>1, <1>2, <1>8, <3>3
      <4>2. q # <<>>
        BY <1>7, <4>1
      <4>3. Last(q) = c[k - 1] /\ k - 1 \in 1..m
        BY <1>6, <3>3, <4>1, <4>2
      <4>4. nodes[c[k - 1]].next_idx = c[k]
        BY <1>5, <4>1, <4>3
      <4> QED
        BY <1>1, <3>1, <3>3, <4>2, <4>3, <4>4
    <3> QED
      BY <3>2, <3>3
  <2>2. n # NoLink
    BY <2>1 DEF NoLink
  <2> HIDE DEF n
  <2>3. /\ Append(q, n) \in Seq(Nat) /\ Len(Append(q, n)) = Len(q) + 1 /\ Append(q, n)[Len(q) + 1] = n
        /\ \A j \in 1..Len(q) : Append(q, n)[j] = q[j]
    BY <1>2, <2>1
  <2> DEFINE s == Append(q, n)
  <2>4. Len(q) = k - 1 /\ Len(r) = k /\ Len(q) + 1 = k
    BY <1>1, <1>2, <1>3, <1>8
  <2> HIDE DEF s
  <2>5. s \in Seq(Nat) /\ Len(s) = k /\ s[k] = n /\ \A j \in 1..(k - 1) : s[j] = q[j]
    BY <2>3, <2>4 DEF s
  <2>6. \A j \in 1..k : s[j] = r[j]
    <3> SUFFICES ASSUME NEW j \in 1..k PROVE s[j] = r[j]
      OBVIOUS
    <3>1. r[j] = c[j]
      BY <1>3, <2>4
    <3>2. CASE j = k
      BY <2>1, <2>5, <3>1, <3>2
    <3>3. CASE j # k
      <4>1. j \in 1..(k - 1)
        BY <3>3
      <4> QED
        BY <1>2, <2>4, <2>5, <3>1, <4>1
    <3> QED
      BY <3>2, <3>3
  <2>7. s = r
    BY <1>3, <2>4, <2>5, <2>6, SeqEqual
  <2> QED
    BY <1>4, <2>2, <2>7 DEF s, r, q
<1>9. CASE ~(k <= m)
  <2>1. n = NoLink
    <3>1. CASE k = 1
      <4>1. m = 0
        BY <1>1, <1>9, <3>1
      <4> QED
        BY <1>1, <1>5, <3>1, <4>1
    <3>2. CASE k # 1 /\ q # <<>>
      <4>1. Len(q) = m
        BY <1>1, <1>2, <1>9
      <4> QED
        BY <1>5, <1>6, <3>2, <4>1
    <3> QED
      BY <3>1, <3>2
  <2>2. Len(q) = m /\ Len(r) = m
    BY <1>1, <1>2, <1>3, <1>9
  <2>3. q = r
    BY <1>2, <1>3, <2>2, SeqEqual
  <2> QED
    BY <1>4, <2>1, <2>3 DEF r, q
<1> QED
  BY <1>1, <1>8, <1>9

\* The linked nodes are met one after the other.
LEMMA MetIs ==
  ASSUME NEW P \in Nat, NEW c \in Seq(Nat), Len(c) <= P, NEW nodes, NEW head, LinkedFrom(head, nodes, c)
  PROVE  NodesMet(P, nodes, head) = c
<1> DEFINE f == CHOOSE upto : upto = [k \in 0..P |->
                  LET q == upto[k - 1]
                      n == IF k = 1 THEN head ELSE IF q = <<>> THEN NoLink ELSE nodes[Last(q)].next_idx
                  IN  IF k = 0 THEN <<>> ELSE IF n = NoLink THEN q ELSE Append(q, n)]
           g == [k \in 0..P |-> FirstOf(c, k)]
<1>1. NodesMet(P, nodes, head) = f[P]
  BY DEF NodesMet
<1>2. FirstOf(c, 0) = <<>>
  <2>1. FirstOf(c, 0) \in Seq(Nat) /\ Len(FirstOf(c, 0)) = IF 0 < Len(c) THEN 0 ELSE Len(c)
    BY FirstOfIs
  <2>2. Len(c) \in Nat
    BY LenProperties
  <2> QED
    BY <2>1, <2>2, EmptySeq
<1>3. \A k \in 0..P : g[k] = IF k = 0 THEN <<>> ELSE Further(nodes, head, g[k - 1], k)
  <2> SUFFICES ASSUME NEW k \in 0..P PROVE g[k] = IF k = 0 THEN <<>> ELSE Further(nodes, head, g[k - 1], k)
    OBVIOUS
  <2>1. CASE k = 0
    BY <1>2, <2>1
  <2>2. CASE k # 0
    <3>1. k \in Nat \ {0} /\ k - 1 \in 0..P
      BY <2>2
    <3> QED
      BY <2>2, <3>1, FurtherIs
  <2> QED
    BY <2>1, <2>2
<1>4. \A k \in 0..P : g[k] = Further(nodes, head, g[k - 1], k)
  BY <1>3 DEF Further
<1>5. g = [k \in 0..P |-> Further(nodes, head, g[k - 1], k)]
  <2>1. g = [k \in 0..P |-> g[k]]
    OBVIOUS
  <2> HIDE DEF g
  <2> QED
    BY <1>4, <2>1
<1> HIDE DEF g
<1>6. f = [k \in 0..P |->
             LET q == f[k - 1]
                 n == IF k = 1 THEN head ELSE IF q = <<>> THEN NoLink ELSE nodes[Last(q)].next_idx
             IN  IF k = 0 THEN <<>> ELSE IF n = NoLink THEN q ELSE Append(q, n)]
  BY <1>5, Zenon DEF Further
<1> HIDE DEF f
<1>7. f = [k \in 0..P |-> Further(nodes, head, f[k - 1], k)]
  BY <1>6, Zenon DEF Further
<1>8. \A k \in 0..P : f[k] = g[k]
  <2> DEFINE G == {k \in Nat : k <= P => f[k] = g[k]}
  <2>1. 0 \in G
    <3>1. \A q : Further(nodes, head, q, 0) = <<>>
      BY DEF Further
    <3>2. f[0] = <<>>
      BY <1>7, <3>1
    <3>3. g[0] = <<>>
      BY <1>4, <3>1
    <3> QED
      BY <3>2, <3>3
  <2>2. ASSUME NEW k \in Nat, k \in G PROVE k + 1 \in G
    <3> SUFFICES ASSUME k + 1 <= P PROVE f[k + 1] = g[k + 1]
      OBVIOUS
    <3>1. k + 1 \in 0..P /\ (k + 1) - 1 = k /\ k <= P
      OBVIOUS
    <3>2. f[k] = g[k]
      BY <2>2, <3>1
    <3>3. f[k + 1] = Further(nodes, head, f[(k + 1) - 1], k + 1) /\ g[k + 1] = Further(nodes, head, g[(k + 1) - 1], k + 1)
      BY <1>4, <1>7, <3>1
    <3> QED
      BY <3>1, <3>2, <3>3
  <2> HIDE DEF G
  <2>3. Nat \subseteq G
    BY <2>1, <2>2, NumberInduction
  <2> QED
    BY <2>3 DEF G
<1>9. g[P] = c
  <2>1. g[P] = FirstOf(c, P)
    BY DEF g
  <2>2. FirstOf(c, P) \in Seq(Nat) /\ Len(FirstOf(c, P)) = Len(c) /\ \A j \in 1..Len(c) : FirstOf(c, P)[j] = c[j]
    <3>1. /\ FirstOf(c, P) \in Seq(Nat) /\ Len(FirstOf(c, P)) = IF P < Len(c) THEN P ELSE Len(c)
          /\ \A j \in 1..Len(FirstOf(c, P)) : FirstOf(c, P)[j] = c[j]
      BY FirstOfIs
    <3>2. Len(c) \in Nat
      BY LenProperties
    <3> QED
      BY <3>1, <3>2
  <2> QED
    BY <2>1, <2>2, SeqEqual
<1> QED
  BY <1>1, <1>8, <1>9

\* No queue is longer than the pool is large.
LEMMA LenWithin ==
  ASSUME NEW P \in Nat, NEW b, NEW bk, NEW queue, NEW loc, Queues(bk, queue), Located(P, b, bk, loc),
         NEW at \in DOMAIN queue
  PROVE  Len(queue[at]) \in Nat /\ Len(queue[at]) <= P
<1> DEFINE m == Len(queue[at])
           S == 0..(P - 1)
           f == [k \in 1..m |-> loc[queue[at][k]]]
<1>1. m \in Nat
  BY LenProperties DEF Queues
<1>2. \A j \in 1..m : loc[queue[at][j]] \in S
  BY PlacesDiffer
<1>3. \A j, k \in 1..m : loc[queue[at][j]] = loc[queue[at][k]] => j = k
  BY PlacesDiffer
<1>4. f \in Injection(1..m, S)
  <2>1. f \in [1..m -> S] /\ \A j \in 1..m : f[j] = loc[queue[at][j]]
    BY <1>2
  <2> HIDE DEF f
  <2>2. \A j, k \in 1..m : f[j] = f[k] => j = k
    BY <1>3, <2>1
  <2> QED
    BY <2>1, <2>2 DEF Injection, IsInjective
<1>5. IsFiniteSet(S) /\ Cardinality(S) = P
  <2>1. 0 \in Int /\ P - 1 \in Int
    OBVIOUS
  <2>2. IsFiniteSet(S) /\ Cardinality(S) = IF 0 > P - 1 THEN 0 ELSE (P - 1) - 0 + 1
    BY <2>1, FS_Interval
  <2> QED
    BY <2>2
<1>6. IsFiniteSet(1..m) /\ Cardinality(1..m) = m
  <2>1. 1 \in Int /\ m \in Int
    BY <1>1
  <2>2. IsFiniteSet(1..m) /\ Cardinality(1..m) = IF 1 > m THEN 0 ELSE m - 1 + 1
    BY <2>1, FS_Interval
  <2> QED
    BY <1>1, <2>2
<1> HIDE DEF m, S, f
<1>7. Cardinality(1..m) <= Cardinality(S)
  BY <1>4, <1>5, <1>6, FS_Injection
<1> QED
  BY <1>1, <1>5, <1>6, <1>7 DEF m

\* The nodes of a queue's orders.
NodesOf(loc, q) == [k \in 1..Len(q) |-> loc[q[k]]]

\* The nodes of a queue are met from its head on, and the last of them is its tail.
LEMMA ChainIs ==
  ASSUME NEW P \in Nat, NEW C, NEW b, NEW bk, NEW queue, NEW loc, Shelf(P, C, b, bk, queue, loc),
         NEW at \in DOMAIN queue
  PROVE  /\ NodesOf(loc, queue[at]) \in Seq(0..(P - 1)) /\ Len(NodesOf(loc, queue[at])) = Len(queue[at])
         /\ \A k \in 1..Len(queue[at]) : NodesOf(loc, queue[at])[k] = loc[queue[at][k]]
         /\ NodesMet(P, b.nodes, HeadOf(loc, queue[at])) = NodesOf(loc, queue[at])
         /\ TailOf(loc, queue[at]) = IF NodesOf(loc, queue[at]) = <<>> THEN NoLink ELSE Last(NodesOf(loc, queue[at]))
<1> DEFINE q == queue[at]
           m == Len(q)
           c == NodesOf(loc, q)
           head == HeadOf(loc, q)
<1>1. m \in Nat /\ m <= P /\ (q = <<>> <=> m = 0)
  <2>1. q \in Seq(DOMAIN bk)
    BY DEF Shelf, Queues
  <2> QED
    BY <2>1, LenWithin, EmptySeq DEF Shelf
<1>2. \A k \in 1..m : loc[q[k]] \in 0..(P - 1)
  BY PlacesDiffer DEF Shelf
<1>3. c \in Seq(0..(P - 1)) /\ Len(c) = m /\ \A k \in 1..m : c[k] = loc[q[k]]
  <2>1. c = [k \in 1..m |-> loc[q[k]]]
    BY DEF NodesOf
  <2> DEFINE X == 0..(P - 1)
  <2>2. c \in [1..m -> X] /\ \A k \in 1..m : c[k] = loc[q[k]]
    BY <1>2, <2>1
  <2> HIDE DEF X, c, m
  <2>3. c \in Seq(X) /\ Len(c) = m
    BY <1>1, <2>2
  <2> QED
    BY <2>2, <2>3 DEF X
<1>4. ASSUME NEW k \in 1..m PROVE b.nodes[c[k]].next_idx = IF k = m THEN NoLink ELSE c[k + 1]
  <2>1. b.nodes[loc[q[k]]] = LinkedNode(bk, loc, q, k)
    BY DEF Shelf, Holding
  <2>2. LinkedNode(bk, loc, q, k).next_idx = IF k = m THEN NoLink ELSE loc[q[k + 1]]
    BY NodeIs
  <2>3. k # m => k + 1 \in 1..m
    BY <1>1
  <2> HIDE DEF c, m, q
  <2> QED
    BY <1>3, <2>1, <2>2, <2>3
<1>5. head = (IF c = <<>> THEN NoLink ELSE c[1]) /\ (c = <<>> <=> m = 0)
  <2>1. c = <<>> <=> m = 0
    <3> HIDE DEF c, m
    <3> QED
      BY <1>3, EmptySeq
  <2>2. m # 0 => 1 \in 1..m
    BY <1>1
  <2> HIDE DEF c, m, q
  <2> QED
    BY <1>1, <1>3, <2>1, <2>2 DEF HeadOf
<1>6. LinkedFrom(head, b.nodes, c) /\ c \in Seq(Nat) /\ Len(c) <= P
  <2>1. 0..(P - 1) \subseteq Nat
    OBVIOUS
  <2> DEFINE X == 0..(P - 1)
  <2> HIDE DEF X, c, m, head
  <2>2. c \in Seq(X) /\ X \subseteq Nat
    BY <1>3, <2>1 DEF X
  <2>3. c \in Seq(Nat)
    BY <2>2, SeqMonotonic
  <2> QED
    BY <1>1, <1>3, <1>4, <1>5, <2>3 DEF LinkedFrom
<1>7. NodesMet(P, b.nodes, head) = c
  <2> DEFINE nodes == b.nodes
  <2>1. LinkedFrom(head, nodes, c) /\ c \in Seq(Nat) /\ Len(c) <= P
    BY <1>6
  <2> HIDE DEF nodes, c, head
  <2>2. NodesMet(P, nodes, head) = c
    BY <2>1, MetIs
  <2> QED
    BY <2>2 DEF nodes
<1>8. TailOf(loc, q) = IF c = <<>> THEN NoLink ELSE Last(c)
  <2>1. m # 0 => m \in 1..m
    BY <1>1
  <2>2. Last(c) = c[m]
    BY <1>3 DEF Last
  <2> HIDE DEF c, m, q
  <2>3. m = Len(q)
    BY DEF m
  <2> QED
    BY <1>1, <1>3, <1>5, <2>1, <2>2, <2>3 DEF TailOf
<1> HIDE DEF head, c, m, q
<1> QED
  BY <1>3, <1>7, <1>8 DEF head, c, m, q

---------------------------------------------------------------------------
(* Reading the nodes of a shelf. *)

\* The order id is at place k of the queue at a side and price, and lies in node n.
IsPlace(queue, loc, at, k, id, n) ==
  at \in DOMAIN queue /\ k \in 1..Len(queue[at]) /\ id = queue[at][k] /\ n = loc[id]

\* What is in the node of an order: its id, the side and price at, its size and its links.
NodeHolds(node, id, at, size, next, prev) ==
  node = [order_id |-> id, side |-> at[1], price |-> at[2], size |-> size, next_idx |-> next, prev_idx |-> prev]

\* The links of place k of a queue.
NextOf(loc, q, k) == IF k = Len(q) THEN NoLink ELSE loc[q[k + 1]]
PrevOf(loc, q, k) == IF k = 1 THEN NoLink ELSE loc[q[k - 1]]

\* The ids in a queue are those of the orders at its side and price.
LEMMA QueueHolds ==
  ASSUME NEW bk, NEW q, Queues(bk, q), NEW at \in DOMAIN q
  PROVE  /\ q[at] \in Seq(DOMAIN bk)
         /\ \A k \in 1..Len(q[at]) : q[at][k] \in DOMAIN bk /\ SpotOf(bk[q[at][k]]) = at
         /\ \A id \in DOMAIN bk : SpotOf(bk[id]) = at => \E k \in 1..Len(q[at]) : q[at][k] = id
         /\ \A j, k \in 1..Len(q[at]) : q[at][j] = q[at][k] => j = k
<1>1. q[at] \in Seq(DOMAIN bk)
  BY DEF Queues
<1>2. \A k \in 1..Len(q[at]) : q[at][k] \in DOMAIN bk
  BY <1>1
<1> QED
  BY <1>1, <1>2 DEF Queues

\* The order at a place of a queue is found in its node.
LEMMA PlaceFound ==
  ASSUME NEW P \in Nat, NEW C \in Nat \ {0}, P < C, NEW b, NEW bk, NEW queue, NEW loc,
         Shelf(P, C, b, bk, queue, loc),
         NEW at, NEW k, NEW id, NEW n, IsPlace(queue, loc, at, k, id, n)
  PROVE  id \in DOMAIN bk /\ n \in 0..(P - 1) /\ Hash(C)!Find(b.id_map, id) = n /\ n # NoLink
<1> USE DEF IsPlace
<1>1. id \in DOMAIN bk
  <2>1. Queues(bk, queue)
    BY DEF Shelf
  <2> QED
    BY <2>1, QueueHolds
<1>2. n \in 0..(P - 1)
  BY <1>1 DEF Shelf, Located
<1>3. Hash(C)!Find(b.id_map, id) = loc[id] /\ loc[id] # -1
  BY <1>1, FindsOrders DEF Shelf
<1> QED
  BY <1>1, <1>2, <1>3 DEF NoLink

\* The node of the order at a place of a queue.
LEMMA NodeAtIs ==
  ASSUME NEW P, NEW C, NEW b, NEW bk, NEW queue, NEW loc, Shelf(P, C, b, bk, queue, loc),
         NEW at, NEW k, NEW id, NEW n, IsPlace(queue, loc, at, k, id, n)
  PROVE  /\ NodeHolds(b.nodes[n], id, at, bk[id].size, NextOf(loc, queue[at], k), PrevOf(loc, queue[at], k))
         /\ bk[id].side = at[1] /\ bk[id].price = at[2] /\ bk[id].size \in Nat \ {0}
<1> USE DEF IsPlace
<1>1. id \in DOMAIN bk /\ SpotOf(bk[id]) = at
  <2>1. Queues(bk, queue)
    BY DEF Shelf
  <2> QED
    BY <2>1, QueueHolds
<1>2. bk[id].side = at[1] /\ bk[id].price = at[2]
  BY <1>1 DEF SpotOf
<1>3. bk[id].size \in Nat \ {0}
  BY <1>1 DEF Shelf, IsBook
<1>4. b.nodes[n] = LinkedNode(bk, loc, queue[at], k)
  BY DEF Shelf, Holding
<1>5. NodeHolds(LinkedNode(bk, loc, queue[at], k), id, at, bk[id].size, NextOf(loc, queue[at], k), PrevOf(loc, queue[at], k))
  BY <1>2, Zenon DEF LinkedNode, NodeHolds, NextOf, PrevOf
<1> QED
  BY <1>2, <1>3, <1>4, <1>5

\* Every order is at a place of its queue.
LEMMA OrderPlaced ==
  ASSUME NEW bk, NEW queue, Queues(bk, queue), NEW loc, NEW id \in DOMAIN bk
  PROVE  \E k : IsPlace(queue, loc, SpotOf(bk[id]), k, id, loc[id])
<1>1. SpotOf(bk[id]) \in DOMAIN queue /\ \E k \in 1..Len(queue[SpotOf(bk[id])]) : queue[SpotOf(bk[id])][k] = id
  BY DEF Queues
<1> QED
  BY <1>1 DEF IsPlace

\* Links are indices of the pool, or none.
LEMMA LinksAre ==
  ASSUME NEW P, NEW C, NEW b, NEW bk, NEW queue, NEW loc, Shelf(P, C, b, bk, queue, loc), NEW at \in DOMAIN queue
  PROVE  /\ \A k \in 1..Len(queue[at]) : /\ NextOf(loc, queue[at], k) \in (0..(P - 1)) \cup {NoLink}
                                         /\ PrevOf(loc, queue[at], k) \in (0..(P - 1)) \cup {NoLink}
         /\ HeadOf(loc, queue[at]) \in (0..(P - 1)) \cup {NoLink}
         /\ TailOf(loc, queue[at]) \in (0..(P - 1)) \cup {NoLink}
<1>1. Queues(bk, queue) /\ Located(P, b, bk, loc)
  BY DEF Shelf
<1>2. queue[at] \in Seq(DOMAIN bk)
  BY <1>1, QueueHolds
<1> DEFINE I == 0..(P - 1)
<1>3. \A x \in DOMAIN bk : loc[x] \in I
  BY <1>1 DEF Located
<1> HIDE DEF I
<1>4. \A k \in 1..Len(queue[at]) : loc[queue[at][k]] \in I
  BY <1>2, <1>3
<1>5. Len(queue[at]) \in Nat /\ (queue[at] # <<>> => Len(queue[at]) > 0)
  BY <1>2
<1>6. queue[at] # <<>> => 1 \in 1..Len(queue[at]) /\ Len(queue[at]) \in 1..Len(queue[at])
  BY <1>5
<1>7. ASSUME NEW k \in 1..Len(queue[at])
      PROVE  (k # Len(queue[at]) => k + 1 \in 1..Len(queue[at])) /\ (k # 1 => k - 1 \in 1..Len(queue[at]))
  BY <1>5
<1>8. /\ \A k \in 1..Len(queue[at]) : NextOf(loc, queue[at], k) \in I \cup {NoLink} /\ PrevOf(loc, queue[at], k) \in I \cup {NoLink}
      /\ HeadOf(loc, queue[at]) \in I \cup {NoLink} /\ TailOf(loc, queue[at]) \in I \cup {NoLink}
  BY <1>4, <1>6, <1>7 DEF NextOf, PrevOf, HeadOf, TailOf
<1> QED
  BY <1>8 DEF I

\* The nodes met from a queue's head on: each belongs to an order at a place of the queue, no
\* node is met twice, and the last one is the tail.
LEMMA ChainHolds ==
  ASSUME NEW P \in Nat, NEW C, NEW b, NEW bk, NEW queue, NEW loc, Shelf(P, C, b, bk, queue, loc),
         NEW at \in DOMAIN queue, NEW c, c = NodesMet(P, b.nodes, HeadOf(loc, queue[at]))
  PROVE  /\ DOMAIN c = 1..Len(queue[at]) /\ Len(queue[at]) \in Nat /\ c \in Seq(0..(P - 1))
         /\ \A k \in DOMAIN c : c[k] = loc[queue[at][k]] /\ IsPlace(queue, loc, at, k, queue[at][k], c[k])
         /\ \A j, k \in DOMAIN c : c[j] = c[k] => j = k
         /\ TailOf(loc, queue[at]) = IF c = <<>> THEN NoLink ELSE Last(c)
         /\ \A k \in DOMAIN c : PrevOf(loc, queue[at], k) = IF k = 1 THEN NoLink ELSE c[k - 1]
<1>1. /\ NodesOf(loc, queue[at]) \in Seq(0..(P - 1)) /\ Len(NodesOf(loc, queue[at])) = Len(queue[at])
      /\ \A k \in 1..Len(queue[at]) : NodesOf(loc, queue[at])[k] = loc[queue[at][k]]
      /\ NodesMet(P, b.nodes, HeadOf(loc, queue[at])) = NodesOf(loc, queue[at])
      /\ TailOf(loc, queue[at]) = IF NodesOf(loc, queue[at]) = <<>> THEN NoLink ELSE Last(NodesOf(loc, queue[at]))
  BY ChainIs
<1>2. c = NodesOf(loc, queue[at])
  BY <1>1
<1>3. DOMAIN c = 1..Len(queue[at]) /\ Len(queue[at]) \in Nat
  BY <1>1, <1>2
<1>4. \A k \in DOMAIN c : c[k] = loc[queue[at][k]] /\ IsPlace(queue, loc, at, k, queue[at][k], c[k])
  BY <1>1, <1>2, <1>3 DEF IsPlace
<1>5. ASSUME NEW j \in DOMAIN c, NEW k \in DOMAIN c, c[j] = c[k] PROVE j = k
  <2>1. Queues(bk, queue) /\ Located(P, b, bk, loc)
    BY DEF Shelf
  <2>2. j \in 1..Len(queue[at]) /\ k \in 1..Len(queue[at]) /\ loc[queue[at][j]] = loc[queue[at][k]]
    BY <1>3, <1>4, <1>5
  <2> QED
    BY <2>1, <2>2, PlacesDiffer
<1>6. ASSUME NEW k \in DOMAIN c PROVE PrevOf(loc, queue[at], k) = IF k = 1 THEN NoLink ELSE c[k - 1]
  <2>1. k # 1 => k - 1 \in DOMAIN c
    BY <1>3
  <2> QED
    BY <1>4, <2>1 DEF PrevOf
<1> QED
  BY <1>1, <1>2, <1>3, <1>4, <1>5, <1>6

---------------------------------------------------------------------------
(* What the proofs of both books use. *)

\* Only at one place do the orders change.
SameElse(at, bk, q, loc, bk2, q2, loc2) ==
  \A a \in DOMAIN q : a # at => LevelRecord(bk2, q2, loc2, a) = LevelRecord(bk, q, loc, a) /\ q2[a] = q[a]

IsOrderOf(o, side, price, size) == o = [side |-> side, price |-> price, size |-> size]

\* The parts of an order.
LEMMA OrderIs ==
  ASSUME NEW side, NEW price, NEW size \in Nat \ {0}, NEW o, IsOrderOf(o, side, price, size)
  PROVE  /\ IsRest(o) /\ SpotOf(o) = <<side, price>>
         /\ o.side = side /\ o.price = price /\ o.size = size
  BY DEF IsOrderOf, SpotOf, IsRest

\* What a message asks for.
AsksFor(m, id, side, price, size) == m.order_id = id /\ m.side = side /\ m.price = price /\ m.size = size

\* A book with the same nodes, free nodes and map.
LEMMA ShelfSame ==
  ASSUME NEW P, NEW C, NEW b, NEW bk, NEW q, NEW loc, Shelf(P, C, b, bk, q, loc),
         NEW b2, b2.nodes = b.nodes, b2.free = b.free, b2.id_map = b.id_map
  PROVE  Shelf(P, C, b2, bk, q, loc)
<1>1. Located(P, b2, bk, loc)
  BY DEF Shelf, Located
<1>2. Indexed(C, b2, bk, loc)
  BY DEF Shelf, Indexed
<1>3. Holding(P, b2, bk, q, loc)
  BY DEF Shelf, Holding
<1> QED
  BY <1>1, <1>2, <1>3 DEF Shelf

\* What the pool throws.
Thrown == "ObjectPool exhausted"

NoOrders == [id \in {} |-> 0]

\* A queue after a message about id, when the orders in holders rest at its price.
Waiting(s, holders, id) ==
  LET stay == KeptIn(s, holders)
  IN  IF id \in holders /\ id \notin ToSet(stay) THEN Append(stay, id) ELSE stay

\* A queue after a message stays, grows at its end, is emptied, or loses one order.
LEMMA WaitingIs ==
  ASSUME NEW X, NEW s \in Seq(X), NEW holders, NEW id
  PROVE  /\ (\A k \in 1..Len(s) : s[k] \in holders) /\ (id \in holders => \E k \in 1..Len(s) : s[k] = id) =>
              Waiting(s, holders, id) = s
         /\ (\A k \in 1..Len(s) : s[k] \in holders /\ s[k] # id) /\ id \in holders =>
              Waiting(s, holders, id) = Append(s, id)
         /\ id \notin holders =>
              /\ (\A k \in 1..Len(s) : s[k] \notin holders) => Waiting(s, holders, id) = <<>>
              /\ \A p \in 1..Len(s) : (\A k \in 1..Len(s) : s[k] \in holders <=> k # p) =>
                   Waiting(s, holders, id) = RemoveAt(s, p)
<1>1. ToSet(s) = {s[k] : k \in 1..Len(s)}
  BY DEF ToSet
<1>2. (\A k \in 1..Len(s) : s[k] \in holders) => KeptIn(s, holders) = s
  BY KeptIs
<1>3. (\A k \in 1..Len(s) : s[k] \notin holders) => KeptIn(s, holders) = <<>>
  BY KeptIs
<1>4. \A p \in 1..Len(s) : (\A k \in 1..Len(s) : s[k] \in holders <=> k # p) => KeptIn(s, holders) = RemoveAt(s, p)
  BY KeptIs
<1>5. ASSUME \A k \in 1..Len(s) : s[k] \in holders, id \in holders => \E k \in 1..Len(s) : s[k] = id
      PROVE  Waiting(s, holders, id) = s
  BY <1>1, <1>2, <1>5 DEF Waiting
<1>6. ASSUME \A k \in 1..Len(s) : s[k] \in holders /\ s[k] # id, id \in holders
      PROVE  Waiting(s, holders, id) = Append(s, id)
  BY <1>1, <1>2, <1>6 DEF Waiting
<1>7. ASSUME id \notin holders PROVE Waiting(s, holders, id) = KeptIn(s, holders)
  BY <1>7 DEF Waiting
<1> QED
  BY <1>3, <1>4, <1>5, <1>6, <1>7

\* An order goes to the end of its queue: it is taken out of the links and linked again,
\* and the free nodes and the map stay.
LEMMA ShelfRequeued ==
  ASSUME NEW P \in Nat, NEW C \in Nat \ {0}, P < C, NEW b, NEW bk, NEW queue, NEW loc,
         Shelf(P, C, b, bk, queue, loc),
         NEW at \in DOMAIN queue, NEW p \in 1..Len(queue[at]), NEW id, id = queue[at][p],
         NEW n, n = loc[id], NEW next, NEW prev,
         next = b.nodes[n].next_idx, prev = b.nodes[n].prev_idx,
         NEW b1, NodeTaken(P, b, b1, n, next, prev),
         NEW o, IsRest(o), SpotOf(o) = at,
         NEW q1, q1 = Unlined(queue, at, p), NEW tail, tail = TailOf(Shrunk(loc, id), q1[at]),
         NEW b2, b2.free = b.free, b2.id_map = b.id_map, NodeAdded(P, b1, b2, id, o, n, tail)
  PROVE  Shelf(P, C, b2, Widened(Shrunk(bk, id), id, o), LinedUp(q1, at, id), Widened(Shrunk(loc, id), id, n))
<1> DEFINE bk1 == Shrunk(bk, id)
           loc1 == Shrunk(loc, id)
           g1 == [nodes |-> b1.nodes, free |-> Append(b.free, n), id_map |-> Hash(C)!Erase(b.id_map, id)]
           g2 == [nodes |-> b2.nodes, free |-> Front(g1.free), id_map |-> Hash(C)!Insert(g1.id_map, id, n)]
           bk2 == Widened(bk1, id, o)
           loc2 == Widened(loc1, id, n)
           q2 == LinedUp(q1, at, id)
<1>1. /\ IsBook(bk) /\ Queues(bk, queue) /\ Located(P, b, bk, loc) /\ Indexed(C, b, bk, loc)
  BY DEF Shelf
<1>2. id \in DOMAIN bk /\ id \in Nat \ {0} /\ n \in 0..(P - 1)
  <2>1. id \in DOMAIN bk
    BY <1>1, QueueHolds
  <2>2. id \in Nat \ {0}
    BY <1>1, <2>1 DEF IsBook
  <2>3. n \in 0..(P - 1)
    BY <1>1, <2>1 DEF Located
  <2> QED
    BY <2>1, <2>2, <2>3
<1>3. g1.nodes = b1.nodes /\ g1.free = Append(b.free, n) /\ g1.id_map = Hash(C)!Erase(b.id_map, id)
  OBVIOUS
<1>4. g2.nodes = b2.nodes /\ g2.free = Front(g1.free) /\ g2.id_map = Hash(C)!Insert(g1.id_map, id, n)
  OBVIOUS
<1> HIDE DEF g1, g2
<1>5. NodeTaken(P, b, g1, n, next, prev)
  BY <1>3 DEF NodeTaken
<1>6. Shelf(P, C, g1, Shrunk(bk, id), Unlined(queue, at, p), Shrunk(loc, id))
  BY <1>3, <1>5, ShelfWithout
<1>7. Shelf(P, C, g1, bk1, q1, loc1) /\ bk1 = Shrunk(bk, id) /\ loc1 = Shrunk(loc, id)
  BY <1>6
<1>8. id \notin DOMAIN bk1 /\ DOMAIN bk1 \cup {id} = DOMAIN bk
  BY <1>2 DEF Shrunk
<1>9. at \in DOMAIN q1
  BY <1>1, QueueChanged DEF Unlined
<1>10. b.free \in Seq(0..(P - 1))
  BY <1>1 DEF Located
<1>11. /\ g1.free # <<>> /\ Last(g1.free) = n /\ Front(g1.free) = b.free
  <2>1. /\ Append(b.free, n) \in Seq(0..(P - 1)) /\ Len(Append(b.free, n)) = Len(b.free) + 1 /\ Len(b.free) \in Nat
        /\ Append(b.free, n)[Len(b.free) + 1] = n /\ \A k \in 1..Len(b.free) : Append(b.free, n)[k] = b.free[k]
    BY <1>2, <1>10, AppendIs
  <2>2. g1.free \in Seq(0..(P - 1)) /\ Len(g1.free) = Len(b.free) + 1 /\ g1.free # <<>>
    <3>1. g1.free \in Seq(0..(P - 1)) /\ Len(g1.free) = Len(b.free) + 1 /\ Len(b.free) \in Nat
      BY <1>3, <2>1
    <3>2. Len(g1.free) # 0
      BY <3>1
    <3> QED
      BY <3>1, <3>2, EmptySeq
  <2>3. /\ Last(g1.free) = g1.free[Len(g1.free)] /\ Front(g1.free) \in Seq(0..(P - 1))
        /\ Len(Front(g1.free)) = Len(g1.free) - 1
        /\ \A k \in 1..(Len(g1.free) - 1) : Front(g1.free)[k] = g1.free[k]
    BY <2>2, FrontIs
  <2>4. Len(Front(g1.free)) = Len(b.free) /\ \A k \in 1..Len(b.free) : Front(g1.free)[k] = b.free[k]
    BY <1>3, <2>1, <2>2, <2>3
  <2>5. Front(g1.free) = b.free
    BY <1>10, <2>3, <2>4, SeqEqual
  <2> QED
    BY <1>3, <2>1, <2>2, <2>3, <2>5
<1>12. SpotOf(o) \in DOMAIN q1 /\ NodeAdded(P, g1, g2, id, o, n, TailOf(loc1, q1[SpotOf(o)]))
  BY <1>3, <1>4, <1>7, <1>9 DEF NodeAdded
<1> HIDE DEF bk1, loc1
<1>13. n = Last(g1.free)
  BY <1>11
<1>14. Shelf(P, C, g2, Widened(bk1, id, o), LinedUp(q1, SpotOf(o), id), Widened(loc1, id, n))
  BY <1>2, <1>4, <1>7, <1>8, <1>11, <1>12, <1>13, ShelfWith
<1>15. Shelf(P, C, g2, bk2, q2, loc2)
  BY <1>14
<1>16. Located(P, b2, bk2, loc2)
  <2>1. Located(P, g2, bk2, loc2) /\ g2.free = b2.free
    BY <1>4, <1>11, <1>15 DEF Shelf
  <2> HIDE DEF bk2, loc2
  <2> QED
    BY <2>1 DEF Located
<1>17. Indexed(C, b2, bk2, loc2)
  <2>1. DOMAIN bk2 = DOMAIN bk
    BY <1>8 DEF Widened
  <2>2. \A x \in DOMAIN bk : loc2[x] = loc[x]
    <3>1. loc \in [DOMAIN bk -> 0..(P - 1)]
      BY <1>1 DEF Located
    <3> QED
      BY <1>7, <3>1 DEF Widened, Shrunk
  <2> HIDE DEF bk2, loc2
  <2>3. {[key |-> x, value |-> loc2[x]] : x \in DOMAIN bk2} = {[key |-> x, value |-> loc[x]] : x \in DOMAIN bk}
    BY <2>1, <2>2
  <2> QED
    BY <1>1, <2>3 DEF Indexed
<1>18. Holding(P, b2, bk2, q2, loc2)
  <2>1. Holding(P, g2, bk2, q2, loc2) /\ g2.nodes = b2.nodes
    BY <1>4, <1>15 DEF Shelf
  <2> HIDE DEF bk2, loc2, q2
  <2> QED
    BY <2>1 DEF Holding
<1>19. Shelf(P, C, b2, bk2, q2, loc2)
  BY <1>15, <1>16, <1>17, <1>18 DEF Shelf
<1> QED
  BY <1>7, <1>19
====

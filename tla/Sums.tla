--------------------------------- MODULE Sums ---------------------------------
(***************************************************************************)
(* Sums over finite sets, as the stock models use them (MapThenSumSet of   *)
(* the community modules).  The induction goes over the subsets of the     *)
(* set summed over, through the minimal element of a set of exceptions.    *)
(***************************************************************************)
EXTENDS Integers, FiniteSetsExt, FiniteSetTheorems, TLAPS

\* A set of subsets of a finite set has a smallest member.
LEMMA SmallestSubset ==
  ASSUME NEW S, IsFiniteSet(S), NEW B, B \subseteq SUBSET S, B # {}
  PROVE  \E T \in B : \A U \in B : U \subseteq T => U = T
<1>1. FiniteSubsetsOf(S) = SUBSET S
  BY FS_FiniteSubsetsOfFinite
<1>2. IsWellFoundedOn(StrictSubsetOrdering(S), FiniteSubsetsOf(S))
  BY FS_StrictSubsetOrderingWellFounded
<1>3. PICK T \in B : \A U \in B : <<U, T>> \notin StrictSubsetOrdering(S)
  BY <1>1, <1>2, WFMin
<1> QED
  BY <1>3 DEF StrictSubsetOrdering

\* One step of the sum: the element taken first, and the rest.
FirstOf(s) == CHOOSE x \in s : TRUE
RestOf(s) == s \ {FirstOf(s)}
StepOf(f, g, s) == IF s = {} THEN 0 ELSE f[FirstOf(s)] + g[RestOf(s)]
SumsOf(f, S) == CHOOSE g : g = [s \in SUBSET S |-> StepOf(f, g, s)]

\* g holds the sums of f over every subset of S.
Adds(g, f, S) == \A s \in SUBSET S : g[s] = StepOf(f, g, s)

LEMMA TakenIsThere ==
  ASSUME NEW s, s # {} PROVE FirstOf(s) \in s
BY DEF FirstOf

LEMMA AddsIsUnique ==
  ASSUME NEW S, IsFiniteSet(S), NEW f, NEW g, NEW h, Adds(g, f, S), Adds(h, f, S)
  PROVE  \A s \in SUBSET S : g[s] = h[s]
<1> DEFINE B == {s \in SUBSET S : g[s] # h[s]}
<1> SUFFICES ASSUME B # {} PROVE FALSE
  OBVIOUS
<1>1. PICK T \in B : \A U \in B : U \subseteq T => U = T
  <2>1. B \subseteq SUBSET S
    OBVIOUS
  <2> HIDE DEF B
  <2> QED
    BY <2>1, SmallestSubset
<1>2. T # {}
  BY <1>1 DEF Adds, StepOf
<1>3. RestOf(T) \in SUBSET S /\ RestOf(T) \subseteq T /\ RestOf(T) # T
  BY <1>1, <1>2, TakenIsThere DEF RestOf
<1>4. g[RestOf(T)] = h[RestOf(T)]
  BY <1>1, <1>3
<1> QED
  BY <1>1, <1>2, <1>4 DEF Adds, StepOf

LEMMA AddsExists ==
  ASSUME NEW S, IsFiniteSet(S), NEW f
  PROVE  \E g : Adds(g, f, S)
<1> DEFINE B == {T \in SUBSET S : ~ \E g : Adds(g, f, T)}
<1> SUFFICES ASSUME B # {} PROVE FALSE
  OBVIOUS
<1>1. PICK T \in B : \A U \in B : U \subseteq T => U = T
  <2>1. B \subseteq SUBSET S
    OBVIOUS
  <2> HIDE DEF B
  <2> QED
    BY <2>1, SmallestSubset
<1>2. IsFiniteSet(T)
  BY <1>1, FS_Subset
<1> DEFINE h(x) == CHOOSE g : Adds(g, f, T \ {x})
           k == [s \in SUBSET T |-> IF s = {} THEN 0 ELSE f[FirstOf(s)] + h(FirstOf(s))[RestOf(s)]]
<1>3. \A x \in T : Adds(h(x), f, T \ {x})
  <2> SUFFICES ASSUME NEW x \in T PROVE Adds(h(x), f, T \ {x})
    OBVIOUS
  <2>1. T \ {x} \in SUBSET S /\ T \ {x} \notin B
    BY <1>1
  <2> QED
    BY <2>1
<1>4. \A x \in T : \A s \in SUBSET (T \ {x}) : h(x)[s] = k[s]
  <2> SUFFICES ASSUME NEW x \in T, NEW s \in SUBSET (T \ {x}) PROVE h(x)[s] = k[s]
    OBVIOUS
  <2>1. Adds(h(x), f, T \ {x})
    BY <1>3
  <2>2. CASE s = {}
    BY <2>1, <2>2 DEF Adds, StepOf
  <2>3. CASE s # {}
    <3> DEFINE y == FirstOf(s)
    <3>1. y \in s /\ y \in T /\ y # x /\ RestOf(s) \in SUBSET (T \ {x, y})
      BY <2>3, TakenIsThere DEF RestOf
    <3>2. Adds(h(y), f, T \ {y})
      BY <1>3, <3>1
    <3>3. Adds(h(x), f, T \ {x, y}) /\ Adds(h(y), f, T \ {x, y})
      BY <2>1, <3>2 DEF Adds
    <3>4. IsFiniteSet(T \ {x, y})
      BY <1>2, FS_Difference
    <3>5. h(x)[RestOf(s)] = h(y)[RestOf(s)]
      BY <3>1, <3>3, <3>4, AddsIsUnique
    <3>6. h(x)[s] = f[y] + h(x)[RestOf(s)]
      BY <2>1, <2>3 DEF Adds, StepOf
    <3>7. k[s] = f[y] + h(y)[RestOf(s)]
      BY <2>3
    <3> QED
      BY <3>5, <3>6, <3>7
  <2> QED
    BY <2>2, <2>3
<1>5. Adds(k, f, T)
  <2> SUFFICES ASSUME NEW s \in SUBSET T PROVE k[s] = StepOf(f, k, s)
    BY DEF Adds
  <2>1. CASE s = {}
    BY <2>1 DEF StepOf
  <2>2. CASE s # {}
    <3>1. FirstOf(s) \in T /\ RestOf(s) \in SUBSET (T \ {FirstOf(s)})
      BY <2>2, TakenIsThere DEF RestOf
    <3>2. k[s] = f[FirstOf(s)] + h(FirstOf(s))[RestOf(s)]
      BY <2>2
    <3> HIDE DEF k, h
    <3>3. h(FirstOf(s))[RestOf(s)] = k[RestOf(s)]
      BY <1>4, <3>1
    <3> QED
      BY <2>2, <3>2, <3>3 DEF StepOf
  <2> QED
    BY <2>1, <2>2
<1> HIDE DEF k, h
<1> QED
  BY <1>1, <1>5

\* The recursive definition of a sum has its equation.
LEMMA SumsAdd ==
  ASSUME NEW S, IsFiniteSet(S), NEW f
  PROVE  Adds(SumsOf(f, S), f, S)
<1>1. PICK g : Adds(g, f, S)
  BY AddsExists
<1> DEFINE h == [s \in SUBSET S |-> g[s]]
<1>2. h = [s \in SUBSET S |-> StepOf(f, h, s)]
  <2> SUFFICES ASSUME NEW s \in SUBSET S PROVE g[s] = StepOf(f, h, s)
    OBVIOUS
  <2>1. s # {} => RestOf(s) \in SUBSET S
    BY DEF RestOf
  <2> QED
    BY <1>1, <2>1 DEF Adds, StepOf
<1> HIDE DEF h
<1>3. SumsOf(f, S) = [s \in SUBSET S |-> StepOf(f, SumsOf(f, S), s)]
  BY <1>2 DEF SumsOf
<1> QED
  BY <1>3 DEF Adds

\* The sum over a set is what is summed over it within any larger set.
LEMMA SumIsSums ==
  \A f, S : SumFunctionOnSet(f, S) = SumsOf(f, S)[S]
BY DEF SumFunctionOnSet, FoldFunctionOnSet, MapThenFoldSet, SumsOf, StepOf, FirstOf, RestOf

LEMMA SumWithin ==
  ASSUME NEW S, IsFiniteSet(S), NEW f, NEW g, Adds(g, f, S), NEW T \in SUBSET S
  PROVE  g[T] = SumFunctionOnSet(f, T)
<1>1. IsFiniteSet(T)
  BY FS_Subset
<1>2. Adds(g, f, T) /\ Adds(SumsOf(f, T), f, T)
  BY <1>1, SumsAdd DEF Adds
<1> QED
  BY <1>1, <1>2, AddsIsUnique, SumIsSums

LEMMA SumStep ==
  ASSUME NEW S, IsFiniteSet(S), NEW f
  PROVE  SumFunctionOnSet(f, S) = IF S = {} THEN 0 ELSE f[FirstOf(S)] + SumFunctionOnSet(f, RestOf(S))
<1>1. Adds(SumsOf(f, S), f, S)
  BY SumsAdd
<1>2. RestOf(S) \in SUBSET S
  BY DEF RestOf
<1>3. SumsOf(f, S)[RestOf(S)] = SumFunctionOnSet(f, RestOf(S)) /\ SumsOf(f, S)[S] = SumFunctionOnSet(f, S)
  BY <1>1, <1>2, SumWithin
<1> QED
  BY <1>1, <1>3 DEF Adds, StepOf

-----------------------------------------------------------------------------
(* What the proofs about the models use *)

LEMMA SumOfNone == \A f : SumFunctionOnSet(f, {}) = 0
BY SumStep, FS_EmptySet

\* Sums of integers are integers, and whichever element is taken first makes
\* no difference.
LEMMA SumTakesAny ==
  ASSUME NEW S, IsFiniteSet(S), NEW f, \A x \in S : f[x] \in Int
  PROVE  /\ SumFunctionOnSet(f, S) \in Int
         /\ \A x \in S : SumFunctionOnSet(f, S) = f[x] + SumFunctionOnSet(f, S \ {x})
<1> DEFINE Sum(T) == SumFunctionOnSet(f, T)
           Fine(T) == Sum(T) \in Int /\ \A x \in T : Sum(T) = f[x] + Sum(T \ {x})
           B == {T \in SUBSET S : ~Fine(T)}
<1> SUFFICES ASSUME B # {} PROVE FALSE
  OBVIOUS
<1>1. PICK T \in B : \A U \in B : U \subseteq T => U = T
  <2>1. B \subseteq SUBSET S
    OBVIOUS
  <2> HIDE DEF B
  <2> QED
    BY <2>1, SmallestSubset
<1>2. IsFiniteSet(T) /\ T \in SUBSET S
  BY <1>1, FS_Subset
<1>3. T # {}
  <2>1. Fine({})
    BY SumOfNone
  <2> QED
    BY <1>1, <2>1
<1>4. \A x \in T : Fine(T \ {x})
  BY <1>1
<1> DEFINE y == FirstOf(T)
<1>5. y \in T /\ Sum(T) = f[y] + Sum(T \ {y})
  BY <1>2, <1>3, TakenIsThere, SumStep DEF RestOf
<1> HIDE DEF y
<1>6. Sum(T) \in Int
  BY <1>2, <1>4, <1>5
<1>7. ASSUME NEW x \in T PROVE Sum(T) = f[x] + Sum(T \ {x})
  <2>1. CASE x = y
    BY <1>5, <2>1
  <2>2. CASE x # y
    <3>1. (T \ {x}) \ {y} = (T \ {y}) \ {x}
      OBVIOUS
    <3>2. x \in T \ {y} /\ y \in T \ {x} /\ Fine(T \ {y}) /\ Fine(T \ {x}) /\ Fine((T \ {x}) \ {y})
      <4>1. (T \ {x}) \ {y} \in SUBSET S /\ (T \ {x}) \ {y} \subseteq T /\ (T \ {x}) \ {y} # T
        BY <1>2
      <4>2. Fine((T \ {x}) \ {y})
        BY <1>1, <4>1
      <4> QED
        BY <1>4, <1>5, <2>2, <4>2
    <3>3. Sum(T \ {y}) = f[x] + Sum((T \ {y}) \ {x}) /\ Sum(T \ {x}) = f[y] + Sum((T \ {x}) \ {y})
      BY <3>2
    <3>4. f[x] \in Int /\ f[y] \in Int /\ Sum((T \ {x}) \ {y}) \in Int
      BY <1>2, <1>5, <3>2
    <3>5. Sum((T \ {x}) \ {y}) = Sum((T \ {y}) \ {x})
      BY <3>1
    <3> HIDE DEF Sum
    <3> QED
      BY <1>5, <3>3, <3>4, <3>5
  <2> QED
    BY <2>1, <2>2
<1> QED
  BY <1>1, <1>6, <1>7

\* The sum over one element is what it stands for.
LEMMA SumOfOne ==
  ASSUME NEW f, NEW x, f[x] \in Int PROVE SumFunctionOnSet(f, {x}) = f[x]
<1>1. SumFunctionOnSet(f, {x}) = f[x] + SumFunctionOnSet(f, {x} \ {x})
  BY FS_Singleton, SumTakesAny
<1>2. {x} \ {x} = {}
  OBVIOUS
<1> QED
  BY <1>1, <1>2, SumOfNone

\* Only what is summed counts.
LEMMA SumOfSame ==
  ASSUME NEW S, IsFiniteSet(S), NEW f, NEW g, \A x \in S : f[x] = g[x]
  PROVE  SumFunctionOnSet(f, S) = SumFunctionOnSet(g, S)
<1> DEFINE h == SumsOf(f, S)
<1>1. Adds(h, f, S)
  BY SumsAdd
<1>2. Adds(h, g, S)
  BY <1>1, TakenIsThere DEF Adds, StepOf
<1> QED
  BY <1>1, <1>2, SumWithin

\* One summand changes.
LEMMA SumOfChanged ==
  ASSUME NEW S, IsFiniteSet(S), NEW f, NEW g, NEW x \in S,
         \A y \in S : f[y] \in Int /\ g[y] \in Int,
         \A y \in S \ {x} : g[y] = f[y]
  PROVE  SumFunctionOnSet(g, S) = SumFunctionOnSet(f, S) + g[x] - f[x]
<1>1. IsFiniteSet(S \ {x})
  BY FS_RemoveElement
<1>2. SumFunctionOnSet(f, S \ {x}) = SumFunctionOnSet(g, S \ {x}) /\ SumFunctionOnSet(f, S \ {x}) \in Int
  BY <1>1, SumOfSame, SumTakesAny
<1>3. SumFunctionOnSet(f, S) = f[x] + SumFunctionOnSet(f, S \ {x})
  BY SumTakesAny
<1>4. SumFunctionOnSet(g, S) = g[x] + SumFunctionOnSet(g, S \ {x})
  BY SumTakesAny
<1> QED
  BY <1>2, <1>3, <1>4

\* A sum of natural numbers is at least each sum over a part of it.
LEMMA SumOfPart ==
  ASSUME NEW S, IsFiniteSet(S), NEW f, \A x \in S : f[x] \in Nat, NEW P \in SUBSET S
  PROVE  SumFunctionOnSet(f, P) <= SumFunctionOnSet(f, S)
<1> DEFINE B == {T \in SUBSET S : P \subseteq T /\ ~(SumFunctionOnSet(f, P) <= SumFunctionOnSet(f, T))}
<1> SUFFICES ASSUME B # {} PROVE FALSE
  OBVIOUS
<1>1. PICK T \in B : \A U \in B : U \subseteq T => U = T
  <2>1. B \subseteq SUBSET S
    OBVIOUS
  <2> HIDE DEF B
  <2> QED
    BY <2>1, SmallestSubset
<1>2. IsFiniteSet(P) /\ IsFiniteSet(T)
  BY <1>1, FS_Subset
<1>3. SumFunctionOnSet(f, P) \in Int /\ SumFunctionOnSet(f, T) \in Int
  BY <1>1, <1>2, SumTakesAny
<1>4. PICK x \in T : x \notin P
  <2>1. P \subseteq T /\ ~(SumFunctionOnSet(f, P) <= SumFunctionOnSet(f, T))
    BY <1>1
  <2>2. P # T
    BY <1>3, <2>1
  <2> QED
    BY <2>1, <2>2
<1>5. T \ {x} \in SUBSET S /\ P \subseteq T \ {x} /\ T \ {x} # T
  BY <1>1, <1>4
<1>6. SumFunctionOnSet(f, P) <= SumFunctionOnSet(f, T \ {x})
  BY <1>1, <1>5
<1>7. SumFunctionOnSet(f, T) = f[x] + SumFunctionOnSet(f, T \ {x}) /\ f[x] \in Nat
  BY <1>1, <1>2, SumTakesAny
<1>8. SumFunctionOnSet(f, T \ {x}) \in Int
  <2>1. IsFiniteSet(T \ {x}) /\ \A y \in T \ {x} : f[y] \in Int
    BY <1>2, <1>5, FS_RemoveElement
  <2> QED
    BY <2>1, SumTakesAny
<1> QED
  BY <1>1, <1>3, <1>6, <1>7, <1>8

\* Nothing is summed.
LEMMA SumOfZeros ==
  ASSUME NEW S, IsFiniteSet(S), NEW f, \A x \in S : f[x] = 0
  PROVE  SumFunctionOnSet(f, S) = 0
<1> DEFINE h == [s \in SUBSET S |-> 0]
<1>1. Adds(h, f, S)
  BY TakenIsThere DEF Adds, StepOf, RestOf
<1>2. h[S] = 0
  OBVIOUS
<1> HIDE DEF h
<1> QED
  BY <1>1, <1>2, SumWithin

\* Smaller summands have a smaller sum.
LEMMA SumOfLess ==
  ASSUME NEW S, IsFiniteSet(S), NEW f, NEW g, \A x \in S : f[x] \in Int /\ g[x] \in Int /\ f[x] <= g[x]
  PROVE  SumFunctionOnSet(f, S) <= SumFunctionOnSet(g, S)
<1> DEFINE Less(T) == SumFunctionOnSet(f, T) <= SumFunctionOnSet(g, T)
           B == {T \in SUBSET S : ~Less(T)}
<1> SUFFICES ASSUME B # {} PROVE FALSE
  OBVIOUS
<1>1. PICK T \in B : \A U \in B : U \subseteq T => U = T
  <2>1. B \subseteq SUBSET S
    OBVIOUS
  <2> HIDE DEF B
  <2> QED
    BY <2>1, SmallestSubset
<1>2. T \in SUBSET S /\ ~Less(T) /\ IsFiniteSet(T)
  BY <1>1, FS_Subset
<1>3. PICK x \in T : TRUE
  <2>1. T # {}
    BY <1>2, SumOfNone
  <2> QED
    BY <2>1
<1>4. T \ {x} \in SUBSET S /\ IsFiniteSet(T \ {x}) /\ Less(T \ {x})
  BY <1>1, <1>2, <1>3, FS_RemoveElement
<1>5. /\ SumFunctionOnSet(f, T) = f[x] + SumFunctionOnSet(f, T \ {x})
      /\ SumFunctionOnSet(g, T) = g[x] + SumFunctionOnSet(g, T \ {x})
      /\ f[x] \in Int /\ g[x] \in Int /\ f[x] <= g[x]
  BY <1>2, <1>3, SumTakesAny
<1>6. SumFunctionOnSet(f, T \ {x}) \in Int /\ SumFunctionOnSet(g, T \ {x}) \in Int
  BY <1>2, <1>4, SumTakesAny
<1> QED
  BY <1>2, <1>4, <1>5, <1>6
=============================================================================

-------------------------------- MODULE Sums --------------------------------
(***************************************************************************)
(* Facts about SumFunctionOnSet of the community modules, the sum of f[x]  *)
(* over the members x of a finite set.  The module defines it through a    *)
(* recursive function on the subsets of the set, so its equation has to be *)
(* proved first.  What takes an induction is proved from a smallest set    *)
(* for which it fails.                                                     *)
(***************************************************************************)
EXTENDS Integers, FiniteSets, Functions, FiniteSetTheorems, TLAPS

\* Among subsets of a finite set, one of them has no other inside it.
LEMMA SmallestSubset ==
  ASSUME NEW S, IsFiniteSet(S), NEW Bad \in SUBSET SUBSET S, Bad # {}
  PROVE  \E T \in Bad : \A U \in SUBSET T : U # T => U \notin Bad
<1>1. IsWellFoundedOn(StrictSubsetOrdering(S), FiniteSubsetsOf(S))
  BY FS_StrictSubsetOrderingWellFounded
<1>2. FiniteSubsetsOf(S) = SUBSET S
  BY FS_FiniteSubsetsOfFinite
<1>3. PICK T \in Bad : \A U \in Bad : <<U, T>> \notin StrictSubsetOrdering(S)
  BY <1>1, <1>2, WFMin, Zenon
<1>4. ASSUME NEW U \in Bad, U \subseteq T PROVE U = T
  BY <1>3, <1>4 DEF StrictSubsetOrdering
<1> QED
  BY <1>4

-----------------------------------------------------------------------------
(* The equation of the sum *)

Pick(S) == CHOOSE x \in S : TRUE

\* g sums f over every subset of S.
Solves(f, S, g) ==
  g = [T \in SUBSET S |-> IF T = {} THEN 0 ELSE f[Pick(T)] + g[T \ {Pick(T)}]]

LEMMA SumIsSolution ==
  ASSUME NEW f, NEW S
  PROVE  SumFunctionOnSet(f, S) = (CHOOSE g : Solves(f, S, g))[S]
BY DEF SumFunctionOnSet, FoldFunctionOnSet, MapThenFoldSet, Solves, Pick

LEMMA PickIn == \A S : S # {} => Pick(S) \in S
BY DEF Pick

LEMMA SolvesAt ==
  ASSUME NEW f, NEW S, NEW g, Solves(f, S, g), NEW T \in SUBSET S
  PROVE  g[T] = IF T = {} THEN 0 ELSE f[Pick(T)] + g[T \ {Pick(T)}]
BY DEF Solves

LEMMA SolutionUnique ==
  ASSUME NEW f, NEW S, IsFiniteSet(S), NEW g, Solves(f, S, g), NEW h, Solves(f, S, h)
  PROVE  g = h
<1> DEFINE Bad == {T \in SUBSET S : g[T] # h[T]}
<1>1. ASSUME Bad # {} PROVE FALSE
  <2>1. PICK T \in Bad : \A U \in SUBSET T : U # T => U \notin Bad
    <3> HIDE DEF Bad
    <3>1. Bad \in SUBSET SUBSET S
      BY DEF Bad
    <3> QED
      BY <1>1, <3>1, SmallestSubset
  <2>2. T # {}
    BY SolvesAt
  <2>3. Pick(T) \in T
    BY <2>2, PickIn
  <2>4. g[T \ {Pick(T)}] = h[T \ {Pick(T)}]
    BY <2>1, <2>3
  <2>5. g[T] = h[T]
    BY <2>2, <2>4, SolvesAt
  <2> QED
    BY <2>5
<1>2. g = [T \in SUBSET S |-> g[T]] /\ h = [T \in SUBSET S |-> h[T]]
  BY DEF Solves
<1> QED
  BY <1>1, <1>2

LEMMA SolutionRestricts ==
  ASSUME NEW f, NEW S, NEW g, Solves(f, S, g), NEW T \in SUBSET S
  PROVE  Solves(f, T, [U \in SUBSET T |-> g[U]])
<1> DEFINE h == [U \in SUBSET T |-> g[U]]
<1>1. ASSUME NEW U \in SUBSET T
      PROVE  h[U] = IF U = {} THEN 0 ELSE f[Pick(U)] + h[U \ {Pick(U)}]
  <2>1. g[U] = IF U = {} THEN 0 ELSE f[Pick(U)] + g[U \ {Pick(U)}]
    BY SolvesAt
  <2>2. h[U] = g[U] /\ h[U \ {Pick(U)}] = g[U \ {Pick(U)}]
    OBVIOUS
  <2> QED
    BY <2>1, <2>2
<1> QED
  BY <1>1 DEF Solves

\* Where there is a solution, the equation holds.
LEMMA StepIfSolvable ==
  ASSUME NEW f, NEW S, IsFiniteSet(S), \E g : Solves(f, S, g)
  PROVE  SumFunctionOnSet(f, S) =
           IF S = {} THEN 0 ELSE f[Pick(S)] + SumFunctionOnSet(f, S \ {Pick(S)})
<1> DEFINE g == CHOOSE g : Solves(f, S, g)
           T == S \ {Pick(S)}
           h == CHOOSE h : Solves(f, T, h)
           k == [U \in SUBSET T |-> g[U]]
<1>1. Solves(f, S, g)
  OBVIOUS
<1>2. SumFunctionOnSet(f, S) = g[S] /\ SumFunctionOnSet(f, T) = h[T]
  BY SumIsSolution
<1> HIDE DEF g
<1>3. g[S] = IF S = {} THEN 0 ELSE f[Pick(S)] + g[T]
  BY <1>1, SolvesAt
<1>4. Solves(f, T, k)
  BY <1>1, SolutionRestricts
<1>5. Solves(f, T, h)
  BY <1>4
<1>6. IsFiniteSet(T)
  BY FS_RemoveElement
<1>7. k[T] = g[T]
  OBVIOUS
<1> HIDE DEF T, h, k
<1>8. h = k
  BY <1>4, <1>5, <1>6, SolutionUnique
<1>9. SumFunctionOnSet(f, T) = g[T]
  BY <1>2, <1>7, <1>8
<1> QED
  BY <1>2, <1>3, <1>9 DEF T

LEMMA Solvable ==
  ASSUME NEW f, NEW S, IsFiniteSet(S)
  PROVE  \E g : Solves(f, S, g)
<1> DEFINE Bad == {T \in SUBSET S : ~\E g : Solves(f, T, g)}
<1> SUFFICES ASSUME Bad # {} PROVE FALSE
  OBVIOUS
<1>1. PICK T \in Bad : \A U \in SUBSET T : U # T => U \notin Bad
  <2> HIDE DEF Bad
  <2>1. Bad \in SUBSET SUBSET S
    BY DEF Bad
  <2> QED
    BY <2>1, SmallestSubset
<1> DEFINE Value(U) == IF U = {} THEN 0
                       ELSE f[Pick(U)] + SumFunctionOnSet(f, U \ {Pick(U)})
           g == [U \in SUBSET T |-> Value(U)]
<1>2. ASSUME NEW U \in SUBSET T, U # T PROVE SumFunctionOnSet(f, U) = Value(U)
  <2>1. IsFiniteSet(U)
    BY FS_Subset
  <2>2. \E h : Solves(f, U, h)
    BY <1>1, <1>2
  <2> QED
    BY <2>1, <2>2, StepIfSolvable
<1>3. ASSUME NEW U \in SUBSET T
      PROVE  g[U] = IF U = {} THEN 0 ELSE f[Pick(U)] + g[U \ {Pick(U)}]
  <2>1. CASE U = {}
    BY <2>1
  <2>2. CASE U # {}
    <3>1. U \ {Pick(U)} \in SUBSET T /\ U \ {Pick(U)} # T
      BY <2>2, PickIn
    <3>2. g[U \ {Pick(U)}] = SumFunctionOnSet(f, U \ {Pick(U)})
      BY <1>2, <3>1
    <3> QED
      BY <2>2, <3>2
  <2> QED
    BY <2>1, <2>2
<1>4. Solves(f, T, g)
  <2>1. g = [U \in SUBSET T |-> g[U]]
    OBVIOUS
  <2> HIDE DEF g
  <2> QED
    BY <1>3, <2>1 DEF Solves
<1> QED
  BY <1>1, <1>4

LEMMA SumStep ==
  ASSUME NEW f, NEW S, IsFiniteSet(S)
  PROVE  SumFunctionOnSet(f, S) =
           IF S = {} THEN 0 ELSE f[Pick(S)] + SumFunctionOnSet(f, S \ {Pick(S)})
BY Solvable, StepIfSolvable

-----------------------------------------------------------------------------
(* What sums are *)

LEMMA SumEmpty == \A f : SumFunctionOnSet(f, {}) = 0
BY SumStep, FS_EmptySet

LEMMA SumInt ==
  ASSUME NEW f, NEW S, IsFiniteSet(S), \A x \in S : f[x] \in Int
  PROVE  SumFunctionOnSet(f, S) \in Int
<1> DEFINE Bad == {T \in SUBSET S : SumFunctionOnSet(f, T) \notin Int}
<1> SUFFICES ASSUME Bad # {} PROVE FALSE
  OBVIOUS
<1>1. PICK T \in Bad : \A U \in SUBSET T : U # T => U \notin Bad
  <2> HIDE DEF Bad
  <2>1. Bad \in SUBSET SUBSET S
    BY DEF Bad
  <2> QED
    BY <2>1, SmallestSubset
<1>2. IsFiniteSet(T)
  BY FS_Subset
<1>3. T # {} /\ Pick(T) \in T
  BY SumEmpty, PickIn
<1>4. SumFunctionOnSet(f, T \ {Pick(T)}) \in Int /\ f[Pick(T)] \in Int
  BY <1>1, <1>3
<1>5. SumFunctionOnSet(f, T) = f[Pick(T)] + SumFunctionOnSet(f, T \ {Pick(T)})
  BY <1>2, <1>3, SumStep
<1> QED
  BY <1>4, <1>5

\* Any member can be taken out first.
LEMMA SumRemove ==
  ASSUME NEW f, NEW S, IsFiniteSet(S), \A x \in S : f[x] \in Int, NEW y \in S
  PROVE  SumFunctionOnSet(f, S) = f[y] + SumFunctionOnSet(f, S \ {y})
<1> DEFINE Sum(T) == SumFunctionOnSet(f, T)
           Bad == {T \in SUBSET S : \E z \in T : Sum(T) # f[z] + Sum(T \ {z})}
<1> SUFFICES ASSUME Bad # {} PROVE FALSE
  OBVIOUS
<1>1. PICK T \in Bad : \A U \in SUBSET T : U # T => U \notin Bad
  <2> HIDE DEF Bad
  <2>1. Bad \in SUBSET SUBSET S
    BY DEF Bad
  <2> QED
    BY <2>1, SmallestSubset
<1>2. PICK z \in T : Sum(T) # f[z] + Sum(T \ {z})
  OBVIOUS
<1> DEFINE x == Pick(T)
<1>3. x \in T
  BY PickIn
<1> HIDE DEF x, Sum
<1>4. \A U \in SUBSET T : IsFiniteSet(U) /\ Sum(U) \in Int
  <2> TAKE U \in SUBSET T
  <2>1. U \in SUBSET S
    OBVIOUS
  <2>2. IsFiniteSet(U)
    BY <2>1, FS_Subset
  <2> QED
    BY <2>1, <2>2, SumInt DEF Sum
<1>5. Sum(T) = f[x] + Sum(T \ {x})
  BY <1>3, <1>4, SumStep DEF Sum, x
<1>6. x # z
  BY <1>2, <1>5
<1>7. Sum(T \ {x}) = f[z] + Sum(T \ {x, z})
  <2>1. (T \ {x}) \ {z} = T \ {x, z}
    OBVIOUS
  <2>2. Sum(T \ {x}) = f[z] + Sum((T \ {x}) \ {z})
    BY <1>1, <1>3, <1>6
  <2> QED
    BY <2>1, <2>2, Zenon
<1>8. Sum(T \ {z}) = f[x] + Sum(T \ {x, z})
  <2>1. (T \ {z}) \ {x} = T \ {x, z}
    OBVIOUS
  <2>2. Sum(T \ {z}) = f[x] + Sum((T \ {z}) \ {x})
    BY <1>1, <1>3, <1>6
  <2> QED
    BY <2>1, <2>2, Zenon
<1>9. /\ f[x] \in Int /\ f[z] \in Int /\ Sum(T \ {x, z}) \in Int
      /\ Sum(T \ {z}) \in Int /\ Sum(T \ {x}) \in Int
  BY <1>3, <1>4
<1>10. Sum(T) = f[z] + Sum(T \ {z})
  BY <1>5, <1>7, <1>8, <1>9
<1> QED
  BY <1>2, <1>10

LEMMA SumAdd ==
  ASSUME NEW f, NEW S, IsFiniteSet(S), \A x \in S : f[x] \in Int,
         NEW y, y \notin S, f[y] \in Int
  PROVE  SumFunctionOnSet(f, S \cup {y}) = f[y] + SumFunctionOnSet(f, S)
<1>1. (S \cup {y}) \ {y} = S /\ IsFiniteSet(S \cup {y})
  BY FS_AddElement
<1> QED
  BY <1>1, SumRemove

LEMMA SumNat ==
  ASSUME NEW f, NEW S, IsFiniteSet(S), \A x \in S : f[x] \in Nat
  PROVE  SumFunctionOnSet(f, S) \in Nat
<1> DEFINE Bad == {T \in SUBSET S : SumFunctionOnSet(f, T) \notin Nat}
<1> SUFFICES ASSUME Bad # {} PROVE FALSE
  OBVIOUS
<1>1. PICK T \in Bad : \A U \in SUBSET T : U # T => U \notin Bad
  <2> HIDE DEF Bad
  <2>1. Bad \in SUBSET SUBSET S
    BY DEF Bad
  <2> QED
    BY <2>1, SmallestSubset
<1>2. IsFiniteSet(T)
  BY FS_Subset
<1>3. T # {} /\ Pick(T) \in T
  BY SumEmpty, PickIn
<1>4. SumFunctionOnSet(f, T \ {Pick(T)}) \in Nat /\ f[Pick(T)] \in Nat
  BY <1>1, <1>3
<1>5. SumFunctionOnSet(f, T) = f[Pick(T)] + SumFunctionOnSet(f, T \ {Pick(T)})
  BY <1>2, <1>3, SumStep
<1> QED
  BY <1>4, <1>5

-----------------------------------------------------------------------------
(* How sums compare *)

\* A sum over fewer members of smaller numbers is not larger.
LEMMA SumMonotone ==
  ASSUME NEW S, IsFiniteSet(S), NEW T \in SUBSET S, NEW f, NEW g,
         \A x \in S : g[x] \in Nat, \A x \in T : f[x] \in Nat /\ f[x] <= g[x]
  PROVE  SumFunctionOnSet(f, T) <= SumFunctionOnSet(g, S)
<1> DEFINE Bad == {U \in SUBSET S : ~(SumFunctionOnSet(f, T \cap U) <= SumFunctionOnSet(g, U))}
<1>1. ASSUME Bad # {} PROVE FALSE
  <2>1. PICK U \in Bad : \A V \in SUBSET U : V # U => V \notin Bad
    <3> HIDE DEF Bad
    <3>1. Bad \in SUBSET SUBSET S
      BY DEF Bad
    <3> QED
      BY <1>1, <3>1, SmallestSubset
  <2>2. PICK x \in U : TRUE
    <3>1. ASSUME U = {} PROVE FALSE
      <4>1. T \cap U = {}
        BY <3>1
      <4>2. SumFunctionOnSet(f, T \cap U) = 0 /\ SumFunctionOnSet(g, U) = 0
        BY <3>1, <4>1, SumEmpty, Zenon
      <4> QED
        BY <4>2
    <3> QED
      BY <3>1
  <2> DEFINE V == U \ {x}
  <2>3. SumFunctionOnSet(f, T \cap V) <= SumFunctionOnSet(g, V)
    BY <2>1
  <2>4. /\ IsFiniteSet(U) /\ IsFiniteSet(V) /\ IsFiniteSet(T \cap U) /\ IsFiniteSet(T \cap V)
    BY FS_Subset
  <2>5. /\ SumFunctionOnSet(g, V) \in Nat /\ SumFunctionOnSet(f, T \cap V) \in Nat
        /\ SumFunctionOnSet(g, U) = g[x] + SumFunctionOnSet(g, V) /\ g[x] \in Nat
    BY <2>4, SumNat, SumRemove
  <2>6. CASE x \in T
    <3>1. (T \cap U) \ {x} = T \cap V /\ x \in T \cap U
      BY <2>6
    <3>2. SumFunctionOnSet(f, T \cap U) = f[x] + SumFunctionOnSet(f, T \cap V)
      BY <2>4, <3>1, SumRemove
    <3>3. f[x] \in Nat /\ f[x] <= g[x]
      BY <2>6
    <3> QED
      BY <2>3, <2>5, <3>2, <3>3
  <2>7. CASE x \notin T
    <3>1. T \cap U = T \cap V
      BY <2>7
    <3>2. SumFunctionOnSet(f, T \cap U) = SumFunctionOnSet(f, T \cap V)
      BY <3>1, Zenon
    <3> QED
      BY <2>3, <2>5, <3>2
  <2> QED
    BY <2>6, <2>7
<1>2. T \cap S = T
  OBVIOUS
<1> QED
  BY <1>1, <1>2

\* A sum is at most the number of members that count, times the largest of them.
LEMMA SumBound ==
  ASSUME NEW S, IsFiniteSet(S), NEW f, NEW m \in Nat,
         \A x \in S : f[x] \in Nat /\ f[x] <= m
  PROVE  SumFunctionOnSet(f, S) <= Cardinality({x \in S : f[x] > 0}) * m
<1> DEFINE Counted(U) == {x \in U : f[x] > 0}
           Bad == {U \in SUBSET S : ~(SumFunctionOnSet(f, U) <= Cardinality(Counted(U)) * m)}
<1>1. ASSUME Bad # {} PROVE FALSE
  <2>1. PICK U \in Bad : \A V \in SUBSET U : V # U => V \notin Bad
    <3> HIDE DEF Bad
    <3>1. Bad \in SUBSET SUBSET S
      BY DEF Bad
    <3> QED
      BY <1>1, <3>1, SmallestSubset
  <2>2. PICK x \in U : TRUE
    <3>1. Counted({}) = {} /\ SumFunctionOnSet(f, {}) = 0 /\ Cardinality({}) = 0
      BY SumEmpty, FS_EmptySet
    <3> QED
      BY <3>1
  <2> DEFINE V == U \ {x}
             n == Cardinality(Counted(V))
  <2>3. SumFunctionOnSet(f, V) <= n * m
    BY <2>1
  <2>4. IsFiniteSet(U) /\ IsFiniteSet(V) /\ IsFiniteSet(Counted(V))
    <3>1. U \in SUBSET S /\ V \in SUBSET S /\ Counted(V) \in SUBSET S
      OBVIOUS
    <3> HIDE DEF V, Counted
    <3> QED
      BY <3>1, FS_Subset
  <2>5. n \in Nat
    BY <2>4, FS_CardinalityType
  <2>6. /\ SumFunctionOnSet(f, V) \in Nat /\ SumFunctionOnSet(f, U) = f[x] + SumFunctionOnSet(f, V)
    BY <2>4, SumNat, SumRemove
  <2>7. ~(SumFunctionOnSet(f, U) <= Cardinality(Counted(U)) * m)
    OBVIOUS
  <2>8. f[x] \in Nat /\ f[x] <= m
    OBVIOUS
  <2>9. CASE f[x] > 0
    <3>1. Counted(U) = Counted(V) \cup {x} /\ x \notin Counted(V)
      BY <2>9
    <3>2. Cardinality(Counted(U)) = n + 1
      <4> HIDE DEF Counted, V
      <4> QED
        BY <2>4, <3>1, FS_AddElement
    <3> HIDE DEF n, V
    <3>3. (n + 1) * m = n * m + m
      BY <2>5
    <3>4. n * m \in Nat
      BY <2>5
    <3> QED
      BY <2>3, <2>6, <2>7, <2>8, <3>2, <3>3, <3>4
  <2>10. CASE ~(f[x] > 0)
    <3>1. Counted(U) = Counted(V) /\ f[x] = 0
      BY <2>8, <2>10
    <3>2. Cardinality(Counted(U)) = n
      BY <3>1, Zenon
    <3> HIDE DEF V, n
    <3> QED
      BY <2>3, <2>6, <2>7, <3>1, <3>2
  <2> QED
    BY <2>9, <2>10
<1> QED
  BY <1>1

\* A function on a finite set that is not empty takes a largest value.
LEMMA LargestValue ==
  ASSUME NEW S, IsFiniteSet(S), S # {}, NEW f, \A x \in S : f[x] \in Int
  PROVE  \E x \in S : \A y \in S : f[y] <= f[x]
<1> DEFINE Bad == {T \in SUBSET S : T # {} /\ ~\E x \in T : \A y \in T : f[y] <= f[x]}
<1>1. ASSUME Bad # {} PROVE FALSE
  <2>1. PICK T \in Bad : \A U \in SUBSET T : U # T => U \notin Bad
    <3> HIDE DEF Bad
    <3>1. Bad \in SUBSET SUBSET S
      BY DEF Bad
    <3> QED
      BY <1>1, <3>1, SmallestSubset
  <2>2. PICK z \in T : TRUE
    OBVIOUS
  <2>3. CASE T \ {z} = {}
    <3>1. \A y \in T : y = z
      BY <2>3
    <3> QED
      BY <3>1
  <2>4. CASE T \ {z} # {}
    <3>1. PICK x \in T \ {z} : \A y \in T \ {z} : f[y] <= f[x]
      BY <2>1, <2>4
    <3>2. f[x] \in Int /\ f[z] \in Int /\ \A y \in T : f[y] \in Int
      OBVIOUS
    <3>3. CASE f[z] <= f[x]
      BY <3>1, <3>3
    <3>4. CASE ~(f[z] <= f[x])
      <4>1. \A y \in T : f[y] <= f[z]
        BY <3>1, <3>2, <3>4
      <4> QED
        BY <4>1
    <3> QED
      BY <3>3, <3>4
  <2> QED
    BY <2>3, <2>4
<1> QED
  BY <1>1
=============================================================================

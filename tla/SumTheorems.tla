---------------------------- MODULE SumTheorems ----------------------------
(***************************************************************************)
(* Sums over finite sets.  The books of the contracts are maps, and what   *)
(* they promise is about the sum of a map's values: SumFunctionOnSet of    *)
(* the community modules.                                                  *)
(*                                                                         *)
(* The library's induction theorems take the induction hypothesis as an    *)
(* operator.  Here it is a set, the collection of the subsets for which    *)
(* the claim holds (SetInduction), so that a proof can instantiate it.     *)
(***************************************************************************)
EXTENDS Functions, FiniteSetTheorems, TLAPS

\* A collection that holds a subset whenever it holds that subset less any one
\* element holds every subset of a finite set.
LEMMA SetInduction ==
  ASSUME NEW S, IsFiniteSet(S), NEW Holds,
         \A T \in SUBSET S : (\A x \in T : T \ {x} \in Holds) => T \in Holds
  PROVE  SUBSET S \subseteq Holds
<1> DEFINE Bad == {T \in SUBSET S : T \notin Holds}
<1> SUFFICES ASSUME Bad # {} PROVE FALSE
  OBVIOUS
<1>1. IsWellFoundedOn(StrictSubsetOrdering(S), SUBSET S)
  <2>1. IsWellFoundedOn(StrictSubsetOrdering(S), FiniteSubsetsOf(S))
    BY FS_StrictSubsetOrderingWellFounded
  <2>2. FiniteSubsetsOf(S) = SUBSET S
    BY FS_FiniteSubsetsOfFinite
  <2> QED BY ONLY <2>1, <2>2, Zenon
<1>2. PICK T \in Bad : \A U \in Bad : <<U, T>> \notin StrictSubsetOrdering(S)
  <2>1. Bad \subseteq SUBSET S /\ Bad # {}
    OBVIOUS
  <2> HIDE DEF Bad
  <2> QED BY ONLY <1>1, <2>1, WFMin
<1>3. PICK x \in T : T \ {x} \notin Holds
  BY <1>2
<1>4. T \ {x} \in Bad /\ <<T \ {x}, T>> \in StrictSubsetOrdering(S)
  BY <1>2, <1>3 DEF StrictSubsetOrdering
<1> QED BY <1>2, <1>4
-----------------------------------------------------------------------------
(* The sum as a difference of two cardinalities, which no order of summing  *)
(* enters: every x of the set is a column of f[x] cells, a negative one of  *)
(* the debit side.                                                          *)

Cells(f, T) == {p \in T \X Nat : p[2] \in 1 .. f[p[1]]}
Negated(f, S) == [x \in S |-> -f[x]]
CellSum(f, S, T) == Cardinality(Cells(f, T)) - Cardinality(Cells(Negated(f, S), T))

\* Taking one element out takes its column out.
LEMMA CellsOfOneLess ==
  ASSUME NEW S, NEW f, \A s \in S : f[s] \in Int,
         NEW T \in SUBSET S, NEW x \in T, IsFiniteSet(Cells(f, T \ {x}))
  PROVE  /\ IsFiniteSet(Cells(f, T))
         /\ Cardinality(Cells(f, T)) =
              Cardinality(Cells(f, T \ {x})) + (IF f[x] > 0 THEN f[x] ELSE 0)
<1> DEFINE column == {x} \X (1 .. f[x])
<1>1. IsFiniteSet(column) /\ Cardinality(column) = IF f[x] > 0 THEN f[x] ELSE 0
  <2>1. IsFiniteSet(1 .. f[x]) /\ Cardinality(1 .. f[x]) = IF f[x] > 0 THEN f[x] ELSE 0
    BY FS_Interval
  <2>2. IsFiniteSet({x}) /\ Cardinality({x}) = 1
    BY FS_Singleton
  <2>3. IsFiniteSet(column) /\ Cardinality(column) = 1 * Cardinality(1 .. f[x])
    BY <2>1, <2>2, FS_Product
  <2> QED BY <2>1, <2>3
<1>2. Cells(f, T) = Cells(f, T \ {x}) \cup column
  BY DEF Cells
<1>3. Cells(f, T \ {x}) \cap column = {}
  BY DEF Cells
<1>4. Cardinality(Cells(f, T \ {x}) \cap column) = 0
  BY <1>3, FS_EmptySet
<1>5. Cardinality(Cells(f, T \ {x})) \in Nat
  BY FS_CardinalityType
<1> HIDE DEF column
<1>6. /\ IsFiniteSet(Cells(f, T \ {x}) \cup column)
      /\ Cardinality(Cells(f, T \ {x}) \cup column) =
           Cardinality(Cells(f, T \ {x})) + Cardinality(column)
             - Cardinality(Cells(f, T \ {x}) \cap column)
  BY <1>1, FS_Union
<1>7. IsFiniteSet(Cells(f, T))
  BY <1>2, <1>6, Zenon
<1> QED BY <1>1, <1>2, <1>4, <1>5, <1>6, <1>7

LEMMA CellsFinite ==
  ASSUME NEW S, IsFiniteSet(S), NEW f, \A s \in S : f[s] \in Int
  PROVE  \A T \in SUBSET S : IsFiniteSet(Cells(f, T))
<1> DEFINE Holds == {T \in SUBSET S : IsFiniteSet(Cells(f, T))}
<1>1. ASSUME NEW T \in SUBSET S, \A x \in T : T \ {x} \in Holds PROVE T \in Holds
  <2>1. CASE T = {}
    <3>1. Cells(f, {}) = {}
      BY DEF Cells
    <3> QED BY <2>1, <3>1, FS_EmptySet
  <2>2. CASE T # {}
    <3>1. PICK x \in T : TRUE
      BY <2>2
    <3>2. IsFiniteSet(Cells(f, T \ {x}))
      BY <1>1
    <3> QED BY <3>2, CellsOfOneLess
  <2> QED BY <2>1, <2>2
<1>2. SUBSET S \subseteq Holds
  <2> HIDE DEF Holds
  <2> QED BY <1>1, SetInduction
<1> QED BY <1>2

LEMMA CellsByColumn ==
  ASSUME NEW S, IsFiniteSet(S), NEW f, \A s \in S : f[s] \in Int
  PROVE  /\ Cardinality(Cells(f, {})) = 0
         /\ \A T \in SUBSET S :
              /\ Cardinality(Cells(f, T)) \in Nat
              /\ \A x \in T : Cardinality(Cells(f, T)) =
                   Cardinality(Cells(f, T \ {x})) + (IF f[x] > 0 THEN f[x] ELSE 0)
<1>1. Cardinality(Cells(f, {})) = 0
  <2>1. Cells(f, {}) = {}
    BY DEF Cells
  <2>2. Cardinality({}) = 0
    BY FS_EmptySet
  <2> QED BY <2>1, <2>2
<1>2. ASSUME NEW T \in SUBSET S
      PROVE  /\ Cardinality(Cells(f, T)) \in Nat
             /\ \A x \in T : Cardinality(Cells(f, T)) =
                  Cardinality(Cells(f, T \ {x})) + (IF f[x] > 0 THEN f[x] ELSE 0)
  <2>1. Cardinality(Cells(f, T)) \in Nat
    <3>1. IsFiniteSet(Cells(f, T))
      BY CellsFinite
    <3> QED BY <3>1, FS_CardinalityType
  <2>2. ASSUME NEW x \in T
        PROVE  Cardinality(Cells(f, T)) =
                 Cardinality(Cells(f, T \ {x})) + (IF f[x] > 0 THEN f[x] ELSE 0)
    <3>1. IsFiniteSet(Cells(f, T \ {x}))
      BY CellsFinite
    <3> QED BY <3>1, CellsOfOneLess
  <2> QED BY <2>1, <2>2
<1> QED BY <1>1, <1>2

LEMMA CellSumByElement ==
  ASSUME NEW S, IsFiniteSet(S), NEW f, \A s \in S : f[s] \in Int
  PROVE  /\ CellSum(f, S, {}) = 0
         /\ \A T \in SUBSET S :
              /\ CellSum(f, S, T) \in Int
              /\ \A x \in T : CellSum(f, S, T) = f[x] + CellSum(f, S, T \ {x})
<1> DEFINE n == Negated(f, S)
<1>1. \A s \in S : n[s] \in Int /\ n[s] = -f[s]
  BY DEF Negated
<1>2. /\ Cardinality(Cells(n, {})) = 0
      /\ \A T \in SUBSET S :
           /\ Cardinality(Cells(n, T)) \in Nat
           /\ \A x \in T : Cardinality(Cells(n, T)) =
                Cardinality(Cells(n, T \ {x})) + (IF n[x] > 0 THEN n[x] ELSE 0)
  <2> HIDE DEF n
  <2> QED BY <1>1, CellsByColumn
<1>3. \A T : CellSum(f, S, T) = Cardinality(Cells(f, T)) - Cardinality(Cells(n, T))
  BY DEF CellSum
<1> HIDE DEF n
<1>4. CellSum(f, S, {}) = 0
  <2>1. Cardinality(Cells(f, {})) = 0
    BY CellsByColumn
  <2> QED BY <1>2, <1>3, <2>1
<1>5. ASSUME NEW T \in SUBSET S
      PROVE  /\ CellSum(f, S, T) \in Int
             /\ \A x \in T : CellSum(f, S, T) = f[x] + CellSum(f, S, T \ {x})
  <2>1. Cardinality(Cells(f, T)) \in Nat /\ Cardinality(Cells(n, T)) \in Nat
    BY <1>2, CellsByColumn
  <2>2. ASSUME NEW x \in T PROVE CellSum(f, S, T) = f[x] + CellSum(f, S, T \ {x})
    <3>1. T \ {x} \in SUBSET S
      OBVIOUS
    <3>2. /\ Cardinality(Cells(f, T \ {x})) \in Nat
          /\ Cardinality(Cells(f, T)) =
               Cardinality(Cells(f, T \ {x})) + (IF f[x] > 0 THEN f[x] ELSE 0)
      BY <3>1, CellsByColumn
    <3>3. /\ Cardinality(Cells(n, T \ {x})) \in Nat
          /\ Cardinality(Cells(n, T)) =
               Cardinality(Cells(n, T \ {x})) + (IF n[x] > 0 THEN n[x] ELSE 0)
      BY <1>2, <3>1
    <3>4. f[x] \in Int /\ n[x] = -f[x]
      BY <1>1
    <3> QED BY <1>3, <3>2, <3>3, <3>4
  <2> QED BY <1>3, <2>1, <2>2
<1> QED BY <1>4, <1>5
-----------------------------------------------------------------------------
(* SumFunctionOnSet is defined by recursion, in an order it does not tell. *)

Summing(f, S, g) ==
  \A T \in SUBSET S :
    g[T] = IF T = {} THEN 0
           ELSE f[CHOOSE x \in T : TRUE] + g[T \ {CHOOSE x \in T : TRUE}]

\* Once some function satisfies the recursion, the sum is the value of one.
LEMMA SumUnfolds ==
  ASSUME NEW f, NEW S,
         NEW g, g = [T \in SUBSET S |-> g[T]], Summing(f, S, g)
  PROVE  \E h : Summing(f, S, h) /\ SumFunctionOnSet(f, S) = h[S]
<1> DEFINE step(h) == [T \in SUBSET S |->
                 IF T = {} THEN 0
                 ELSE f[CHOOSE x \in T : TRUE] + h[T \ {CHOOSE x \in T : TRUE}]]
           iter == CHOOSE h : h = step(h)
<1>1. g = step(g)
  BY DEF Summing
<1>2. iter = step(iter)
  <2> HIDE DEF step
  <2> QED BY <1>1
<1>3. SumFunctionOnSet(f, S) = iter[S]
  BY DEF SumFunctionOnSet, FoldFunctionOnSet, MapThenFoldSet
<1>4. Summing(f, S, iter)
  <2> HIDE DEF iter
  <2> QED BY <1>2 DEF Summing
<1> QED BY <1>3, <1>4

\* The sum is the difference of the cells, whatever order it was taken in.
LEMMA SumIsCellSum ==
  ASSUME NEW S, IsFiniteSet(S), NEW f, \A s \in S : f[s] \in Int
  PROVE  SumFunctionOnSet(f, S) = CellSum(f, S, S)
<1> DEFINE g == [T \in SUBSET S |-> CellSum(f, S, T)]
<1>1. Summing(f, S, g)
  <2> SUFFICES ASSUME NEW T \in SUBSET S
               PROVE  g[T] = IF T = {} THEN 0
                      ELSE f[CHOOSE x \in T : TRUE] + g[T \ {CHOOSE x \in T : TRUE}]
    BY DEF Summing
  <2>1. CASE T = {}
    BY <2>1, CellSumByElement
  <2>2. CASE T # {}
    <3>1. PICK x \in T : x = CHOOSE y \in T : TRUE
      BY <2>2
    <3>2. T \ {x} \in SUBSET S
      OBVIOUS
    <3>3. CellSum(f, S, T) = f[x] + CellSum(f, S, T \ {x})
      BY CellSumByElement
    <3>4. g[T] = f[x] + g[T \ {x}]
      BY <3>2, <3>3
    <3> HIDE DEF g
    <3> QED BY <2>2, <3>1, <3>4
  <2> QED BY <2>1, <2>2
<1>2. PICK h : Summing(f, S, h) /\ SumFunctionOnSet(f, S) = h[S]
  <2>1. g = [T \in SUBSET S |-> g[T]]
    OBVIOUS
  <2> HIDE DEF g
  <2> QED BY <1>1, <2>1, SumUnfolds
<1> DEFINE Holds == {T \in SUBSET S : h[T] = CellSum(f, S, T)}
<1>3. ASSUME NEW T \in SUBSET S, \A x \in T : T \ {x} \in Holds PROVE T \in Holds
  <2>1. CASE T = {}
    BY <1>2, <2>1, CellSumByElement DEF Summing
  <2>2. CASE T # {}
    <3>1. PICK x \in T : x = CHOOSE y \in T : TRUE
      BY <2>2
    <3>2. h[T] = f[x] + h[T \ {x}]
      BY <1>2, <2>2, <3>1 DEF Summing
    <3>3. h[T \ {x}] = CellSum(f, S, T \ {x})
      BY <1>3
    <3> QED BY <3>2, <3>3, CellSumByElement
  <2> QED BY <2>1, <2>2
<1>4. SUBSET S \subseteq Holds
  <2> HIDE DEF Holds
  <2> QED BY <1>3, SetInduction
<1> QED BY <1>2, <1>4
-----------------------------------------------------------------------------
(* What the other modules use.                                              *)

\* A sum is an integer, and is each element's value and the sum of the others.
LEMMA SumByElement ==
  ASSUME NEW S, IsFiniteSet(S), NEW f, \A s \in S : f[s] \in Int
  PROVE  /\ SumFunctionOnSet(f, {}) = 0
         /\ \A T \in SUBSET S :
              /\ SumFunctionOnSet(f, T) \in Int
              /\ \A x \in T : SumFunctionOnSet(f, T) = f[x] + SumFunctionOnSet(f, T \ {x})
<1>1. ASSUME NEW T \in SUBSET S PROVE SumFunctionOnSet(f, T) = CellSum(f, S, T)
  <2>1. IsFiniteSet(T) /\ \A s \in T : f[s] \in Int
    BY FS_Subset
  <2>2. SumFunctionOnSet(f, T) = CellSum(f, T, T)
    BY <2>1, SumIsCellSum
  <2>3. Cells(Negated(f, T), T) = Cells(Negated(f, S), T)
    BY DEF Cells, Negated
  <2> QED BY <2>2, <2>3 DEF CellSum
<1>2. /\ CellSum(f, S, {}) = 0
      /\ \A T \in SUBSET S :
           /\ CellSum(f, S, T) \in Int
           /\ \A x \in T : CellSum(f, S, T) = f[x] + CellSum(f, S, T \ {x})
  BY CellSumByElement
<1>3. ASSUME NEW T \in SUBSET S, NEW x \in T
      PROVE  SumFunctionOnSet(f, T) = f[x] + SumFunctionOnSet(f, T \ {x})
  <2>1. T \ {x} \in SUBSET S
    OBVIOUS
  <2> QED BY <1>1, <1>2, <2>1
<1> QED BY <1>1, <1>2, <1>3

LEMMA SumInt ==
  ASSUME NEW S, IsFiniteSet(S), NEW f, \A s \in S : f[s] \in Int
  PROVE  SumFunctionOnSet(f, S) \in Int
BY SumByElement

LEMMA SumWithout ==
  ASSUME NEW S, IsFiniteSet(S), NEW f, \A s \in S : f[s] \in Int, NEW x \in S
  PROVE  /\ SumFunctionOnSet(f, S) = f[x] + SumFunctionOnSet(f, S \ {x})
         /\ SumFunctionOnSet(f, S \ {x}) \in Int
<1>1. S \in SUBSET S /\ S \ {x} \in SUBSET S
  OBVIOUS
<1> QED BY <1>1, SumByElement

\* A sum of the values of two functions is the sum of their sums.
LEMMA SumPlus ==
  ASSUME NEW S, IsFiniteSet(S),
         NEW f, \A s \in S : f[s] \in Int, NEW g, \A s \in S : g[s] \in Int,
         NEW h, \A s \in S : h[s] = f[s] + g[s]
  PROVE  SumFunctionOnSet(h, S) = SumFunctionOnSet(f, S) + SumFunctionOnSet(g, S)
<1> DEFINE Holds == {T \in SUBSET S : SumFunctionOnSet(h, T) =
                       SumFunctionOnSet(f, T) + SumFunctionOnSet(g, T)}
<1>0. \A s \in S : h[s] \in Int
  OBVIOUS
<1>1. ASSUME NEW T \in SUBSET S, \A x \in T : T \ {x} \in Holds PROVE T \in Holds
  <2>1. CASE T = {}
    BY <1>0, <2>1, SumByElement
  <2>2. CASE T # {}
    <3>1. PICK x \in T : TRUE
      BY <2>2
    <3> DEFINE U == T \ {x}
    <3>2. U \in SUBSET S /\ U \in Holds
      BY <1>1
    <3>3. SumFunctionOnSet(f, U) \in Int /\ SumFunctionOnSet(f, T) = f[x] + SumFunctionOnSet(f, U)
      BY <3>2, SumByElement
    <3>4. SumFunctionOnSet(g, U) \in Int /\ SumFunctionOnSet(g, T) = g[x] + SumFunctionOnSet(g, U)
      BY <3>2, SumByElement
    <3>5. SumFunctionOnSet(h, T) = h[x] + SumFunctionOnSet(h, U)
      BY <1>0, <3>2, SumByElement
    <3> HIDE DEF U
    <3> QED BY <3>2, <3>3, <3>4, <3>5
  <2> QED BY <2>1, <2>2
<1>2. SUBSET S \subseteq Holds
  <2> HIDE DEF Holds
  <2> QED BY <1>1, SetInduction
<1> QED BY <1>2

\* A sum of larger values is no smaller.
LEMMA SumMonotone ==
  ASSUME NEW S, IsFiniteSet(S),
         NEW f, \A s \in S : f[s] \in Int, NEW g, \A s \in S : g[s] \in Int,
         \A s \in S : f[s] <= g[s]
  PROVE  SumFunctionOnSet(f, S) <= SumFunctionOnSet(g, S)
<1> DEFINE Holds == {T \in SUBSET S : SumFunctionOnSet(f, T) <= SumFunctionOnSet(g, T)}
<1>1. ASSUME NEW T \in SUBSET S, \A x \in T : T \ {x} \in Holds PROVE T \in Holds
  <2>1. CASE T = {}
    <3>1. SumFunctionOnSet(f, {}) = 0 /\ SumFunctionOnSet(g, {}) = 0
      BY SumByElement
    <3> QED BY <2>1, <3>1
  <2>2. CASE T # {}
    <3>1. PICK x \in T : TRUE
      BY <2>2
    <3> DEFINE U == T \ {x}
    <3>2. U \in SUBSET S /\ U \in Holds
      BY <1>1
    <3>3. SumFunctionOnSet(f, U) \in Int /\ SumFunctionOnSet(f, T) = f[x] + SumFunctionOnSet(f, U)
      BY <3>2, SumByElement
    <3>4. SumFunctionOnSet(g, U) \in Int /\ SumFunctionOnSet(g, T) = g[x] + SumFunctionOnSet(g, U)
      BY <3>2, SumByElement
    <3> HIDE DEF U
    <3> QED BY <3>2, <3>3, <3>4
  <2> QED BY <2>1, <2>2
<1>2. SUBSET S \subseteq Holds
  <2> HIDE DEF Holds
  <2> QED BY <1>1, SetInduction
<1> QED BY <1>2

\* A common factor may be taken out.
LEMMA SumScaled ==
  ASSUME NEW S, IsFiniteSet(S), NEW d \in Int,
         NEW f, \A s \in S : f[s] \in Int,
         NEW h, \A s \in S : h[s] = d * f[s]
  PROVE  SumFunctionOnSet(h, S) = d * SumFunctionOnSet(f, S)
<1> DEFINE Holds == {T \in SUBSET S : SumFunctionOnSet(h, T) = d * SumFunctionOnSet(f, T)}
<1>0. \A s \in S : h[s] \in Int
  OBVIOUS
<1>1. ASSUME NEW T \in SUBSET S, \A x \in T : T \ {x} \in Holds PROVE T \in Holds
  <2>1. CASE T = {}
    <3>1. SumFunctionOnSet(f, {}) = 0 /\ SumFunctionOnSet(h, {}) = 0
      BY <1>0, SumByElement
    <3> QED BY <2>1, <3>1
  <2>2. CASE T # {}
    <3>1. PICK x \in T : TRUE
      BY <2>2
    <3> DEFINE U == T \ {x}
    <3>2. U \in SUBSET S /\ U \in Holds
      BY <1>1
    <3>3. SumFunctionOnSet(f, U) \in Int /\ SumFunctionOnSet(f, T) = f[x] + SumFunctionOnSet(f, U)
      BY <3>2, SumByElement
    <3>4. SumFunctionOnSet(h, T) = h[x] + SumFunctionOnSet(h, U)
      BY <1>0, <3>2, SumByElement
    <3>5. f[x] \in Int /\ h[x] = d * f[x]
      OBVIOUS
    <3>6. \A a, b \in Int : d * (a + b) = d * a + d * b
      OBVIOUS
    <3> HIDE DEF U
    <3> QED BY <3>2, <3>3, <3>4, <3>5, <3>6
  <2> QED BY <2>1, <2>2
<1>2. SUBSET S \subseteq Holds
  <2> HIDE DEF Holds
  <2> QED BY <1>1, SetInduction
<1> QED BY <1>2

LEMMA SumOfZeros ==
  ASSUME NEW S, IsFiniteSet(S), NEW f, \A s \in S : f[s] = 0
  PROVE  SumFunctionOnSet(f, S) = 0
<1>1. SumFunctionOnSet(f, S) = 0 * SumFunctionOnSet(f, S) /\ SumFunctionOnSet(f, S) \in Int
  BY SumScaled, SumInt
<1> QED BY <1>1

\* Two functions with the same values on a set have the same sum on it.
LEMMA SumSame ==
  ASSUME NEW S, IsFiniteSet(S), NEW f, \A s \in S : f[s] \in Int,
         NEW g, \A s \in S : g[s] = f[s]
  PROVE  SumFunctionOnSet(g, S) = SumFunctionOnSet(f, S)
<1>1. SumFunctionOnSet(g, S) = 1 * SumFunctionOnSet(f, S) /\ SumFunctionOnSet(f, S) \in Int
  BY SumScaled, SumInt
<1> QED BY <1>1

\* Naturals add up to a natural, at least as large as each of them.
LEMMA SumNat ==
  ASSUME NEW S, IsFiniteSet(S), NEW f, \A s \in S : f[s] \in Nat
  PROVE  /\ SumFunctionOnSet(f, S) \in Nat
         /\ \A s \in S : f[s] <= SumFunctionOnSet(f, S)
<1> DEFINE zero == [s \in S |-> 0]
<1>1. ASSUME NEW T \in SUBSET S PROVE SumFunctionOnSet(f, T) \in Nat
  <2>1. IsFiniteSet(T)
    BY FS_Subset
  <2>2. SumFunctionOnSet(zero, T) = 0
    BY <2>1, SumOfZeros
  <2>3. SumFunctionOnSet(zero, T) <= SumFunctionOnSet(f, T)
    BY <2>1, SumMonotone
  <2>4. SumFunctionOnSet(f, T) \in Int
    BY <2>1, SumInt
  <2> HIDE DEF zero
  <2> QED BY <2>2, <2>3, <2>4
<1>2. ASSUME NEW s \in S PROVE f[s] <= SumFunctionOnSet(f, S)
  <2>1. SumFunctionOnSet(f, S) = f[s] + SumFunctionOnSet(f, S \ {s})
    BY SumByElement
  <2>2. SumFunctionOnSet(f, S \ {s}) \in Nat
    BY <1>1
  <2> QED BY <2>1, <2>2
<1> QED BY <1>1, <1>2

\* Changing one value changes the sum by as much.
LEMMA SumUpdate ==
  ASSUME NEW S, IsFiniteSet(S), NEW f, \A s \in S : f[s] \in Int, NEW x \in S,
         NEW g, g[x] \in Int, \A s \in S \ {x} : g[s] = f[s]
  PROVE  SumFunctionOnSet(g, S) = SumFunctionOnSet(f, S) + g[x] - f[x]
<1>1. SumFunctionOnSet(f, S) = f[x] + SumFunctionOnSet(f, S \ {x})
  BY SumByElement
<1>2. \A s \in S : g[s] \in Int
  OBVIOUS
<1>3. SumFunctionOnSet(g, S) = g[x] + SumFunctionOnSet(g, S \ {x})
  BY <1>2, SumByElement
<1>4. IsFiniteSet(S \ {x})
  BY FS_RemoveElement
<1>5. SumFunctionOnSet(g, S \ {x}) = SumFunctionOnSet(f, S \ {x})
  BY <1>4, SumSame
<1>6. SumFunctionOnSet(f, S \ {x}) \in Int
  BY <1>4, SumInt
<1> QED BY <1>1, <1>3, <1>5, <1>6

\* A set is summed in two parts.
LEMMA SumOfParts ==
  ASSUME NEW S, IsFiniteSet(S), NEW f, \A s \in S : f[s] \in Int, NEW P \in SUBSET S
  PROVE  SumFunctionOnSet(f, S) = SumFunctionOnSet(f, P) + SumFunctionOnSet(f, S \ P)
<1> DEFINE Holds == {T \in SUBSET S : SumFunctionOnSet(f, T) =
                       SumFunctionOnSet(f, T \cap P) + SumFunctionOnSet(f, T \ P)}
<1>1. ASSUME NEW T \in SUBSET S, \A x \in T : T \ {x} \in Holds PROVE T \in Holds
  <2>1. CASE T = {}
    <3>1. SumFunctionOnSet(f, {}) = 0 /\ T \cap P = {} /\ T \ P = {}
      BY <2>1, SumByElement
    <3> QED BY <2>1, <3>1
  <2>2. CASE T # {}
    <3>1. PICK x \in T : TRUE
      BY <2>2
    <3> DEFINE U == T \ {x}
    <3>2. U \in SUBSET S /\ U \in Holds
      BY <1>1
    <3>3. /\ SumFunctionOnSet(f, T) = f[x] + SumFunctionOnSet(f, U)
          /\ SumFunctionOnSet(f, U \cap P) \in Int /\ SumFunctionOnSet(f, U \ P) \in Int
      <4>1. U \cap P \in SUBSET S /\ U \ P \in SUBSET S
        OBVIOUS
      <4> QED BY <3>2, <4>1, SumByElement
    <3>6. f[x] \in Int /\ SumFunctionOnSet(f, U) =
            SumFunctionOnSet(f, U \cap P) + SumFunctionOnSet(f, U \ P)
      BY <3>2
    <3>4. CASE x \in P
      <4>1. T \cap P \in SUBSET S /\ x \in T \cap P
        BY <3>4
      <4>2. (T \cap P) \ {x} = U \cap P
        BY <3>4
      <4>3. T \ P = U \ P
        BY <3>4
      <4>4. SumFunctionOnSet(f, T \cap P) = f[x] + SumFunctionOnSet(f, (T \cap P) \ {x})
        BY <4>1, SumByElement
      <4>5. SumFunctionOnSet(f, T \cap P) = f[x] + SumFunctionOnSet(f, U \cap P)
        BY <4>2, <4>4
      <4>6. SumFunctionOnSet(f, T \ P) = SumFunctionOnSet(f, U \ P)
        BY <4>3
      <4> HIDE DEF U, Holds
      <4>7. SumFunctionOnSet(f, T) = SumFunctionOnSet(f, T \cap P) + SumFunctionOnSet(f, T \ P)
        BY <3>3, <3>6, <4>5, <4>6
      <4> QED BY <4>7 DEF Holds
    <3>5. CASE x \notin P
      <4>1. T \ P \in SUBSET S /\ x \in T \ P
        BY <3>5
      <4>2. (T \ P) \ {x} = U \ P
        BY <3>5
      <4>3. T \cap P = U \cap P
        BY <3>5
      <4>4. SumFunctionOnSet(f, T \ P) = f[x] + SumFunctionOnSet(f, (T \ P) \ {x})
        BY <4>1, SumByElement
      <4>5. SumFunctionOnSet(f, T \ P) = f[x] + SumFunctionOnSet(f, U \ P)
        BY <4>2, <4>4
      <4>6. SumFunctionOnSet(f, T \cap P) = SumFunctionOnSet(f, U \cap P)
        BY <4>3
      <4> HIDE DEF U, Holds
      <4>7. SumFunctionOnSet(f, T) = SumFunctionOnSet(f, T \cap P) + SumFunctionOnSet(f, T \ P)
        BY <3>3, <3>6, <4>5, <4>6
      <4> QED BY <4>7 DEF Holds
    <3> QED BY <3>4, <3>5
  <2> QED BY <2>1, <2>2
<1>2. SUBSET S \subseteq Holds
  <2> HIDE DEF Holds
  <2> QED BY <1>1, SetInduction
<1>3. S \cap P = P /\ S \in SUBSET S
  OBVIOUS
<1>4. SumFunctionOnSet(f, S) = SumFunctionOnSet(f, S \cap P) + SumFunctionOnSet(f, S \ P)
  BY <1>2, <1>3
<1> QED BY <1>3, <1>4

\* Fewer naturals add up to no more.
LEMMA SumOfFewer ==
  ASSUME NEW S, IsFiniteSet(S), NEW f, \A s \in S : f[s] \in Nat, NEW T \in SUBSET S
  PROVE  SumFunctionOnSet(f, T) <= SumFunctionOnSet(f, S)
<1>1. IsFiniteSet(T) /\ IsFiniteSet(S \ T)
  BY FS_Subset
<1>2. SumFunctionOnSet(f, T) \in Nat /\ SumFunctionOnSet(f, S \ T) \in Nat
  <2>1. SumFunctionOnSet(f, T) \in Nat
    BY <1>1, SumNat
  <2>2. SumFunctionOnSet(f, S \ T) \in Nat
    BY <1>1, SumNat
  <2> QED BY <2>1, <2>2
<1>3. SumFunctionOnSet(f, S) = SumFunctionOnSet(f, T) + SumFunctionOnSet(f, S \ T)
  BY SumOfParts
<1> QED BY <1>2, <1>3

\* Summing only a part of a set is summing zeros on the rest.
LEMMA SumMasked ==
  ASSUME NEW S, IsFiniteSet(S), NEW P \in SUBSET S, NEW f, \A s \in P : f[s] \in Int,
         NEW g, \A s \in P : g[s] = f[s], \A s \in S \ P : g[s] = 0
  PROVE  SumFunctionOnSet(g, S) = SumFunctionOnSet(f, P)
<1>1. IsFiniteSet(P) /\ IsFiniteSet(S \ P)
  BY FS_Subset
<1>2. \A s \in S : g[s] \in Int
  OBVIOUS
<1>3. SumFunctionOnSet(g, S) = SumFunctionOnSet(g, P) + SumFunctionOnSet(g, S \ P)
  BY <1>2, SumOfParts
<1>4. SumFunctionOnSet(g, P) = SumFunctionOnSet(f, P)
  BY <1>1, SumSame
<1>5. SumFunctionOnSet(g, S \ P) = 0
  BY <1>1, SumOfZeros
<1>6. SumFunctionOnSet(f, P) \in Int
  BY <1>1, SumInt
<1> QED BY <1>3, <1>4, <1>5, <1>6

\* Ones add up to the number of elements.
LEMMA SumOfOnes ==
  ASSUME NEW S, IsFiniteSet(S), NEW f, \A s \in S : f[s] = 1
  PROVE  SumFunctionOnSet(f, S) = Cardinality(S)
<1> DEFINE Holds == {T \in SUBSET S : SumFunctionOnSet(f, T) = Cardinality(T)}
<1>1. ASSUME NEW T \in SUBSET S, \A x \in T : T \ {x} \in Holds PROVE T \in Holds
  <2>0. IsFiniteSet(T)
    BY FS_Subset
  <2>1. CASE T = {}
    <3>1. SumFunctionOnSet(f, {}) = 0 /\ Cardinality({}) = 0
      BY SumByElement, FS_EmptySet
    <3> QED BY <2>1, <3>1
  <2>2. CASE T # {}
    <3>1. PICK x \in T : TRUE
      BY <2>2
    <3>2. SumFunctionOnSet(f, T \ {x}) = Cardinality(T \ {x})
      BY <1>1
    <3>3. SumFunctionOnSet(f, T) = f[x] + SumFunctionOnSet(f, T \ {x}) /\ f[x] = 1
      BY SumByElement
    <3>4. Cardinality(T \ {x}) = Cardinality(T) - 1 /\ Cardinality(T) \in Nat
      BY <2>0, FS_RemoveElement, FS_CardinalityType
    <3> QED BY <3>2, <3>3, <3>4
  <2> QED BY <2>1, <2>2
<1>2. SUBSET S \subseteq Holds
  <2> HIDE DEF Holds
  <2> QED BY <1>1, SetInduction
<1> QED BY <1>2

\* Division rounds down, by less than the divisor.
LEMMA DivBounds ==
  ASSUME NEW a \in Nat, NEW d \in Nat \ {0}
  PROVE  a \div d \in Nat /\ d * (a \div d) <= a /\ a <= d * (a \div d) + (d - 1)
OBVIOUS

LEMMA DivMonotone ==
  ASSUME NEW a \in Nat, NEW b \in Nat, a <= b, NEW d \in Nat \ {0}
  PROVE  a \div d <= b \div d
<1> DEFINE p == a \div d
           q == b \div d
<1>1. p \in Nat /\ q \in Nat /\ d * p <= a /\ b <= d * q + (d - 1)
  BY DivBounds
<1> HIDE DEF p, q
<1>2. p <= q
  <2> SUFFICES ASSUME p >= q + 1 PROVE FALSE
    BY <1>1
  <2>1. d * p >= d * (q + 1) /\ d * (q + 1) = d * q + d
    BY <1>1
  <2> QED BY <1>1, <2>1
<1> QED BY <1>2 DEF p, q
=============================================================================

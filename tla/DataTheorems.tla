----------------------------- MODULE DataTheorems -----------------------------
(***************************************************************************)
(* Facts about data that the proofs of the components share: sums          *)
(* (SumFunctionOnSet of module Functions) do not depend on the order in    *)
(* which the fold picks the elements, a recursion over an interval of      *)
(* naturals has a solution, Picked keeps the elements it is asked for in   *)
(* their order, a function with a finite domain has finitely many values   *)
(* and a greatest and a smallest element when they are integers, the       *)
(* inequality of Cauchy and Schwarz for covariances, and a few lines of    *)
(* integer arithmetic.                                                     *)
(*                                                                         *)
(* Induction appears as the least counterexample (a set of naturals has a  *)
(* least element, WFMin of WellFoundedInduction), which needs no theorem   *)
(* with an operator for a parameter.                                       *)
(***************************************************************************)
EXTENDS Integers, Sequences, FiniteSets, FiniteSetsExt, Functions, Selection,
        FiniteSetTheorems, SequenceTheorems, WellFoundedInduction, TLAPS

(***************************************************************************)
(* Sums                                                                    *)
(***************************************************************************)

\* A set of natural numbers that is not empty has a least element.
LEMMA LeastElement ==
  ASSUME NEW T \in SUBSET Nat, T # {}
  PROVE  \E m \in T : \A k \in T : m <= k
<1> DEFINE R == {ss \in Nat \X Nat : ss[1] < ss[2]}
<1>1. IsWellFoundedOn(R, Nat)
  BY NatLessThanWellFounded, Zenon DEF OpToRel
<1>2. PICK m \in T : \A k \in T : <<k, m>> \notin R
  <2> HIDE DEF R
  <2> QED BY <1>1, WFMin
<1>3. \A k \in T : ~(k < m)
  BY <1>2
<1> QED BY <1>3

\* Among some subsets of a finite set one is the smallest.
LEMMA SmallestSubset ==
  ASSUME NEW S, IsFiniteSet(S), NEW B \in SUBSET (SUBSET S), B # {}
  PROVE  \E m \in B : \A s \in B : Cardinality(m) <= Cardinality(s)
<1> DEFINE T == {Cardinality(s) : s \in B}
<1>1. T \in SUBSET Nat /\ T # {}
  BY FS_Subset, FS_CardinalityType
<1>2. PICK k \in T : \A j \in T : k <= j
  BY <1>1, LeastElement
<1> QED BY <1>2

\* g is what the recursive function inside the fold of f over S computes.
IsSumOf(g, f, S) ==
  g = [s \in SUBSET S |-> IF s = {} THEN 0
                          ELSE f[CHOOSE x \in s : TRUE] + g[s \ {CHOOSE x \in s : TRUE}]]

\* That recursive function exists.
LEMMA SumExists ==
  ASSUME NEW f, NEW S, IsFiniteSet(S)
  PROVE  \E g : IsSumOf(g, f, S)
<1> DEFINE Pick(s) == CHOOSE x \in s : TRUE
           UpTo(n, g) == \A s \in SUBSET S : Cardinality(s) <= n =>
                            g[s] = IF s = {} THEN 0 ELSE f[Pick(s)] + g[s \ {Pick(s)}]
           Bad == {n \in Nat : ~ \E g : UpTo(n, g)}
<1>1. \A s \in SUBSET S : /\ IsFiniteSet(s) /\ Cardinality(s) \in Nat
                          /\ Cardinality(s) <= Cardinality(S)
                          /\ Cardinality(s) = 0 <=> s = {}
  BY FS_Subset, FS_CardinalityType, FS_EmptySet
<1>2. \A s \in SUBSET S : s # {} =>
         /\ Pick(s) \in s /\ s \ {Pick(s)} \in SUBSET S
         /\ Cardinality(s \ {Pick(s)}) = Cardinality(s) - 1
  BY <1>1, FS_RemoveElement
<1>3. \A n \in Nat : n \in Bad <=> ~ \E g : UpTo(n, g)
  OBVIOUS
<1>4. Bad = {}
  <2> SUFFICES ASSUME Bad # {} PROVE FALSE
    OBVIOUS
  <2>1. PICK n \in Bad : \A m \in Bad : n <= m
    <3>1. Bad \in SUBSET Nat
      OBVIOUS
    <3> HIDE DEF Bad
    <3> QED BY <3>1, LeastElement
  <2>2. n # 0
    <3> DEFINE z == [s \in SUBSET S |-> 0]
    <3>1. \A s \in SUBSET S : Cardinality(s) <= 0 => s = {}
      BY <1>1
    <3>2. UpTo(0, z)
      BY <3>1
    <3>3. 0 \notin Bad
      <4> HIDE DEF z, UpTo, Bad
      <4> QED BY <3>2, <1>3
    <3> QED BY <3>3, <2>1
  <2>3. PICK g : UpTo(n - 1, g)
    <3>1. n - 1 \in Nat /\ n - 1 \notin Bad
      <4>1. n - 1 \in Nat /\ ~(n <= n - 1)
        BY <2>1, <2>2
      <4> HIDE DEF Bad
      <4> QED BY <4>1, <2>1
    <3> HIDE DEF UpTo, Bad
    <3> QED BY <3>1, <1>3
  <2> DEFINE h == [s \in SUBSET S |->
                     IF Cardinality(s) < n THEN g[s]
                     ELSE IF s = {} THEN 0 ELSE f[Pick(s)] + g[s \ {Pick(s)}]]
  <2>4. ASSUME NEW s \in SUBSET S, Cardinality(s) <= n
        PROVE  h[s] = IF s = {} THEN 0 ELSE f[Pick(s)] + h[s \ {Pick(s)}]
    <3>1. CASE s = {}
      <4>1. Cardinality(s) < n /\ Cardinality(s) <= n - 1
        BY <3>1, <1>1, <2>1, <2>2
      <4>2. h[s] = g[s]
        BY <4>1
      <4> QED BY <4>1, <4>2, <3>1, <2>3
    <3>2. CASE s # {}
      <4>1. /\ s \ {Pick(s)} \in SUBSET S
            /\ Cardinality(s \ {Pick(s)}) < n
        BY <3>2, <1>1, <1>2, <2>1, <2>4
      <4>2. h[s \ {Pick(s)}] = g[s \ {Pick(s)}]
        BY <4>1
      <4>3. h[s] = f[Pick(s)] + g[s \ {Pick(s)}]
        <5>1. CASE Cardinality(s) < n
          <6>1. Cardinality(s) <= n - 1
            BY <5>1, <1>1, <2>1
          <6> QED BY <5>1, <6>1, <3>2, <2>3
        <5>2. CASE ~(Cardinality(s) < n)
          BY <5>2, <3>2
        <5> QED BY <5>1, <5>2
      <4> QED BY <4>2, <4>3, <3>2
    <3> QED BY <3>1, <3>2
  <2>5. UpTo(n, h)
    <3> HIDE DEF h
    <3> QED BY <2>4
  <2>6. n \in Nat
    OBVIOUS
  <2> HIDE DEF h, UpTo, Bad
  <2> QED BY <2>1, <2>5, <2>6, <1>3
<1>5. PICK g : UpTo(Cardinality(S), g)
  <2>1. Cardinality(S) \in Nat
    BY <1>1
  <2> HIDE DEF UpTo, Bad
  <2> QED BY <2>1, <1>3, <1>4
<1> DEFINE h == [s \in SUBSET S |-> g[s]]
<1>6. ASSUME NEW s \in SUBSET S
      PROVE  h[s] = IF s = {} THEN 0 ELSE f[Pick(s)] + h[s \ {Pick(s)}]
  BY <1>1, <1>2, <1>5
<1>7. IsSumOf(h, f, S)
  <2>1. h = [s \in SUBSET S |-> h[s]]
    OBVIOUS
  <2> HIDE DEF h
  <2> QED BY <1>6, <2>1 DEF IsSumOf
<1> QED BY <1>7

\* The sum is its value at the whole set.
LEMMA SumUnfold ==
  ASSUME NEW f, NEW S, IsFiniteSet(S)
  PROVE  \E g : IsSumOf(g, f, S) /\ SumFunctionOnSet(f, S) = g[S]
<1> DEFINE g == CHOOSE g : IsSumOf(g, f, S)
<1>1. IsSumOf(g, f, S)
  BY SumExists
<1>2. SumFunctionOnSet(f, S) = g[S]
  BY DEF SumFunctionOnSet, FoldFunctionOnSet, MapThenFoldSet, IsSumOf
<1> QED BY <1>1, <1>2

\* Removing an element makes a finite set smaller.
LEMMA SmallerRest ==
  ASSUME NEW S, IsFiniteSet(S), NEW x \in S
  PROVE  ~(Cardinality(S) <= Cardinality(S \ {x}))
<1>1. Cardinality(S) \in Nat
  BY FS_CardinalityType
<1>2. Cardinality(S \ {x}) = Cardinality(S) - 1
  BY FS_RemoveElement
<1> QED BY <1>1, <1>2

\* Two such functions agree on a set both are defined for.
LEMMA SumAgrees ==
  ASSUME NEW f, NEW S, IsFiniteSet(S), NEW T \in SUBSET S,
         NEW g, IsSumOf(g, f, S), NEW h, IsSumOf(h, f, T)
  PROVE  g[T] = h[T]
<1> DEFINE Bad == {s \in SUBSET T : g[s] # h[s]}
<1>1. IsFiniteSet(T) /\ Bad \in SUBSET (SUBSET T)
  BY FS_Subset
<1>2. Bad = {}
  <2> SUFFICES ASSUME Bad # {} PROVE FALSE
    OBVIOUS
  <2>1. PICK s \in Bad : \A t \in Bad : Cardinality(s) <= Cardinality(t)
    <3> HIDE DEF Bad
    <3> QED BY <1>1, SmallestSubset
  <2> DEFINE x == CHOOSE x \in s : TRUE
             r == s \ {x}
  <2>2. s \in SUBSET T /\ s \in SUBSET S /\ IsFiniteSet(s)
    BY <1>1, FS_Subset
  <2>3. s # {}
    BY <2>1, <2>2 DEF IsSumOf
  <2>4. x \in s
    BY <2>3
  <2>5. r \in SUBSET T /\ r \in SUBSET S /\ ~(Cardinality(s) <= Cardinality(r))
    <3> HIDE DEF x
    <3> QED BY <2>2, <2>4, SmallerRest
  <2>6. g[r] = h[r]
    BY <2>1, <2>5
  <2>7. g[s] = f[x] + g[r] /\ h[s] = f[x] + h[r]
    BY <2>2, <2>3 DEF IsSumOf
  <2> QED BY <2>6, <2>7
<1> QED BY <1>2

\* The empty sum is zero.
THEOREM SumOfNothing ==
  ASSUME NEW f
  PROVE  SumFunctionOnSet(f, {}) = 0
<1>1. PICK g : IsSumOf(g, f, {}) /\ SumFunctionOnSet(f, {}) = g[{}]
  BY SumUnfold, FS_EmptySet
<1>2. g[{}] = 0
  BY <1>1 DEF IsSumOf
<1> QED BY <1>1, <1>2

\* A sum is what the fold picks first, plus the sum of the rest.
LEMMA SumPicked ==
  ASSUME NEW f, NEW S, IsFiniteSet(S), S # {}
  PROVE  \E x \in S : SumFunctionOnSet(f, S) = f[x] + SumFunctionOnSet(f, S \ {x})
<1> DEFINE x == CHOOSE x \in S : TRUE
           T == S \ {x}
<1>1. x \in S
  OBVIOUS
<1>2. PICK g : IsSumOf(g, f, S) /\ SumFunctionOnSet(f, S) = g[S]
  BY SumUnfold
<1>3. IsFiniteSet(T) /\ T \in SUBSET S
  BY FS_Subset
<1>4. PICK h : IsSumOf(h, f, T) /\ SumFunctionOnSet(f, T) = h[T]
  <2> HIDE DEF T
  <2> QED BY <1>3, SumUnfold
<1>5. g[T] = h[T]
  <2> HIDE DEF T
  <2> QED BY <1>2, <1>3, <1>4, SumAgrees
<1>6. g[S] = f[x] + g[T]
  BY <1>2 DEF IsSumOf
<1> QED BY <1>1, <1>2, <1>4, <1>5, <1>6

\* A sum of integers is an integer.
THEOREM SumType ==
  ASSUME NEW S, IsFiniteSet(S), NEW f, \A x \in S : f[x] \in Int
  PROVE  SumFunctionOnSet(f, S) \in Int
<1> DEFINE Bad == {s \in SUBSET S : SumFunctionOnSet(f, s) \notin Int}
<1> SUFFICES ASSUME Bad # {} PROVE FALSE
  OBVIOUS
<1>1. PICK s \in Bad : \A t \in Bad : Cardinality(s) <= Cardinality(t)
  <2>1. Bad \in SUBSET (SUBSET S)
    OBVIOUS
  <2> HIDE DEF Bad
  <2> QED BY <2>1, SmallestSubset
<1>2. IsFiniteSet(s) /\ s \in SUBSET S
  BY FS_Subset
<1>3. s # {}
  BY <1>1, SumOfNothing
<1>4. PICK x \in s : SumFunctionOnSet(f, s) = f[x] + SumFunctionOnSet(f, s \ {x})
  BY <1>2, <1>3, SumPicked
<1>5. s \ {x} \in SUBSET S /\ ~(Cardinality(s) <= Cardinality(s \ {x}))
  BY <1>2, <1>4, SmallerRest
<1>6. SumFunctionOnSet(f, s \ {x}) \in Int
  BY <1>1, <1>5
<1>7. f[x] \in Int
  BY <1>2, <1>4
<1> QED BY <1>1, <1>4, <1>6, <1>7

\* A sum is any one of its terms plus the sum of the others: the order in which
\* the fold picks them makes no difference.
THEOREM SumRemove ==
  ASSUME NEW S, IsFiniteSet(S), NEW f, \A x \in S : f[x] \in Int, NEW y \in S
  PROVE  SumFunctionOnSet(f, S) = f[y] + SumFunctionOnSet(f, S \ {y})
<1> DEFINE Sum(s) == SumFunctionOnSet(f, s)
           Bad == {s \in SUBSET S : \E z \in s : Sum(s) # f[z] + Sum(s \ {z})}
<1> SUFFICES ASSUME Bad # {} PROVE FALSE
  OBVIOUS
<1>1. PICK s \in Bad : \A t \in Bad : Cardinality(s) <= Cardinality(t)
  <2>1. Bad \in SUBSET (SUBSET S)
    OBVIOUS
  <2> HIDE DEF Bad
  <2> QED BY <2>1, SmallestSubset
<1>2. PICK z \in s : Sum(s) # f[z] + Sum(s \ {z})
  OBVIOUS
<1>3. IsFiniteSet(s) /\ s \in SUBSET S /\ s # {}
  BY <1>2, FS_Subset
<1>4. PICK x \in s : Sum(s) = f[x] + Sum(s \ {x})
  BY <1>3, SumPicked
<1>5. x # z
  BY <1>2, <1>4
<1>6. /\ s \ {x} \in SUBSET S /\ s \ {z} \in SUBSET S
      /\ ~(Cardinality(s) <= Cardinality(s \ {x}))
      /\ ~(Cardinality(s) <= Cardinality(s \ {z}))
  BY <1>3, SmallerRest
<1>7. /\ Sum(s \ {x}) = f[z] + Sum((s \ {x}) \ {z})
      /\ Sum(s \ {z}) = f[x] + Sum((s \ {z}) \ {x})
  <2> HIDE DEF Sum
  <2>1. s \ {x} \notin Bad /\ s \ {z} \notin Bad
    BY <1>1, <1>6
  <2> QED BY <2>1, <1>5, <1>6
<1>8. (s \ {x}) \ {z} = (s \ {z}) \ {x}
  OBVIOUS
<1>9. f[x] \in Int /\ f[z] \in Int /\ Sum((s \ {x}) \ {z}) \in Int
  <2>1. IsFiniteSet((s \ {x}) \ {z}) /\ \A u \in (s \ {x}) \ {z} : f[u] \in Int
    BY <1>3, FS_Subset
  <2> QED BY <2>1, <1>3, SumType
<1> HIDE DEF Sum
<1> QED BY <1>2, <1>4, <1>7, <1>8, <1>9

\* A sum of natural numbers is a natural number.
THEOREM SumNat ==
  ASSUME NEW S, IsFiniteSet(S), NEW f, \A x \in S : f[x] \in Nat
  PROVE  SumFunctionOnSet(f, S) \in Nat
<1> DEFINE Bad == {s \in SUBSET S : SumFunctionOnSet(f, s) \notin Nat}
<1> SUFFICES ASSUME Bad # {} PROVE FALSE
  OBVIOUS
<1>1. PICK s \in Bad : \A t \in Bad : Cardinality(s) <= Cardinality(t)
  <2>1. Bad \in SUBSET (SUBSET S)
    OBVIOUS
  <2> HIDE DEF Bad
  <2> QED BY <2>1, SmallestSubset
<1>2. IsFiniteSet(s) /\ s \in SUBSET S
  BY FS_Subset
<1>3. s # {}
  BY <1>1, SumOfNothing
<1>4. PICK x \in s : SumFunctionOnSet(f, s) = f[x] + SumFunctionOnSet(f, s \ {x})
  BY <1>2, <1>3, SumPicked
<1>5. s \ {x} \in SUBSET S /\ ~(Cardinality(s) <= Cardinality(s \ {x}))
  BY <1>2, <1>4, SmallerRest
<1>6. SumFunctionOnSet(f, s \ {x}) \in Nat
  BY <1>1, <1>5
<1>7. f[x] \in Nat
  BY <1>2, <1>4
<1> QED BY <1>1, <1>4, <1>6, <1>7

\* Functions that agree on a set have the same sum over it.
THEOREM SumOfEquals ==
  ASSUME NEW S, IsFiniteSet(S), NEW f, NEW g,
         \A x \in S : f[x] \in Int /\ g[x] = f[x]
  PROVE  SumFunctionOnSet(g, S) = SumFunctionOnSet(f, S)
<1> DEFINE Bad == {s \in SUBSET S : SumFunctionOnSet(g, s) # SumFunctionOnSet(f, s)}
<1> SUFFICES ASSUME Bad # {} PROVE FALSE
  OBVIOUS
<1>1. PICK s \in Bad : \A t \in Bad : Cardinality(s) <= Cardinality(t)
  <2>1. Bad \in SUBSET (SUBSET S)
    OBVIOUS
  <2> HIDE DEF Bad
  <2> QED BY <2>1, SmallestSubset
<1>2. IsFiniteSet(s) /\ s \in SUBSET S
  BY FS_Subset
<1>3. s # {}
  BY <1>1, SumOfNothing
<1>4. PICK x \in s : SumFunctionOnSet(g, s) = g[x] + SumFunctionOnSet(g, s \ {x})
  BY <1>2, <1>3, SumPicked
<1>5. SumFunctionOnSet(f, s) = f[x] + SumFunctionOnSet(f, s \ {x})
  BY <1>2, <1>4, SumRemove
<1>6. s \ {x} \in SUBSET S /\ ~(Cardinality(s) <= Cardinality(s \ {x}))
  BY <1>2, <1>4, SmallerRest
<1>7. SumFunctionOnSet(g, s \ {x}) = SumFunctionOnSet(f, s \ {x})
  BY <1>1, <1>6
<1>8. g[x] = f[x]
  BY <1>2, <1>4
<1> QED BY <1>1, <1>4, <1>5, <1>7, <1>8

\* Sums go through linear combinations.
LEMMA SumCombined ==
  ASSUME NEW S, IsFiniteSet(S), NEW f, NEW g, NEW k, NEW a \in Int, NEW b \in Int,
         \A x \in S : f[x] \in Int /\ g[x] \in Int /\ k[x] = a * f[x] + b * g[x]
  PROVE  SumFunctionOnSet(k, S) = a * SumFunctionOnSet(f, S) + b * SumFunctionOnSet(g, S)
<1> DEFINE Sum(h, s) == SumFunctionOnSet(h, s)
           Bad == {s \in SUBSET S : Sum(k, s) # a * Sum(f, s) + b * Sum(g, s)}
<1> SUFFICES ASSUME Bad # {} PROVE FALSE
  OBVIOUS
<1>1. PICK s \in Bad : \A t \in Bad : Cardinality(s) <= Cardinality(t)
  <2>1. Bad \in SUBSET (SUBSET S)
    OBVIOUS
  <2> HIDE DEF Bad
  <2> QED BY <2>1, SmallestSubset
<1>2. IsFiniteSet(s) /\ s \in SUBSET S
  BY FS_Subset
<1>3. s # {}
  <2>1. a * 0 + b * 0 = 0
    OBVIOUS
  <2> QED BY <1>1, <2>1, SumOfNothing
<1>4. PICK x \in s : TRUE
  BY <1>3
<1>5. k[x] = a * f[x] + b * g[x] /\ f[x] \in Int /\ g[x] \in Int
  BY <1>2
<1>6. \A y \in s : k[y] \in Int /\ f[y] \in Int /\ g[y] \in Int
  <2>1. \A m, n \in Int : a * m + b * n \in Int
    OBVIOUS
  <2> QED BY <1>2, <2>1
<1>7. /\ Sum(k, s) = k[x] + Sum(k, s \ {x}) /\ Sum(f, s) = f[x] + Sum(f, s \ {x})
      /\ Sum(g, s) = g[x] + Sum(g, s \ {x})
  BY <1>2, <1>4, <1>6, SumRemove
<1>8. Sum(f, s \ {x}) \in Int /\ Sum(g, s \ {x}) \in Int
  <2>1. IsFiniteSet(s \ {x}) /\ \A u \in s \ {x} : f[u] \in Int /\ g[u] \in Int
    BY <1>2, <1>6, FS_Subset
  <2> QED BY <2>1, SumType
<1> HIDE DEF Sum
<1>9. Sum(k, s \ {x}) = a * Sum(f, s \ {x}) + b * Sum(g, s \ {x})
  <2>1. s \ {x} \in SUBSET S /\ ~(Cardinality(s) <= Cardinality(s \ {x}))
    BY <1>2, <1>4, SmallerRest
  <2> QED BY <1>1, <2>1
<1>10. \A p, q, m, n \in Int : (a * p + b * q) + (a * m + b * n) = a * (p + m) + b * (q + n)
  OBVIOUS
<1>11. Sum(k, s) = a * Sum(f, s) + b * Sum(g, s)
  BY <1>5, <1>7, <1>8, <1>9, <1>10
<1> QED BY <1>1, <1>11

\* A constant adds up to its multiple.
LEMMA SumOfConstant ==
  ASSUME NEW S, IsFiniteSet(S), NEW f, NEW c \in Int, \A x \in S : f[x] = c
  PROVE  SumFunctionOnSet(f, S) = c * Cardinality(S)
<1> DEFINE Bad == {s \in SUBSET S : SumFunctionOnSet(f, s) # c * Cardinality(s)}
<1> SUFFICES ASSUME Bad # {} PROVE FALSE
  OBVIOUS
<1>1. PICK s \in Bad : \A t \in Bad : Cardinality(s) <= Cardinality(t)
  <2>1. Bad \in SUBSET (SUBSET S)
    OBVIOUS
  <2> HIDE DEF Bad
  <2> QED BY <2>1, SmallestSubset
<1>2. IsFiniteSet(s) /\ s \in SUBSET S
  BY FS_Subset
<1>3. s # {}
  <2>1. c * 0 = 0 /\ Cardinality({}) = 0
    BY FS_EmptySet
  <2> QED BY <1>1, <2>1, SumOfNothing
<1>4. PICK x \in s : TRUE
  BY <1>3
<1>5. f[x] = c /\ \A y \in s : f[y] \in Int
  BY <1>2
<1>6. SumFunctionOnSet(f, s) = c + SumFunctionOnSet(f, s \ {x})
  BY <1>2, <1>4, <1>5, SumRemove
<1>7. SumFunctionOnSet(f, s \ {x}) = c * Cardinality(s \ {x})
  <2>1. s \ {x} \in SUBSET S /\ ~(Cardinality(s) <= Cardinality(s \ {x}))
    BY <1>2, <1>4, SmallerRest
  <2> QED BY <1>1, <2>1
<1>8. Cardinality(s \ {x}) = Cardinality(s) - 1 /\ Cardinality(s) \in Nat
  BY <1>2, <1>4, FS_RemoveElement, FS_CardinalityType
<1>9. \A n \in Nat : c + c * (n - 1) = c * n
  OBVIOUS
<1> QED BY <1>1, <1>6, <1>7, <1>8, <1>9

-----------------------------------------------------------------------------
(* Recursion over an interval of naturals.                                 *)

\* Induction up to n, with a set in the place of the predicate.
LEMMA Upto ==
  ASSUME NEW n \in Nat, NEW P, 0 \in P, \A k \in 0 .. n - 1 : k \in P => k + 1 \in P
  PROVE  \A k \in 0 .. n : k \in P
<1> DEFINE Bad == {k \in 0 .. n : k \notin P}
<1> SUFFICES ASSUME Bad # {} PROVE FALSE
  OBVIOUS
<1>1. Bad \in SUBSET Nat
  OBVIOUS
<1>2. PICK m \in Bad : \A k \in Bad : m <= k
  <2> HIDE DEF Bad
  <2> QED BY <1>1, LeastElement
<1>3. m # 0 /\ m - 1 \in 0 .. n - 1 /\ m - 1 \notin Bad
  BY <1>2
<1>4. m - 1 \in P
  BY <1>3
<1>5. (m - 1) + 1 \in P /\ (m - 1) + 1 = m
  BY <1>3, <1>4
<1> QED BY <1>5

\* f follows the recursion that starts with base and applies step.
Follows(f, n, base, step) ==
    f[0] = base /\ \A k \in 1 .. n : f[k] = step[<<k, f[k - 1]>>]

LEMMA RecursionExists ==
  ASSUME NEW V, NEW n \in Nat, NEW base \in V, NEW step \in [(1 .. n) \X V -> V]
  PROVE  \E f \in [0 .. n -> V] : Follows(f, n, base, step)
<1> DEFINE P == {m \in 0 .. n : \E f \in [0 .. m -> V] : Follows(f, m, base, step)}
<1>1. 0 \in P
  <2> DEFINE f == [k \in 0 .. 0 |-> base]
  <2>1. f \in [0 .. 0 -> V] /\ f[0] = base
    OBVIOUS
  <2> HIDE DEF f
  <2>2. Follows(f, 0, base, step)
    BY <2>1 DEF Follows
  <2> QED BY <2>1, <2>2
<1>2. ASSUME NEW m \in 0 .. n - 1, m \in P PROVE m + 1 \in P
  <2>1. PICK f \in [0 .. m -> V] : Follows(f, m, base, step)
    BY <1>2
  <2>2. m + 1 \in 1 .. n /\ m \in 0 .. m /\ f[m] \in V
    OBVIOUS
  <2> DEFINE next == step[<<m + 1, f[m]>>]
             g == [k \in 0 .. m + 1 |-> IF k = m + 1 THEN next ELSE f[k]]
  <2>3. next \in V
    BY <2>2
  <2> HIDE DEF next
  <2>4. \A k \in 0 .. m + 1 : k # m + 1 => k \in 0 .. m
    OBVIOUS
  <2>5. g \in [0 .. m + 1 -> V]
    BY <2>3, <2>4
  <2>6. g[0] = f[0] /\ g[m + 1] = next /\ \A k \in 0 .. m : g[k] = f[k]
    OBVIOUS
  <2> HIDE DEF g
  <2>7. ASSUME NEW k \in 1 .. m + 1 PROVE g[k] = step[<<k, g[k - 1]>>]
    <3>1. CASE k = m + 1
      <4>1. k - 1 = m /\ m \in 0 .. m
        BY <3>1
      <4> QED BY <2>6, <3>1, <4>1 DEF next
    <3>2. CASE k # m + 1
      <4>1. k \in 1 .. m /\ k \in 0 .. m /\ k - 1 \in 0 .. m
        BY <3>2
      <4> QED BY <2>1, <2>6, <4>1 DEF Follows
    <3> QED BY <3>1, <3>2
  <2>8. Follows(g, m + 1, base, step)
    BY <2>1, <2>6, <2>7 DEF Follows
  <2> QED BY <2>2, <2>5, <2>8
<1> HIDE DEF P
<1>3. \A k \in 0 .. n : k \in P
  BY <1>1, <1>2, Upto
<1>4. n \in P
  BY <1>3
<1> QED BY <1>4 DEF P

\* The values of a function with a finite domain are finitely many.
LEMMA FewValues ==
    ASSUME NEW f, IsFiniteSet(DOMAIN f), f = [x \in DOMAIN f |-> f[x]]
    PROVE  IsFiniteSet({f[x] : x \in DOMAIN f})
<1> DEFINE T == {f[x] : x \in DOMAIN f}
<1>1. f \in Surjection(DOMAIN f, T)
  BY DEF Surjection
<1> QED BY <1>1, FS_Surjection

-----------------------------------------------------------------------------
(* The operator Picked.                                                    *)

IsPicking(g, s, where) ==
    g = [i \in 0 .. Len(s) |-> IF i = 0 THEN <<>>
                              ELSE IF i \in where THEN Append(g[i - 1], s[i]) ELSE g[i - 1]]

LEMMA PickingExists ==
  ASSUME NEW S, NEW s \in Seq(S), NEW where
  PROVE  \E g : /\ IsPicking(g, s, where) /\ Picked(s, where) = g[Len(s)]
                /\ g[0] = <<>>
                /\ \A i \in 1 .. Len(s) : g[i] = IF i \in where THEN Append(g[i - 1], s[i]) ELSE g[i - 1]
<1> DEFINE n == Len(s)
           V == Seq(S)
           step == [x \in (1 .. n) \X V |-> IF x[1] \in where THEN Append(x[2], s[x[1]]) ELSE x[2]]
<1>1. n \in Nat /\ \A i \in 1 .. n : s[i] \in S
  BY LenProperties, ElementOfSeq
<1>2. step \in [(1 .. n) \X V -> V]
  <2>1. ASSUME NEW x \in (1 .. n) \X V
        PROVE  (IF x[1] \in where THEN Append(x[2], s[x[1]]) ELSE x[2]) \in V
    BY <1>1, AppendProperties
  <2> QED BY <2>1
<1>3. <<>> \in V
  BY EmptySeq
<1> HIDE DEF step
<1>4. PICK f \in [0 .. n -> V] : Follows(f, n, <<>>, step)
  <2> HIDE DEF V, n
  <2> QED BY <1>1, <1>2, <1>3, RecursionExists
<1>5. \A i \in 1 .. n : f[i] = IF i \in where THEN Append(f[i - 1], s[i]) ELSE f[i - 1]
  <2> TAKE i \in 1 .. n
  <2>1. i - 1 \in 0 .. n
    BY <1>1
  <2>2. f[i] = step[<<i, f[i - 1]>>]
    BY <1>4 DEF Follows
  <2>3. f[i - 1] \in V
    BY <1>4, <2>1
  <2>4. <<i, f[i - 1]>> \in (1 .. n) \X V
    BY <2>3
  <2> HIDE DEF V, n
  <2> QED BY <2>2, <2>4 DEF step
<1>6. IsPicking(f, s, where)
  <2> DEFINE g == [i \in 0 .. n |-> IF i = 0 THEN <<>>
                              ELSE IF i \in where THEN Append(f[i - 1], s[i]) ELSE f[i - 1]]
  <2>1. \A i \in 0 .. n : i # 0 => i \in 1 .. n
    BY <1>1
  <2>2. \A i \in 0 .. n : f[i] = g[i]
    BY <1>4, <1>5, <2>1 DEF Follows
  <2>3. f = g
    BY <2>2
  <2> QED BY <2>3 DEF IsPicking
<1> DEFINE h == CHOOSE g : IsPicking(g, s, where)
<1>7. IsPicking(h, s, where)
  BY <1>6
<1>8. Picked(s, where) = h[n]
  BY DEF Picked, IsPicking
<1> HIDE DEF h
<1>9. h[0] = <<>> /\ \A i \in 1 .. n : h[i] = IF i \in where THEN Append(h[i - 1], s[i]) ELSE h[i - 1]
  <2>1. \A i \in 0 .. n : h[i] = IF i = 0 THEN <<>>
                              ELSE IF i \in where THEN Append(h[i - 1], s[i]) ELSE h[i - 1]
    BY <1>7 DEF IsPicking
  <2>2. 0 \in 0 .. n /\ \A i \in 1 .. n : i \in 0 .. n /\ i # 0
    BY <1>1
  <2> HIDE DEF n
  <2> QED BY <2>1, <2>2
<1> QED BY <1>7, <1>8, <1>9

\* The same in one word, for proofs with much else in sight.
PickedBy(g, s, where) ==
    /\ Picked(s, where) = g[Len(s)] /\ g[0] = <<>>
    /\ \A i \in 1 .. Len(s) : g[i] = IF i \in where THEN Append(g[i - 1], s[i]) ELSE g[i - 1]

LEMMA PickedBySomething ==
  ASSUME NEW S, NEW s \in Seq(S), NEW where
  PROVE  \E g : PickedBy(g, s, where)
<1>1. PICK g : /\ IsPicking(g, s, where) /\ Picked(s, where) = g[Len(s)]
               /\ g[0] = <<>>
               /\ \A i \in 1 .. Len(s) : g[i] = IF i \in where THEN Append(g[i - 1], s[i]) ELSE g[i - 1]
  BY PickingExists
<1>2. PickedBy(g, s, where)
  BY <1>1 DEF PickedBy
<1> QED BY <1>2

\* What is picked is of the sequence, at a position that was asked for.
LEMMA PickedType ==
  ASSUME NEW S, NEW s \in Seq(S), NEW where, NEW T,
         \A i \in DOMAIN s : i \in where => s[i] \in T
  PROVE  Picked(s, where) \in Seq(T)
<1> DEFINE n == Len(s)
<1>1. PICK g : /\ Picked(s, where) = g[n] /\ g[0] = <<>>
              /\ \A i \in 1 .. n : g[i] = IF i \in where THEN Append(g[i - 1], s[i]) ELSE g[i - 1]
  BY PickingExists
<1>2. n \in Nat /\ DOMAIN s = 1 .. n
  BY LenProperties
<1> DEFINE P == {k \in 0 .. n : g[k] \in Seq(T)}
<1>3. 0 \in P
  <2>1. 0 \in 0 .. n
    BY <1>2
  <2> QED BY <1>1, <2>1, EmptySeq
<1>4. ASSUME NEW k \in 0 .. n - 1, k \in P PROVE k + 1 \in P
  <2>1. k + 1 \in 1 .. n /\ k + 1 \in 0 .. n /\ (k + 1) - 1 = k
    BY <1>2
  <2>2. g[k + 1] = IF k + 1 \in where THEN Append(g[k], s[k + 1]) ELSE g[k]
    BY <1>1, <2>1
  <2>3. g[k] \in Seq(T)
    BY <1>4
  <2>4. k + 1 \in where => Append(g[k], s[k + 1]) \in Seq(T)
    BY <1>2, <2>1, <2>3, AppendProperties
  <2> QED BY <2>1, <2>2, <2>3, <2>4
<1> HIDE DEF P
<1>5. n \in P
  <2>1. \A k \in 0 .. n : k \in P
    <3> HIDE DEF n
    <3> QED BY <1>2, <1>3, <1>4, Upto
  <2> QED BY <1>2, <2>1
<1> QED BY <1>1, <1>5 DEF P

\* It is never longer, and shorter if something was left out.
LEMMA PickedLength ==
  ASSUME NEW S, NEW s \in Seq(S), NEW where
  PROVE  /\ Len(Picked(s, where)) \in Nat /\ Len(Picked(s, where)) <= Len(s)
         /\ \A j \in DOMAIN s : j \notin where => Len(Picked(s, where)) < Len(s)
<1> DEFINE n == Len(s)
<1>1. PICK g : /\ Picked(s, where) = g[n] /\ g[0] = <<>>
              /\ \A i \in 1 .. n : g[i] = IF i \in where THEN Append(g[i - 1], s[i]) ELSE g[i - 1]
  BY PickingExists
<1>2. n \in Nat /\ DOMAIN s = 1 .. n /\ \A i \in 1 .. n : s[i] \in S
  BY LenProperties, ElementOfSeq
<1> DEFINE P == {k \in 0 .. n : /\ g[k] \in Seq(S) /\ Len(g[k]) \in Nat /\ Len(g[k]) <= k
                                /\ \A j \in 1 .. k : j \notin where => Len(g[k]) < k}
<1>3. 0 \in P
  <2>1. 0 \in 0 .. n /\ 1 .. 0 = {}
    BY <1>2
  <2>2. g[0] \in Seq(S) /\ Len(g[0]) = 0
    BY <1>1, EmptySeq
  <2> QED BY <2>1, <2>2
<1>4. ASSUME NEW k \in 0 .. n - 1, k \in P PROVE k + 1 \in P
  <2>1. k + 1 \in 1 .. n /\ k + 1 \in 0 .. n /\ (k + 1) - 1 = k /\ k \in Nat
    BY <1>2
  <2>2. g[k + 1] = IF k + 1 \in where THEN Append(g[k], s[k + 1]) ELSE g[k]
    BY <1>1, <2>1
  <2>3. /\ g[k] \in Seq(S) /\ Len(g[k]) \in Nat /\ Len(g[k]) <= k
        /\ \A j \in 1 .. k : j \notin where => Len(g[k]) < k
    BY <1>4
  <2>4. s[k + 1] \in S
    BY <1>2, <2>1
  <2>5. CASE k + 1 \in where
    <3>1. g[k + 1] \in Seq(S) /\ Len(g[k + 1]) = Len(g[k]) + 1
      BY <2>2, <2>3, <2>4, <2>5, AppendProperties
    <3>2. \A j \in 1 .. k + 1 : j \notin where => j \in 1 .. k
      BY <2>1, <2>5
    <3> QED BY <2>1, <2>3, <3>1, <3>2
  <2>6. CASE k + 1 \notin where
    BY <2>1, <2>2, <2>3, <2>6
  <2> QED BY <2>5, <2>6
<1> HIDE DEF P
<1>5. n \in P
  <2>1. \A k \in 0 .. n : k \in P
    <3> HIDE DEF n
    <3> QED BY <1>2, <1>3, <1>4, Upto
  <2> QED BY <1>2, <2>1
<1> QED BY <1>1, <1>2, <1>5 DEF P

\* It keeps the order: what holds between an earlier and a later element of those
\* asked for, holds between an earlier and a later element of it.
LEMMA PickedOrder ==
  ASSUME NEW S, NEW s \in Seq(S), NEW where, NEW R,
         \A i, j \in DOMAIN s : i < j /\ i \in where /\ j \in where => <<s[i], s[j]>> \in R
  PROVE  \A i, j \in DOMAIN Picked(s, where) : i < j => <<Picked(s, where)[i], Picked(s, where)[j]>> \in R
<1> DEFINE n == Len(s)
           Taken(k) == {s[i] : i \in {x \in 1 .. k : x \in where}}
<1>1. PICK g : /\ Picked(s, where) = g[n] /\ g[0] = <<>>
              /\ \A i \in 1 .. n : g[i] = IF i \in where THEN Append(g[i - 1], s[i]) ELSE g[i - 1]
  BY PickingExists
<1>2. n \in Nat /\ DOMAIN s = 1 .. n /\ \A i \in 1 .. n : s[i] \in S
  BY LenProperties, ElementOfSeq
<1> DEFINE P == {k \in 0 .. n : /\ g[k] \in Seq(Taken(k))
                                /\ \A i, j \in 1 .. Len(g[k]) : i < j => <<g[k][i], g[k][j]>> \in R}
<1>3. 0 \in P
  <2>1. 0 \in 0 .. n
    BY <1>2
  <2>2. g[0] \in Seq(Taken(0)) /\ Len(g[0]) = 0
    BY <1>1, EmptySeq
  <2> QED BY <2>1, <2>2
<1>4. ASSUME NEW k \in 0 .. n - 1, k \in P PROVE k + 1 \in P
  <2>1. k + 1 \in 1 .. n /\ k + 1 \in 0 .. n /\ (k + 1) - 1 = k /\ k \in Nat
    BY <1>2
  <2>2. g[k + 1] = IF k + 1 \in where THEN Append(g[k], s[k + 1]) ELSE g[k]
    BY <1>1, <2>1
  <2>3. /\ g[k] \in Seq(Taken(k))
        /\ \A i, j \in 1 .. Len(g[k]) : i < j => <<g[k][i], g[k][j]>> \in R
    BY <1>4
  <2>4. Taken(k) \subseteq Taken(k + 1)
    <3>1. 1 .. k \subseteq 1 .. k + 1
      BY <2>1
    <3> QED BY <3>1
  <2>5. k + 1 \in where => s[k + 1] \in Taken(k + 1)
    BY <2>1
  <2>6. /\ Len(g[k]) \in Nat /\ \A i \in 1 .. Len(g[k]) : g[k][i] \in Taken(k)
    BY <2>3, LenProperties, ElementOfSeq
  <2>7. g[k] \in Seq(Taken(k + 1))
    <3> HIDE DEF Taken
    <3>1. g[k] \in [1 .. Len(g[k]) -> Taken(k + 1)]
      BY <2>3, <2>4, LenProperties
    <3> QED BY <2>6, <3>1, IsASeq
  <2>8. CASE k + 1 \in where
    <3> DEFINE h == g[k]
               e == s[k + 1]
               a == Append(h, e)
    <3>1. \A x \in Taken(k) : <<x, e>> \in R
      <4>1. \A i \in 1 .. k : i \in where => <<s[i], e>> \in R
        BY <1>2, <2>1, <2>8
      <4> QED BY <4>1
    <3> HIDE DEF Taken, e, h
    <3>2. /\ a \in Seq(Taken(k + 1)) /\ Len(a) = Len(h) + 1
          /\ \A i \in 1 .. Len(h) : a[i] = h[i]
          /\ a[Len(h) + 1] = e
      BY <2>5, <2>7, <2>8, AppendProperties DEF e, h
    <3> HIDE DEF a
    <3>3. \A i, j \in 1 .. Len(a) : i < j => <<a[i], a[j]>> \in R
      <4> SUFFICES ASSUME NEW i \in 1 .. Len(a), NEW j \in 1 .. Len(a), i < j
                   PROVE  <<a[i], a[j]>> \in R
        OBVIOUS
      <4>1. Len(h) \in Nat
        BY <2>6 DEF h
      <4>2. i \in 1 .. Len(h) /\ (j \in 1 .. Len(h) \/ j = Len(h) + 1)
        BY <3>2, <4>1
      <4>3. CASE j \in 1 .. Len(h)
        BY <2>3, <3>2, <4>2, <4>3 DEF h
      <4>4. CASE j = Len(h) + 1
        <5>1. h[i] \in Taken(k)
          BY <2>6, <4>2 DEF h
        <5> QED BY <3>1, <3>2, <4>2, <4>4, <5>1
      <4> QED BY <4>2, <4>3, <4>4
    <3>4. g[k + 1] = a
      BY <2>2, <2>8 DEF a, h, e
    <3> QED BY <2>1, <3>2, <3>3, <3>4
  <2>9. CASE k + 1 \notin where
    <3> HIDE DEF Taken
    <3> QED BY <2>1, <2>2, <2>3, <2>7, <2>9
  <2> QED BY <2>8, <2>9
<1>5. n \in P
  <2> HIDE DEF P
  <2>1. \A k \in 0 .. n : k \in P
    <3> HIDE DEF n
    <3> QED BY <1>2, <1>3, <1>4, Upto
  <2> QED BY <1>2, <2>1
<1> HIDE DEF Taken
<1>6. /\ g[n] \in Seq(Taken(n))
      /\ \A i, j \in 1 .. Len(g[n]) : i < j => <<g[n][i], g[n][j]>> \in R
  BY <1>5
<1>7. DOMAIN g[n] = 1 .. Len(g[n])
  BY <1>6, LenProperties
<1> QED BY <1>1, <1>6, <1>7

(***************************************************************************)
(* The greatest and the smallest element of a finite set of integers       *)
(***************************************************************************)

LEMMA GreatestElement ==
    ASSUME NEW S \in SUBSET Int, IsFiniteSet(S), S # {}
    PROVE  Max(S) \in S /\ \A y \in S : y <= Max(S)
<1> DEFINE B == {s \in SUBSET S : s # {} /\ \A m \in s : \E y \in s : y > m}
<1>1. B = {}
  <2> SUFFICES ASSUME B # {} PROVE FALSE
    OBVIOUS
  <2>1. PICK s \in B : \A t \in B : Cardinality(s) <= Cardinality(t)
    <3>1. B \in SUBSET (SUBSET S)
      OBVIOUS
    <3> HIDE DEF B
    <3> QED BY <3>1, SmallestSubset
  <2>2. PICK x \in s : TRUE
    OBVIOUS
  <2>3. PICK y \in s : y > x
    OBVIOUS
  <2>4. s \ {x} \in B
    <3>1. s \subseteq Int /\ y \in s \ {x}
      BY <2>3
    <3>2. ASSUME NEW m \in s \ {x} PROVE \E z \in s \ {x} : z > m
      <4>1. PICK z \in s : z > m
        OBVIOUS
      <4>2. CASE z = x
        <5>1. m \in Int /\ x \in Int /\ y \in Int
          BY <3>1
        <5> QED BY <2>3, <3>1, <4>1, <4>2, <5>1
      <4>3. CASE z # x
        BY <4>1, <4>3
      <4> QED BY <4>2, <4>3
    <3>3. s \ {x} \in SUBSET S /\ s \ {x} # {}
      BY <3>1
    <3> QED BY <3>2, <3>3
  <2>5. IsFiniteSet(s) /\ s \in SUBSET S
    BY FS_Subset
  <2>6. ~(Cardinality(s) <= Cardinality(s \ {x}))
    BY <2>2, <2>5, SmallerRest
  <2> QED BY <2>1, <2>4, <2>6
<1>2. \E m \in S : \A y \in S : m >= y
  <2>1. PICK m \in S : ~ \E y \in S : y > m
    BY <1>1
  <2> QED BY <2>1
<1> QED BY <1>2 DEF Max

\* And a least one.
LEMMA SmallestElement ==
    ASSUME NEW S \in SUBSET Int, IsFiniteSet(S), S # {}
    PROVE  Min(S) \in S /\ \A y \in S : Min(S) <= y
<1> DEFINE T == {-x : x \in S}
<1>1. T \in SUBSET Int /\ T # {}
  <2>1. \A x \in S : x \in Int /\ -x \in Int
    OBVIOUS
  <2>2. PICK x \in S : TRUE
    OBVIOUS
  <2>3. -x \in T
    BY <2>2
  <2>4. \A t \in T : t \in Int
    BY <2>1
  <2> QED BY <2>3, <2>4
<1>2. IsFiniteSet(T)
  <2> DEFINE f == [x \in S |-> -x]
  <2>1. f = [x \in DOMAIN f |-> f[x]] /\ DOMAIN f = S /\ T = {f[x] : x \in S}
    OBVIOUS
  <2> HIDE DEF f
  <2>2. IsFiniteSet({f[x] : x \in DOMAIN f})
    BY <2>1, FewValues
  <2> QED BY <2>1, <2>2
<1>3. PICK m \in T : \A y \in T : y <= m
  <2> HIDE DEF T
  <2> QED BY <1>1, <1>2, GreatestElement
<1>4. PICK x \in S : m = -x
  BY <1>3
<1>5. \A y \in S : x <= y
  <2> TAKE y \in S
  <2>1. -y <= -x /\ x \in Int /\ y \in Int
    BY <1>3, <1>4
  <2> QED BY <2>1
<1> QED BY <1>5 DEF Min

-----------------------------------------------------------------------------
(* Covariances: n times the sum of the products less the product of the    *)
(* sums is a sum of products of deviations, over n.                        *)

Total(f, S) == SumFunctionOnSet(f, S)
Times(f, g, S) == [k \in S |-> f[k] * g[k]]

\* n times the deviation from the mean.
Deviation(f, S, n) == [k \in S |-> n * f[k] - Total(f, S)]

LEMMA TotalType ==
    ASSUME NEW S, IsFiniteSet(S), NEW f \in [S -> Int]
    PROVE  Total(f, S) \in Int
BY SumType DEF Total

LEMMA TimesType ==
    ASSUME NEW S, IsFiniteSet(S), NEW f \in [S -> Int], NEW g \in [S -> Int]
    PROVE  Times(f, g, S) \in [S -> Int]
BY DEF Times

LEMMA DeviationType ==
    ASSUME NEW S, IsFiniteSet(S), NEW n \in Nat, n = Cardinality(S), NEW f \in [S -> Int]
    PROVE  Deviation(f, S, n) \in [S -> Int]
<1>1. Total(f, S) \in Int
  BY TotalType
<1> QED BY <1>1 DEF Deviation

\* SumCombined, for a function that is written down.
Combined(a, f, b, g, S) == [i \in S |-> a * f[i] - b * g[i]]

LEMMA TotalCombined ==
    ASSUME NEW S, IsFiniteSet(S), NEW f, NEW g, NEW a \in Int, NEW b \in Int,
           \A i \in S : f[i] \in Int /\ g[i] \in Int
    PROVE  Total(Combined(a, f, b, g, S), S) = a * Total(f, S) - b * Total(g, S)
<1> DEFINE c == -b
           k == Combined(a, f, b, g, S)
<1>1. IsFiniteSet(S) /\ c \in Int
  OBVIOUS
<1>2. \A i \in S : f[i] \in Int /\ g[i] \in Int /\ k[i] = a * f[i] + c * g[i]
  <2>1. \A p, q \in Int : a * p - b * q = a * p + c * q
    OBVIOUS
  <2> QED BY <2>1 DEF Combined
<1>3. SumFunctionOnSet(f, S) \in Int /\ SumFunctionOnSet(g, S) \in Int
  BY <1>1, <1>2, SumType
<1>4. \A p, q \in Int : a * p - b * q = a * p + c * q
  OBVIOUS
<1> HIDE DEF c, k
<1>5. SumFunctionOnSet(k, S) = a * SumFunctionOnSet(f, S) + c * SumFunctionOnSet(g, S)
  BY <1>1, <1>2, SumCombined
<1>6. SumFunctionOnSet(k, S) = a * SumFunctionOnSet(f, S) - b * SumFunctionOnSet(g, S)
  BY <1>3, <1>4, <1>5
<1> QED BY <1>6 DEF k, Total

LEMMA DeviationsCancel ==
    ASSUME NEW S, IsFiniteSet(S), NEW n \in Nat, n = Cardinality(S), NEW f \in [S -> Int]
    PROVE  Total(Deviation(f, S, n), S) = 0
<1> DEFINE t == Total(f, S)
           one == [k \in S |-> 1]
<1>1. t \in Int /\ n \in Int
  BY TotalType
<1>2. Total(one, S) = n
  <2>1. SumFunctionOnSet(one, S) = 1 * Cardinality(S)
    BY SumOfConstant
  <2> QED BY <2>1 DEF Total
<1>3. Deviation(f, S, n) = Combined(n, f, t, one, S) /\ one \in [S -> Int]
  <2>1. \A k \in S : n * f[k] - t = n * f[k] - t * one[k]
    BY <1>1
  <2> QED BY <2>1 DEF Deviation, Combined
<1> HIDE DEF one
<1>4. Total(Deviation(f, S, n), S) = n * t - t * n
  <2>1. Total(Combined(n, f, t, one, S), S) = n * Total(f, S) - t * Total(one, S)
    BY <1>1, <1>3, TotalCombined
  <2> QED BY <1>2, <1>3, <2>1
<1> HIDE DEF t
<1>5. n * t - t * n = 0
  BY <1>1
<1> QED BY <1>4, <1>5

LEMMA SpreadIsOfDeviations ==
    ASSUME NEW S, IsFiniteSet(S), NEW n \in Nat, n = Cardinality(S), NEW x \in [S -> Int], NEW y \in [S -> Int],
           NEW s, s = n * Total(Times(x, y, S), S) - Total(x, S) * Total(y, S)
    PROVE  Total(Times(Deviation(x, S, n), Deviation(y, S, n), S), S) = n * s /\ s \in Int
<1> DEFINE u == Deviation(x, S, n)
           v == Deviation(y, S, n)
           xy == Times(x, y, S)
           xv == Times(x, v, S)
           uv == Times(u, v, S)
           tx == Total(x, S)
           ty == Total(y, S)
           q == Total(xy, S)
<1>1. tx \in Int /\ ty \in Int /\ q \in Int /\ n \in Int
  BY TotalType, TimesType
<1>2. u \in [S -> Int] /\ v \in [S -> Int]
  BY DeviationType
<1>3. Total(v, S) = 0
  BY DeviationsCancel
<1>4. Total(xv, S) = n * q - ty * tx
  <2>1. xv = [k \in S |-> x[k] * (n * y[k] - ty)] /\ xy = [k \in S |-> x[k] * y[k]]
    BY DEF Times, Deviation
  <2> HIDE DEF v, ty, xy, xv
  <2>2. ASSUME NEW k \in S PROVE x[k] * (n * y[k] - ty) = n * xy[k] - ty * x[k]
    <3>1. x[k] \in Int /\ y[k] \in Int /\ xy[k] = x[k] * y[k]
      BY <2>1
    <3>2. \A a, b \in Int : a * (n * b - ty) = n * (a * b) - ty * a
      BY <1>1
    <3> QED BY <3>1, <3>2
  <2>3. xv = Combined(n, xy, ty, x, S)
    BY <2>1, <2>2 DEF Combined
  <2>4. xy \in [S -> Int]
    BY TimesType DEF xy
  <2>5. Total(Combined(n, xy, ty, x, S), S) = n * Total(xy, S) - ty * Total(x, S)
    BY <1>1, <2>4, TotalCombined
  <2> QED BY <2>3, <2>5
<1>5. Total(uv, S) = n * Total(xv, S) - tx * Total(v, S)
  <2>1. /\ uv = [k \in S |-> u[k] * v[k]] /\ xv = [k \in S |-> x[k] * v[k]]
        /\ \A k \in S : u[k] = n * x[k] - tx
    BY DEF Times, Deviation
  <2> HIDE DEF u, v, tx, xv, uv
  <2>2. ASSUME NEW k \in S PROVE u[k] * v[k] = n * xv[k] - tx * v[k]
    <3>1. x[k] \in Int /\ v[k] \in Int /\ xv[k] = x[k] * v[k]
      BY <1>2, <2>1
    <3>2. \A a, b \in Int : (n * a - tx) * b = n * (a * b) - tx * b
      BY <1>1
    <3>3. u[k] * v[k] = (n * x[k] - tx) * v[k]
      BY <2>1
    <3> QED BY <3>1, <3>2, <3>3
  <2>3. uv = Combined(n, xv, tx, v, S)
    BY <2>1, <2>2 DEF Combined
  <2>4. xv \in [S -> Int]
    BY <1>2, TimesType DEF xv
  <2>5. Total(Combined(n, xv, tx, v, S), S) = n * Total(xv, S) - tx * Total(v, S)
    <3>1. v \in [S -> Int]
      BY <1>2
    <3> HIDE DEF v, xv, tx
    <3> QED BY <1>1, <2>4, <3>1, TotalCombined
  <2> QED BY <2>3, <2>5
<1>6. s = n * q - tx * ty
  OBVIOUS
<1> HIDE DEF v, xv, uv, tx, ty, q
<1>7. \A a, b, c \in Int : /\ n * (n * c - b * a) - a * 0 = n * (n * c - a * b)
                           /\ n * c - a * b \in Int
  OBVIOUS
<1> HIDE DEF uv
<1>8. Total(uv, S) = n * (n * q - ty * tx) - tx * 0
  BY <1>3, <1>4, <1>5
<1>9. n * (n * q - ty * tx) - tx * 0 = n * (n * q - tx * ty) /\ n * q - tx * ty \in Int
  BY <1>1, <1>7
<1>10. Total(uv, S) = n * s /\ s \in Int
  BY <1>6, <1>8, <1>9
<1> QED BY <1>10 DEF uv, v

\* A sum of squares is not negative.
LEMMA SquaresAddUp ==
    ASSUME NEW S, IsFiniteSet(S), NEW f \in [S -> Int]
    PROVE  Total(Times(f, f, S), S) >= 0
<1>1. \A a \in Int : a * a \in Nat
  <2>1. \A a \in Int : a * a \in Int /\ a * a >= 0
    OBVIOUS
  <2> QED BY <2>1
<1>2. \A k \in S : Times(f, f, S)[k] \in Nat
  BY <1>1 DEF Times
<1>3. SumFunctionOnSet(Times(f, f, S), S) \in Nat
  BY <1>2, SumNat
<1> QED BY <1>3 DEF Total

\* Covariance and variances, up to a factor.
CoSpread(f, g, S) == Cardinality(S) * Total(Times(f, g, S), S) - Total(f, S) * Total(g, S)

\* Cauchy and Schwarz: the square of a covariance is no more than the product of
\* the variances, and these are not negative.
LEMMA CauchySchwarz ==
    ASSUME NEW S, IsFiniteSet(S), S # {}, NEW x \in [S -> Int], NEW y \in [S -> Int]
    PROVE  /\ CoSpread(x, y, S) \in Int /\ CoSpread(x, x, S) \in Nat /\ CoSpread(y, y, S) \in Nat
           /\ CoSpread(y, y, S) > 0 =>
                CoSpread(x, y, S) * CoSpread(x, y, S) <= CoSpread(x, x, S) * CoSpread(y, y, S)
<1> DEFINE n == Cardinality(S)
           u == Deviation(x, S, n)
           v == Deviation(y, S, n)
           sxx == CoSpread(x, x, S)
           sxy == CoSpread(x, y, S)
           syy == CoSpread(y, y, S)
           w == Combined(syy, u, sxy, v, S)
<1>1. n \in Nat /\ n > 0
  <2>1. n \in Nat /\ n # 0
    BY FS_CardinalityType, FS_EmptySet
  <2> QED BY <2>1
<1>2. \A f, g \in {x, y} : CoSpread(f, g, S) = n * Total(Times(f, g, S), S) - Total(f, S) * Total(g, S)
  BY DEF CoSpread
<1>3. /\ Total(Times(u, u, S), S) = n * sxx /\ sxx \in Int
      /\ Total(Times(u, v, S), S) = n * sxy /\ sxy \in Int
      /\ Total(Times(v, v, S), S) = n * syy /\ syy \in Int
  BY <1>1, <1>2, SpreadIsOfDeviations
<1>4. u \in [S -> Int] /\ v \in [S -> Int]
  BY <1>1, DeviationType
<1> HIDE DEF n, u, v, sxx, sxy, syy
<1>5. sxx >= 0 /\ syy >= 0
  <2>1. n * sxx >= 0 /\ n * syy >= 0
    BY <1>3, <1>4, SquaresAddUp
  <2>2. \A a \in Int : n * a >= 0 => a >= 0
    BY <1>1
  <2> QED BY <1>3, <2>1, <2>2
<1>6. ASSUME syy > 0 PROVE sxy * sxy <= sxx * syy
  <2>1. w \in [S -> Int]
    <3>1. \A a, b, c, d \in Int : a * b - c * d \in Int
      OBVIOUS
    <3>2. \A i \in S : syy * u[i] - sxy * v[i] \in Int
      BY <1>3, <1>4, <3>1
    <3> QED BY <3>2 DEF Combined
  <2> DEFINE uu == Times(u, u, S)
             vv == Times(v, v, S)
             uv == Times(u, v, S)
             uw == Times(u, w, S)
             vw == Times(v, w, S)
             ww == Times(w, w, S)
  <2>2. /\ uw = [i \in S |-> u[i] * w[i]] /\ vw = [i \in S |-> v[i] * w[i]]
        /\ ww = [i \in S |-> w[i] * w[i]] /\ uu = [i \in S |-> u[i] * u[i]]
        /\ uv = [i \in S |-> u[i] * v[i]] /\ vv = [i \in S |-> v[i] * v[i]]
        /\ w = [i \in S |-> syy * u[i] - sxy * v[i]]
    BY DEF Times, Combined
  <2>3. /\ uu \in [S -> Int] /\ vv \in [S -> Int] /\ uv \in [S -> Int]
        /\ uw \in [S -> Int] /\ vw \in [S -> Int]
    <3> HIDE DEF w
    <3> QED BY <1>4, <2>1, TimesType
  <2> HIDE DEF w, uu, vv, uv, uw, vw, ww
  <2>4. ASSUME NEW i \in S
        PROVE  /\ u[i] * w[i] = syy * uu[i] - sxy * uv[i]
               /\ v[i] * w[i] = syy * uv[i] - sxy * vv[i]
               /\ w[i] * w[i] = syy * uw[i] - sxy * vw[i]
    <3>1. u[i] \in Int /\ v[i] \in Int /\ w[i] \in Int /\ w[i] = syy * u[i] - sxy * v[i]
      BY <1>4, <2>1, <2>2
    <3>3. uu[i] = u[i] * u[i] /\ uv[i] = u[i] * v[i] /\ vv[i] = v[i] * v[i]
          /\ uw[i] = u[i] * w[i] /\ vw[i] = v[i] * w[i]
      BY <2>2
    <3> DEFINE p == u[i]
               q == v[i]
               r == w[i]
    <3>4. p \in Int /\ q \in Int /\ r \in Int /\ r = syy * p - sxy * q
      BY <3>1
    <3> HIDE DEF p, q, r
    <3>5. p * (syy * p - sxy * q) = syy * (p * p) - sxy * (p * q)
      BY <1>3, <3>4
    <3>6. q * (syy * p - sxy * q) = syy * (p * q) - sxy * (q * q)
      BY <1>3, <3>4
    <3>7. (syy * p - sxy * q) * r = syy * (p * r) - sxy * (q * r)
      BY <1>3, <3>4
    <3> QED BY <3>3, <3>4, <3>5, <3>6, <3>7 DEF p, q, r
  <2>5. /\ uw = Combined(syy, uu, sxy, uv, S) /\ vw = Combined(syy, uv, sxy, vv, S)
        /\ ww = Combined(syy, uw, sxy, vw, S)
    BY <2>2, <2>4 DEF Combined
  <2>6. /\ Total(uw, S) = syy * (n * sxx) - sxy * (n * sxy)
        /\ Total(vw, S) = syy * (n * sxy) - sxy * (n * syy)
    <3>1. \A i \in S : uu[i] \in Int /\ uv[i] \in Int /\ vv[i] \in Int
      BY <2>3
    <3>2. Total(Combined(syy, uu, sxy, uv, S), S) = syy * Total(uu, S) - sxy * Total(uv, S)
      BY <1>3, <3>1, TotalCombined
    <3>3. Total(Combined(syy, uv, sxy, vv, S), S) = syy * Total(uv, S) - sxy * Total(vv, S)
      BY <1>3, <3>1, TotalCombined
    <3> QED BY <1>3, <2>5, <3>2, <3>3 DEF uu, uv, vv
  <2>7. Total(ww, S) = syy * Total(uw, S) - sxy * Total(vw, S)
    <3>1. \A i \in S : uw[i] \in Int /\ vw[i] \in Int
      BY <2>3
    <3>2. Total(Combined(syy, uw, sxy, vw, S), S) = syy * Total(uw, S) - sxy * Total(vw, S)
      BY <1>3, <3>1, TotalCombined
    <3> QED BY <2>5, <3>2
  <2>8. Total(ww, S) >= 0
    BY <2>1, SquaresAddUp DEF ww
  <2>9. n * (syy * (syy * sxx - sxy * sxy)) >= 0
    <3>1. \A a, b, c \in Int :
            a * (a * (n * b) - c * (n * c)) - c * (a * (n * c) - c * (n * a)) = n * (a * (a * b - c * c))
      BY <1>1
    <3> QED BY <1>3, <2>6, <2>7, <2>8, <3>1
  <2>10. \A a \in Int, d \in Int : a > 0 /\ n * (a * d) >= 0 => d >= 0
    <3>1. \A d \in Int : n * d >= 0 => d >= 0
      BY <1>1
    <3>2. \A a, d \in Int : a * d \in Int /\ (a > 0 /\ a * d >= 0 => d >= 0)
      OBVIOUS
    <3> QED BY <3>1, <3>2
  <2>11. syy * sxx - sxy * sxy \in Int /\ syy * sxx = sxx * syy /\ syy * sxx \in Int /\ sxy * sxy \in Int
    BY <1>3
  <2>12. syy * sxx - sxy * sxy >= 0
    BY <1>3, <1>6, <2>9, <2>10, <2>11
  <2> QED BY <2>11, <2>12
<1> QED BY <1>3, <1>5, <1>6 DEF sxx, sxy, syy

(***************************************************************************)
(* Integer arithmetic                                                      *)
(***************************************************************************)

\* Rounded division.
LEMMA DivFacts ==
  ASSUME NEW m \in Int, NEW n \in Nat \ {0}
  PROVE  m \div n \in Int /\ n * (m \div n) <= m /\ m < n * (m \div n) + n
         /\ (m >= 0 => m \div n \in Nat)
<1>1. m \div n \in Int /\ n * (m \div n) <= m /\ m - n < n * (m \div n)
  OBVIOUS
<1>2. m >= 0 => m \div n \in Nat
  OBVIOUS
<1> DEFINE p == n * (m \div n)
<1>3. p \in Int /\ p <= m /\ m - n < p
  BY <1>1
<1> HIDE DEF p
<1>4. m < p + n
  BY <1>3
<1> QED BY <1>1, <1>2, <1>4 DEF p

LEMMA MulMonotone ==
  ASSUME NEW a \in Int, NEW b \in Int, NEW c \in Nat, a <= b
  PROVE  c * a <= c * b /\ a * c <= b * c
OBVIOUS

LEMMA MulCancel ==
  ASSUME NEW a \in Int, NEW b \in Int, NEW c \in Nat \ {0}, c * a <= c * b
  PROVE  a <= b
<1>1. ASSUME b + 1 <= a PROVE FALSE
  <2>1. c * (b + 1) <= c * a
    BY <1>1, MulMonotone
  <2>2. c * (b + 1) = c * b + c
    OBVIOUS
  <2> QED BY <2>1, <2>2
<1> QED BY <1>1

\* Two parts a and b, weighed, are scaled by cap / total: their weight stays
\* within cap.
LEMMA ScaledWithin ==
  ASSUME NEW a \in Nat, NEW b \in Nat, NEW v \in Nat, NEW w \in Nat, NEW cap \in Nat,
         NEW total \in Nat \ {0}, total = a * v + b * w,
         NEW p \in Nat, total * p <= a * cap, NEW q \in Nat, total * q <= b * cap
  PROVE  /\ p * v + q * w <= cap
         /\ cap <= total => p <= a /\ q <= b
<1>1. a * cap \in Nat /\ b * cap \in Nat
  OBVIOUS
<1>2. p \in Nat /\ q \in Nat /\ total * p <= a * cap /\ total * q <= b * cap
  OBVIOUS
<1>3. p * v + q * w <= cap
  <2>1. (total * p) * v <= (a * cap) * v /\ (total * q) * w <= (b * cap) * w
    <3>1. total * p \in Int /\ total * q \in Int
      BY <1>2
    <3> QED BY <1>1, <1>2, <3>1, MulMonotone
  <2>2. /\ (total * p) * v = total * (p * v) /\ (total * q) * w = total * (q * w)
        /\ (a * cap) * v = (a * v) * cap /\ (b * cap) * w = (b * w) * cap
    <3>1. \A x, y, z \in Nat : (x * y) * z = x * (y * z) /\ (x * y) * z = (x * z) * y
      OBVIOUS
    <3> QED BY <1>2, <3>1
  <2>3. p * v \in Nat /\ q * w \in Nat /\ a * v \in Nat /\ b * w \in Nat
    BY <1>2
  <2>4. /\ total * (p * v) + total * (q * w) = total * (p * v + q * w)
        /\ (a * v) * cap + (b * w) * cap = (a * v + b * w) * cap
    <3>1. \A x, y, z \in Nat : z * x + z * y = z * (x + y) /\ x * z + y * z = (x + y) * z
      OBVIOUS
    <3> QED BY <2>3, <3>1
  <2> DEFINE s == p * v + q * w
  <2>5. total * s <= total * cap
    <3>1. total * (p * v) <= (a * v) * cap /\ total * (q * w) <= (b * w) * cap
      BY <2>1, <2>2
    <3>2. /\ total * (p * v) \in Nat /\ total * (q * w) \in Nat
          /\ (a * v) * cap \in Nat /\ (b * w) * cap \in Nat
      BY <2>3
    <3>3. total * (p * v) + total * (q * w) <= (a * v) * cap + (b * w) * cap
      BY <3>1, <3>2
    <3> QED BY <2>4, <3>3
  <2>6. s \in Nat
    BY <2>3
  <2> HIDE DEF s
  <2>7. s <= cap
    BY <2>5, <2>6, MulCancel
  <2> QED BY <2>7 DEF s
<1>4. ASSUME cap <= total PROVE p <= a /\ q <= b
  <2>1. a * cap <= total * a /\ b * cap <= total * b
    <3>1. cap * a <= total * a /\ cap * b <= total * b
      BY <1>4, MulMonotone
    <3> QED BY <3>1
  <2>2. total * p <= total * a /\ total * q <= total * b
    <3>1. /\ total * p \in Nat /\ total * q \in Nat /\ total * a \in Nat /\ total * b \in Nat
          /\ a * cap \in Nat /\ b * cap \in Nat
      BY <1>2
    <3> QED BY <1>2, <2>1, <3>1
  <2> QED BY <1>2, <2>2, MulCancel
<1> QED BY <1>2, <1>3, <1>4
===============================================================================

----------------------------- MODULE FoldProofs -----------------------------
(***************************************************************************)
(* Sums over a set and folds over a sequence, as the community modules     *)
(* define them: what they give when an element is added.  The induction    *)
(* principles are stated about sets instead of predicates, so that a first *)
(* order prover can use them.                                              *)
(***************************************************************************)
EXTENDS Integers, FiniteSetsExt, FiniteSetTheorems, WellFoundedInduction, TLAPS

Below == {p \in Nat \X Nat : p[1] < p[2]}

\* Every set of naturals that is not empty has a least element.
LEMMA LeastNumber ==
    ASSUME NEW T \in SUBSET Nat, T # {}
    PROVE  \E n \in T : \A m \in T : n <= m
<1>1. IsWellFoundedOn(Below, Nat)
  BY NatLessThanWellFounded DEF OpToRel, Below
<1>2. PICK n \in T : \A m \in T : <<m, n>> \notin Below
  BY <1>1, WFMin
<1>3. \A m \in T : ~(m < n)
  BY <1>2 DEF Below
<1> QED
  BY <1>3

\* What holds of 0, and of each successor up to n, holds of all.
LEMMA UpTo ==
    ASSUME NEW n \in Nat, NEW Q, 0 \in Q,
           \A k \in 0..n : k < n /\ k \in Q => k + 1 \in Q
    PROVE  \A k \in 0..n : k \in Q
<1> DEFINE Bad == {k \in 0..n : k \notin Q}
<1> SUFFICES ASSUME Bad # {} PROVE FALSE
  OBVIOUS
<1>1. Bad \in SUBSET Nat
  OBVIOUS
<1>2. PICK k \in Bad : \A m \in Bad : k <= m
  <2> HIDE DEF Bad
  <2> QED
    BY <1>1, LeastNumber
<1>3. k # 0 /\ k - 1 \in 0..n /\ k - 1 < n /\ k - 1 \notin Bad
  BY <1>2
<1>4. (k - 1) + 1 \in Q
  BY <1>3
<1> QED
  BY <1>2, <1>4

LEMMA MaxIsMember ==
    ASSUME NEW n \in Nat, NEW s \in SUBSET (1..n), s # {}
    PROVE  Max(s) \in s
<1> DEFINE T == {n - i : i \in s}
<1>0. \A i \in s : i \in 1..n /\ n - i \in Nat /\ n - i \in T
  OBVIOUS
<1>1. T \in SUBSET Nat /\ T # {}
  <2>1. \A x \in T : x \in Nat
    BY <1>0
  <2>2. PICK i \in s : TRUE
    OBVIOUS
  <2> QED
    BY <1>0, <2>1, <2>2
<1>2. PICK m \in T : \A k \in T : m <= k
  <2> HIDE DEF T
  <2> QED
    BY <1>1, LeastNumber
<1>3. PICK i \in s : m = n - i
  BY <1>2
<1>4. \A j \in s : i >= j
  <2> SUFFICES ASSUME NEW j \in s PROVE i >= j
    OBVIOUS
  <2>1. n - i <= n - j
    BY <1>0, <1>2, <1>3
  <2> QED
    BY <1>0, <2>1
<1> QED
  BY <1>4 DEF Max

LEMMA MaxOfInterval == ASSUME NEW n \in Nat \ {0} PROVE Max(1..n) = n
<1>1. n \in 1..n /\ \A j \in 1..n : n >= j
  OBVIOUS
<1>2. \A i \in 1..n : (\A j \in 1..n : i >= j) => i = n
  BY <1>1
<1> QED
  BY <1>1, <1>2 DEF Max

\* A set of subsets of S holds all of them if it holds each one whose proper
\* subsets it holds.
LEMMA SubsetInduction ==
    ASSUME NEW S, IsFiniteSet(S), NEW Q,
           \A T \in SUBSET S : (\A U \in SUBSET T : U # T => U \in Q) => T \in Q
    PROVE  \A T \in SUBSET S : T \in Q
<1> DEFINE Bad == (SUBSET S) \ Q
           Sizes == {Cardinality(T) : T \in Bad}
<1> SUFFICES ASSUME Bad # {} PROVE FALSE
  OBVIOUS
<1>1. \A T \in Bad : IsFiniteSet(T) /\ Cardinality(T) \in Nat
  BY FS_Subset, FS_CardinalityType
<1>2. PICK T \in Bad : \A U \in Bad : Cardinality(T) <= Cardinality(U)
  <2>1. Sizes \in SUBSET Nat /\ Sizes # {}
    BY <1>1
  <2>2. PICK n \in Sizes : \A m \in Sizes : n <= m
    BY <2>1, LeastNumber
  <2> QED
    BY <2>2
<1>3. PICK U \in SUBSET T : U # T /\ U \notin Q
  BY <1>2
<1>4. U \in Bad
  BY <1>2, <1>3
<1>5. Cardinality(U) < Cardinality(T)
  BY <1>1, <1>2, <1>3, <1>4, FS_Subset
<1> QED
  BY <1>1, <1>2, <1>4, <1>5

-----------------------------------------------------------------------------
(* A function on the subsets of S that takes one element away at a time.   *)

\* g is defined on the subsets of T: pick says which element is taken from
\* each, F what becomes of the value of the rest.
IsFold(g, T, V, base, pick, F) ==
    /\ g \in [SUBSET T -> V]
    /\ \A s \in SUBSET T :
         g[s] = IF s = {} THEN base ELSE F[s][g[s \ {pick[s]}]]

\* Where two of them are defined they agree.
LEMMA FoldUnique ==
    ASSUME NEW S, IsFiniteSet(S), NEW V, NEW base, NEW pick, NEW F,
           \A s \in SUBSET S : s # {} => pick[s] \in s,
           NEW T \in SUBSET S, NEW U \in SUBSET S, NEW g, NEW h,
           IsFold(g, T, V, base, pick, F), IsFold(h, U, V, base, pick, F),
           NEW s \in SUBSET S, s \subseteq T, s \subseteq U
    PROVE  g[s] = h[s]
<1> DEFINE R == T \cap U
           Q == {r \in SUBSET R : g[r] = h[r]}
<1>1. IsFiniteSet(R)
  BY FS_Subset
<1>2. ASSUME NEW r \in SUBSET R, \A q \in SUBSET r : q # r => q \in Q
      PROVE  r \in Q
  <2>1. CASE r = {}
    BY <2>1 DEF IsFold
  <2>2. CASE r # {}
    <3>1. pick[r] \in r
      BY <2>2
    <3>2. r \ {pick[r]} \in Q
      BY <1>2, <3>1
    <3> QED
      BY <2>2, <3>2 DEF IsFold
  <2> QED
    BY <2>1, <2>2
<1>3. \A r \in SUBSET R : r \in Q
  <2> HIDE DEF Q, R
  <2> QED
    BY <1>1, <1>2, SubsetInduction, Zenon
<1> QED
  BY <1>3

\* There is one, on every subset of a finite set.
LEMMA FoldExists ==
    ASSUME NEW S, IsFiniteSet(S), NEW V, NEW base \in V, NEW pick,
           \A s \in SUBSET S : s # {} => pick[s] \in s,
           NEW F \in [SUBSET S -> [V -> V]]
    PROVE  \A T \in SUBSET S : \E g : IsFold(g, T, V, base, pick, F)
<1> DEFINE Fold(g, T) == IsFold(g, T, V, base, pick, F)
           The(T) == CHOOSE g : Fold(g, T)
           Q == {T \in SUBSET S : \E g : Fold(g, T)}
<1>1. ASSUME NEW T \in SUBSET S, \A U \in SUBSET T : U # T => U \in Q
      PROVE  T \in Q
  <2>1. \A U \in SUBSET T : U # T => Fold(The(U), U)
    BY <1>1
  <2>2. CASE T = {}
    <3>1. Fold([s \in SUBSET T |-> base], T)
      BY <2>2 DEF IsFold
    <3> QED
      BY <3>1
  <2>3. CASE T # {}
    <3> DEFINE G == [s \in SUBSET T |->
                       IF s = T THEN F[T][The(T \ {pick[T]})[T \ {pick[T]}]]
                       ELSE The(s)[s]]
    <3>1. \A s \in SUBSET T : s # T => The(s)[s] \in V
      BY <2>1 DEF IsFold
    <3>2. pick[T] \in T
      BY <2>3
    <3>3. G \in [SUBSET T -> V]
      <4>1. T \ {pick[T]} \in SUBSET T /\ T \ {pick[T]} # T
        BY <3>2
      <4>2. The(T \ {pick[T]})[T \ {pick[T]}] \in V
        BY <3>1, <4>1
      <4>3. F[T][The(T \ {pick[T]})[T \ {pick[T]}]] \in V
        BY <4>2
      <4> QED
        BY <3>1, <4>3
    <3>4. ASSUME NEW s \in SUBSET T
          PROVE  G[s] = IF s = {} THEN base ELSE F[s][G[s \ {pick[s]}]]
      <4>1. CASE s = T
        BY <2>3, <3>2, <4>1
      <4>2. CASE s # T /\ s = {}
        BY <2>1, <4>2 DEF IsFold
      <4>3. CASE s # T /\ s # {}
        <5> DEFINE r == s \ {pick[s]}
        <5>1. r \subseteq s /\ r # T /\ r # s
          BY <4>3
        <5>2. The(s)[s] = F[s][The(s)[r]]
          BY <2>1, <4>3 DEF IsFold
        <5>3. The(s)[r] = The(r)[r]
          <6>1. Fold(The(s), s) /\ Fold(The(r), r)
            BY <2>1, <4>3, <5>1
          <6> HIDE DEF r, The
          <6> QED
            BY <5>1, <6>1, FoldUnique
        <5> QED
          BY <4>3, <5>1, <5>2, <5>3
      <4> QED
        BY <4>1, <4>2, <4>3
    <3>5. Fold(G, T)
      <4> HIDE DEF G
      <4> QED
        BY <3>3, <3>4 DEF IsFold
    <3> QED
      BY <3>5
  <2> QED
    BY <2>2, <2>3
<1>2. \A T \in SUBSET S : T \in Q
  <2> HIDE DEF Q
  <2> QED
    BY <1>1, SubsetInduction
<1> QED
  BY <1>2

-----------------------------------------------------------------------------
(* Sums                                                                    *)

Sum(c, S) == SumFunctionOnSet(c, S)

IsSum(g, c, S) ==
    g = [s \in SUBSET S |->
           IF s = {} THEN 0
           ELSE LET x == CHOOSE x \in s : TRUE IN c[x] + g[s \ {x}]]

LEMMA SumIsChosen ==
    ASSUME NEW c, NEW S
    PROVE  Sum(c, S) = (CHOOSE g : IsSum(g, c, S))[S]
BY DEF Sum, SumFunctionOnSet, FoldFunctionOnSet, MapThenFoldSet, IsSum

LEMMA SumUnique ==
    ASSUME NEW S, IsFiniteSet(S), NEW c, NEW g, NEW h, IsSum(g, c, S), IsSum(h, c, S)
    PROVE  g = h
<1> DEFINE Q == {s \in SUBSET S : g[s] = h[s]}
<1>1. ASSUME NEW s \in SUBSET S, \A r \in SUBSET s : r # s => r \in Q
      PROVE  s \in Q
  <2>1. CASE s = {}
    BY <2>1 DEF IsSum
  <2>2. CASE s # {}
    <3> DEFINE x == CHOOSE x \in s : TRUE
    <3>1. x \in s /\ s \ {x} \in Q
      BY <1>1, <2>2
    <3>2. g[s] = c[x] + g[s \ {x}] /\ h[s] = c[x] + h[s \ {x}]
      BY <2>2 DEF IsSum
    <3> QED
      BY <3>1, <3>2
  <2> QED
    BY <2>1, <2>2
<1>2. \A s \in SUBSET S : s \in Q
  <2> HIDE DEF Q
  <2> QED
    BY <1>1, SubsetInduction
<1> QED
  BY <1>2 DEF IsSum

\* The equation the sums of the subsets of a set satisfy.
LEMMA SumEquation ==
    ASSUME NEW S, IsFiniteSet(S), NEW c, \A x \in S : c[x] \in Int
    PROVE  /\ Sum(c, {}) = 0
           /\ \A T \in SUBSET S :
                /\ Sum(c, T) \in Int
                /\ T # {} => \E x \in T : Sum(c, T) = c[x] + Sum(c, T \ {x})
<1> DEFINE pick == [s \in SUBSET S |-> CHOOSE x \in s : TRUE]
           F == [s \in SUBSET S |-> [v \in Int |-> IF s = {} THEN 0 ELSE c[pick[s]] + v]]
           Fold(g, T) == IsFold(g, T, Int, 0, pick, F)
           The(T) == CHOOSE g : IsSum(g, c, T)
<1>1. \A s \in SUBSET S : s # {} => pick[s] \in s
  OBVIOUS
<1>2. F \in [SUBSET S -> [Int -> Int]]
  BY <1>1
<1>3. \A T \in SUBSET S : \E g : IsFold(g, T, Int, 0, pick, F)
  <2> HIDE DEF F, pick
  <2>1. 0 \in Int
    OBVIOUS
  <2> QED
    BY <1>1, <1>2, <2>1, FoldExists
<1>4. ASSUME NEW T \in SUBSET S
      PROVE  Fold(The(T), T)
  <2>1. ASSUME NEW g, Fold(g, T)
        PROVE  IsSum(g, c, T)
    <3>1. ASSUME NEW s \in SUBSET T, s # {}
          PROVE  g[s] = c[CHOOSE x \in s : TRUE] + g[s \ {CHOOSE x \in s : TRUE}]
      <4>1. g[s] = F[s][g[s \ {pick[s]}]] /\ g[s \ {pick[s]}] \in Int
        <5> HIDE DEF F, pick
        <5> QED
          BY <2>1, <3>1 DEF IsFold
      <4> QED
        BY <3>1, <4>1
    <3>2. g = [s \in SUBSET T |-> g[s]] /\ g[{}] = 0
      <4> HIDE DEF F, pick
      <4> QED
        BY <2>1 DEF IsFold
    <3> QED
      BY <3>1, <3>2 DEF IsSum
  <2>2. PICK g : Fold(g, T)
    BY <1>3
  <2>3. IsSum(g, c, T) /\ IsSum(The(T), c, T) /\ IsFiniteSet(T)
    BY <2>1, <2>2, FS_Subset
  <2>4. The(T) = g
    <3> HIDE DEF The
    <3> QED
      BY <2>3, SumUnique
  <2> QED
    BY <2>2, <2>4
<1>5. \A T \in SUBSET S : Sum(c, T) = The(T)[T]
  BY SumIsChosen
<1>6. \A T \in SUBSET S : /\ The(T) \in [SUBSET T -> Int]
                          /\ \A s \in SUBSET T :
                               The(T)[s] = IF s = {} THEN 0
                                           ELSE F[s][The(T)[s \ {pick[s]}]]
  <2> HIDE DEF The, F, pick
  <2> QED
    BY <1>4 DEF IsFold
<1>7. \A T \in SUBSET S : Sum(c, T) \in Int /\ (T = {} => Sum(c, T) = 0)
  <2> SUFFICES ASSUME NEW T \in SUBSET S
               PROVE  Sum(c, T) \in Int /\ (T = {} => Sum(c, T) = 0)
    OBVIOUS
  <2> HIDE DEF The, F, pick
  <2>1. T \in SUBSET T /\ Sum(c, T) = The(T)[T]
    BY <1>5
  <2>2. The(T)[T] \in Int
    BY <1>6, <2>1
  <2>3. T = {} => The(T)[T] = 0
    BY <1>6, <2>1
  <2> QED
    BY <2>1, <2>2, <2>3
<1>8. ASSUME NEW T \in SUBSET S, T # {}
      PROVE  \E x \in T : Sum(c, T) = c[x] + Sum(c, T \ {x})
  <2> DEFINE x == pick[T]
  <2>1. x \in T /\ T \ {x} \in SUBSET S /\ T \ {x} \in SUBSET T
    BY <1>1, <1>8
  <2>2. The(T)[T \ {x}] = The(T \ {x})[T \ {x}]
    <3>1. Fold(The(T), T) /\ Fold(The(T \ {x}), T \ {x})
      BY <1>4, <2>1
    <3> HIDE DEF The, F, pick
    <3> QED
      BY <1>1, <2>1, <3>1, FoldUnique
  <2>3. \A v \in Int : F[T][v] = c[x] + v
    BY <1>8
  <2>4. Sum(c, T) = F[T][The(T)[T \ {x}]] /\ The(T)[T \ {x}] = Sum(c, T \ {x})
    <3> HIDE DEF The, F, pick
    <3> QED
      BY <1>5, <1>6, <1>8, <2>1, <2>2
  <2>5. Sum(c, T \ {x}) \in Int
    BY <1>7, <2>1
  <2> HIDE DEF The, F, pick
  <2> QED
    BY <2>1, <2>3, <2>4, <2>5
<1> HIDE DEF The, F, pick
<1> QED
  BY <1>7, <1>8

\* The same for every element.
LEMMA SumRest ==
    ASSUME NEW S, IsFiniteSet(S), NEW c, \A x \in S : c[x] \in Int
    PROVE  \A T \in SUBSET S : \A x \in T : Sum(c, T) = c[x] + Sum(c, T \ {x})
<1> DEFINE Q == {T \in SUBSET S : \A x \in T : Sum(c, T) = c[x] + Sum(c, T \ {x})}
<1>1. ASSUME NEW T \in SUBSET S, \A U \in SUBSET T : U # T => U \in Q,
             NEW x \in T
      PROVE  Sum(c, T) = c[x] + Sum(c, T \ {x})
  <2>1. PICK y \in T : Sum(c, T) = c[y] + Sum(c, T \ {y})
    <3>1. T # {} /\ T \in SUBSET S
      OBVIOUS
    <3> QED
      BY <3>1, SumEquation
  <2>2. CASE x # y
    <3>1. T \ {x} \in Q /\ T \ {y} \in Q
      BY <1>1
    <3>2. (T \ {x}) \ {y} = (T \ {y}) \ {x}
      OBVIOUS
    <3>3. /\ Sum(c, T \ {x}) = c[y] + Sum(c, (T \ {x}) \ {y})
          /\ Sum(c, T \ {y}) = c[x] + Sum(c, (T \ {y}) \ {x})
      BY <2>2, <3>1
    <3>4. Sum(c, (T \ {x}) \ {y}) \in Int
      BY SumEquation
    <3>5. c[x] \in Int /\ c[y] \in Int
      OBVIOUS
    <3>6. \A v \in Int : c[y] + (c[x] + v) = c[x] + (c[y] + v)
      BY <3>5
    <3> HIDE DEF Q
    <3>7. Sum(c, T) = c[y] + (c[x] + Sum(c, (T \ {x}) \ {y}))
      BY <2>1, <3>2, <3>3, Zenon
    <3>8. Sum(c, T) = c[x] + (c[y] + Sum(c, (T \ {x}) \ {y}))
      BY <3>4, <3>6, <3>7
    <3> QED
      BY <3>3, <3>8
  <2> QED
    BY <2>1, <2>2
<1>2. \A T \in SUBSET S : T \in Q
  <2>1. \A T \in SUBSET S : (\A U \in SUBSET T : U # T => U \in Q) => T \in Q
    BY <1>1
  <2> HIDE DEF Q
  <2> QED
    BY <2>1, SubsetInduction
<1> QED
  BY <1>2

\* A sum of naturals is one.
LEMMA SumIsNatural ==
    ASSUME NEW S, IsFiniteSet(S), NEW c, \A x \in S : c[x] \in Nat
    PROVE  Sum(c, S) \in Nat
<1> DEFINE Q == {T \in SUBSET S : Sum(c, T) \in Nat}
<1>1. ASSUME NEW T \in SUBSET S, \A U \in SUBSET T : U # T => U \in Q
      PROVE  T \in Q
  <2>1. \A x \in S : c[x] \in Int
    OBVIOUS
  <2>2. CASE T # {}
    <3>1. PICK x \in T : Sum(c, T) = c[x] + Sum(c, T \ {x})
      BY <2>1, <2>2, SumEquation
    <3>2. T \ {x} \in Q
      BY <1>1
    <3> QED
      BY <3>1, <3>2
  <2>3. Sum(c, {}) = 0
    BY <2>1, SumEquation
  <2> QED
    BY <2>2, <2>3
<1>2. \A T \in SUBSET S : T \in Q
  <2> HIDE DEF Q
  <2> QED
    BY <1>1, SubsetInduction
<1> QED
  BY <1>2

\* What happens outside S does not matter to its sum.
LEMMA SumOfEqual ==
    ASSUME NEW S, IsFiniteSet(S), NEW c, NEW e,
           \A x \in S : c[x] \in Int /\ e[x] = c[x]
    PROVE  Sum(e, S) = Sum(c, S)
<1> DEFINE Q == {T \in SUBSET S : Sum(e, T) = Sum(c, T)}
<1>1. ASSUME NEW T \in SUBSET S, \A U \in SUBSET T : U # T => U \in Q
      PROVE  T \in Q
  <2>1. (\A x \in S : c[x] \in Int) /\ (\A x \in S : e[x] \in Int)
    OBVIOUS
  <2>2. CASE T # {}
    <3>1. PICK x \in T : Sum(c, T) = c[x] + Sum(c, T \ {x})
      <4>1. \A x \in S : c[x] \in Int
        BY <2>1
      <4> QED
        BY <2>2, <4>1, SumEquation
    <3>2. Sum(e, T) = e[x] + Sum(e, T \ {x})
      BY <2>1, SumRest
    <3>3. T \ {x} \in Q
      BY <1>1
    <3> QED
      BY <3>1, <3>2, <3>3
  <2>3. Sum(c, {}) = 0 /\ Sum(e, {}) = 0
    BY <2>1, SumEquation
  <2> QED
    BY <2>2, <2>3
<1>2. \A T \in SUBSET S : T \in Q
  <2> HIDE DEF Q
  <2> QED
    BY <1>1, SubsetInduction
<1> QED
  BY <1>2

\* One element taken apart, when only its value changes.
LEMMA SumWithout ==
    ASSUME NEW S, IsFiniteSet(S), NEW t \in S, NEW c, NEW e,
           \A x \in S : e[x] \in Nat,
           \A x \in S \ {t} : e[x] = c[x]
    PROVE  /\ Sum(e, S) = e[t] + Sum(c, S \ {t})
           /\ Sum(c, S \ {t}) \in Nat
<1>1. \A x \in S : e[x] \in Int
  OBVIOUS
<1>2. S \in SUBSET S
  OBVIOUS
<1>3. Sum(e, S) = e[t] + Sum(e, S \ {t})
  BY <1>1, <1>2, SumRest
<1>4. IsFiniteSet(S \ {t}) /\ \A x \in S \ {t} : c[x] \in Nat
  BY FS_Subset
<1>5. Sum(e, S \ {t}) = Sum(c, S \ {t})
  <2>1. \A x \in S \ {t} : c[x] \in Int /\ e[x] = c[x]
    BY <1>4
  <2> QED
    BY <1>4, <2>1, SumOfEqual
<1>6. Sum(c, S \ {t}) \in Nat
  BY <1>4, SumIsNatural
<1> QED
  BY <1>3, <1>5, <1>6

\* The sum of nothing.
LEMMA SumOfNone == ASSUME NEW c PROVE Sum(c, {}) = 0
<1>1. IsFiniteSet({}) /\ \A x \in {} : c[x] \in Int
  BY FS_EmptySet
<1> QED
  BY <1>1, SumEquation

=============================================================================

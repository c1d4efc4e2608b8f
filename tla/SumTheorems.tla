------------------------------ MODULE SumTheorems ------------------------------
(***************************************************************************)
(* Facts about SumFunction and SumFunctionOnSet of the community modules:  *)
(* the sum of natural numbers over a finite set is a natural number, grows *)
(* with its terms, adds up term by term, and is what its only term is.     *)
(*                                                                         *)
(* The sums are a recursive choice of terms.  The library's induction      *)
(* theorems take a predicate as a parameter, which the provers cannot give *)
(* a value; FiniteInduction takes a set instead.                           *)
(***************************************************************************)
EXTENDS Integers, FiniteSets, Functions, FiniteSetTheorems, WellFoundedInduction, TLAPS

\* The term that is taken next.
Pick(s) == CHOOSE x \in s : TRUE

\* One step of the recursion, with g for the rest.
SumStep(f, g, s) == IF s = {} THEN 0 ELSE f[Pick(s)] + g[s \ {Pick(s)}]

\* The recursive function behind a sum over subsets of S.
Partial(f, S) == CHOOSE g : g = [s \in SUBSET S |-> SumStep(f, g, s)]

-----------------------------------------------------------------------------
\* A sum is what the recursion gives for all terms.
LEMMA SumIsPartial ==
  ASSUME NEW f, NEW S
  PROVE  SumFunctionOnSet(f, S) = Partial(f, S)[S]
BY DEF SumFunctionOnSet, FoldFunctionOnSet, MapThenFoldSet, Partial, SumStep, Pick

\* A set of natural numbers with a member has a least one.
LEMMA LeastNumber ==
  ASSUME NEW N \in SUBSET Nat, N # {}
  PROVE  \E n \in N : \A m \in N : n <= m
<1> DEFINE R == OpToRel(<, Nat)
<1>1. \A m, n \in Nat : <<m, n>> \notin R => n <= m
  BY DEF OpToRel
<1>2. IsWellFoundedOn(R, Nat)
  BY NatLessThanWellFounded
<1> HIDE DEF R
<1>3. \E n \in N : \A m \in N : <<m, n>> \notin R
  BY <1>2, WFMin
<1> QED
  BY <1>1, <1>3

\* Induction over the subsets of a finite set: a set that has every T all of
\* whose parts with one element less it has, has them all.
LEMMA FiniteInduction ==
  ASSUME NEW S, IsFiniteSet(S), NEW A,
         \A T \in SUBSET S : (\A x \in T : T \ {x} \in A) => T \in A
  PROVE  \A T \in SUBSET S : T \in A
<1> SUFFICES ASSUME NEW T \in SUBSET S, T \notin A PROVE FALSE
  OBVIOUS
<1> DEFINE N == {Cardinality(X) : X \in {Y \in SUBSET S : Y \notin A}}
<1>1. \A X \in SUBSET S : IsFiniteSet(X) /\ Cardinality(X) \in Nat
  BY FS_Subset, FS_CardinalityType
<1>2. N \in SUBSET Nat /\ N # {}
  BY <1>1
<1>3. PICK n \in N : \A m \in N : n <= m
  <2> HIDE DEF N
  <2> QED BY <1>2, LeastNumber
<1>4. PICK X \in SUBSET S : X \notin A /\ n = Cardinality(X)
  BY <1>3
<1>5. ASSUME NEW x \in X PROVE X \ {x} \in A
  <2>1. Cardinality(X \ {x}) = Cardinality(X) - 1
    BY <1>1, FS_RemoveElement
  <2>2. Cardinality(X \ {x}) < n
    BY <1>1, <1>4, <2>1
  <2>3. n \in Int /\ Cardinality(X \ {x}) \in Int
    BY <1>1, <1>4
  <2>4. Cardinality(X \ {x}) \notin N
    <3> HIDE DEF N
    <3> QED BY <1>3, <2>2, <2>3
  <2> QED BY <2>4
<1> QED BY <1>4, <1>5

-----------------------------------------------------------------------------
\* For a finite set the recursion has a solution: the solutions on the subsets
\* of at most n elements extend each other.
LEMMA PartialExists ==
  ASSUME NEW f, NEW S, IsFiniteSet(S)
  PROVE  \A T \in SUBSET S : Partial(f, S)[T] = SumStep(f, Partial(f, S), T)
<1> DEFINE Small(n) == {s \in SUBSET S : Cardinality(s) <= n}
           Solves(g, n) == g = [s \in Small(n) |-> SumStep(f, g, s)]
           N == {n \in Nat : ~ \E g : Solves(g, n)}
<1>1. \A s \in SUBSET S : IsFiniteSet(s) /\ Cardinality(s) \in Nat /\ Cardinality(s) <= Cardinality(S)
  BY FS_Subset, FS_CardinalityType
<1>2. \A s \in SUBSET S : s # {} => /\ Pick(s) \in s
                                    /\ s \ {Pick(s)} \in SUBSET S
                                    /\ Cardinality(s \ {Pick(s)}) = Cardinality(s) - 1
  BY <1>1, FS_RemoveElement DEF Pick
<1>3. Solves([s \in Small(0) |-> 0], 0)
  <2>1. \A s \in Small(0) : s = {}
    BY <1>1, FS_EmptySet
  <2>2. \A s \in Small(0) : SumStep(f, [t \in Small(0) |-> 0], s) = 0
    BY <2>1 DEF SumStep
  <2> QED BY <2>2
<1>4. ASSUME NEW n \in Nat, NEW g, Solves(g, n)
      PROVE  Solves([s \in Small(n + 1) |-> SumStep(f, g, s)], n + 1)
  <2> DEFINE h == [s \in Small(n + 1) |-> SumStep(f, g, s)]
  <2>1. \A s \in Small(n) : s \in Small(n + 1) /\ h[s] = g[s]
    BY <1>1, <1>4
  <2>2. \A s \in Small(n + 1) : s # {} => s \ {Pick(s)} \in Small(n)
    BY <1>1, <1>2
  <2>3. \A s \in Small(n + 1) : SumStep(f, h, s) = SumStep(f, g, s)
    <3> HIDE DEF h, Small
    <3> QED BY <2>1, <2>2 DEF SumStep
  <2> QED BY <2>3
<1>5. N = {}
  <2> SUFFICES ASSUME N # {} PROVE FALSE
    OBVIOUS
  <2>1. PICK n \in N : \A m \in N : n <= m
    <3>1. N \in SUBSET Nat
      OBVIOUS
    <3> HIDE DEF N
    <3> QED BY <3>1, LeastNumber
  <2>2. n # 0
    BY <1>3, <2>1
  <2>3. n - 1 \in Nat /\ n - 1 \notin N
    <3> HIDE DEF Solves
    <3> QED BY <2>1, <2>2
  <2>4. PICK g : Solves(g, n - 1)
    <3> HIDE DEF Solves
    <3> QED BY <2>3
  <2>5. \E h : Solves(h, (n - 1) + 1)
    <3> HIDE DEF Solves
    <3> QED BY <1>4, <2>3, <2>4
  <2>6. (n - 1) + 1 = n
    BY <2>1
  <2> HIDE DEF Solves
  <2> QED BY <2>1, <2>5, <2>6
<1>6. PICK g : Solves(g, Cardinality(S))
  <2>1. Cardinality(S) \in Nat
    BY FS_CardinalityType
  <2> HIDE DEF Solves
  <2> QED BY <1>5, <2>1
<1>7. Small(Cardinality(S)) = SUBSET S
  BY <1>1
<1>8. \E k : k = [s \in SUBSET S |-> SumStep(f, k, s)]
  BY <1>6, <1>7
<1> DEFINE P == Partial(f, S)
<1> HIDE DEF Small, Solves, N
<1>9. P = [s \in SUBSET S |-> SumStep(f, P, s)]
  BY <1>8 DEF Partial
<1> HIDE DEF P
<1>10. \A T \in SUBSET S : P[T] = SumStep(f, P, T)
  BY <1>9
<1> QED BY <1>10 DEF P

-----------------------------------------------------------------------------
\* The terms of a sum of natural numbers leave a natural number.
LEMMA SumNat ==
  ASSUME NEW S, IsFiniteSet(S), NEW f \in [S -> Nat]
  PROVE  SumFunction(f) \in Nat
<1> DEFINE P == Partial(f, S)
           A == {T \in SUBSET S : P[T] \in Nat}
<1>1. \A T \in SUBSET S : P[T] = SumStep(f, P, T)
  BY PartialExists
<1> HIDE DEF P
<1>2. ASSUME NEW T \in SUBSET S, \A x \in T : T \ {x} \in A PROVE T \in A
  <2>1. T # {} => Pick(T) \in T /\ P[T \ {Pick(T)}] \in Nat
    BY <1>2 DEF Pick
  <2>2. SumStep(f, P, T) \in Nat
    BY <2>1 DEF SumStep
  <2> QED BY <1>1, <2>2
<1>3. \A T \in SUBSET S : (\A x \in T : T \ {x} \in A) => T \in A
  BY <1>2
<1> HIDE DEF A
<1>4. \A T \in SUBSET S : T \in A
  BY <1>3, FiniteInduction, Zenon
<1> QED BY <1>4, SumIsPartial DEF A, SumFunction, P

\* Sums are added up term by term.
LEMMA SumAdds ==
  ASSUME NEW S, IsFiniteSet(S), NEW f \in [S -> Nat], NEW g \in [S -> Nat], NEW h \in [S -> Nat],
         \A x \in S : h[x] = f[x] + g[x]
  PROVE  SumFunction(h) = SumFunction(f) + SumFunction(g)
<1> DEFINE F == Partial(f, S)
           G == Partial(g, S)
           H == Partial(h, S)
           A == {T \in SUBSET S : F[T] \in Nat /\ G[T] \in Nat /\ H[T] = F[T] + G[T]}
<1>1. \A T \in SUBSET S : /\ F[T] = SumStep(f, F, T)
                          /\ G[T] = SumStep(g, G, T)
                          /\ H[T] = SumStep(h, H, T)
  BY PartialExists
<1> HIDE DEF F, G, H
<1>2. ASSUME NEW T \in SUBSET S, \A x \in T : T \ {x} \in A PROVE T \in A
  <2>1. CASE T = {}
    <3>1. F[T] = 0 /\ G[T] = 0 /\ H[T] = 0
      BY <1>1, <2>1 DEF SumStep
    <3> QED BY <3>1
  <2>2. CASE T # {}
    <3> DEFINE x == Pick(T)
               R == T \ {x}
    <3>1. x \in T /\ R \in A
      BY <1>2, <2>2 DEF Pick
    <3>2. F[T] = f[x] + F[R] /\ G[T] = g[x] + G[R] /\ H[T] = h[x] + H[R]
      BY <1>1, <2>2 DEF SumStep
    <3>3. f[x] \in Nat /\ g[x] \in Nat /\ h[x] = f[x] + g[x]
      BY <3>1
    <3>4. F[R] \in Nat /\ G[R] \in Nat /\ H[R] = F[R] + G[R]
      BY <3>1
    <3> HIDE DEF x, R
    <3>5. F[T] \in Nat /\ G[T] \in Nat /\ H[T] = F[T] + G[T]
      BY <3>2, <3>3, <3>4
    <3> QED BY <3>5
  <2> QED BY <2>1, <2>2
<1>3. \A T \in SUBSET S : (\A x \in T : T \ {x} \in A) => T \in A
  BY <1>2
<1> HIDE DEF A
<1>4. \A T \in SUBSET S : T \in A
  BY <1>3, FiniteInduction, Zenon
<1> QED BY <1>4, SumIsPartial DEF SumFunction, F, G, H, A

\* The sum of one term, the others being 0, is that term.
LEMMA SumSingle ==
  ASSUME NEW S, IsFiniteSet(S), NEW f \in [S -> Nat], NEW a \in S,
         \A x \in S : x # a => f[x] = 0
  PROVE  SumFunction(f) = f[a]
<1> DEFINE F == Partial(f, S)
           A == {T \in SUBSET S : F[T] = IF a \in T THEN f[a] ELSE 0}
<1>1. \A T \in SUBSET S : F[T] = SumStep(f, F, T)
  BY PartialExists
<1> HIDE DEF F
<1>2. ASSUME NEW T \in SUBSET S, \A x \in T : T \ {x} \in A PROVE T \in A
  <2>1. CASE T = {}
    BY <1>1, <2>1 DEF SumStep
  <2>2. CASE T # {}
    <3> DEFINE x == Pick(T)
               R == T \ {x}
    <3>1. x \in T /\ R \in A
      BY <1>2, <2>2 DEF Pick
    <3>2. F[T] = f[x] + F[R]
      BY <1>1, <2>2 DEF SumStep
    <3>3. CASE x = a
      <4>1. F[R] = 0 /\ a \in T
        BY <3>1, <3>3
      <4> QED BY <3>2, <3>3, <4>1
    <3>4. CASE x # a
      <4>1. f[x] = 0 /\ (a \in R <=> a \in T)
        BY <3>1, <3>4
      <4>2. F[R] = IF a \in R THEN f[a] ELSE 0
        BY <3>1
      <4>3. F[R] = IF a \in T THEN f[a] ELSE 0
        BY <4>1, <4>2
      <4> HIDE DEF x, R
      <4> QED BY <3>2, <4>1, <4>3
    <3> QED BY <3>3, <3>4
  <2> QED BY <2>1, <2>2
<1>3. \A T \in SUBSET S : (\A x \in T : T \ {x} \in A) => T \in A
  BY <1>2
<1> HIDE DEF A
<1>4. \A T \in SUBSET S : T \in A
  BY <1>3, FiniteInduction, Zenon
<1> QED BY <1>4, SumIsPartial DEF A, SumFunction, F

\* A sum grows with its terms, and it is not less than any of them.
LEMMA SumMonotone ==
  ASSUME NEW S, IsFiniteSet(S), NEW f \in [S -> Nat], NEW g \in [S -> Nat],
         \A x \in S : f[x] <= g[x]
  PROVE  SumFunction(f) <= SumFunction(g)
<1> DEFINE d == [x \in S |-> g[x] - f[x]]
<1>1. d \in [S -> Nat] /\ \A x \in S : g[x] = f[x] + d[x]
  OBVIOUS
<1> HIDE DEF d
<1>2. SumFunction(g) = SumFunction(f) + SumFunction(d)
  BY <1>1, SumAdds
<1>3. SumFunction(f) \in Nat /\ SumFunction(d) \in Nat
  BY <1>1, SumNat
<1> QED BY <1>2, <1>3

\* A term is at most the sum.
LEMMA SumBound ==
  ASSUME NEW S, IsFiniteSet(S), NEW f \in [S -> Nat], NEW a \in S
  PROVE  f[a] <= SumFunction(f)
<1> DEFINE g == [x \in S |-> IF x = a THEN f[a] ELSE 0]
<1>1. g \in [S -> Nat] /\ g[a] = f[a] /\ \A x \in S : g[x] <= f[x] /\ (x # a => g[x] = 0)
  OBVIOUS
<1> HIDE DEF g
<1>2. SumFunction(g) = f[a]
  BY <1>1, SumSingle
<1> QED BY <1>1, <1>2, SumMonotone

\* When one term grows by k and the others stay, so does the sum.
LEMMA SumGrows ==
  ASSUME NEW S, IsFiniteSet(S), NEW f \in [S -> Nat], NEW g \in [S -> Nat], NEW a \in S, NEW k \in Nat,
         g[a] = f[a] + k,
         \A x \in S : x # a => g[x] = f[x]
  PROVE  SumFunction(g) = SumFunction(f) + k
<1> DEFINE d == [x \in S |-> IF x = a THEN k ELSE 0]
<1>1. d \in [S -> Nat] /\ d[a] = k /\ \A x \in S : g[x] = f[x] + d[x] /\ (x # a => d[x] = 0)
  OBVIOUS
<1> HIDE DEF d
<1>2. SumFunction(d) = k
  BY <1>1, SumSingle
<1> QED BY <1>1, <1>2, SumAdds

\* When one term grows by k at most and no other grows, the sum grows by k at
\* most.
LEMMA SumGrowsAtMost ==
  ASSUME NEW S, IsFiniteSet(S), NEW f \in [S -> Nat], NEW g \in [S -> Nat], NEW a \in S, NEW k \in Nat,
         g[a] <= f[a] + k,
         \A x \in S : x # a => g[x] <= f[x]
  PROVE  SumFunction(g) <= SumFunction(f) + k
<1> DEFINE h == [x \in S |-> IF x = a THEN f[a] + k ELSE f[x]]
<1>1. h \in [S -> Nat] /\ h[a] = f[a] + k /\ \A x \in S : g[x] <= h[x] /\ (x # a => h[x] = f[x])
  OBVIOUS
<1> HIDE DEF h
<1>2. SumFunction(h) = SumFunction(f) + k
  BY <1>1, SumGrows
<1>3. SumFunction(g) <= SumFunction(h)
  BY <1>1, SumMonotone
<1> QED BY <1>2, <1>3

\* A sum of zeros is zero.
LEMMA SumZero ==
  ASSUME NEW S, IsFiniteSet(S), NEW f \in [S -> Nat], \A x \in S : f[x] = 0
  PROVE  SumFunction(f) = 0
<1>1. \A x \in S : f[x] = f[x] + f[x]
  OBVIOUS
<1>2. SumFunction(f) = SumFunction(f) + SumFunction(f)
  BY <1>1, SumAdds
<1> QED BY <1>2, SumNat
================================================================================

----------------------------- MODULE SumTheorems -----------------------------
(***************************************************************************)
(* What the folds of the community modules add up to, for any finite set:  *)
(* a sum does not depend on the order of its terms, grows with its set and *)
(* splits where the set does; what the ranks in a set of positions are;    *)
(* and what a fold of a sequence has come to after each position.          *)
(* Induction over sets is by a smallest set that is no member of a set of  *)
(* sets.                                                                   *)
(***************************************************************************)
EXTENDS Integers, FiniteSets, FiniteSetsExt, FiniteSetTheorems, WellFoundedInduction, TLAPS

\* The equations of a sum over the subsets of a set, as the folds have them.
Pick(s) == CHOOSE x \in s : TRUE

IsSum(g, f, S) ==
  g = [s \in SUBSET S |-> IF s = {} THEN 0 ELSE f[Pick(s)] + g[s \ {Pick(s)}]]

Sum(f, S) == (CHOOSE h : IsSum(h, f, S))[S]

\* Every set of natural numbers has a least one.
LEMMA LeastNat ==
  ASSUME NEW T, T \subseteq Nat, T # {}
  PROVE  \E n \in T : \A m \in T : n <= m
<1> DEFINE R == OpToRel(<, Nat)
<1>1. IsWellFoundedOn(R, Nat)
  BY Zenon, NatLessThanWellFounded
<1>2. PICK n \in T : \A m \in T : ~(<<m, n>> \in R)
  BY Zenon, <1>1, WFMin
<1>3. \A m \in T : ~(m < n)
  BY Zenon, <1>2 DEF OpToRel
<1> QED
  BY <1>3

\* Induction over the subsets of a finite set.
LEMMA SubsetInduction ==
  ASSUME NEW S, IsFiniteSet(S), NEW P,
         \A T \in SUBSET S : (\A R \in SUBSET T : R # T => R \in P) => T \in P
  PROVE  \A T \in SUBSET S : T \in P
<1> SUFFICES ASSUME NEW B \in SUBSET S, B \notin P PROVE FALSE
  OBVIOUS
<1> DEFINE C == {Cardinality(T) : T \in {T \in SUBSET S : T \notin P}}
<1>1. \A T \in SUBSET S : IsFiniteSet(T) /\ Cardinality(T) \in Nat
  BY FS_Subset, FS_CardinalityType
<1>2. C \subseteq Nat /\ C # {}
  BY <1>1
<1>3. PICK n \in C : \A m \in C : n <= m
  BY <1>2, LeastNat
<1>4. PICK T \in SUBSET S : T \notin P /\ Cardinality(T) = n
  BY <1>3
<1>5. ASSUME NEW R \in SUBSET T, R # T PROVE R \in P
  <2>1. Cardinality(R) < Cardinality(T) /\ Cardinality(R) \in Nat
    BY <1>1, <1>4, <1>5, FS_Subset, FS_CardinalityType
  <2>2. R \in SUBSET S
    BY <1>5
  <2>3. R \notin P => Cardinality(R) \in C
    BY <2>2
  <2>4. Cardinality(R) \notin C
    <3> HIDE DEF C
    <3> QED
      BY <1>2, <1>3, <1>4, <2>1
  <2> QED
    BY <2>3, <2>4
<1> QED
  BY <1>4, <1>5

\* Two solutions of the equations agree where both are defined.
LEMMA SumUnique ==
  ASSUME NEW f, NEW S, IsFiniteSet(S), NEW T, NEW g, NEW h, IsSum(g, f, S), IsSum(h, f, T), S \subseteq T
  PROVE  \A R \in SUBSET S : g[R] = h[R]
<1> DEFINE P == {R \in SUBSET S : g[R] = h[R]}
<1>1. ASSUME NEW R \in SUBSET S, \A Q \in SUBSET R : Q # R => Q \in P PROVE R \in P
  <2>1. CASE R = {}
    BY <2>1 DEF IsSum
  <2>2. CASE R # {}
    <3>1. Pick(R) \in R
      BY <2>2 DEF Pick
    <3>2. R \ {Pick(R)} \in P
      BY <1>1, <3>1
    <3>3. /\ g[R] = f[Pick(R)] + g[R \ {Pick(R)}]
          /\ h[R] = f[Pick(R)] + h[R \ {Pick(R)}]
      BY <2>2 DEF IsSum
    <3> QED
      BY <3>2, <3>3
  <2> QED
    BY <2>1, <2>2
<1> HIDE DEF P
<1>2. \A R \in SUBSET S : R \in P
  BY <1>1, SubsetInduction
<1> QED
  BY <1>2 DEF P

\* There is a solution.
LEMMA SumExists ==
  ASSUME NEW f, NEW S, IsFiniteSet(S)
  PROVE  \E g : IsSum(g, f, S)
<1> DEFINE P == {T \in SUBSET S : \E g : IsSum(g, f, T)}
           F(R) == CHOOSE h : IsSum(h, f, R)
<1>1. ASSUME NEW T \in SUBSET S, \A R \in SUBSET T : R # T => R \in P PROVE T \in P
  <2>1. \A R \in SUBSET T : R # T => IsSum(F(R), f, R) /\ IsFiniteSet(R)
    BY <1>1, FS_Subset
  <2> DEFINE g == [s \in SUBSET T |->
                     IF s # T THEN F(s)[s]
                     ELSE IF T = {} THEN 0 ELSE f[Pick(T)] + F(T \ {Pick(T)})[T \ {Pick(T)}]]
  <2> HIDE DEF F
  <2>2. ASSUME NEW s \in SUBSET T, s # {}
        PROVE  g[s] = f[Pick(s)] + g[s \ {Pick(s)}]
    <3>1. Pick(s) \in s /\ s \ {Pick(s)} \in SUBSET T /\ s \ {Pick(s)} # T
      BY <2>2 DEF Pick
    <3>2. g[s \ {Pick(s)}] = F(s \ {Pick(s)})[s \ {Pick(s)}]
      BY <3>1
    <3>3. CASE s = T
      BY <2>2, <3>2, <3>3
    <3>4. CASE s # T
      <4>1. g[s] = F(s)[s]
        BY <3>4
      <4>2. F(s)[s] = f[Pick(s)] + F(s)[s \ {Pick(s)}]
        BY <2>1, <2>2, <3>4 DEF IsSum
      <4>3. F(s)[s \ {Pick(s)}] = F(s \ {Pick(s)})[s \ {Pick(s)}]
        <5> DEFINE r == s \ {Pick(s)}
        <5>1. r \in SUBSET T /\ r # T /\ r \subseteq s /\ r \in SUBSET r
          BY <3>1
        <5>2. IsSum(F(r), f, r) /\ IsFiniteSet(r) /\ IsSum(F(s), f, s)
          BY <2>1, <3>4, <5>1
        <5> HIDE DEF r
        <5>3. F(r)[r] = F(s)[r]
          BY <5>1, <5>2, SumUnique
        <5> QED
          BY <5>3 DEF r
      <4> QED
        BY <3>2, <4>1, <4>2, <4>3
    <3> QED
      BY <3>3, <3>4
  <2>3. g[{}] = 0
    <3>1. CASE T = {}
      BY <3>1
    <3>2. CASE T # {}
      BY <2>1, <3>2 DEF IsSum
    <3> QED
      BY <3>1, <3>2
  <2>4. \A s \in SUBSET T : g[s] = IF s = {} THEN 0 ELSE f[Pick(s)] + g[s \ {Pick(s)}]
    BY <2>2, <2>3
  <2>5. IsSum(g, f, T)
    <3>1. g = [s \in SUBSET T |-> g[s]]
      OBVIOUS
    <3> HIDE DEF g
    <3> QED
      BY <2>4, <3>1 DEF IsSum
  <2> QED
    BY <2>5
<1> HIDE DEF P
<1>2. S \in P
  BY <1>1, SubsetInduction
<1> QED
  BY <1>2 DEF P

-----------------------------------------------------------------------------
\* The equations of a sum.
LEMMA SumIs ==
  ASSUME NEW f, NEW S, IsFiniteSet(S)
  PROVE  /\ Sum(f, {}) = 0
         /\ S # {} => /\ Pick(S) \in S
                      /\ Sum(f, S) = f[Pick(S)] + Sum(f, S \ {Pick(S)})
<1> DEFINE F(R) == CHOOSE h : IsSum(h, f, R)
<1>1. \A R \in SUBSET S : IsFiniteSet(R) /\ IsSum(F(R), f, R) /\ Sum(f, R) = F(R)[R]
  BY FS_Subset, SumExists DEF Sum
<1> HIDE DEF F
<1>2. Sum(f, {}) = 0
  <2>1. {} \in SUBSET S /\ {} \in SUBSET {}
    OBVIOUS
  <2>2. F({})[{}] = 0
    BY <1>1, <2>1 DEF IsSum
  <2> QED
    BY <1>1, <2>1, <2>2
<1>3. ASSUME S # {} PROVE Pick(S) \in S /\ Sum(f, S) = f[Pick(S)] + Sum(f, S \ {Pick(S)})
  <2>1. Pick(S) \in S
    BY <1>3 DEF Pick
  <2>2. F(S)[S] = f[Pick(S)] + F(S)[S \ {Pick(S)}]
    BY <1>1, <1>3 DEF IsSum
  <2>3. S \ {Pick(S)} \in SUBSET S
    OBVIOUS
  <2>4. F(S)[S \ {Pick(S)}] = F(S \ {Pick(S)})[S \ {Pick(S)}]
    BY <1>1, <2>3, SumUnique
  <2> QED
    BY <1>1, <2>1, <2>2, <2>3, <2>4
<1> QED
  BY <1>2, <1>3

\* Whatever satisfies the equations is the sum.
LEMMA SumByEquations ==
  ASSUME NEW f, NEW S, IsFiniteSet(S), NEW g, IsSum(g, f, S)
  PROVE  g[S] = Sum(f, S)
<1> DEFINE h == CHOOSE h : IsSum(h, f, S)
<1>1. IsSum(h, f, S)
  OBVIOUS
<1>2. Sum(f, S) = h[S]
  BY DEF Sum
<1> HIDE DEF h
<1>3. S \in SUBSET S
  OBVIOUS
<1> QED
  BY <1>1, <1>2, <1>3, SumUnique

\* Integers add up to an integer.
LEMMA SumInt ==
  ASSUME NEW f, NEW S, IsFiniteSet(S), \A x \in S : f[x] \in Int
  PROVE  \A T \in SUBSET S : Sum(f, T) \in Int
<1> DEFINE P == {T \in SUBSET S : Sum(f, T) \in Int}
<1>1. ASSUME NEW T \in SUBSET S, \A R \in SUBSET T : R # T => R \in P PROVE T \in P
  <2>1. IsFiniteSet(T)
    BY FS_Subset
  <2>2. T # {} => Pick(T) \in T /\ T \ {Pick(T)} \in P
    BY <1>1, <2>1, SumIs
  <2>3. T # {} => f[Pick(T)] \in Int /\ Sum(f, T \ {Pick(T)}) \in Int
    BY <2>2
  <2>4. Sum(f, T) = IF T = {} THEN 0 ELSE f[Pick(T)] + Sum(f, T \ {Pick(T)})
    BY <2>1, SumIs
  <2> QED
    BY <2>3, <2>4
<1> HIDE DEF P
<1>2. \A T \in SUBSET S : T \in P
  BY <1>1, SubsetInduction
<1> QED
  BY <1>2 DEF P

\* Natural numbers add up to a natural number.
LEMMA SumNat ==
  ASSUME NEW f, NEW S, IsFiniteSet(S), \A x \in S : f[x] \in Nat
  PROVE  \A T \in SUBSET S : Sum(f, T) \in Nat
<1> DEFINE P == {T \in SUBSET S : Sum(f, T) \in Nat}
<1>1. ASSUME NEW T \in SUBSET S, \A R \in SUBSET T : R # T => R \in P PROVE T \in P
  <2>1. IsFiniteSet(T)
    BY FS_Subset
  <2>2. T # {} => Pick(T) \in T /\ T \ {Pick(T)} \in P
    BY <1>1, <2>1, SumIs
  <2>3. T # {} => f[Pick(T)] \in Nat /\ Sum(f, T \ {Pick(T)}) \in Nat
    BY <2>2
  <2>4. Sum(f, T) = IF T = {} THEN 0 ELSE f[Pick(T)] + Sum(f, T \ {Pick(T)})
    BY <2>1, SumIs
  <2> QED
    BY <2>3, <2>4
<1> HIDE DEF P
<1>2. \A T \in SUBSET S : T \in P
  BY <1>1, SubsetInduction
<1> QED
  BY <1>2 DEF P

\* Any term may be taken first.
LEMMA SumTakes ==
  ASSUME NEW f, NEW S, IsFiniteSet(S), \A x \in S : f[x] \in Int
  PROVE  \A T \in SUBSET S : \A x \in T : Sum(f, T) = f[x] + Sum(f, T \ {x})
<1> DEFINE P == {T \in SUBSET S : \A x \in T : Sum(f, T) = f[x] + Sum(f, T \ {x})}
<1>1. ASSUME NEW T \in SUBSET S, \A R \in SUBSET T : R # T => R \in P PROVE T \in P
  <2>1. SUFFICES ASSUME NEW x \in T PROVE Sum(f, T) = f[x] + Sum(f, T \ {x})
    OBVIOUS
  <2> DEFINE p == Pick(T)
  <2>2. p \in T /\ Sum(f, T) = f[p] + Sum(f, T \ {p})
    BY FS_Subset, SumIs
  <2> HIDE DEF p
  <2>3. CASE x = p
    BY <2>2, <2>3
  <2>4. CASE x # p
    <3>1. T \ {p} \in P /\ T \ {x} \in P
      BY <1>1, <2>1, <2>2
    <3>2. x \in T \ {p} /\ p \in T \ {x} /\ (T \ {p}) \ {x} = (T \ {x}) \ {p}
      BY <2>1, <2>2, <2>4
    <3>3. /\ Sum(f, T \ {p}) = f[x] + Sum(f, (T \ {x}) \ {p})
          /\ Sum(f, T \ {x}) = f[p] + Sum(f, (T \ {x}) \ {p})
      BY <3>1, <3>2
    <3>4. f[x] \in Int /\ f[p] \in Int /\ Sum(f, (T \ {x}) \ {p}) \in Int
      <4>1. (T \ {x}) \ {p} \in SUBSET S
        OBVIOUS
      <4> QED
        BY <2>1, <2>2, <4>1, SumInt
    <3> QED
      BY <2>2, <3>3, <3>4
  <2> QED
    BY <2>3, <2>4
<1> HIDE DEF P
<1>2. \A T \in SUBSET S : T \in P
  BY <1>1, SubsetInduction
<1> QED
  BY <1>2 DEF P

\* The sum of a set is that of a part and that of the rest.
LEMMA SumSplits ==
  ASSUME NEW f, NEW S, IsFiniteSet(S), \A x \in S : f[x] \in Int
  PROVE  \A R \in SUBSET S : Sum(f, S) = Sum(f, R) + Sum(f, S \ R)
<1> DEFINE P == {R \in SUBSET S : Sum(f, S) = Sum(f, R) + Sum(f, S \ R)}
<1>1. ASSUME NEW R \in SUBSET S, \A Q \in SUBSET R : Q # R => Q \in P PROVE R \in P
  <2>1. CASE R = {}
    <3>1. Sum(f, R) = 0 /\ S \ R = S /\ Sum(f, S) \in Int
      BY <2>1, SumIs, SumInt
    <3>2. Sum(f, S \ R) = Sum(f, S)
      BY Zenon, <3>1
    <3>3. Sum(f, S) = Sum(f, R) + Sum(f, S \ R)
      BY <3>1, <3>2
    <3> QED
      BY <3>3
  <2>2. ASSUME NEW x \in R PROVE R \in P
    <3>1. R \ {x} \in P /\ (S \ (R \ {x})) \ {x} = S \ R /\ x \in S \ (R \ {x})
      BY <1>1, <2>2
    <3>2. Sum(f, R) = f[x] + Sum(f, R \ {x})
      BY <2>2, SumTakes
    <3>3. Sum(f, S \ (R \ {x})) = f[x] + Sum(f, S \ R)
      <4>1. S \ (R \ {x}) \in SUBSET S
        OBVIOUS
      <4> QED
        BY <3>1, <4>1, SumTakes
    <3>4. Sum(f, S) = Sum(f, R \ {x}) + Sum(f, S \ (R \ {x}))
      BY <3>1
    <3>5. f[x] \in Int /\ Sum(f, R \ {x}) \in Int /\ Sum(f, S \ R) \in Int
      <4>1. R \ {x} \in SUBSET S /\ S \ R \in SUBSET S
        OBVIOUS
      <4> QED
        BY <4>1, SumInt
    <3>6. Sum(f, S) = Sum(f, R) + Sum(f, S \ R)
      BY <3>2, <3>3, <3>4, <3>5
    <3> QED
      BY <3>6
  <2> QED
    BY <2>1, <2>2
<1> HIDE DEF P
<1>2. \A R \in SUBSET S : R \in P
  BY <1>1, SubsetInduction
<1> QED
  BY <1>2 DEF P

\* More terms make no smaller a sum.
LEMMA SumGrows ==
  ASSUME NEW f, NEW S, IsFiniteSet(S), \A x \in S : f[x] \in Nat, NEW R \in SUBSET S
  PROVE  Sum(f, R) <= Sum(f, S)
<1>1. Sum(f, S) = Sum(f, R) + Sum(f, S \ R)
  BY SumSplits
<1>2. S \ R \in SUBSET S
  OBVIOUS
<1>3. Sum(f, R) \in Nat /\ Sum(f, S \ R) \in Nat
  BY <1>2, SumNat
<1> QED
  BY <1>1, <1>3

\* Equal terms have equal sums.
LEMMA SumSame ==
  ASSUME NEW f, NEW g, NEW S, IsFiniteSet(S), \A x \in S : f[x] = g[x]
  PROVE  Sum(f, S) = Sum(g, S)
<1> DEFINE P == {T \in SUBSET S : Sum(f, T) = Sum(g, T)}
<1>1. ASSUME NEW T \in SUBSET S, \A R \in SUBSET T : R # T => R \in P PROVE T \in P
  <2>1. IsFiniteSet(T)
    BY FS_Subset
  <2>2. T # {} => Pick(T) \in T /\ T \ {Pick(T)} \in P
    BY <1>1, <2>1, SumIs
  <2> QED
    BY <2>1, <2>2, SumIs
<1> HIDE DEF P
<1>2. S \in P
  BY <1>1, SubsetInduction
<1> QED
  BY <1>2 DEF P

\* Terms of zero add nothing.
LEMMA SumZero ==
  ASSUME NEW f, NEW S, IsFiniteSet(S), \A x \in S : f[x] \in Int,
         NEW R \in SUBSET S, \A x \in S \ R : f[x] = 0
  PROVE  Sum(f, S) = Sum(f, R)
<1> DEFINE Q == S \ R
           P == {T \in SUBSET Q : Sum(f, T) = 0}
<1>1. IsFiniteSet(Q) /\ Q \in SUBSET S
  BY FS_Subset
<1>2. ASSUME NEW T \in SUBSET Q, \A U \in SUBSET T : U # T => U \in P PROVE T \in P
  <2>1. CASE T = {}
    BY <2>1, SumIs, FS_EmptySet
  <2>2. ASSUME NEW x \in T PROVE T \in P
    <3>1. IsFiniteSet(T) /\ \A y \in T : f[y] \in Int
      BY <1>1, FS_Subset
    <3>2. Sum(f, T) = f[x] + Sum(f, T \ {x})
      BY <2>2, <3>1, SumTakes
    <3>3. T \ {x} \in P
      BY <1>2, <2>2
    <3> QED
      BY <2>2, <3>2, <3>3
  <2> QED
    BY <2>1, <2>2
<1> HIDE DEF P, Q
<1>3. Q \in P
  BY <1>1, <1>2, SubsetInduction
<1>4. Sum(f, S) = Sum(f, R) + Sum(f, Q)
  BY SumSplits DEF Q
<1>5. Sum(f, R) \in Int
  BY SumInt
<1> QED
  BY <1>3, <1>4, <1>5 DEF P, Q

\* The sum of differences is the difference of the sums.
LEMMA SumMinus ==
  ASSUME NEW S, IsFiniteSet(S), NEW f, NEW g, NEW h,
         \A x \in S : f[x] \in Int /\ g[x] \in Int /\ h[x] = f[x] - g[x]
  PROVE  Sum(h, S) = Sum(f, S) - Sum(g, S)
<1> DEFINE P == {T \in SUBSET S : Sum(h, T) = Sum(f, T) - Sum(g, T)}
<1>0. \A x \in S : h[x] \in Int /\ f[x] \in Int /\ g[x] \in Int
  OBVIOUS
<1>1. ASSUME NEW T \in SUBSET S, \A R \in SUBSET T : R # T => R \in P PROVE T \in P
  <2>1. CASE T = {}
    <3>1. Sum(h, {}) = 0 /\ Sum(f, {}) = 0 /\ Sum(g, {}) = 0
      BY SumIs
    <3> QED
      BY <2>1, <3>1
  <2>2. ASSUME NEW x \in T PROVE T \in P
    <3>1. /\ Sum(f, T) = f[x] + Sum(f, T \ {x}) /\ Sum(g, T) = g[x] + Sum(g, T \ {x})
          /\ Sum(h, T) = h[x] + Sum(h, T \ {x})
      BY <1>0, <2>2, SumTakes
    <3>2. T \ {x} \in P
      BY <1>1, <2>2
    <3>3. T \ {x} \in SUBSET S
      OBVIOUS
    <3>4. Sum(f, T \ {x}) \in Int /\ Sum(g, T \ {x}) \in Int
      BY <1>0, <3>3, SumInt
    <3>5. f[x] \in Int /\ g[x] \in Int /\ h[x] = f[x] - g[x]
      BY <2>2
    <3> QED
      BY <3>1, <3>2, <3>4, <3>5
  <2> QED
    BY <2>1, <2>2
<1> HIDE DEF P
<1>2. S \in P
  BY <1>1, SubsetInduction
<1> QED
  BY <1>2 DEF P

\* The sum over what a one-to-one function makes of a set.
LEMMA SumOver ==
  ASSUME NEW S, IsFiniteSet(S), NEW g, NEW f, NEW h,
         \A x \in S : h[x] = f[g[x]] /\ h[x] \in Int,
         \A x, y \in S : g[x] = g[y] => x = y
  PROVE  IsFiniteSet({g[x] : x \in S}) /\ Sum(f, {g[x] : x \in S}) = Sum(h, S)
<1> DEFINE Of(T) == {g[x] : x \in T}
           P == {T \in SUBSET S : IsFiniteSet(Of(T)) /\ Sum(f, Of(T)) = Sum(h, T)}
<1>1. ASSUME NEW T \in SUBSET S, \A R \in SUBSET T : R # T => R \in P PROVE T \in P
  <2>1. CASE T = {}
    <3>1. Of(T) = {}
      BY <2>1
    <3> QED
      BY <2>1, <3>1, SumIs, FS_EmptySet
  <2>2. ASSUME NEW x \in T PROVE T \in P
    <3>1. T \ {x} \in P
      BY <1>1, <2>2
    <3>2. Of(T) = Of(T \ {x}) \cup {g[x]} /\ g[x] \notin Of(T \ {x})
      BY <2>2
    <3>3. IsFiniteSet(Of(T \ {x})) /\ Sum(f, Of(T \ {x})) = Sum(h, T \ {x})
      BY <3>1
    <3> HIDE DEF Of
    <3>4. IsFiniteSet(Of(T)) /\ Of(T) \ {g[x]} = Of(T \ {x}) /\ g[x] \in Of(T)
      <4>1. IsFiniteSet(Of(T \ {x}) \cup {g[x]})
        BY <3>3, FS_AddElement
      <4> QED
        BY <3>2, <4>1, Zenon
    <3>5. \A z \in Of(T) : f[z] \in Int
      BY DEF Of
    <3>6. Sum(f, Of(T)) = f[g[x]] + Sum(f, Of(T) \ {g[x]})
      BY <3>4, <3>5, SumTakes
    <3>7. Sum(f, Of(T) \ {g[x]}) = Sum(f, Of(T \ {x}))
      BY Zenon, <3>4
    <3>8. Sum(h, T) = h[x] + Sum(h, T \ {x})
      BY <2>2, SumTakes
    <3>9. Sum(f, Of(T)) = Sum(h, T)
      BY <2>2, <3>3, <3>6, <3>7, <3>8
    <3> QED
      BY <3>4, <3>9
  <2> QED
    BY <2>1, <2>2
<1> HIDE DEF P
<1>2. S \in P
  BY <1>1, SubsetInduction
<1> QED
  BY <1>2 DEF P

-----------------------------------------------------------------------------
(* Counting places                                                         *)

\* Where a position stands among those of S.
Rank(S, i) == Cardinality({j \in S : j <= i})
Places(S) == S \subseteq Nat \ {0} /\ IsFiniteSet(S)

\* Places have different ranks, 1 to their number, in their order.
LEMMA RankGrows ==
  ASSUME NEW S, Places(S)
  PROVE  /\ \A i \in S : Rank(S, i) \in 1..Cardinality(S)
         /\ \A i, j \in S : i < j => Rank(S, i) < Rank(S, j)
         /\ \A i, j \in S : Rank(S, i) = Rank(S, j) => i = j
<1> DEFINE Upto(i) == {j \in S : j <= i}
<1>1. S \subseteq Nat /\ IsFiniteSet(S)
  BY DEF Places
<1>2. \A i \in S : Upto(i) \in SUBSET S /\ IsFiniteSet(Upto(i)) /\ i \in Upto(i)
  BY <1>1, FS_Subset
<1>3. \A i \in S : Rank(S, i) = Cardinality(Upto(i))
  BY DEF Rank
<1>4. \A i, j \in S : i < j => Upto(i) \in SUBSET Upto(j) /\ j \notin Upto(i)
  <2> SUFFICES ASSUME NEW i \in S, NEW j \in S, i < j
               PROVE  Upto(i) \in SUBSET Upto(j) /\ j \notin Upto(i)
    OBVIOUS
  <2>1. \A k \in S : k \in Int
    BY <1>1
  <2> QED
    BY <2>1
<1> HIDE DEF Upto
<1>5. \A i \in S : Cardinality(Upto(i)) \in Nat /\ Cardinality(Upto(i)) # 0
  BY <1>2, FS_CardinalityType, FS_EmptySet
<1>6. \A i \in S : Cardinality(Upto(i)) <= Cardinality(S) /\ Cardinality(S) \in Nat
  BY <1>1, <1>2, FS_Subset, FS_CardinalityType
<1>7. ASSUME NEW i \in S, NEW j \in S, i < j PROVE Rank(S, i) < Rank(S, j)
  <2>1. Cardinality(Upto(i)) <= Cardinality(Upto(j)) /\ Upto(i) # Upto(j)
    BY <1>2, <1>4, <1>7, FS_Subset
  <2>2. Cardinality(Upto(j)) # Cardinality(Upto(i))
    BY <1>2, <1>4, <1>7, <2>1, FS_Subset
  <2> QED
    BY <1>3, <1>5, <2>1, <2>2
<1>8. \A i \in S : Rank(S, i) \in 1..Cardinality(S)
  BY <1>3, <1>5, <1>6
<1>9. \A i, j \in S : Rank(S, i) = Rank(S, j) => i = j
  <2> SUFFICES ASSUME NEW i \in S, NEW j \in S, i # j PROVE Rank(S, i) # Rank(S, j)
    OBVIOUS
  <2>1. Rank(S, i) \in Nat /\ Rank(S, j) \in Nat /\ (i < j \/ j < i)
    BY <1>1, <1>3, <1>5
  <2> QED
    BY <1>7, <2>1
<1> QED
  BY <1>7, <1>8, <1>9

\* Every rank up to their number is a place's.
LEMMA RankOnto ==
  ASSUME NEW S, Places(S)
  PROVE  \A k \in 1..Cardinality(S) : \E i \in S : Rank(S, i) = k
<1> DEFINE f == [i \in S |-> Rank(S, i)]
<1>1. IsFiniteSet(S) /\ Cardinality(S) \in Nat
  BY FS_CardinalityType DEF Places
<1>2. f \in Injection(S, 1..Cardinality(S))
  BY RankGrows DEF Injection, IsInjective
<1>3. IsFiniteSet(1..Cardinality(S)) /\ Cardinality(1..Cardinality(S)) = Cardinality(S)
  BY <1>1, FS_Interval
<1>4. f \in Surjection(S, 1..Cardinality(S))
  BY <1>2, <1>3, FS_Injection
<1>5. \A k \in 1..Cardinality(S) : \E i \in S : f[i] = k
  BY <1>4 DEF Surjection
<1> QED
  BY <1>5

\* A rank counts one more than the places before it.
LEMMA RankCounts ==
  ASSUME NEW S, Places(S), NEW i \in S
  PROVE  Cardinality({j \in S : j < i}) = Rank(S, i) - 1
<1> DEFINE B == {j \in S : j < i}
           U == {j \in S : j <= i}
<1>1. S \subseteq Nat /\ IsFiniteSet(S)
  BY DEF Places
<1>2. B = U \ {i} /\ i \in U /\ U \subseteq S
  <2>1. \A j \in S : j \in Int
    BY <1>1
  <2>2. \A j \in S : j < i <=> (j <= i /\ j # i)
    BY <2>1
  <2>3. i <= i
    BY <2>1
  <2> QED
    BY <2>2, <2>3, Zenon
<1>3. IsFiniteSet(U)
  BY <1>1, <1>2, FS_Subset
<1> HIDE DEF B, U
<1>4. Cardinality(B) = Cardinality(U) - 1
  BY <1>2, <1>3, FS_RemoveElement
<1> QED
  BY <1>4 DEF Rank, B, U

-----------------------------------------------------------------------------
(* Folding a sequence from the left                                        *)

\* A finite set of numbers has a least and a greatest one.
LEMMA Extremes ==
  ASSUME NEW S, S # {}, NEW n \in Nat, S \subseteq 1..n
  PROVE  /\ Min(S) \in S /\ \A y \in S : Min(S) <= y
         /\ Max(S) \in S /\ \A y \in S : Max(S) >= y
<1>1. \E x \in S : \A y \in S : x <= y
  <2>1. S \subseteq Nat
    OBVIOUS
  <2> QED
    BY <2>1, LeastNat
<1>2. \E x \in S : \A y \in S : x >= y
  <2> DEFINE T == {n - x : x \in S}
  <2>1. T \subseteq Nat /\ T # {}
    <3>1. \A x \in S : n - x \in Nat
      OBVIOUS
    <3> QED
      BY <3>1
  <2>2. PICK m \in T : \A k \in T : m <= k
    BY <2>1, LeastNat
  <2>3. PICK x \in S : m = n - x
    BY <2>2
  <2>4. \A y \in S : x >= y
    <3> TAKE y \in S
    <3>1. x \in Int /\ y \in Int
      OBVIOUS
    <3>2. n - x <= n - y
      BY <2>2, <2>3
    <3> QED
      BY <3>1, <3>2
  <2> QED
    BY <2>4
<1> QED
  BY <1>1, <1>2 DEF Min, Max

\* The equations of FoldLeft over n positions: step is a function of what has
\* been folded before and of the position.
Folded(g, step, base, T) ==
  \A s \in SUBSET T : g[s] = IF s = {} THEN base ELSE step[<<g[s \ {Max(s)}], Max(s)>>]

IsFold(g, step, base, T) ==
  g = [s \in SUBSET T |-> IF s = {} THEN base ELSE step[<<g[s \ {Max(s)}], Max(s)>>]]

\* Two solutions agree where both are defined.
LEMMA FoldUnique ==
  ASSUME NEW step, NEW base, NEW g, NEW h, NEW S, NEW T, S \subseteq T, IsFiniteSet(S),
         \A R \in SUBSET S : R # {} => Max(R) \in R,
         Folded(g, step, base, S), Folded(h, step, base, T)
  PROVE  \A R \in SUBSET S : g[R] = h[R]
<1> DEFINE P == {R \in SUBSET S : g[R] = h[R]}
<1>1. ASSUME NEW R \in SUBSET S, \A Q \in SUBSET R : Q # R => Q \in P PROVE R \in P
  <2>1. R \in SUBSET T
    OBVIOUS
  <2>2. CASE R = {}
    BY <2>1, <2>2 DEF Folded
  <2>3. CASE R # {}
    <3>1. Max(R) \in R
      BY <2>3
    <3>2. R \ {Max(R)} \in P
      BY <1>1, <3>1
    <3> QED
      BY <2>1, <2>3, <3>2 DEF Folded
  <2> QED
    BY <2>2, <2>3
<1> HIDE DEF P
<1>3. \A R \in SUBSET S : R \in P
  BY <1>1, SubsetInduction
<1> QED
  BY <1>3 DEF P

\* There is a solution.
LEMMA FoldExists ==
  ASSUME NEW step, NEW base, NEW S, IsFiniteSet(S), \A R \in SUBSET S : R # {} => Max(R) \in R
  PROVE  \E g : IsFold(g, step, base, S)
<1>0. ASSUME NEW r, NEW s, NEW a, NEW b, r \in SUBSET S, r \subseteq s,
             Folded(a, step, base, r), Folded(b, step, base, s)
      PROVE  a[r] = b[r]
  <2>1. IsFiniteSet(r)
    BY <1>0, FS_Subset
  <2>2. \A R \in SUBSET r : R # {} => Max(R) \in R
    BY <1>0
  <2> QED
    BY <1>0, <2>1, <2>2, FoldUnique
<1> DEFINE P == {T \in SUBSET S : \E g : Folded(g, step, base, T)}
           F(R) == CHOOSE h : Folded(h, step, base, R)
<1>1. ASSUME NEW T \in SUBSET S, \A R \in SUBSET T : R # T => R \in P PROVE T \in P
  <2>1. \A R \in SUBSET T : R # T => Folded(F(R), step, base, R)
    BY <1>1
  <2> HIDE DEF F
  <2> DEFINE g == [s \in SUBSET T |->
                     IF s # T THEN F(s)[s]
                     ELSE IF T = {} THEN base ELSE step[<<F(T \ {Max(T)})[T \ {Max(T)}], Max(T)>>]]
  <2>2. ASSUME NEW s \in SUBSET T, s # {}
        PROVE  g[s] = step[<<g[s \ {Max(s)}], Max(s)>>]
    <3>1. Max(s) \in s /\ s \ {Max(s)} \in SUBSET T /\ s \ {Max(s)} # T
      BY <2>2
    <3>2. g[s \ {Max(s)}] = F(s \ {Max(s)})[s \ {Max(s)}]
      BY <3>1
    <3>3. CASE s = T
      BY <2>2, <3>2, <3>3
    <3>4. CASE s # T
      <4>0. PICK r : r = s \ {Max(s)}
        OBVIOUS
      <4>1. g[s] = F(s)[s]
        BY <3>4
      <4>2. Folded(F(s), step, base, s) /\ Folded(F(r), step, base, r)
        BY <2>1, <3>1, <3>4, <4>0
      <4>3. F(s)[s] = step[<<F(s)[r], Max(s)>>]
        BY <2>2, <4>0, <4>2 DEF Folded
      <4>4. r \in SUBSET S /\ r \subseteq s
        BY <4>0
      <4>5. F(r)[r] = F(s)[r]
        BY <1>0, <4>2, <4>4
      <4> QED
        BY <3>2, <4>0, <4>1, <4>3, <4>5
    <3> QED
      BY <3>3, <3>4
  <2>3. g[{}] = base
    <3>1. CASE T = {}
      BY <3>1
    <3>2. CASE T # {}
      BY <2>1, <3>2 DEF Folded
    <3> QED
      BY <3>1, <3>2
  <2>4. Folded(g, step, base, T)
    <3> HIDE DEF g
    <3> QED
      BY <2>2, <2>3 DEF Folded
  <2> HIDE DEF g
  <2> QED
    BY <2>4
<1> HIDE DEF P
<1>3. S \in P
  BY <1>1, SubsetInduction
<1>4. PICK g : Folded(g, step, base, S)
  BY <1>3 DEF P
<1> DEFINE h == [s \in SUBSET S |-> g[s]]
<1>5. \A s \in SUBSET S : h[s] = g[s] /\ h[s \ {Max(s)}] = g[s \ {Max(s)}]
  OBVIOUS
<1>6. h = [s \in SUBSET S |-> h[s]]
  OBVIOUS
<1> HIDE DEF h
<1>7. h = [s \in SUBSET S |-> IF s = {} THEN base ELSE step[<<h[s \ {Max(s)}], Max(s)>>]]
  BY <1>4, <1>5, <1>6 DEF Folded
<1>8. IsFold(h, step, base, S)
  BY <1>7 DEF IsFold
<1> QED
  BY <1>8

\* What a fold never leaves is a set that has its base and is closed under it.
LEMMA FoldCloses ==
  ASSUME NEW S, IsFiniteSet(S), \A R \in SUBSET S : R # {} => Max(R) \in R,
         NEW D, NEW g, g[{}] \in D,
         \A R \in SUBSET S : R # {} /\ g[R \ {Max(R)}] \in D => g[R] \in D
  PROVE  \A R \in SUBSET S : g[R] \in D
<1> DEFINE P == {R \in SUBSET S : g[R] \in D}
<1>1. ASSUME NEW R \in SUBSET S, \A Q \in SUBSET R : Q # R => Q \in P PROVE R \in P
  <2>1. CASE R = {}
    BY <2>1
  <2>2. CASE R # {}
    <3>1. R \ {Max(R)} \in P
      BY <1>1, <2>2
    <3> QED
      BY <2>2, <3>1
  <2> QED
    BY <2>1, <2>2
<1> HIDE DEF P
<1>2. \A R \in SUBSET S : R \in P
  BY <1>1, SubsetInduction
<1> QED
  BY <1>2 DEF P

\* The first positions, and the last of them.
LEMMA LastPlace ==
  ASSUME NEW m \in Nat \ {0}
  PROVE  1..m # {} /\ Max(1..m) = m /\ (1..m) \ {m} = 1..(m - 1)
<1> DEFINE M == 1..m
<1>1. M # {} /\ m \in M /\ M \subseteq 1..m /\ M \ {m} = 1..(m - 1)
  OBVIOUS
<1>2. \A x \in M : x \in Int /\ x <= m
  OBVIOUS
<1> HIDE DEF M
<1>3. Max(M) \in M /\ Max(M) >= m
  BY <1>1, Extremes
<1>4. Max(M) = m
  BY <1>2, <1>3
<1> QED
  BY <1>1, <1>4 DEF M

\* Induction over the positions of a sequence.
LEMMA PrefixInduction ==
  ASSUME NEW n \in Nat, NEW P, 0 \in P, \A m \in 1..n : m - 1 \in P => m \in P
  PROVE  n \in P
<1> SUFFICES ASSUME n \notin P PROVE FALSE
  OBVIOUS
<1> DEFINE B == {m \in 0..n : m \notin P}
<1>1. B \subseteq Nat /\ n \in B
  OBVIOUS
<1>2. PICK m \in B : \A k \in B : m <= k
  <2> HIDE DEF B
  <2> QED
    BY <1>1, LeastNat
<1>3. m # 0 /\ m \in 1..n
  BY <1>2
<1>4. m - 1 \notin B /\ m - 1 \in 0..n
  BY <1>2, <1>3
<1> QED
  BY <1>2, <1>3, <1>4

=============================================================================

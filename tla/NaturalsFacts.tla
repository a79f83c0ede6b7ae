---------------------------- MODULE NaturalsFacts ----------------------------
(***************************************************************************)
(* Facts about the natural numbers that proofs by a smallest               *)
(* counterexample rest on: a property of all numbers, or of all positions  *)
(* of a sequence, is shown by taking the least number that violates it.    *)
(***************************************************************************)
EXTENDS Integers, FiniteSetsExt, WellFoundedInduction, TLAPS

(* Every nonempty set of naturals has a least element.                     *)
LEMMA Least ==
    ASSUME NEW T \in SUBSET Nat, T # {}
    PROVE  \E x \in T : \A y \in T : x <= y
  <1> DEFINE R == {ss \in Nat \X Nat : ss[1] < ss[2]}
  <1>1. IsWellFoundedOn(R, Nat)
    BY NatLessThanWellFounded, Zenon DEF OpToRel
  <1> HIDE DEF R
  <1>2. PICK x \in T : \A y \in T : ~(<<y, x>> \in R)
    BY <1>1, WFMin
  <1>3. \A y \in T : ~(y < x)
    <2> TAKE y \in T
    <2> QED BY <1>2 DEF R
  <1> QED BY <1>3

(* Every nonempty bounded set of naturals has a greatest element, which    *)
(* the operator Max therefore denotes.                                     *)
LEMMA Greatest ==
    ASSUME NEW S \in SUBSET Nat, S # {}, NEW n \in Nat, \A x \in S : x <= n
    PROVE  Max(S) \in S /\ \A y \in S : y <= Max(S)
  <1> DEFINE T == {m \in Nat : n - m \in S}
  <1>1. T \in SUBSET Nat /\ T # {}
    <2> PICK x \in S : TRUE
      OBVIOUS
    <2>1. n - x \in Nat /\ n - (n - x) = x
      OBVIOUS
    <2> QED BY <2>1
  <1>2. PICK m \in T : \A y \in T : m <= y
    <2> HIDE DEF T
    <2> QED BY <1>1, Least
  <1>3. \A y \in S : n - m >= y
    <2> TAKE y \in S
    <2>1. n - y \in Nat /\ n - (n - y) = y
      OBVIOUS
    <2>2. m <= n - y
      BY <2>1, <1>2
    <2> QED BY <2>2
  <1> QED BY <1>3 DEF Max

(* Induction up to n: what holds of 0, and of k if it holds of k - 1.      *)
LEMMA Induct ==
    ASSUME NEW n \in Nat, NEW T, 0 \in T, \A k \in 1 .. n : k - 1 \in T => k \in T
    PROVE  \A k \in 0 .. n : k \in T
  <1> DEFINE U == {k \in 0 .. n : k \notin T}
  <1>1. SUFFICES ASSUME U # {} PROVE FALSE
    OBVIOUS
  <1>2. U \in SUBSET Nat
    OBVIOUS
  <1>3. PICK k \in U : \A y \in U : k <= y
    <2> HIDE DEF U
    <2> QED BY <1>1, <1>2, Least
  <1>4. k \in 1 .. n /\ k - 1 \in 0 .. n /\ ~(k <= k - 1)
    <2>1. k \in 0 .. n /\ k # 0
      OBVIOUS
    <2> QED BY <2>1
  <1>5. k - 1 \in T
    BY <1>3, <1>4
  <1> QED BY <1>4, <1>5

(* A function on 0 .. n may be defined by its value at 0 and, at k, from   *)
(* its value at k - 1: there is one that satisfies the two equations.      *)
Iterates(f, n, a, F) == f[0] = a /\ \A k \in 1 .. n : f[k] = F[k][f[k - 1]]

LEMMA Recursion ==
    ASSUME NEW n \in Nat, NEW S, NEW a \in S, NEW F \in [1 .. n -> [S -> S]]
    PROVE  \E f \in [0 .. n -> S] : Iterates(f, n, a, F)
  <1> DEFINE Solves(f, m) == Iterates(f, m, a, F)
             T == {m \in 0 .. n : ~\E f \in [0 .. m -> S] : Solves(f, m)}
  <1>1. SUFFICES ASSUME T # {} PROVE FALSE
    <2>1. n \in 0 .. n
      OBVIOUS
    <2> QED BY <2>1
  <1>2. PICK m \in T : \A y \in T : m <= y
    <2>1. T \in SUBSET Nat
      OBVIOUS
    <2> HIDE DEF T
    <2> QED BY <1>1, <2>1, Least
  <1>3. m # 0
    <2> DEFINE f == [k \in 0 .. 0 |-> a]
    <2>1. f \in [0 .. 0 -> S] /\ Solves(f, 0)
      BY DEF Iterates
    <2> QED BY <2>1
  <1>4. m \in 1 .. n /\ m - 1 \in 0 .. n /\ ~(m <= m - 1)
    BY <1>3
  <1>5. PICK f \in [0 .. m - 1 -> S] : Solves(f, m - 1)
    <2>1. m - 1 \notin T
      BY <1>2, <1>4
    <2> QED BY <1>4, <2>1
  <1>6. f[m - 1] \in S /\ F[m][f[m - 1]] \in S
    BY <1>4, <1>5
  <1> DEFINE g == [k \in 0 .. m |-> IF k = m THEN F[m][f[m - 1]] ELSE f[k]]
  <1>7. \A k \in 0 .. m : k # m => k \in 0 .. m - 1
    BY <1>4
  <1>8. g \in [0 .. m -> S]
    BY <1>6, <1>7
  <1>9. Solves(g, m)
    <2>1. g[0] = a
      BY <1>4, <1>5 DEF Iterates
    <2>2. ASSUME NEW k \in 1 .. m PROVE g[k] = F[k][g[k - 1]]
      <3>1. k \in 0 .. m /\ k - 1 \in 0 .. m /\ k - 1 # m
        BY <1>4
      <3>2. g[k - 1] = f[k - 1]
        BY <3>1
      <3>3. CASE k = m
        BY <3>1, <3>2, <3>3
      <3>4. CASE k # m
        <4>1. k \in 1 .. m - 1
          BY <1>4, <3>4
        <4> QED BY <1>5, <3>1, <3>2, <3>4, <4>1 DEF Iterates
      <3> QED BY <3>3, <3>4
    <2> HIDE DEF g
    <2> QED BY <2>1, <2>2 DEF Iterates
  <1> HIDE DEF g, Solves
  <1> QED BY <1>8, <1>9
=============================================================================

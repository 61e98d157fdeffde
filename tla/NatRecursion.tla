---------------------------- MODULE NatRecursion ----------------------------
(***************************************************************************)
(* Induction and recursion over the natural numbers, in the form the       *)
(* proofs use: a set that holds 0 and is closed under successor is Nat,    *)
(* and a definition by recursion along 0 .. n has the value its equations  *)
(* say.  Stated about sets and functions, so that they can be cited.       *)
(***************************************************************************)
EXTENDS Integers, WellFoundedInduction, TLAPS

(* Every non-empty set of naturals has a least element.                    *)
LEMMA LeastNat ==
    ASSUME NEW T \in SUBSET Nat, T # {}
    PROVE  \E m \in T : \A n \in T : m <= n
  <1> DEFINE R == OpToRel(<, Nat)
  <1>1. IsWellFoundedOn(R, Nat)
    BY NatLessThanWellFounded
  <1>2. \A a, b \in Nat : a < b => <<a, b>> \in R
    BY DEF OpToRel
  <1> HIDE DEF R
  <1>3. PICK m \in T : \A n \in T : ~ (<<n, m>> \in R)
    <2>1. T \subseteq Nat
      OBVIOUS
    <2> QED
      BY <1>1, <2>1, WFMin
  <1>4. ASSUME NEW n \in T PROVE m <= n
    <2>1. n \in Nat /\ m \in Nat
      OBVIOUS
    <2>2. ~ (n < m)
      BY <1>2, <1>3, <2>1
    <2> QED
      BY <2>1, <2>2
  <1> QED
    BY <1>4

(* Induction, along an interval that starts at 0.                          *)
LEMMA InductUpto ==
    ASSUME NEW n \in Nat, NEW T, 0 \in T, \A i \in 1 .. n : i - 1 \in T => i \in T
    PROVE  \A i \in 0 .. n : i \in T
  <1> SUFFICES ASSUME 0 .. n \ T # {} PROVE FALSE
    OBVIOUS
  <1>1. PICK m \in 0 .. n \ T : \A i \in 0 .. n \ T : m <= i
    <2>1. 0 .. n \ T \in SUBSET Nat
      OBVIOUS
    <2> QED
      BY <2>1, LeastNat
  <1>2. m # 0 /\ m \in 1 .. n /\ m - 1 \in 0 .. n
    BY <1>1
  <1>3. m - 1 \in T
    BY <1>1, <1>2
  <1> QED
    BY <1>1, <1>2, <1>3

(* The equations of a function defined by recursion along 0 .. n.          *)
Recurs(f, first, step, n) ==
    /\ DOMAIN f = 0 .. n
    /\ f[0] = first
    /\ \A i \in 1 .. n : f[i] = step[i][f[i - 1]]

(* There is a function that satisfies them.                                *)
LEMMA RecursionExists ==
    ASSUME NEW n \in Nat, NEW S, NEW first \in S, NEW step \in [1 .. n -> [S -> S]]
    PROVE  \E f \in [0 .. n -> S] : Recurs(f, first, step, n)
  <1> DEFINE T == {m \in 0 .. n : \E f \in [0 .. m -> S] : Recurs(f, first, step, m)}
  <1>1. 0 \in T
    <2>1. Recurs([i \in 0 .. 0 |-> first], first, step, 0)
      BY DEF Recurs
    <2> QED
      BY <2>1
  <1>2. ASSUME NEW m \in 1 .. n, m - 1 \in T PROVE m \in T
    <2>1. PICK f \in [0 .. m - 1 -> S] : Recurs(f, first, step, m - 1)
      BY <1>2
    <2> DEFINE g == [i \in 0 .. m |-> IF i = m THEN step[m][f[m - 1]] ELSE f[i]]
    <2>2. f[m - 1] \in S /\ step[m] \in [S -> S]
      OBVIOUS
    <2>3. step[m][f[m - 1]] \in S
      BY <2>2
    <2>4. g \in [0 .. m -> S]
      BY <2>3
    <2>5. Recurs(g, first, step, m)
      <3>1. g[0] = first
        BY <2>1 DEF Recurs
      <3>2. ASSUME NEW i \in 1 .. m PROVE g[i] = step[i][g[i - 1]]
        <4>1. CASE i = m
          BY <4>1
        <4>2. CASE i # m
          <5>1. i \in 1 .. m - 1 /\ i - 1 \in 0 .. m - 1 /\ i - 1 # m
            BY <4>2
          <5> QED
            BY <2>1, <4>2, <5>1 DEF Recurs
        <4> QED
          BY <4>1, <4>2
      <3> QED
        BY <3>1, <3>2 DEF Recurs
    <2> QED
      BY <2>4, <2>5
  <1>3. \A i \in 0 .. n : i \in T
    <2> HIDE DEF T
    <2>1. \A i \in 1 .. n : i - 1 \in T => i \in T
      BY <1>2
    <2> QED
      BY <1>1, <2>1, InductUpto
  <1>4. n \in T
    BY <1>3
  <1> QED
    BY <1>4
=============================================================================

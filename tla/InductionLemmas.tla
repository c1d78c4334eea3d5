-------------------------- MODULE InductionLemmas --------------------------
(***************************************************************************)
(* Induction over the naturals and definition by recursion, stated of sets *)
(* and functions.                                                          *)
(***************************************************************************)
EXTENDS Integers, Sequences, WellFoundedInduction, TLAPS

\* A set of naturals has a least element.
LEMMA LeastElement ==
    ASSUME NEW S \in SUBSET Nat, S # {}
    PROVE  \E x \in S : \A y \in S : x <= y
  <1> DEFINE R == {ss \in Nat \X Nat : ss[1] < ss[2]}
  <1>1. IsWellFoundedOn(R, Nat)
    BY NatLessThanWellFounded DEF OpToRel
  <1>2. \A x, y \in Nat : <<y, x>> \in R <=> y < x
    OBVIOUS
  <1> HIDE DEF R
  <1>3. PICK x \in S : \A y \in S : ~(<<y, x>> \in R)
    BY <1>1, WFMin
  <1>4. ASSUME NEW y \in S PROVE x <= y
    <2>1. x \in Nat /\ y \in Nat
      OBVIOUS
    <2>2. ~(y < x)
      BY <1>2, <1>3, <2>1, Zenon
    <2> QED
      BY <2>1, <2>2, SMT
  <1> QED
    BY <1>4

\* A set with 0, and with the successor of each of its naturals, has them all.
LEMMA SetInduction ==
    ASSUME NEW S, 0 \in S, \A n \in Nat : n \in S => n + 1 \in S
    PROVE  Nat \subseteq S
  <1> SUFFICES ASSUME Nat \ S # {} PROVE FALSE
    OBVIOUS
  <1>1. PICK x \in Nat \ S : \A y \in Nat \ S : x <= y
    BY LeastElement
  <1>2. x # 0 /\ x - 1 \in Nat
    BY <1>1
  <1>3. x - 1 \in S
    BY <1>1, <1>2
  <1> QED
    BY <1>1, <1>2, <1>3

\* The same up to a bound.
LEMMA BoundedInduction ==
    ASSUME NEW k \in Nat, NEW S, 0 \in S, \A n \in 0 .. k - 1 : n \in S => n + 1 \in S
    PROVE  0 .. k \subseteq S
  <1> DEFINE T == S \cup {n \in Nat : n > k}
  <1>1. 0 \in T
    OBVIOUS
  <1>2. ASSUME NEW n \in Nat, n \in T PROVE n + 1 \in T
    BY <1>2
  <1> HIDE DEF T
  <1>3. Nat \subseteq T
    BY <1>1, <1>2, SetInduction
  <1> QED
    BY <1>3 DEF T

\* Starting with x, the step F leads to a sequence of values of any length.
Iterates(f, k, x, F) ==
    /\ f[0] = x
    /\ \A n \in 0 .. k - 1 : f[n + 1] = F[<<n + 1, f[n]>>]

LEMMA Iteration ==
    ASSUME NEW X, NEW x \in X, NEW F \in [Nat \X X -> X], NEW k \in Nat
    PROVE  \E f \in [0 .. k -> X] : Iterates(f, k, x, F)
  <1> DEFINE S == {n \in Nat : \E f \in [0 .. n -> X] : Iterates(f, n, x, F)}
  <1>1. 0 \in S
    <2> DEFINE f == [i \in 0 .. 0 |-> x]
    <2>1. f \in [0 .. 0 -> X] /\ Iterates(f, 0, x, F)
      BY DEF Iterates
    <2> QED
      BY <2>1
  <1>2. ASSUME NEW n \in Nat, n \in S PROVE n + 1 \in S
    <2>1. PICK g \in [0 .. n -> X] : Iterates(g, n, x, F)
      BY <1>2
    <2> DEFINE last == F[<<n + 1, g[n]>>]
    <2>2. last \in X
      OBVIOUS
    <2> HIDE DEF last
    <2> DEFINE f == [i \in 0 .. n + 1 |-> IF i = n + 1 THEN last ELSE g[i]]
    <2>3. f \in [0 .. n + 1 -> X]
      BY <2>2
    <2>4. \A i \in 0 .. n : f[i] = g[i]
      OBVIOUS
    <2>5. f[n + 1] = last
      OBVIOUS
    <2> HIDE DEF f
    <2>6. Iterates(f, n + 1, x, F)
      <3>1. f[0] = x
        BY <2>1, <2>4 DEF Iterates
      <3>2. ASSUME NEW i \in 0 .. n + 1 - 1 PROVE f[i + 1] = F[<<i + 1, f[i]>>]
        <4>1. CASE i = n
          BY <2>4, <2>5, <4>1 DEF last
        <4>2. CASE i # n
          <5>1. i \in 0 .. n - 1 /\ i \in 0 .. n /\ i + 1 \in 0 .. n
            BY <4>2
          <5> QED
            BY <2>1, <2>4, <5>1 DEF Iterates
        <4> QED
          BY <4>1, <4>2
      <3> QED
        BY <3>1, <3>2 DEF Iterates
    <2> QED
      BY <2>3, <2>6
  <1> HIDE DEF S
  <1>3. Nat \subseteq S
    BY <1>1, <1>2, SetInduction
  <1> QED
    BY <1>3 DEF S
=============================================================================

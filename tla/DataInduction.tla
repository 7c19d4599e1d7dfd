---------------------------- MODULE DataInduction ----------------------------
(***************************************************************************)
(* Induction over the natural numbers, stated about sets: the provers have  *)
(* no use for an induction rule about an arbitrary predicate, but the set   *)
(* of the numbers that have a property is an ordinary value.                *)
(***************************************************************************)
EXTENDS Integers, WellFoundedInduction, TLAPS

Below == OpToRel(<, Nat)

(* The order of the natural numbers is well founded.                        *)
LEMMA BelowWellFounded == IsWellFoundedOn(Below, Nat)
BY NatLessThanWellFounded DEF Below

(* It is the order.                                                         *)
LEMMA BelowIsLess == \A i, j \in Nat : i < j => <<i, j>> \in Below
BY DEF Below, OpToRel

(* A set that holds 0, and with a number its successor, holds all of them.  *)
LEMMA SetInduction ==
  ASSUME NEW S, 0 \in S, \A n \in Nat : n \in S => n + 1 \in S
  PROVE  Nat \subseteq S
<1> DEFINE T == Nat \ S
<1>1. SUFFICES ASSUME T # {} PROVE FALSE
  OBVIOUS
<1>2. PICK x \in T : \A y \in T : ~ (<<y, x>> \in Below)
  BY <1>1, BelowWellFounded, WFMin
<1>3. x \in Nat /\ x # 0 /\ x - 1 \in Nat
  OBVIOUS
<1>4. x - 1 \notin T
  <2>1. x - 1 < x
    BY <1>3
  <2>2. <<x - 1, x>> \in Below
    BY <1>3, <2>1, BelowIsLess
  <2> QED
    BY <1>2, <2>2
<1>5. x - 1 \in S
  BY <1>3, <1>4
<1>6. (x - 1) + 1 \in S
  BY <1>3, <1>5
<1> QED
  BY <1>3, <1>6

(* The same up to a bound.                                                  *)
LEMMA BoundedInduction ==
  ASSUME NEW n \in Nat, NEW S, 0 \in S, \A k \in 0..n-1 : k \in S => k + 1 \in S
  PROVE  0..n \subseteq S
<1> DEFINE T == {k \in Nat : k <= n => k \in S}
<1>1. 0 \in T
  OBVIOUS
<1>2. ASSUME NEW k \in Nat, k \in T PROVE k + 1 \in T
  <2>1. SUFFICES ASSUME k + 1 <= n PROVE k + 1 \in S
    OBVIOUS
  <2>2. k \in 0..n-1 /\ k \in S
    BY <1>2, <2>1
  <2> QED
    BY <2>2
<1>3. Nat \subseteq T
  <2> HIDE DEF T
  <2> QED
    BY <1>1, <1>2, SetInduction
<1> QED
  BY <1>3

(* A recursion with its values in V has a solution: F[k] is its kth step.   *)
LEMMA RecursionExists ==
  ASSUME NEW V, NEW v \in V, NEW n \in Nat, NEW F \in [1..n -> [V -> V]]
  PROVE  \E f \in [0..n -> V] : f[0] = v /\ \A k \in 1..n : f[k] = F[k][f[k - 1]]
<1> DEFINE Q(m, f) == f[0] = v /\ \A k \in 1..m : f[k] = F[k][f[k - 1]]
           S == {m \in Nat : \E f \in [0..m -> V] : Q(m, f)}
<1>1. 0 \in S
  <2> DEFINE f == [k \in 0..0 |-> v]
  <2>1. f \in [0..0 -> V] /\ Q(0, f)
    OBVIOUS
  <2> QED
    BY <2>1
<1>2. ASSUME NEW m \in 0..n-1, m \in S PROVE m + 1 \in S
  <2>1. PICK f \in [0..m -> V] : Q(m, f)
    BY <1>2
  <2> DEFINE g == [k \in 0..m+1 |-> IF k <= m THEN f[k] ELSE F[m + 1][f[m]]]
  <2>2. f[m] \in V /\ F[m + 1] \in [V -> V]
    OBVIOUS
  <2>3. F[m + 1][f[m]] \in V
    BY <2>2
  <2>4. g \in [0..m+1 -> V]
    BY <2>3
  <2>5. g[0] = v
    BY <2>1
  <2>6. ASSUME NEW k \in 1..m+1 PROVE g[k] = F[k][g[k - 1]]
    <3>1. CASE k \in 1..m
      BY <2>1, <3>1
    <3>2. CASE k = m + 1
      BY <3>2
    <3> QED
      BY <3>1, <3>2
  <2> HIDE DEF g
  <2>7. Q(m + 1, g)
    BY <2>5, <2>6
  <2>8. m + 1 \in Nat
    OBVIOUS
  <2> HIDE DEF Q
  <2> QED
    BY <2>4, <2>7, <2>8
<1>3. 0..n \subseteq S
  <2> HIDE DEF S
  <2> QED
    BY <1>1, <1>2, BoundedInduction
<1> QED
  BY <1>3

(* A set of natural numbers up to n that is not empty has a largest one.    *)
LEMMA LargestExists ==
  ASSUME NEW n \in Nat, NEW T, T \subseteq 0..n, T # {}
  PROVE  \E m \in T : \A k \in T : k <= m
<1> DEFINE S == {j \in Nat : \A U \in SUBSET (0..j) :
                    U # {} => \E m \in U : \A k \in U : k <= m}
<1>1. 0 \in S
  <2>1. ASSUME NEW U \in SUBSET (0..0), U # {} PROVE \E m \in U : \A k \in U : k <= m
    <3>1. PICK m \in U : TRUE
      BY <2>1
    <3>2. \A k \in U : k \in 0..0
      OBVIOUS
    <3>3. \A k \in U : k <= m
      BY <3>2
    <3> QED
      BY <3>3
  <2> QED
    BY <2>1
<1>2. ASSUME NEW j \in Nat, j \in S PROVE j + 1 \in S
  <2>1. ASSUME NEW U \in SUBSET (0..j+1), U # {} PROVE \E m \in U : \A k \in U : k <= m
    <3>1. CASE j + 1 \in U
      <4>1. \A k \in U : k <= j + 1
        OBVIOUS
      <4> QED
        BY <3>1, <4>1
    <3>2. CASE j + 1 \notin U
      <4>1. U \in SUBSET (0..j)
        BY <3>2
      <4> QED
        BY <1>2, <2>1, <4>1
    <3> QED
      BY <3>1, <3>2
  <2> QED
    BY <2>1
<1>3. Nat \subseteq S
  <2> HIDE DEF S
  <2> QED
    BY <1>1, <1>2, SetInduction
<1>4. n \in S /\ T \in SUBSET (0..n)
  BY <1>3
<1> QED
  BY <1>4
=============================================================================

------------------------------- MODULE Extrema -------------------------------
(***************************************************************************)
(* The smallest and the largest element of a set of naturals, as Min and   *)
(* Max of the community modules choose them; the proofs about hours, days  *)
(* and sessions rest on these.                                             *)
(***************************************************************************)
EXTENDS Integers, FiniteSetsExt, TLAPS, FiniteSetTheorems, WellFoundedInduction

\* A set of naturals has a smallest element, and Min finds it.
LEMMA Smallest ==
    ASSUME NEW S, S \subseteq Nat, S # {}
    PROVE  Min(S) \in S /\ \A x \in S : Min(S) <= x
<1> DEFINE Less == OpToRel(<, Nat)
<1>1. IsWellFoundedOn(Less, Nat)
  BY NatLessThanWellFounded
<1>0. \A x, y \in Nat : x < y => <<x, y>> \in Less
  BY DEF OpToRel
<1> HIDE DEF Less
<1>2. \E x \in S : \A y \in S : ~ (<<y, x>> \in Less)
  BY <1>1, WFMin
<1>3. PICK x \in S : \A y \in S : ~ (<<y, x>> \in Less)
  BY <1>2
<1>4. \A y \in S : x <= y
  <2> TAKE y \in S
  <2>1. x \in Nat /\ y \in Nat
    OBVIOUS
  <2>2. ~ (y < x)
    BY <1>0, <1>3, <2>1
  <2> QED  BY <2>1, <2>2
<1> QED  BY <1>4 DEF Min

\* A bounded one has a largest, and Max finds it.
LEMMA Largest ==
    ASSUME NEW n \in Nat, NEW S, S \subseteq 0 .. n, S # {}
    PROVE  Max(S) \in S /\ \A x \in S : x <= Max(S)
<1>1. {n - x : x \in S} \subseteq Nat
  <2> SUFFICES ASSUME NEW x \in S PROVE n - x \in Nat
    OBVIOUS
  <2> x \in 0 .. n
    OBVIOUS
  <2> QED  OBVIOUS
<1>0. {n - x : x \in S} # {}
  OBVIOUS
<1>2. PICK m \in {n - x : x \in S} : \A y \in {n - x : x \in S} : m <= y
  BY <1>1, <1>0, Smallest
<1>3. PICK x \in S : m = n - x
  BY <1>2
<1>4. \A y \in S : y <= x
  BY <1>2, <1>3
<1> QED  BY <1>4 DEF Max

\* What an element that no other passes is.
LEMMA LargestIs ==
    ASSUME NEW S, S \subseteq Nat, NEW m \in S, \A x \in S : x <= m
    PROVE  Max(S) = m
<1>1. \E x \in S : \A y \in S : x >= y
  OBVIOUS
<1>2. Max(S) \in S /\ \A y \in S : Max(S) >= y
  BY <1>1 DEF Max
<1>3. Max(S) \in Nat /\ m \in Nat /\ Max(S) <= m /\ Max(S) >= m
  BY <1>2
<1> QED  BY <1>3

\* Finitely many naturals have a bound.
LEMMA Bounded ==
    ASSUME NEW n \in Nat, NEW f, \A k \in 1 .. n : f[k] \in Nat
    PROVE  \E b \in Nat : \A k \in 1 .. n : f[k] <= b
<1> DEFINE ok(m) == \E b \in Nat : \A k \in 1 .. m : f[k] <= b
<1> DEFINE bad == {m \in 0 .. n : ~ ok(m)}
<1>1. ASSUME bad # {} PROVE FALSE
  <2>2. Min(bad) \in bad /\ \A x \in bad : Min(bad) <= x
    <3>1. bad \subseteq Nat
      OBVIOUS
    <3> HIDE DEF bad
    <3> QED  BY <1>1, <3>1, Smallest
  <2>3. PICK m \in 0 .. n : m \in bad /\ \A x \in bad : m <= x
    BY <2>2
  <2>4. CASE m = 0
    <3>1. ok(0)
      <4>1. 0 \in Nat /\ \A k \in 1 .. 0 : f[k] <= 0
        OBVIOUS
      <4> QED  BY <4>1
    <3> QED  BY <2>3, <2>4, <3>1
  <2>5. CASE m # 0
    <3>1. m - 1 \in 0 .. n /\ m \in 1 .. n /\ m - 1 \notin bad
      <4> HIDE DEF bad
      <4>1. m - 1 \in 0 .. n /\ m \in 1 .. n /\ ~ (m <= m - 1)
        BY <2>5
      <4> QED  BY <4>1, <2>3
    <3>2. PICK b \in Nat : \A k \in 1 .. m - 1 : f[k] <= b
      BY <3>1
    <3>3. f[m] \in Nat
      BY <3>1
    <3>4. PICK c \in Nat : b <= c /\ f[m] <= c
      BY <3>3
    <3>5. ASSUME NEW k \in 1 .. m PROVE f[k] <= c
      <4>1. CASE k = m
        BY <4>1, <3>4
      <4>2. CASE k # m
        <5>1. k \in 1 .. m - 1 /\ k \in 1 .. n
          BY <4>2, <3>1
        <5> QED  BY <5>1, <3>2, <3>4
      <4> QED  BY <4>1, <4>2
    <3>6. ok(m)
      BY <3>5
    <3> QED  BY <2>3, <3>6
  <2> QED  BY <2>4, <2>5
<1>2. n \notin bad
  BY <1>1
<1>3. n \in 0 .. n
  OBVIOUS
<1>4. ok(n)
  BY <1>2, <1>3
<1> QED  BY <1>4
=============================================================================

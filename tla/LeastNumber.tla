----------------------------- MODULE LeastNumber ------------------------------
(***************************************************************************)
(* Induction over numbers in the form the provers can use: a set of        *)
(* natural numbers has a least element, so a claim that fails has a first  *)
(* failure.  With it, what the largest element of a bounded set is.        *)
(***************************************************************************)
EXTENDS Integers, TLAPS, WellFoundedInduction

\* A set of numbers has a least one.
LEMMA Least ==
    ASSUME NEW T, T \subseteq Nat, T # {}
    PROVE  \E m \in T : \A n \in T : m <= n
<1> DEFINE R == OpToRel(<, Nat)
<1>1. IsWellFoundedOn(R, Nat)
  BY NatLessThanWellFounded
<1>2. ASSUME NEW x \in Nat, NEW y \in Nat, y < x PROVE <<y, x>> \in R
  BY <1>2 DEF OpToRel
<1> HIDE DEF R
<1>3. PICK x \in T : \A y \in T : ~ (<<y, x>> \in R)
  BY <1>1, WFMin
<1>4. \A y \in T : ~(y < x)
  BY <1>2, <1>3
<1>5. \A y \in T : x <= y
  BY <1>4
<1> QED
  BY <1>5

\* A set of numbers that has a bound has a largest one.
LEMMA Largest ==
    ASSUME NEW S, S # {}, NEW N \in Nat, S \subseteq 0..N
    PROVE  \E m \in S : \A n \in S : n <= m
<1> DEFINE T == {n \in Nat : \A x \in S : x <= n}
<1>1. N \in T
  OBVIOUS
<1>2. PICK m \in T : \A n \in T : m <= n
  BY <1>1, Least
<1>3. m \in S
  <2> SUFFICES ASSUME m \notin S PROVE FALSE
    OBVIOUS
  <2>1. \A x \in S : x \in Nat /\ x < m
    BY <1>2
  <2>2. PICK y \in S : TRUE
    OBVIOUS
  <2>3. y \in Nat /\ y < m
    BY <2>1, <2>2
  <2>4. m - 1 \in Nat
    BY <1>2, <2>3
  <2>5. \A x \in S : x <= m - 1
    BY <1>2, <2>1
  <2>6. m <= m - 1
    BY <1>2, <2>4, <2>5
  <2> QED
    BY <1>2, <2>6
<1> QED
  BY <1>2, <1>3
=============================================================================

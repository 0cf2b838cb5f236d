------------------------------ MODULE NatFacts ------------------------------
(***************************************************************************)
(* Induction over the natural numbers for a set of them, and what follows  *)
(* from it about bounded sets of numbers: what the proofs need wherever a  *)
(* definition counts, adds up or takes the largest.                        *)
(***************************************************************************)
EXTENDS Integers, FiniteSets, WellFoundedInduction, TLAPS

\* A set of natural numbers that is not empty has a least member.
LEMMA NatMin ==
  ASSUME NEW T, T \subseteq Nat, T # {}
  PROVE  \E x \in T : \A y \in T : x <= y
<1> DEFINE R == OpToRel(<, Nat)
<1>1. IsWellFoundedOn(R, Nat)
  BY NatLessThanWellFounded
<1>2. \A x, y \in Nat : <<y, x>> \in R <=> y < x
  BY DEF OpToRel
<1> HIDE DEF R
<1>3. PICK x \in T : \A y \in T : ~ (<<y, x>> \in R)
  BY <1>1, WFMin
<1>4. \A y \in T : x \in Nat /\ y \in Nat /\ ~ (y < x)
  BY <1>2, <1>3
<1> QED  BY <1>4

\* A set that holds 0, and with every number the next one, holds them all.
LEMMA NatInd ==
  ASSUME NEW S, 0 \in S, \A n \in Nat : n \in S => n + 1 \in S
  PROVE  \A n \in Nat : n \in S
<1> DEFINE T == Nat \ S
<1>1. SUFFICES ASSUME T # {} PROVE FALSE
  OBVIOUS
<1>2. PICK x \in T : \A y \in T : x <= y
  BY <1>1, NatMin
<1>3. x \in Nat /\ x # 0
  BY <1>2
<1>4. x - 1 \in Nat /\ x - 1 \notin T
  BY <1>2, <1>3
<1>5. (x - 1) + 1 \in S
  BY <1>4
<1> QED  BY <1>2, <1>3, <1>5

\* A set of integers with a bound has a largest member.
LEMMA BoundedMax ==
  ASSUME NEW T, T \subseteq Int, T # {}, NEW b \in Int, \A x \in T : x <= b
  PROVE  \E x \in T : \A y \in T : y <= x
<1> DEFINE D == {d \in Nat : b - d \in T}
<1>1. PICK t \in T : t \in Int /\ t <= b
  OBVIOUS
<1>2. b - t \in D
  BY <1>1
<1>3. PICK d \in D : \A e \in D : d <= e
  BY <1>2, NatMin
<1>4. \A y \in T : b - y \in D
  OBVIOUS
<1>5. \A y \in T : y <= b - d
  BY <1>3, <1>4
<1> QED  BY <1>3, <1>5

=============================================================================

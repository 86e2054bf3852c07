---------------------------- MODULE FiniteMaxima ----------------------------
(***************************************************************************)
(* A finite set of numbers has a greatest one: what every maximum in the   *)
(* other proofs rests on.                                                  *)
(***************************************************************************)
EXTENDS Naturals, FiniteSets, FiniteSetTheorems, TLAPS

LEMMA FiniteImage ==
  ASSUME NEW D, IsFiniteSet(D), NEW f, DOMAIN f = D
  PROVE  IsFiniteSet({f[x] : x \in D})
<1> DEFINE T == {f[x] : x \in D}
           g == [x \in D |-> f[x]]
<1>1. g \in Surjection(D, T)
  BY DEF Surjection
<1> HIDE DEF T, g
<1>2. IsFiniteSet(T)
  BY <1>1, FS_Surjection
<1> QED
  BY <1>2 DEF T

LEMMA Maximum ==
  ASSUME NEW S \in SUBSET Nat, IsFiniteSet(S), S # {}
  PROVE  \E m \in S : \A x \in S : x <= m
<1> DEFINE HasMax(A) == \E m \in A : \A x \in A : x <= m
           T == {A \in FiniteSubsetsOf(S) : A # {} /\ ~ HasMax(A)}
<1>1. FiniteSubsetsOf(S) = SUBSET S
  BY FS_FiniteSubsetsOfFinite
<1>2. SUFFICES ASSUME T # {} PROVE FALSE
  BY <1>1
<1>3. T \subseteq FiniteSubsetsOf(S)
  OBVIOUS
<1>4. PICK A \in T : \A B \in T : ~ (<<B, A>> \in StrictSubsetOrdering(S))
  <2> HIDE DEF T
  <2> QED BY <1>2, <1>3, FS_StrictSubsetOrderingWellFounded, WFMin
<1>5. A \in SUBSET S /\ A # {} /\ ~ HasMax(A)
  BY <1>1
<1>6. PICK y \in A : TRUE
  BY <1>5
<1> DEFINE B == A \ {y}
<1>7. B \in SUBSET S /\ B \subseteq A /\ B # A
  BY <1>5, <1>6
<1>8. <<B, A>> \in StrictSubsetOrdering(S)
  BY <1>5, <1>7 DEF StrictSubsetOrdering
<1>9. B \notin T
  BY <1>4, <1>8
<1>10. CASE B = {}
  <2>1. A = {y} /\ y \in Nat
    BY <1>5, <1>6, <1>10
  <2> QED
    BY <1>5, <2>1
<1>11. CASE HasMax(B)
  <2>1. PICK m \in B : \A x \in B : x <= m
    BY <1>11
  <2>2. /\ m \in A /\ m \in Nat /\ y \in Nat
        /\ \A x \in A : x \in Nat /\ (x \in B \/ x = y)
    BY <1>5, <1>6, <2>1
  <2>3. CASE y <= m
    BY <1>5, <2>1, <2>2, <2>3
  <2>4. CASE m <= y
    <3>1. \A x \in A : x <= y
      BY <2>1, <2>2, <2>4
    <3> QED
      BY <1>5, <1>6, <3>1
  <2> QED
    BY <2>2, <2>3, <2>4
<1> QED
  BY <1>1, <1>7, <1>9, <1>10, <1>11

=============================================================================

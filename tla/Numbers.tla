------------------------------- MODULE Numbers -------------------------------
(***************************************************************************)
(* The induction that the proofs of the other modules use: a set of        *)
(* natural numbers that is not empty has a least element, and a greatest   *)
(* one if it is bounded.                                                   *)
(***************************************************************************)
EXTENDS Integers, FiniteSets, FiniteSetTheorems, WellFoundedInduction, TLAPS

\* Numbers are ordered like the intervals that they end.
Interval(n) == 1 .. n

LEMMA LeastNumber ==
  ASSUME NEW T, T \subseteq Nat, T # {}
  PROVE  \E m \in T : \A k \in T : m <= k
<1> DEFINE U == {Interval(n) : n \in T}
           R == StrictSubsetOrdering(Nat)
<1>1. IsWellFoundedOn(R, FiniteSubsetsOf(Nat))
  BY FS_StrictSubsetOrderingWellFounded
<1>2. ASSUME NEW n \in T
      PROVE  Interval(n) \in FiniteSubsetsOf(Nat)
  <2>1. n \in Int /\ 1 \in Int /\ Interval(n) \subseteq Nat
    BY DEF Interval
  <2>2. IsFiniteSet(1 .. n)
    BY <2>1, FS_Interval
  <2> QED BY <2>1, <2>2 DEF FiniteSubsetsOf, Interval
<1>3. U \subseteq FiniteSubsetsOf(Nat) /\ U # {}
  BY <1>2
<1>4. PICK u \in U : \A v \in U : <<v, u>> \notin R
  <2> HIDE DEF U, R
  <2> QED BY <1>1, <1>3, WFMin
<1>5. PICK m \in T : u = Interval(m)
  OBVIOUS
<1>6. ASSUME NEW k \in T, k < m
      PROVE  FALSE
  <2>1. Interval(k) \subseteq Interval(m) /\ Interval(k) # Interval(m)
    <3>1. k \in Nat /\ m \in Nat /\ m \in Interval(m) /\ m \notin Interval(k)
      BY <1>6 DEF Interval
    <3> QED BY <1>6, <3>1 DEF Interval
  <2>2. Interval(k) \in SUBSET Nat /\ Interval(m) \in SUBSET Nat
    BY <1>2 DEF FiniteSubsetsOf
  <2>3. <<Interval(k), Interval(m)>> \in R
    BY <2>1, <2>2 DEF StrictSubsetOrdering
  <2> QED BY <1>4, <1>5, <1>6, <2>3
<1>7. \A k \in T : ~(k < m)
  BY <1>6
<1> QED BY <1>7

\* The same from above.
LEMMA GreatestNumber ==
  ASSUME NEW n \in Nat, NEW T, T \subseteq 0 .. n, T # {}
  PROVE  \E m \in T : \A k \in T : k <= m
<1> DEFINE U == {n - k : k \in T}
<1>1. U \subseteq Nat /\ U # {}
  <2>1. ASSUME NEW k \in T PROVE n - k \in Nat
    BY k \in 0 .. n
  <2> QED BY <2>1
<1>2. PICK d \in U : \A e \in U : d <= e
  BY <1>1, LeastNumber
<1>3. PICK m \in T : d = n - m
  OBVIOUS
<1>4. \A k \in T : n - m <= n - k
  BY <1>2, <1>3
<1>5. \A k \in T : k <= m
  BY <1>4
<1> QED BY <1>5
=============================================================================

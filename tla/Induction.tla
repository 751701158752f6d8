------------------------------ MODULE Induction -----------------------------
(***************************************************************************)
(* Induction over the naturals in terms of sets rather than of operators:  *)
(* the library's induction theorems take the predicate as an operator,     *)
(* which the provers here cannot instantiate.  It rests on the library's   *)
(* first-order fact that finite sets are well-founded under inclusion.     *)
(***************************************************************************)
EXTENDS Integers, TLAPS, FiniteSetTheorems, WellFoundedInduction

Below(n) == {k \in Nat : k < n}

\* A set of naturals with an element has a least one.
LEMMA LeastNat ==
    ASSUME NEW T, T \subseteq Nat, T # {}
    PROVE  \E x \in T : \A y \in T : x <= y
  <1> DEFINE F == {U \in FiniteSubsetsOf(Nat) : \E x \in T : U = Below(x)}
  <1>1. IsWellFoundedOn(StrictSubsetOrdering(Nat), FiniteSubsetsOf(Nat))
    BY FS_StrictSubsetOrderingWellFounded
  <1>2. \A x \in T : Below(x) \in F
    <2> TAKE x \in T
    <2>1. Below(x) = 0..(x - 1) BY DEF Below
    <2>2. IsFiniteSet(Below(x)) BY <2>1, FS_Interval
    <2>3. Below(x) \in FiniteSubsetsOf(Nat) BY <2>2 DEF FiniteSubsetsOf, Below
    <2> QED BY <2>3
  <1>3. F \subseteq FiniteSubsetsOf(Nat) /\ F # {} BY <1>2
  <1>4. PICK U \in F : \A V \in F : ~(<<V, U>> \in StrictSubsetOrdering(Nat))
    <2> HIDE DEF F
    <2> QED BY <1>1, <1>3, WFMin
  <1>5. PICK x \in T : U = Below(x) BY <1>4
  <1>6. ASSUME NEW y \in T, y < x
        PROVE  FALSE
    <2>1. Below(y) \in F BY <1>2
    <2>2. Below(y) \subseteq Below(x) /\ Below(y) # Below(x)
      <3>1. y \in Below(x) /\ y \notin Below(y) BY <1>6 DEF Below
      <3> QED BY <3>1, <1>6 DEF Below
    <2>3. Below(x) \in SUBSET Nat /\ Below(y) \in SUBSET Nat BY DEF Below
    <2>4. <<Below(y), U>> \in StrictSubsetOrdering(Nat)
      BY <2>2, <2>3, <1>5 DEF StrictSubsetOrdering
    <2> QED BY <2>1, <2>4, <1>4
  <1> QED BY <1>6

\* A set that holds the start and every successor of what it holds, up to a
\* bound, holds the whole interval.
LEMMA IntervalInduction ==
    ASSUME NEW m \in Int, NEW n \in Int, NEW T,
           m <= n => m \in T,
           \A k \in m..n : k < n /\ k \in T => k + 1 \in T
    PROVE  m..n \subseteq T
  <1> DEFINE B == {k \in Nat : m + k \in m..n /\ m + k \notin T}
  <1>1. SUFFICES ASSUME B # {}
                 PROVE  FALSE
    <2>1. ASSUME NEW k \in m..n, k \notin T
          PROVE  FALSE
      <3>1. k - m \in Nat /\ m + (k - m) = k BY <2>1
      <3>2. k - m \in B BY <3>1, <2>1
      <3> QED BY <3>2, <1>1
    <2> QED BY <2>1
  <1>2. PICK x \in B : \A y \in B : x <= y
    <2> HIDE DEF B
    <2>1. B \subseteq Nat BY DEF B
    <2> QED BY <1>1, <2>1, LeastNat
  <1>3. x # 0 BY <1>2
  <1>4. x - 1 \in Nat /\ x - 1 < x BY <1>3
  <1>5. x - 1 \notin B BY <1>2, <1>4
  <1>6. m + (x - 1) \in m..n /\ m + (x - 1) < n BY <1>2, <1>4
  <1>7. m + (x - 1) \in T BY <1>4, <1>5, <1>6
  <1>8. (m + (x - 1)) + 1 \in T BY <1>6, <1>7
  <1> QED BY <1>8, <1>2
=============================================================================

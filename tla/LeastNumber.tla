---------------------------- MODULE LeastNumber ----------------------------
(***************************************************************************)
(* A fact about numbers on which the proofs about tables rest: "the first  *)
(* entry such that" is a CHOOSE, and there is one.                         *)
(***************************************************************************)
EXTENDS Integers, FiniteSets, FiniteSetTheorems, TLAPS

(* A set of numbers has a least one: the sets {u \in L : u <= t} of those  *)
(* up to a number n in it are finite, so one of them contains no smaller.  *)
LEMMA LeastExists ==
    ASSUME NEW T \in SUBSET Nat, T # {}
    PROVE  \E m \in T : \A t \in T : m <= t
  <1>1. PICK n \in T : TRUE
    OBVIOUS
  <1> DEFINE L == {u \in T : u <= n}
             upto(t) == {u \in L : u <= t}
             C == {upto(t) : t \in L}
  <1>2. n \in L /\ IsFiniteSet(L)
    <2>1. L \in SUBSET (0..n) /\ n \in L
      <3>1. \A u \in L : u \in Nat /\ u <= n
        OBVIOUS
      <3>2. n \in L /\ n \in Nat
        BY <1>1
      <3> HIDE DEF L
      <3> QED BY <3>1, <3>2
    <2>2. IsFiniteSet(0..n)
      BY <1>1, FS_Interval
    <2> HIDE DEF L
    <2> QED BY <2>1, <2>2, FS_Subset
  <1>3. C \subseteq SUBSET L /\ C # {}
    BY <1>2
  <1>4. IsWellFoundedOn(StrictSubsetOrdering(L), SUBSET L)
    <2>1. FiniteSubsetsOf(L) = SUBSET L
      BY <1>2, FS_FiniteSubsetsOfFinite
    <2> QED BY <2>1, FS_StrictSubsetOrderingWellFounded
  <1>5. \E x \in C : \A y \in C : ~ (<<y, x>> \in StrictSubsetOrdering(L))
    <2> HIDE DEF C, L
    <2> QED BY <1>3, <1>4, WFMin
  <1>6. PICK m \in L : \A t \in L : ~ (<<upto(t), upto(m)>> \in StrictSubsetOrdering(L))
    <2> HIDE DEF L
    <2> QED BY <1>5
  <1>7. \A t \in L : t \in Int /\ t <= n
    OBVIOUS
  <1>8. \A t \in L : m <= t
    <2> SUFFICES ASSUME NEW t \in L, t < m PROVE FALSE
      BY <1>7
    <2> HIDE DEF C, L
    <2>1. m \in upto(m) /\ m \notin upto(t)
      BY <1>7
    <2>2. ASSUME NEW u \in upto(t) PROVE u \in upto(m)
      <3>1. u \in L /\ u <= t
        OBVIOUS
      <3> QED BY <3>1, <1>7
    <2>3. upto(t) \in SUBSET L /\ upto(m) \in SUBSET L
      OBVIOUS
    <2> HIDE DEF upto
    <2>4. <<upto(t), upto(m)>> \in StrictSubsetOrdering(L)
      BY <2>1, <2>2, <2>3 DEF StrictSubsetOrdering
    <2> QED BY <1>6, <2>4
  <1>9. \A t \in T : m <= t
    BY <1>1, <1>7, <1>8
  <1> QED BY <1>9

=============================================================================

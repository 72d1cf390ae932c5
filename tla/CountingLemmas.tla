---------------------------- MODULE CountingLemmas ----------------------------
(***************************************************************************)
(* Facts the proofs of several modules rest on.  Sets of nodes at most F <  *)
(* N/3 of which are faulty: the counting behind the thresholds f + 1,       *)
(* 2f + 1 and N - f of reliablebroadcast.py and binaryagreement.py.  And     *)
(* induction over the numbers, for the loops written as recursive functions. *)
(***************************************************************************)
EXTENDS Integers, FiniteSets, FiniteSetTheorems, WellFoundedInduction, TLAPS

-----------------------------------------------------------------------------
(* Quorums *)


\* What the protocols assume of their parties.
Resilient(Nodes, Faulty, F) ==
  /\ IsFiniteSet(Nodes) /\ Faulty \subseteq Nodes /\ F \in Nat
  /\ Cardinality(Nodes) >= 3 * F + 1 /\ Cardinality(Faulty) <= F

\* The numbers of nodes are natural numbers.
LEMMA CountsAreNat ==
  ASSUME NEW Nodes, NEW Faulty, NEW F, Resilient(Nodes, Faulty, F), NEW S \in SUBSET Nodes
  PROVE  /\ IsFiniteSet(S) /\ Cardinality(S) \in Nat
         /\ Cardinality(S) <= Cardinality(Nodes) /\ Cardinality(Nodes) \in Nat
  BY FS_Subset, FS_CardinalityType DEF Resilient

\* A set of nodes has at most F faulty ones.
LEMMA MostAreCorrect ==
  ASSUME NEW Nodes, NEW Faulty, NEW F, Resilient(Nodes, Faulty, F), NEW S \in SUBSET Nodes
  PROVE  /\ Cardinality(S \ Faulty) \in Nat
         /\ Cardinality(S \ Faulty) >= Cardinality(S) - F
<1> DEFINE A == S \ Faulty
           B == S \cap Faulty
<1>1. /\ IsFiniteSet(A) /\ Cardinality(A) \in Nat
      /\ IsFiniteSet(B) /\ Cardinality(B) \in Nat /\ Cardinality(B) <= F
  <2>1. IsFiniteSet(Faulty) /\ Cardinality(Faulty) \in Nat
    BY CountsAreNat DEF Resilient
  <2>2. A \in SUBSET Nodes /\ B \in SUBSET Faulty
    OBVIOUS
  <2> QED
    BY <2>1, <2>2, CountsAreNat, FS_Subset, FS_CardinalityType DEF Resilient
<1>2. A \cup B = S /\ A \cap B = {}
  OBVIOUS
<1> HIDE DEF A, B
<1>3. Cardinality(A \cup B) = Cardinality(A) + Cardinality(B) - Cardinality(A \cap B)
  BY <1>1, FS_Union
<1>4. Cardinality(S) = Cardinality(A) + Cardinality(B)
  <2>1. Cardinality(S) = Cardinality(A) + Cardinality(B) - Cardinality({})
    BY <1>2, <1>3
  <2> QED
    BY <1>1, <2>1, FS_EmptySet
<1>5. Cardinality(A) \in Nat /\ Cardinality(A) >= Cardinality(S) - F
  BY <1>1, <1>4 DEF Resilient
<1> QED
  BY <1>5 DEF A

\* More than F nodes have a correct one among them.
LEMMA OneIsCorrect ==
  ASSUME NEW Nodes, NEW Faulty, NEW F, Resilient(Nodes, Faulty, F), NEW S \in SUBSET Nodes,
         Cardinality(S) >= F + 1
  PROVE  \E q \in Nodes \ Faulty : q \in S
<1> DEFINE A == S \ Faulty
<1>1. Cardinality(A) \in Nat /\ Cardinality(A) >= 1
  <2>1. Cardinality(A) \in Nat /\ Cardinality(A) >= Cardinality(S) - F
    BY MostAreCorrect
  <2>2. Cardinality(S) \in Nat /\ F \in Nat
    BY CountsAreNat DEF Resilient
  <2> HIDE DEF A
  <2> QED
    BY <2>1, <2>2
<1> HIDE DEF A
<1>2. A # {}
  BY <1>1, FS_EmptySet
<1> QED
  BY <1>2 DEF A

\* Two sets of N - F nodes have a correct one in common.
LEMMA QuorumsMeet ==
  ASSUME NEW Nodes, NEW Faulty, NEW F, Resilient(Nodes, Faulty, F),
         NEW S \in SUBSET Nodes, NEW T \in SUBSET Nodes,
         Cardinality(S) >= Cardinality(Nodes) - F,
         Cardinality(T) >= Cardinality(Nodes) - F
  PROVE  \E q \in Nodes \ Faulty : q \in S /\ q \in T
<1>1. /\ IsFiniteSet(S) /\ Cardinality(S) \in Nat /\ IsFiniteSet(T) /\ Cardinality(T) \in Nat
      /\ Cardinality(Nodes) \in Nat
  BY CountsAreNat
<1>2. /\ Cardinality(S \cup T) = Cardinality(S) + Cardinality(T) - Cardinality(S \cap T)
      /\ Cardinality(S \cup T) \in Nat /\ Cardinality(S \cap T) \in Nat
      /\ Cardinality(S \cup T) <= Cardinality(Nodes)
  <2>1. S \cup T \in SUBSET Nodes /\ S \cap T \in SUBSET Nodes
    OBVIOUS
  <2> QED
    BY <1>1, <2>1, FS_Union, CountsAreNat
<1>3. Cardinality(S \cap T) >= F + 1
  BY <1>1, <1>2 DEF Resilient
<1> QED
  BY <1>3, OneIsCorrect

-----------------------------------------------------------------------------
(* Counting up *)

\* A set of numbers with 0 and the successor of each of its members is Nat.
LEMMA SetInduction ==
  ASSUME NEW T \in SUBSET Nat, 0 \in T, \A n \in T : n + 1 \in T
  PROVE  T = Nat
<1> SUFFICES ASSUME T # Nat PROVE FALSE
  OBVIOUS
<1> DEFINE Bad == {1 .. n : n \in Nat \ T}
<1>1. Bad \subseteq FiniteSubsetsOf(Nat)
  <2> SUFFICES ASSUME NEW n \in Nat PROVE 1 .. n \in FiniteSubsetsOf(Nat)
    OBVIOUS
  <2>1. IsFiniteSet(1 .. n)
    BY FS_Interval
  <2> QED
    BY <2>1 DEF FiniteSubsetsOf
<1>2. Bad # {}
  OBVIOUS
<1>3. PICK x \in Bad : \A y \in Bad : ~(<<y, x>> \in StrictSubsetOrdering(Nat))
  BY <1>1, <1>2, FS_StrictSubsetOrderingWellFounded, WFMin
<1>4. PICK n \in Nat \ T : x = 1 .. n
  BY <1>3
<1>5. n # 0 /\ n - 1 \in Nat /\ (n - 1) + 1 = n
  OBVIOUS
<1>6. n - 1 \notin T
  BY <1>5
<1>7. 1 .. n - 1 \in Bad
  BY <1>5, <1>6
<1>8. 1 .. n - 1 \subseteq 1 .. n /\ n \in 1 .. n /\ n \notin 1 .. n - 1
  BY <1>5
<1>9. <<1 .. n - 1, 1 .. n>> \in StrictSubsetOrdering(Nat)
  BY <1>8, SMTT(30) DEF StrictSubsetOrdering
<1> QED
  BY <1>3, <1>4, <1>7, <1>9
=============================================================================

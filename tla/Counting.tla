------------------------------ MODULE Counting -------------------------------
(***************************************************************************)
(* Facts about numbers and counting that several proof modules rest on:    *)
(* induction over the naturals as a least element, and the ranks of the    *)
(* elements of a finite set of places.                                     *)
(***************************************************************************)
EXTENDS Integers, FiniteSets, FiniteSetTheorems, WellFoundedInduction, TLAPS

\* Induction, in the form that needs no operator parameter.
LEMMA LeastNat ==
    ASSUME NEW T \in SUBSET Nat, T # {}
    PROVE  \E n \in T : \A m \in T : n <= m
<1>1. \E n \in T : \A m \in T : <<m, n>> \notin OpToRel(<, Nat)
    BY NatLessThanWellFounded, WFMin
<1>2. \A m, n \in Nat : m < n => <<m, n>> \in OpToRel(<, Nat)
    <2> SUFFICES ASSUME NEW m \in Nat, NEW n \in Nat, m < n
                 PROVE  <<m, n>> \in {ss \in Nat \X Nat : ss[1] < ss[2]}
        BY DEF OpToRel
    <2> QED OBVIOUS
<1>3. PICK n \in T : \A m \in T : <<m, n>> \notin OpToRel(<, Nat)
    BY <1>1
<1>4. ASSUME NEW m \in T
      PROVE  n <= m
    <2>1. ~(m < n)
        BY <1>2, <1>3
    <2> QED BY <2>1
<1> QED BY <1>4

\* How many elements of S this set has is the rank of m in S.
UpTo(S, m) == {j \in S : j <= m}

LEMMA RankIsNat ==
    ASSUME NEW n \in Nat, NEW S \in SUBSET (1 .. n), NEW m
    PROVE  /\ IsFiniteSet(S) /\ Cardinality(S) \in Nat
           /\ IsFiniteSet(UpTo(S, m)) /\ Cardinality(UpTo(S, m)) \in Nat
           /\ Cardinality(UpTo(S, m)) <= Cardinality(S)
<1>1. IsFiniteSet(1 .. n)
    BY FS_Interval
<1>2. IsFiniteSet(S) /\ Cardinality(S) \in Nat
    BY <1>1, FS_Subset, FS_CardinalityType
<1>3. UpTo(S, m) \in SUBSET S
    BY DEF UpTo
<1> QED BY <1>2, <1>3, FS_Subset, FS_CardinalityType

\* Every rank is that of some place ...
LEMMA RankExists ==
    ASSUME NEW n \in Nat, NEW S \in SUBSET (1 .. n), NEW k \in 1 .. Cardinality(S)
    PROVE  \E i \in S : Cardinality(UpTo(S, i)) = k
<1> DEFINE Reach == {m \in Nat : Cardinality(UpTo(S, m)) >= k}
<1>0. \A j \in S : j \in Nat /\ j >= 1 /\ j <= n
    OBVIOUS
<1>1. UpTo(S, n) = S /\ UpTo(S, 0) = {}
    <2>1. \A j : j \in UpTo(S, n) <=> j \in S
        BY <1>0 DEF UpTo
    <2>2. \A j \in S : ~(j <= 0)
        BY <1>0
    <2>3. \A j : j \notin UpTo(S, 0)
        BY <2>2 DEF UpTo
    <2> QED BY <2>1, <2>3
<1>2. Cardinality(S) \in Nat /\ k \in Nat /\ k >= 1 /\ k <= Cardinality(S)
    <2>1. Cardinality(S) \in Nat
        BY RankIsNat
    <2> QED BY <2>1
<1>3. n \in Reach
    BY <1>1, <1>2
<1>4. PICK m \in Reach : \A j \in Reach : m <= j
    BY <1>3, LeastNat
<1>5. m \in Nat /\ Cardinality(UpTo(S, m)) >= k
    OBVIOUS
<1>6. m # 0
    BY <1>1, <1>2, <1>5, FS_EmptySet
<1>7. m - 1 \in Nat /\ m - 1 \notin Reach
    BY <1>4, <1>5, <1>6
<1>8. PICK low : low = UpTo(S, m - 1)
    OBVIOUS
<1>9. IsFiniteSet(low) /\ Cardinality(low) \in Nat /\ Cardinality(low) < k
    <2>1. IsFiniteSet(low) /\ Cardinality(low) \in Nat
        BY <1>8, RankIsNat
    <2>2. ~(Cardinality(low) >= k)
        BY <1>7, <1>8
    <2> QED BY <1>2, <2>1, <2>2
<1>10. m \notin low
    <2>1. ~(m <= m - 1)
        BY <1>5
    <2> QED BY <1>8, <2>1 DEF UpTo
<1>11. UpTo(S, m) = IF m \in S THEN low \union {m} ELSE low
    <2>1. \A j \in S : j <= m <=> j <= m - 1 \/ j = m
        BY <1>0, <1>5
    <2> QED BY <1>8, <2>1 DEF UpTo
<1>12. m \in S
    BY <1>2, <1>5, <1>9, <1>11
<1>13. Cardinality(UpTo(S, m)) = Cardinality(low) + 1
    BY <1>9, <1>10, <1>11, <1>12, FS_AddElement
<1> QED BY <1>2, <1>5, <1>9, <1>12, <1>13

\* ... and of one only.
LEMMA RankGrows ==
    ASSUME NEW n \in Nat, NEW S \in SUBSET (1 .. n), NEW i \in S, NEW j \in S, i < j
    PROVE  Cardinality(UpTo(S, i)) < Cardinality(UpTo(S, j))
<1>1. PICK low : low = UpTo(S, i)
    OBVIOUS
<1>2. IsFiniteSet(low) /\ Cardinality(low) \in Nat
    BY <1>1, RankIsNat
<1>3. j \notin low
    <2>1. i \in Nat /\ j \in Nat
        OBVIOUS
    <2>2. ~(j <= i)
        BY <2>1
    <2> QED BY <1>1, <2>2 DEF UpTo
<1>4. Cardinality(low \union {j}) = Cardinality(low) + 1
    BY <1>2, <1>3, FS_AddElement
<1>5. low \union {j} \in SUBSET UpTo(S, j)
    <2>1. i \in Nat /\ j \in Nat /\ \A k \in S : k \in Nat
        OBVIOUS
    <2>2. \A k \in S : k <= i => k <= j
        BY <2>1
    <2>3. low \subseteq UpTo(S, j)
        BY <1>1, <2>2 DEF UpTo
    <2>4. j \in UpTo(S, j)
        BY <2>1 DEF UpTo
    <2> QED BY <2>3, <2>4
<1>6. /\ IsFiniteSet(UpTo(S, j)) /\ Cardinality(UpTo(S, j)) \in Nat
    BY RankIsNat
<1>7. Cardinality(low \union {j}) <= Cardinality(UpTo(S, j))
    BY <1>5, <1>6, FS_Subset
<1> QED BY <1>1, <1>2, <1>4, <1>6, <1>7

LEMMA RankIsItsOwn ==
    ASSUME NEW n \in Nat, NEW S \in SUBSET (1 .. n), NEW i \in S, NEW j \in S,
           Cardinality(UpTo(S, i)) = Cardinality(UpTo(S, j))
    PROVE  i = j
<1>1. Cardinality(UpTo(S, i)) \in Nat
    BY RankIsNat
<1>2. i \in Nat /\ j \in Nat
    OBVIOUS
<1>3. ASSUME i < j
      PROVE  FALSE
    <2>1. Cardinality(UpTo(S, i)) < Cardinality(UpTo(S, j))
        BY <1>3, RankGrows
    <2> QED BY <1>1, <2>1
<1>4. ASSUME j < i
      PROVE  FALSE
    <2>1. Cardinality(UpTo(S, j)) < Cardinality(UpTo(S, i))
        BY <1>4, RankGrows
    <2> QED BY <1>1, <2>1
<1> QED BY <1>2, <1>3, <1>4

\* The places of a line and its rank.
LEMMA RankInRange ==
    ASSUME NEW n \in Nat, NEW S \in SUBSET (1 .. n), NEW i \in S
    PROVE  Cardinality(UpTo(S, i)) \in 1 .. Cardinality(S)
<1>1. /\ IsFiniteSet(UpTo(S, i)) /\ Cardinality(UpTo(S, i)) \in Nat
      /\ Cardinality(UpTo(S, i)) <= Cardinality(S) /\ Cardinality(S) \in Nat
    BY RankIsNat
<1>2. i \in UpTo(S, i)
    <2>1. i \in Nat
        OBVIOUS
    <2> QED BY <2>1 DEF UpTo
<1>3. Cardinality(UpTo(S, i)) # 0
    BY <1>1, <1>2, FS_EmptySet
<1> QED BY <1>1, <1>3
=============================================================================

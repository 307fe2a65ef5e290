--------------------------- MODULE RankingProofs ---------------------------
(***************************************************************************)
(* Lemmas about Ranking, and the least element of a set of numbers, which  *)
(* serves as induction in the modules that use it.                         *)
(***************************************************************************)
EXTENDS Ranking, Integers, FiniteSetTheorems, TLAPS

(***************************************************************************)
(* Every set of numbers that is not empty has a least one: the form of     *)
(* induction used for loops and recursive definitions.                     *)
(***************************************************************************)
LEMMA Least ==
  ASSUME NEW T \in SUBSET Nat, T # {}
  PROVE  \E m \in T : \A k \in T : m <= k
<1> DEFINE R == {ss \in Nat \X Nat : ss[1] < ss[2]}
<1>1. IsWellFoundedOn(R, Nat)
  BY NatLessThanWellFounded DEF OpToRel
<1>2. PICK m \in T : \A k \in T : <<k, m>> \notin R
  <2> HIDE DEF R
  <2> QED
    BY <1>1, WFMin
<1>3. ASSUME NEW k \in T, k < m
      PROVE  FALSE
  <2>1. <<k, m>> \in Nat \X Nat /\ <<k, m>>[1] = k /\ <<k, m>>[2] = m
    OBVIOUS
  <2>2. <<k, m>> \in R
    BY <1>3, <2>1, Zenon
  <2> QED
    BY <1>2, <2>2
<1> QED
  BY <1>3

-----------------------------------------------------------------------------
LEMMA RankType ==
  ASSUME NEW S, IsFiniteSet(S), NEW n
  PROVE  Rank(S, n) \in Nat /\ IsFiniteSet({m \in S : m < n})
<1>1. {m \in S : m < n} \in SUBSET S
  OBVIOUS
<1> QED
  BY <1>1, FS_Subset, FS_CardinalityType DEF Rank

\* The elements below x, then x, then what is up to y.
LEMMA RankGrows ==
  ASSUME NEW S \in SUBSET Nat, IsFiniteSet(S), NEW x \in S, NEW y \in Nat, x < y
  PROVE  Rank(S, x) + 1 <= Rank(S, y)
<1> DEFINE low == {m \in S : m < x}
           up == {m \in S : m < y}
<1>1. IsFiniteSet(low) /\ IsFiniteSet(up)
      /\ Cardinality(low) \in Nat /\ Cardinality(up) \in Nat
  BY RankType, FS_CardinalityType
<1>2. Cardinality(low \cup {x}) = Cardinality(low) + 1
  <2>1. x \notin low
    OBVIOUS
  <2> HIDE DEF low
  <2> QED
    BY <1>1, <2>1, FS_AddElement
<1>3. low \cup {x} \in SUBSET up
  <2>1. ASSUME NEW m \in S, m < x \/ m = x
        PROVE  m < y
    <3>1. m \in Nat /\ x \in Nat
      OBVIOUS
    <3> QED
      BY <2>1, <3>1
  <2> QED
    BY <2>1
<1>4. Cardinality(low \cup {x}) <= Cardinality(up)
  <2> HIDE DEF low, up
  <2> QED
    BY <1>1, <1>3, FS_Subset
<1>5. Rank(S, x) = Cardinality(low) /\ Rank(S, y) = Cardinality(up)
  BY DEF Rank
<1> HIDE DEF low, up
<1> QED
  BY <1>1, <1>2, <1>4, <1>5

LEMMA RankBelow ==
  ASSUME NEW S \in SUBSET Nat, IsFiniteSet(S), NEW x \in S
  PROVE  Rank(S, x) + 1 \in 1..Cardinality(S)
<1> DEFINE low == {m \in S : m < x}
<1>1. IsFiniteSet(low) /\ Cardinality(low) \in Nat /\ Cardinality(S) \in Nat
  BY RankType, FS_CardinalityType
<1>2. x \notin low /\ low \cup {x} \in SUBSET S
  OBVIOUS
<1>3. Rank(S, x) = Cardinality(low)
  BY DEF Rank
<1> HIDE DEF low
<1>4. Cardinality(low \cup {x}) = Cardinality(low) + 1
  BY <1>1, <1>2, FS_AddElement
<1>5. Cardinality(low \cup {x}) <= Cardinality(S)
  BY <1>2, FS_Subset
<1> QED
  BY <1>1, <1>3, <1>4, <1>5

\* Two elements do not have the same rank.
LEMMA RankTells ==
  ASSUME NEW S \in SUBSET Nat, IsFiniteSet(S), NEW x \in S, NEW y \in S,
         Rank(S, x) = Rank(S, y)
  PROVE  x = y
<1>1. PICK i \in Nat : i = Rank(S, x)
  BY RankType
<1>2. ~(x < y)
  BY <1>1, RankGrows
<1>3. ~(y < x)
  BY <1>1, RankGrows
<1>4. x \in Nat /\ y \in Nat
  OBVIOUS
<1> QED
  BY <1>2, <1>3, <1>4

LEMMA RankExists ==
  ASSUME NEW S \in SUBSET Nat, IsFiniteSet(S), NEW k \in 1..Cardinality(S)
  PROVE  \E n \in S : Rank(S, n) = k - 1
<1> DEFINE T == {i \in 1..Cardinality(S) : ~ \E n \in S : Rank(S, n) = i - 1}
<1>1. Cardinality(S) \in Nat
  BY FS_CardinalityType
<1>2. SUFFICES T = {}
  OBVIOUS
<1>3. SUFFICES ASSUME T # {}
               PROVE  FALSE
  OBVIOUS
<1>4. PICK m \in T : \A i \in T : m <= i
  <2>1. T \in SUBSET Nat
    BY <1>1
  <2> HIDE DEF T
  <2> QED
    BY <1>3, <2>1, Least
<1>5. m \in 1..Cardinality(S) /\ ~ \E n \in S : Rank(S, n) = m - 1
  OBVIOUS
<1>6. CASE m = 1
  <2>1. S # {}
    BY <1>1, <1>5, FS_EmptySet
  <2>2. PICK n \in S : \A x \in S : n <= x
    BY <2>1, Least
  <2>3. {x \in S : x < n} = {}
    <3>1. ASSUME NEW x \in S
          PROVE  ~(x < n)
      <4>1. x \in Nat /\ n \in Nat /\ n <= x
        BY <2>2
      <4> QED
        BY <4>1
    <3> QED
      BY <3>1
  <2>4. Rank(S, n) = 0
    BY <2>3, FS_EmptySet DEF Rank
  <2> QED
    BY <1>5, <1>6, <2>4
<1>7. CASE m # 1
  <2>1. m - 1 \in 1..Cardinality(S) /\ ~(m <= m - 1)
    BY <1>1, <1>5, <1>7
  <2>2. m - 1 \notin T
    BY <1>4, <2>1, Zenon
  <2>3. PICK n \in S : Rank(S, n) = m - 2
    BY <1>1, <1>5, <2>1, <2>2
  <2> DEFINE low == {x \in S : x < n}
             above == {x \in S : n < x}
  <2>4. IsFiniteSet(low) /\ Cardinality(low) = m - 2
    BY <2>3, RankType DEF Rank
  <2>5. n \notin low
    OBVIOUS
  <2>6. Cardinality(low \cup {n}) = m - 1
    <3> HIDE DEF low
    <3>1. Cardinality(low \cup {n}) = Cardinality(low) + 1
      BY <2>4, <2>5, FS_AddElement
    <3>2. m \in Int
      BY <1>1, <1>5
    <3> QED
      BY <2>4, <3>1, <3>2
  <2>7. above # {}
    <3>1. SUFFICES ASSUME above = {}
                   PROVE  FALSE
      OBVIOUS
    <3>2. S = low \cup {n}
      <4>1. ASSUME NEW x \in S
            PROVE  x < n \/ x = n
        <5>1. x \in Nat /\ n \in Nat /\ ~(n < x)
          BY <3>1
        <5> QED
          BY <5>1
      <4> QED
        BY <4>1
    <3> HIDE DEF low
    <3> QED
      BY <1>1, <1>5, <2>6, <3>2
  <2>8. PICK x \in above : \A y \in above : x <= y
    <3>1. above \in SUBSET Nat
      <4>1. above \subseteq S
        OBVIOUS
      <4> HIDE DEF above
      <4> QED
        BY <4>1
    <3> HIDE DEF above
    <3> QED
      BY <2>7, <3>1, Least
  <2>9. {y \in S : y < x} = low \cup {n}
    <3>1. ASSUME NEW y \in S
          PROVE  y < x <=> y < n \/ y = n
      <4>1. y \in Nat /\ n \in Nat /\ x \in Nat /\ n < x
        OBVIOUS
      <4>2. n < y => x <= y
        BY <2>8
      <4> QED
        BY <4>1, <4>2
    <3> QED
      BY <3>1
  <2>10. x \in S /\ Rank(S, x) = m - 1
    BY <2>6, <2>9 DEF Rank
  <2> QED
    BY <1>5, <2>10
<1> QED
  BY <1>6, <1>7

(***************************************************************************)
(* The k-th element is one of the set, with k - 1 elements below it; and   *)
(* every element is the k-th for one k.                                    *)
(***************************************************************************)
LEMMA KthIs ==
  ASSUME NEW S \in SUBSET Nat, IsFiniteSet(S), NEW k \in 1..Cardinality(S)
  PROVE  Kth(S, k) \in S /\ Rank(S, Kth(S, k)) = k - 1
<1>1. \E n \in S : Rank(S, n) = k - 1
  BY RankExists
<1> QED
  BY <1>1 DEF Kth

LEMMA KthOf ==
  ASSUME NEW S \in SUBSET Nat, IsFiniteSet(S), NEW n \in S
  PROVE  Kth(S, Rank(S, n) + 1) = n
<1>1. PICK i \in Nat : i = Rank(S, n)
  BY RankType
<1>2. i + 1 \in 1..Cardinality(S)
  BY <1>1, RankBelow
<1>3. Kth(S, i + 1) \in S /\ Rank(S, Kth(S, i + 1)) = (i + 1) - 1
  BY <1>2, KthIs
<1>4. Rank(S, Kth(S, i + 1)) = Rank(S, n)
  BY <1>1, <1>3
<1> QED
  BY <1>1, <1>3, <1>4, RankTells
=============================================================================

-------------------------- MODULE SubsequenceProofs --------------------------
(***************************************************************************)
(* What Subsequence does, for every list: the list that is left is made of *)
(* the entries at the positions that stay, each once and in their order.   *)
(***************************************************************************)
EXTENDS Subsequence, FiniteSetTheorems, TLAPS

\* A position has a place from 1 to the number of positions.
LEMMA RankType ==
  ASSUME NEW S \in SUBSET Int, IsFiniteSet(S), NEW p \in S
  PROVE  Rank(S, p) \in 1 .. Cardinality(S)
<1> DEFINE B == {q \in S : q <= p}
<1>1. IsFiniteSet(B) /\ Cardinality(B) <= Cardinality(S)
  BY FS_Subset
<1>2. Cardinality(B) \in Nat /\ Cardinality(S) \in Nat
  BY <1>1, FS_CardinalityType
<1>3. B # {}
  BY p <= p
<1>4. Cardinality(B) # 0
  BY <1>1, <1>3, FS_EmptySet
<1> QED
  BY <1>1, <1>2, <1>4 DEF Rank

\* A later position has a later place.
LEMMA RankGrows ==
  ASSUME NEW S \in SUBSET Int, IsFiniteSet(S), NEW p \in S, NEW q \in S, p < q
  PROVE  Rank(S, p) < Rank(S, q)
<1> DEFINE A == {x \in S : x <= p}
           B == {x \in S : x <= q}
<1>1. IsFiniteSet(A) /\ IsFiniteSet(B)
  BY FS_Subset
<1>2. A \subseteq B /\ q \in B /\ q \notin A
  <2>1. p \in Int /\ q \in Int /\ q <= q /\ ~(q <= p)
    OBVIOUS
  <2>2. ASSUME NEW x \in S, x <= p
        PROVE  x <= q
    <3>1. x \in Int
      OBVIOUS
    <3> QED
      BY <2>1, <2>2, <3>1
  <2> QED
    BY <2>1, <2>2
<1> HIDE DEF A, B
<1>3. Cardinality(A) <= Cardinality(B) /\ Cardinality(A) # Cardinality(B)
  BY <1>1, <1>2, FS_Subset
<1>4. Cardinality(A) \in Nat /\ Cardinality(B) \in Nat
  BY <1>1, FS_CardinalityType
<1> QED
  BY <1>3, <1>4 DEF Rank, A, B

\* So the places count the positions through.
LEMMA RankIsOnto ==
  ASSUME NEW S \in SUBSET Int, IsFiniteSet(S), NEW i \in 1 .. Cardinality(S)
  PROVE  \E p \in S : Rank(S, p) = i
<1> DEFINE N == Cardinality(S)
           T == 1 .. N
           f == [p \in S |-> Rank(S, p)]
<1>1. N \in Nat
  BY FS_CardinalityType
<1>2. IsFiniteSet(T) /\ Cardinality(T) = N
  BY <1>1, FS_Interval
<1>3. f \in [S -> T]
  BY RankType
<1>4. ASSUME NEW p \in S, NEW q \in S, f[p] = f[q]
      PROVE  p = q
  <2>1. Rank(S, p) = Rank(S, q) /\ Rank(S, p) \in Int
    BY <1>4, RankType
  <2>2. ~(p < q) /\ ~(q < p)
    BY <2>1, RankGrows
  <2> QED
    BY <2>2
<1>5. f \in Injection(S, T)
  BY <1>3, <1>4 DEF Injection, IsInjective
<1> HIDE DEF f, T
<1>6. f \in Surjection(S, T)
  BY <1>2, <1>5, FS_Injection
<1>7. \E p \in S : f[p] = i
  BY <1>6 DEF Surjection, T
<1> QED
  BY <1>7 DEF f

LEMMA NthProperties ==
  ASSUME NEW S \in SUBSET Int, IsFiniteSet(S)
  PROVE  /\ \A i \in 1 .. Cardinality(S) : Nth(S, i) \in S /\ Rank(S, Nth(S, i)) = i
         /\ \A p \in S : Nth(S, Rank(S, p)) = p
         /\ \A i, j \in 1 .. Cardinality(S) : i < j => Nth(S, i) < Nth(S, j)
<1>1. \A i \in 1 .. Cardinality(S) : Nth(S, i) \in S /\ Rank(S, Nth(S, i)) = i
  BY RankIsOnto DEF Nth
<1>2. ASSUME NEW p \in S
      PROVE  Nth(S, Rank(S, p)) = p
  <2>1. Rank(S, p) \in 1 .. Cardinality(S)
    BY RankType
  <2> DEFINE q == Nth(S, Rank(S, p))
  <2>2. q \in S /\ Rank(S, q) = Rank(S, p)
    BY <1>1, <2>1
  <2> HIDE DEF q
  <2>3. ~(p < q) /\ ~(q < p)
    BY <2>1, <2>2, RankGrows
  <2>4. p = q
    BY <2>2, <2>3
  <2> QED
    BY <2>4 DEF q
<1>3. ASSUME NEW i \in 1 .. Cardinality(S), NEW j \in 1 .. Cardinality(S), i < j
      PROVE  Nth(S, i) < Nth(S, j)
  <2> DEFINE p == Nth(S, i)
             q == Nth(S, j)
  <2>1. p \in S /\ q \in S /\ Rank(S, p) = i /\ Rank(S, q) = j
    BY <1>1
  <2> HIDE DEF p, q
  <2>2. p # q /\ ~(q < p)
    BY <1>3, <2>1, RankGrows
  <2>3. p < q
    BY <2>1, <2>2
  <2> QED
    BY <2>3 DEF p, q
<1> QED
  BY <1>1, <1>2, <1>3

\* A set of numbers that is finite and not empty has a least one.
LEMMA LeastExists ==
  ASSUME NEW S \in SUBSET Int, IsFiniteSet(S), S # {}
  PROVE  \E p \in S : \A q \in S : p <= q
<1>1. Cardinality(S) \in Nat \ {0}
  BY FS_CardinalityType, FS_EmptySet
<1>2. PICK p \in S : Rank(S, p) = 1
  BY <1>1, RankIsOnto
<1>3. ASSUME NEW q \in S
      PROVE  p <= q
  <2>1. Rank(S, q) \in Int /\ Rank(S, q) >= 1
    BY RankType
  <2>2. ~(q < p)
    BY <1>2, <2>1, RankGrows
  <2> QED
    BY <2>2
<1> QED
  BY <1>3

(***************************************************************************)
(* The list that is left: a list of the same entries, not longer, and each *)
(* of its positions comes from one of the positions that stay.             *)
(***************************************************************************)
LEMMA PositionsFinite ==
  ASSUME NEW T, NEW list \in Seq(T), NEW S \in SUBSET DOMAIN list
  PROVE  /\ S \in SUBSET Int /\ IsFiniteSet(S)
         /\ Cardinality(S) \in 0 .. Len(list)
<1>1. Len(list) \in Nat /\ DOMAIN list = 1 .. Len(list)
  OBVIOUS
<1>2. IsFiniteSet(1 .. Len(list)) /\ Cardinality(1 .. Len(list)) = Len(list)
  <2>1. 1 \in Int /\ Len(list) \in Int
    BY <1>1
  <2>2. /\ IsFiniteSet(1 .. Len(list))
        /\ Cardinality(1 .. Len(list)) =
             IF 1 > Len(list) THEN 0 ELSE Len(list) - 1 + 1
    BY <2>1, FS_Interval
  <2> QED
    BY <1>1, <2>2
<1>3. IsFiniteSet(S) /\ Cardinality(S) <= Len(list)
  BY <1>1, <1>2, FS_Subset
<1> QED
  BY <1>1, <1>3, FS_CardinalityType

THEOREM AtProperties ==
  ASSUME NEW T, NEW list \in Seq(T), NEW S \in SUBSET DOMAIN list
  PROVE  /\ At(list, S) \in Seq(T)
         /\ Len(At(list, S)) = Cardinality(S)
         /\ Len(At(list, S)) \in 0 .. Len(list)
         /\ DOMAIN At(list, S) = 1 .. Len(At(list, S))
         /\ \A i \in DOMAIN At(list, S) :
              Nth(S, i) \in S /\ At(list, S)[i] = list[Nth(S, i)]
         /\ \A i, j \in DOMAIN At(list, S) : i < j => Nth(S, i) < Nth(S, j)
         /\ \A p \in S : \E i \in DOMAIN At(list, S) : Nth(S, i) = p
<1> DEFINE l == At(list, S)
           N == Cardinality(S)
<1>1. S \in SUBSET Int /\ IsFiniteSet(S) /\ N \in 0 .. Len(list)
  BY PositionsFinite
<1>2. \A i \in 1 .. N : Nth(S, i) \in S
  BY <1>1, NthProperties
<1>3. \A p \in DOMAIN list : list[p] \in T
  OBVIOUS
<1>4. l = [i \in 1 .. N |-> list[Nth(S, i)]]
  BY DEF At
<1>5. l \in Seq(T) /\ Len(l) = N /\ DOMAIN l = 1 .. N
  BY <1>1, <1>2, <1>3, <1>4
<1>6. \A i \in 1 .. N : l[i] = list[Nth(S, i)]
  BY <1>4
<1>7. \A i, j \in 1 .. N : i < j => Nth(S, i) < Nth(S, j)
  BY <1>1, NthProperties
<1>8. \A p \in S : Rank(S, p) \in 1 .. N /\ Nth(S, Rank(S, p)) = p
  BY <1>1, NthProperties, RankType
<1> QED
  BY <1>1, <1>2, <1>5, <1>6, <1>7, <1>8

\* A list that loses an entry is shorter.
LEMMA AtShorter ==
  ASSUME NEW T, NEW list \in Seq(T), NEW S \in SUBSET DOMAIN list,
         NEW p \in DOMAIN list, p \notin S
  PROVE  Len(At(list, S)) < Len(list)
<1>1. S \in SUBSET (DOMAIN list) /\ S # DOMAIN list
  OBVIOUS
<1>2. DOMAIN list \in SUBSET DOMAIN list
  OBVIOUS
<1>3. /\ IsFiniteSet(DOMAIN list) /\ Cardinality(DOMAIN list) \in 0 .. Len(list)
      /\ Cardinality(S) \in 0 .. Len(list)
  BY <1>2, PositionsFinite
<1>4. Cardinality(S) <= Cardinality(DOMAIN list)
      /\ Cardinality(S) # Cardinality(DOMAIN list)
  BY <1>1, <1>3, FS_Subset
<1>5. Len(At(list, S)) = Cardinality(S)
  BY AtProperties
<1>6. Len(list) \in Nat
  OBVIOUS
<1> QED
  BY <1>3, <1>4, <1>5, <1>6
=============================================================================

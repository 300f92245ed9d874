----------------------------- MODULE ScanProofs -----------------------------
(* What a scan returns and what a selection keeps, for any array.          *)
EXTENDS Scan, Sequences, WellFoundedInduction, FiniteSetTheorems, TLAPS

(* A set of numbers that is not empty has a least element.                 *)
LEMMA LeastExists ==
    ASSUME NEW S \in SUBSET Nat, S # {}
    PROVE  \E x \in S : \A y \in S : x =< y
<1> DEFINE Less == OpToRel(<, Nat)
<1>1. IsWellFoundedOn(Less, Nat)
  BY NatLessThanWellFounded
<1> HIDE DEF Less
<1>2. \E x \in S : \A y \in S : ~ (<<y, x>> \in Less)
  BY <1>1, WFMin
<1>3. \A x, y \in Nat : <<y, x>> \in Less <=> y < x
  BY DEF Less, OpToRel
<1>4. PICK x \in S : \A y \in S : ~ (<<y, x>> \in Less)
  BY <1>2
<1>5. \A y \in S : x =< y
  <2> SUFFICES ASSUME NEW y \in S PROVE x =< y
    OBVIOUS
  <2>1. x \in Nat /\ y \in Nat /\ ~ (y < x)
    BY <1>3, <1>4
  <2> QED
    BY <2>1
<1> QED
  BY <1>5

(* A scan returns a slot that matches, and the first of them; 0 when there *)
(* is none.                                                                *)
THEOREM FirstOr0Scan ==
    ASSUME NEW S \in SUBSET (Nat \ {0})
    PROVE  \/ S = {} /\ FirstOr0(S) = NoSlot
           \/ /\ FirstOr0(S) \in S /\ FirstOr0(S) # NoSlot
              /\ \A y \in S : FirstOr0(S) =< y
<1>1. CASE S = {}
  BY <1>1 DEF FirstOr0
<1>2. CASE S # {}
  <2>1. \E x \in S : \A y \in S : x =< y
    BY <1>2, LeastExists
  <2>2. Min(S) \in S /\ \A y \in S : Min(S) =< y
    BY <2>1 DEF Min
  <2> QED
    BY <1>2, <2>2 DEF FirstOr0, NoSlot
<1> QED
  BY <1>1, <1>2

-----------------------------------------------------------------------------
(* How many of the indices come no later than i.                           *)
RankAmong(I, i) == Cardinality({j \in I : j <= i})

(* The indices are numbered without a gap.                                 *)
LEMMA RankAmongSpec ==
    ASSUME NEW n \in Nat, NEW I \in SUBSET (1..n)
    PROVE  /\ IsFiniteSet(I) /\ Cardinality(I) \in Nat
           /\ \A i \in I : RankAmong(I, i) \in 1..Cardinality(I)
           /\ \A i, j \in I : i < j => RankAmong(I, i) < RankAmong(I, j)
           /\ \A k \in 1..Cardinality(I) : \E i \in I : RankAmong(I, i) = k
<1> DEFINE UpTo(i) == {j \in I : j <= i}
           c == Cardinality(I)
<1>1. IsFiniteSet(I) /\ c \in Nat
  <2>1. IsFiniteSet(1..n)
    BY FS_Interval
  <2> QED BY <2>1, FS_Subset, FS_CardinalityType
<1>2. \A i \in I : /\ UpTo(i) \in SUBSET I /\ IsFiniteSet(UpTo(i))
                   /\ RankAmong(I, i) = Cardinality(UpTo(i)) /\ RankAmong(I, i) \in Nat
                   /\ RankAmong(I, i) <= c
  <2> SUFFICES ASSUME NEW i \in I
               PROVE  /\ UpTo(i) \in SUBSET I /\ IsFiniteSet(UpTo(i))
                      /\ RankAmong(I, i) = Cardinality(UpTo(i)) /\ RankAmong(I, i) \in Nat
                      /\ RankAmong(I, i) <= c
    OBVIOUS
  <2>1. UpTo(i) \in SUBSET I
    OBVIOUS
  <2>2. RankAmong(I, i) = Cardinality(UpTo(i))
    BY DEF RankAmong
  <2> HIDE DEF UpTo
  <2>3. IsFiniteSet(UpTo(i)) /\ Cardinality(UpTo(i)) <= c /\ Cardinality(UpTo(i)) \in Nat
    BY <1>1, <2>1, FS_Subset, FS_CardinalityType
  <2> QED BY <2>1, <2>2, <2>3
<1>3. ASSUME NEW i \in I PROVE RankAmong(I, i) # 0
  <2>1. UpTo(i) # {}
    OBVIOUS
  <2> HIDE DEF UpTo
  <2> QED BY <1>2, <2>1, FS_EmptySet
<1>4. ASSUME NEW i \in I, NEW j \in I, i < j PROVE RankAmong(I, i) < RankAmong(I, j)
  <2>1. \A k \in I : k \in Nat
    OBVIOUS
  <2> HIDE DEF c
  <2>2. j \in UpTo(j) /\ j \notin UpTo(i) /\ UpTo(i) \in SUBSET UpTo(j)
    <3>1. i \in Nat /\ j \in Nat
      BY <2>1
    <3>2. \A k \in I : k <= i => k <= j
      BY <1>4, <2>1, <3>1
    <3>3. j <= j /\ ~ (j <= i)
      BY <1>4, <3>1
    <3>4. UpTo(i) \in SUBSET UpTo(j)
      BY <3>2, Zenon
    <3> QED BY <3>3, <3>4, Zenon
  <2> HIDE DEF UpTo
  <2>3. /\ Cardinality(UpTo(i)) <= Cardinality(UpTo(j))
        /\ Cardinality(UpTo(i)) # Cardinality(UpTo(j))
    BY <1>2, <2>2, FS_Subset
  <2> QED BY <1>2, <2>3
<1> HIDE DEF UpTo
<1>5. \A i \in I : RankAmong(I, i) \in 1..c
  BY <1>1, <1>2, <1>3
<1> DEFINE f == [i \in I |-> RankAmong(I, i)]
<1>6. f \in Injection(I, 1..c)
  <2>1. ASSUME NEW i \in I, NEW j \in I, f[i] = f[j] PROVE i = j
    <3>1. ~ (i < j) /\ ~ (j < i)
      BY <1>2, <1>4, <2>1
    <3> QED BY <3>1
  <2>2. f \in [I -> 1..c]
    BY <1>5
  <2> HIDE DEF f
  <2> QED BY <2>1, <2>2 DEF Injection, IsInjective
<1>7. f \in Surjection(I, 1..c)
  <2>1. IsFiniteSet(1..c) /\ Cardinality(1..c) = c
    BY <1>1, FS_Interval
  <2> HIDE DEF f
  <2> QED BY <1>6, <2>1, FS_Injection
<1>8. \A k \in 1..c : \E i \in I : RankAmong(I, i) = k
  BY <1>7 DEF Surjection
<1> QED BY <1>1, <1>4, <1>5, <1>8

(* A selection has each of the entries at I once, and no other.            *)
LEMMA SelectedSpec ==
    ASSUME NEW S, NEW s \in Seq(S), NEW I \in SUBSET (1..Len(s))
    PROVE  /\ IsFiniteSet(I) /\ Cardinality(I) \in Nat
           /\ Selected(s, I) \in Seq(S) /\ Len(Selected(s, I)) = Cardinality(I)
           /\ \E f \in [1..Cardinality(I) -> I] :
                 /\ \A k \in 1..Cardinality(I) : Selected(s, I)[k] = s[f[k]]
                 /\ \A i \in I : \E k \in 1..Cardinality(I) : f[k] = i
                 /\ \A k, l \in 1..Cardinality(I) : k < l => f[k] < f[l]
<1> DEFINE c == Cardinality(I)
           KthOf(k) == CHOOSE i \in I : RankAmong(I, i) = k
           f == [k \in 1..c |-> KthOf(k)]
<1>1. Len(s) \in Nat /\ \A i \in I : i \in Nat /\ s[i] \in S
  OBVIOUS
<1>2. /\ IsFiniteSet(I) /\ c \in Nat
      /\ \A i \in I : RankAmong(I, i) \in 1..c
      /\ \A i, j \in I : i < j => RankAmong(I, i) < RankAmong(I, j)
      /\ \A k \in 1..c : \E i \in I : RankAmong(I, i) = k
  BY <1>1, RankAmongSpec
<1>3. \A k \in 1..c : KthOf(k) \in I /\ RankAmong(I, KthOf(k)) = k
  BY <1>2
<1>4. Selected(s, I) = [k \in 1..c |-> s[KthOf(k)]]
  BY DEF Selected, RankAmong
<1> HIDE DEF KthOf
<1>5. f \in [1..c -> I] /\ \A k \in 1..c : f[k] = KthOf(k)
  BY <1>3
<1>6. \A k \in 1..c : Selected(s, I)[k] = s[f[k]] /\ s[f[k]] \in S
  BY <1>1, <1>3, <1>4, <1>5
<1> HIDE DEF c
<1>7. Selected(s, I) \in Seq(S) /\ Len(Selected(s, I)) = c
  <2>1. \A k \in 1..c : s[KthOf(k)] \in S
    BY <1>1, <1>3
  <2> QED BY <1>2, <1>4, <2>1
<1>8. ASSUME NEW i \in I PROVE \E k \in 1..c : f[k] = i
  <2>1. RankAmong(I, i) \in 1..c /\ KthOf(RankAmong(I, i)) \in I /\ RankAmong(I, KthOf(RankAmong(I, i))) = RankAmong(I, i)
    BY <1>2, <1>3
  <2>2. PICK j \in I : j = KthOf(RankAmong(I, i)) /\ RankAmong(I, j) = RankAmong(I, i)
    BY <2>1
  <2>3. ~ (j < i) /\ ~ (i < j)
    BY <1>2, <2>1, <2>2
  <2>4. j = i
    BY <1>1, <2>3
  <2> QED BY <1>5, <2>1, <2>2, <2>4
<1> HIDE DEF f
<1>9. ASSUME NEW k \in 1..c, NEW l \in 1..c, k < l PROVE f[k] < f[l]
  <2>1. PICK i \in I, j \in I : f[k] = i /\ f[l] = j /\ RankAmong(I, i) = k /\ RankAmong(I, j) = l
    BY <1>3, <1>5
  <2>2. ~ (j < i) /\ i # j
    BY <1>2, <1>9, <2>1
  <2> QED BY <1>1, <2>1, <2>2
<1> QED BY <1>2, <1>5, <1>6, <1>7, <1>8, <1>9 DEF c

=============================================================================

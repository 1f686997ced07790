---------------------------- MODULE DBReadersProofs ----------------------------
(***************************************************************************)
(* What the loops over native iterators return, for every finite set of    *)
(* keys, every set of values and any number of updates between two of      *)
(* their steps.                                                            *)
(***************************************************************************)
EXTENDS DBReaders, FiniteSetTheorems, WellFoundedInduction, TLAPS

\* Every nonempty set of natural numbers has a least element.
LEMMA LeastNat ==
    ASSUME NEW T, T \subseteq Nat, T # {}
    PROVE  \E m \in T : \A k \in T : m <= k
<1> DEFINE R == OpToRel(<, Nat)
<1>1. IsWellFoundedOn(R, Nat)
  BY NatLessThanWellFounded
<1>2. \E x \in T : \A y \in T : ~ (<<y, x>> \in R)
  <2> HIDE DEF R
  <2> QED
    BY <1>1, WFMin
<1>3. \A x, y \in Nat : x < y => <<x, y>> \in R
  BY DEF OpToRel
<1> HIDE DEF R
<1>4. PICK x \in T : \A y \in T : ~ (<<y, x>> \in R)
  BY <1>2
<1>5. ASSUME NEW k \in T
      PROVE  x <= k
  <2>1. x \in Nat /\ k \in Nat
    OBVIOUS
  <2>2. ~ (k < x)
    BY <1>3, <1>4, <2>1
  <2> QED
    BY <2>1, <2>2
<1> QED
  BY <1>5

-------------------------------------------------------------------------------
(***************************************************************************)
(* Byte order is a total order, and the keys with a prefix lie together.   *)
(***************************************************************************)

\* a comes before b, and i is where that shows.
LessAt(a, b, i) ==
    /\ i \in 1..Len(b)
    /\ \A j \in 1..(i - 1) : j <= Len(a) /\ a[j] = b[j]
    /\ i = Len(a) + 1 \/ (i <= Len(a) /\ a[i] < b[i])

LEMMA PrefixIs ==
    ASSUME NEW a \in Seq(Nat), NEW b \in Seq(Nat)
    PROVE  IsPrefix(a, b) <=> Len(a) <= Len(b) /\ \A j \in 1..Len(a) : a[j] = b[j]
<1>1. ASSUME Len(a) <= Len(b), \A j \in 1..Len(a) : a[j] = b[j]
      PROVE  SubSeq(a, 1, Len(a)) = SubSeq(b, 1, Len(a))
  BY <1>1
<1>2. ASSUME Len(a) <= Len(b), SubSeq(a, 1, Len(a)) = SubSeq(b, 1, Len(a)), NEW j \in 1..Len(a)
      PROVE  a[j] = b[j]
  <2>1. SubSeq(a, 1, Len(a))[j] = a[j] /\ SubSeq(b, 1, Len(a))[j] = b[j]
    BY <1>2
  <2> QED
    BY <1>2, <2>1
<1> QED
  BY <1>1, <1>2 DEF IsPrefix

LEMMA LessIs ==
    ASSUME NEW a \in Seq(Nat), NEW b \in Seq(Nat)
    PROVE  Less(a, b) <=> \E i \in Nat : LessAt(a, b, i)
<1>1. ASSUME a # b, IsPrefix(a, b)
      PROVE  LessAt(a, b, Len(a) + 1)
  <2>1. Len(a) <= Len(b) /\ \A j \in 1..Len(a) : a[j] = b[j]
    BY <1>1, PrefixIs
  <2>2. Len(a) # Len(b)
    BY <1>1, <2>1
  <2> QED
    BY <2>1, <2>2 DEF LessAt
<1>2. ASSUME NEW i \in DOMAIN a \cap DOMAIN b,
             a[i] < b[i], SubSeq(a, 1, i - 1) = SubSeq(b, 1, i - 1)
      PROVE  LessAt(a, b, i) /\ i \in Nat
  <2>1. i \in 1..Len(a) /\ i \in 1..Len(b)
    OBVIOUS
  <2>2. ASSUME NEW j \in 1..(i - 1) PROVE j <= Len(a) /\ a[j] = b[j]
    <3>1. i - 1 \in Nat /\ i - 1 <= Len(a) /\ i - 1 <= Len(b) /\ j \in Nat
      BY <2>1, SMTT(60)
    <3>2. SubSeq(a, 1, i - 1)[j] = a[j]
      BY <3>1
    <3>3. SubSeq(b, 1, i - 1)[j] = b[j]
      BY <3>1
    <3> QED
      BY <1>2, <2>1, <3>1, <3>2, <3>3
  <2> QED
    BY <1>2, <2>1, <2>2 DEF LessAt
<1>3. ASSUME NEW i \in Nat, LessAt(a, b, i), i = Len(a) + 1
      PROVE  a # b /\ IsPrefix(a, b)
  <2>1. i \in 1..Len(b) /\ \A j \in 1..(i - 1) : a[j] = b[j]
    BY <1>3 DEF LessAt
  <2>2. Len(a) < Len(b)
    BY <1>3, <2>1
  <2>3. \A j \in 1..Len(a) : a[j] = b[j]
    BY <1>3, <2>1
  <2> QED
    BY <2>2, <2>3, PrefixIs
<1>4. ASSUME NEW i \in Nat, LessAt(a, b, i), i <= Len(a), a[i] < b[i]
      PROVE  /\ i \in DOMAIN a \cap DOMAIN b
             /\ SubSeq(a, 1, i - 1) = SubSeq(b, 1, i - 1)
  <2>1. i \in 1..Len(b) /\ \A j \in 1..(i - 1) : a[j] = b[j]
    BY <1>4 DEF LessAt
  <2> QED
    BY <1>4, <2>1
<1>5. \A i \in Nat : LessAt(a, b, i) => i = Len(a) + 1 \/ (i <= Len(a) /\ a[i] < b[i])
  BY DEF LessAt
<1>6. Less(a, b) => \E i \in Nat : LessAt(a, b, i)
  <2>1. Len(a) + 1 \in Nat
    OBVIOUS
  <2> QED
    BY <1>1, <1>2, <2>1 DEF Less
<1>7. ASSUME NEW i \in Nat, LessAt(a, b, i) PROVE Less(a, b)
  BY <1>3, <1>4, <1>5, <1>7 DEF Less
<1> QED
  BY <1>6, <1>7

LEMMA LessIrreflexive ==
    ASSUME NEW a \in Seq(Nat)
    PROVE  ~Less(a, a)
<1>1. \A i \in Nat : ~LessAt(a, a, i)
  BY DEF LessAt
<1> QED
  BY <1>1, LessIs

LEMMA LessTransitive ==
    ASSUME NEW a \in Seq(Nat), NEW b \in Seq(Nat), NEW c \in Seq(Nat), Less(a, b), Less(b, c)
    PROVE  Less(a, c)
<1>1. PICK i \in Nat : LessAt(a, b, i)
  BY LessIs
<1>2. PICK j \in Nat : LessAt(b, c, j)
  BY LessIs
<1>3. CASE i <= j
  <2>1. /\ i \in 1..Len(b) /\ j \in 1..Len(c) /\ i \in 1..Len(c)
        /\ \A x \in 1..(i - 1) : x \in 1..(j - 1) /\ x <= Len(a) /\ a[x] = b[x]
    BY <1>1, <1>2, <1>3, SMTT(60) DEF LessAt
  <2>2. \A x \in 1..(i - 1) : x <= Len(a) /\ a[x] = c[x]
    BY <1>2, <2>1 DEF LessAt
  <2>3. i = Len(a) + 1 \/ (i <= Len(a) /\ a[i] < b[i])
    BY <1>1 DEF LessAt
  <2>4. b[i] \in Nat /\ c[i] \in Nat /\ (b[i] = c[i] \/ b[i] < c[i])
    <3>1. CASE i = j
      BY <1>2, <2>1, <3>1 DEF LessAt
    <3>2. CASE i # j
      <4>1. i \in 1..(j - 1)
        BY <1>3, <2>1, <3>2
      <4> QED
        BY <1>2, <2>1, <4>1, SMTT(60) DEF LessAt
    <3> QED
      BY <3>1, <3>2
  <2>5. i <= Len(a) => a[i] \in Nat
    BY <2>1, SMTT(60)
  <2>6. i = Len(a) + 1 \/ (i <= Len(a) /\ a[i] < c[i])
    BY <2>3, <2>4, <2>5
  <2>7. LessAt(a, c, i)
    BY <2>1, <2>2, <2>6 DEF LessAt
  <2> QED
    BY <2>7, LessIs
<1>4. CASE j < i
  <2>1. /\ j \in 1..Len(c) /\ j <= i - 1 /\ i - 1 <= Len(b)
        /\ \A x \in 1..(j - 1) : x <= Len(b) /\ b[x] = c[x]
    BY <1>1, <1>2, <1>4, SMTT(60) DEF LessAt
  <2>2. \A x \in 1..j : x <= Len(a) /\ a[x] = b[x]
    BY <1>1, <1>4, <2>1, SMTT(60) DEF LessAt
  <2>3. b[j] < c[j]
    BY <1>2, <2>1 DEF LessAt
  <2>4. j \in 1..j /\ \A x \in 1..(j - 1) : x \in 1..j
    BY <2>1
  <2>5. j <= Len(a) /\ a[j] < c[j]
    BY <2>2, <2>3, <2>4
  <2>6. LessAt(a, c, j)
    BY <2>1, <2>2, <2>4, <2>5 DEF LessAt
  <2> QED
    BY <2>6, LessIs
<1> QED
  BY <1>3, <1>4

LEMMA LessTotal ==
    ASSUME NEW a \in Seq(Nat), NEW b \in Seq(Nat), a # b
    PROVE  Less(a, b) \/ Less(b, a)
<1> DEFINE D == {i \in Nat : i >= 1 /\ (i > Len(a) \/ i > Len(b) \/ a[i] # b[i])}
<1>1. Len(a) + 1 \in D /\ D \subseteq Nat
  OBVIOUS
<1>2. PICK m \in D : \A k \in D : m <= k
  <2> HIDE DEF D
  <2> QED
    BY <1>1, LeastNat
<1>3. m \in Nat /\ m >= 1 /\ (m > Len(a) \/ m > Len(b) \/ a[m] # b[m])
  OBVIOUS
<1>4. ASSUME NEW j \in 1..(m - 1)
      PROVE  j <= Len(a) /\ j <= Len(b) /\ a[j] = b[j]
  <2>1. j \in Nat /\ j >= 1 /\ j < m
    BY <1>3
  <2>2. j \notin D
    <3> HIDE DEF D
    <3> QED
      BY <1>2, <1>3, <2>1
  <2> QED
    BY <2>1, <2>2
<1> HIDE DEF D
<1>5. CASE m > Len(a) /\ m > Len(b)
  <2>1. Len(a) = m - 1
    <3>1. CASE m = 1
      BY <1>5, <3>1
    <3>2. CASE m # 1
      BY <1>3, <1>4, <1>5, <3>2
    <3> QED
      BY <3>1, <3>2
  <2>2. Len(b) = m - 1
    <3>1. CASE m = 1
      BY <1>5, <3>1
    <3>2. CASE m # 1
      BY <1>3, <1>4, <1>5, <3>2
    <3> QED
      BY <3>1, <3>2
  <2> QED
    BY <1>4, <2>1, <2>2
<1>6. CASE m > Len(a) /\ m <= Len(b)
  <2>1. Len(a) = m - 1
    <3>1. CASE m = 1
      BY <1>6, <3>1
    <3>2. CASE m # 1
      BY <1>3, <1>4, <1>6, <3>2
    <3> QED
      BY <3>1, <3>2
  <2>2. LessAt(a, b, m)
    BY <1>3, <1>4, <1>6, <2>1 DEF LessAt
  <2> QED
    BY <1>3, <2>2, LessIs
<1>7. CASE m <= Len(a) /\ m > Len(b)
  <2>1. Len(b) = m - 1
    <3>1. CASE m = 1
      BY <1>7, <3>1
    <3>2. CASE m # 1
      BY <1>3, <1>4, <1>7, <3>2
    <3> QED
      BY <3>1, <3>2
  <2>2. LessAt(b, a, m)
    BY <1>3, <1>4, <1>7, <2>1 DEF LessAt
  <2> QED
    BY <1>3, <2>2, LessIs
<1>8. CASE m <= Len(a) /\ m <= Len(b)
  <2>1. a[m] \in Nat /\ b[m] \in Nat /\ a[m] # b[m]
    BY <1>3, <1>8
  <2>2. LessAt(a, b, m) \/ LessAt(b, a, m)
    BY <1>3, <1>4, <1>8, <2>1, SMTT(60) DEF LessAt
  <2> QED
    BY <1>3, <2>2, LessIs
<1> QED
  BY <1>3, <1>5, <1>6, <1>7, <1>8

\* Less on the keys is a strict total order.
LEMMA KeyOrder ==
    /\ \A a \in Key : ~Less(a, a)
    /\ \A a, b, c \in Key : Less(a, b) /\ Less(b, c) => Less(a, c)
    /\ \A a, b \in Key : a = b \/ Less(a, b) \/ Less(b, a)
<1>1. Key \subseteq Seq(Nat)
  BY ReadersAssumption
<1> QED
  BY <1>1, LessIrreflexive, LessTransitive, LessTotal

\* A key with the prefix does not come before it, ...
LEMMA PrefixFirst ==
    ASSUME NEW p \in Key, NEW k \in Key, IsPrefix(p, k)
    PROVE  ~Less(k, p)
<1>1. p \in Seq(Nat) /\ k \in Seq(Nat)
  BY ReadersAssumption
<1>2. Len(p) <= Len(k) /\ \A j \in 1..Len(p) : p[j] = k[j]
  BY <1>1, PrefixIs
<1>3. \A i \in Nat : ~LessAt(k, p, i)
  BY <1>1, <1>2 DEF LessAt
<1> QED
  BY <1>1, <1>3, LessIs

\* ... and between it and the prefix there are only keys with the prefix.
LEMMA PrefixTogether ==
    ASSUME NEW p \in Key, NEW a \in Key, NEW b \in Key,
           IsPrefix(p, b), ~Less(a, p), Less(a, b)
    PROVE  IsPrefix(p, a)
<1>1. p \in Seq(Nat) /\ a \in Seq(Nat) /\ b \in Seq(Nat)
  BY ReadersAssumption
<1>2. Len(p) <= Len(b) /\ \A j \in 1..Len(p) : p[j] = b[j]
  BY <1>1, PrefixIs
<1>3. CASE p = a
  BY <1>1, <1>3, PrefixIs
<1>4. CASE p # a
  <2>1. Less(p, a)
    BY <1>1, <1>4, LessTotal
  <2>2. PICK i \in Nat : LessAt(p, a, i)
    BY <1>1, <2>1, LessIs
  <2>3. PICK j \in Nat : LessAt(a, b, j)
    BY <1>1, LessIs
  <2>4. ASSUME i <= Len(p), p[i] < a[i] PROVE FALSE
    <3>1. /\ i \in 1..Len(a) /\ i \in 1..Len(p)
          /\ p[i] = b[i] /\ p[i] \in Nat /\ a[i] \in Nat
      BY <1>1, <1>2, <2>2, <2>4, SMTT(60) DEF LessAt
    <3>2. CASE j > i
      <4>1. i \in 1..(j - 1)
        BY <3>1, <3>2
      <4> QED
        BY <2>3, <2>4, <3>1, <4>1 DEF LessAt
    <3>3. CASE j = i
      <4>1. a[i] < b[i]
        BY <2>3, <3>1, <3>3 DEF LessAt
      <4> QED
        BY <2>4, <3>1, <4>1
    <3>4. CASE j < i
      <4>1. j \in 1..Len(b)
        BY <2>3 DEF LessAt
      <4>2. j \in 1..(i - 1) /\ j \in 1..Len(p) /\ j <= Len(a) /\ j # Len(a) + 1
        <5>1. Len(a) \in Nat /\ Len(b) \in Nat /\ Len(p) \in Nat
          BY <1>1
        <5> QED
          BY <3>1, <3>4, <4>1, <5>1
      <4>3. p[j] = a[j] /\ p[j] = b[j]
        BY <1>2, <2>2, <4>2 DEF LessAt
      <4>5. p[j] \in Nat
        BY <1>1, <4>2
      <4>4. a[j] < b[j]
        BY <2>3, <4>2 DEF LessAt
      <4> QED
        BY <4>3, <4>4, <4>5
    <3> QED
      BY <3>1, <3>2, <3>3, <3>4
  <2>5. i = Len(p) + 1 /\ i <= Len(a) /\ \A x \in 1..Len(p) : p[x] = a[x]
    BY <1>1, <2>2, <2>4 DEF LessAt
  <2> QED
    BY <1>1, <2>5, PrefixIs, SMTT(60)
<1> QED
  BY <1>3, <1>4

-------------------------------------------------------------------------------
(***************************************************************************)
(* The first key of a set, and the rank of a key.                          *)
(***************************************************************************)
LEMMA StoredIsFinite ==
    ASSUME NEW view
    PROVE  /\ Stored(view) \subseteq Key /\ IsFiniteSet(Stored(view))
           /\ Cardinality(Stored(view)) \in Nat
<1>1. Stored(view) \subseteq Key
  BY DEF Stored
<1>2. IsFiniteSet(Stored(view))
  BY <1>1, ReadersAssumption, FS_Subset
<1> QED
  BY <1>1, <1>2, FS_CardinalityType

\* The part of S before k is finite, and grows with k.
LEMMA BelowGrows ==
    ASSUME NEW S, S \subseteq Key, IsFiniteSet(S)
    PROVE  /\ \A k \in S : Cardinality({j \in S : Less(j, k)}) \in Nat
           /\ \A k \in S : Cardinality({j \in S : Less(j, k)}) < Cardinality(S)
           /\ \A a, b \in S : Less(a, b) =>
                 Cardinality({j \in S : Less(j, a)}) < Cardinality({j \in S : Less(j, b)})
<1> DEFINE Below(k) == {j \in S : Less(j, k)}
<1>1. ASSUME NEW k \in S
      PROVE  IsFiniteSet(Below(k)) /\ Cardinality(Below(k)) \in Nat
  <2>1. Below(k) \in SUBSET S
    OBVIOUS
  <2> HIDE DEF Below
  <2>2. IsFiniteSet(Below(k))
    BY <2>1, FS_Subset
  <2> QED
    BY <2>2, FS_CardinalityType
<1>2. ASSUME NEW k \in S
      PROVE  Cardinality(Below(k)) < Cardinality(S)
  <2>1. Below(k) \in SUBSET S /\ k \notin Below(k)
    BY KeyOrder
  <2>2. Cardinality(S) \in Nat
    BY FS_CardinalityType
  <2>3. Cardinality(Below(k)) \in Nat
    BY <1>1
  <2> HIDE DEF Below
  <2>4. Cardinality(Below(k)) <= Cardinality(S) /\ Cardinality(S) # Cardinality(Below(k))
    BY <2>1, FS_Subset
  <2> QED
    BY <2>2, <2>3, <2>4
<1>3. ASSUME NEW a \in S, NEW b \in S, Less(a, b)
      PROVE  Cardinality(Below(a)) < Cardinality(Below(b))
  <2>1. Below(a) \in SUBSET Below(b) /\ a \in Below(b) /\ a \notin Below(a)
    BY <1>3, KeyOrder
  <2>2. /\ IsFiniteSet(Below(b)) /\ Cardinality(Below(b)) \in Nat
        /\ Cardinality(Below(a)) \in Nat
    BY <1>1
  <2> HIDE DEF Below
  <2>3. /\ Cardinality(Below(a)) <= Cardinality(Below(b))
        /\ Cardinality(Below(b)) # Cardinality(Below(a))
    BY <2>1, <2>2, FS_Subset
  <2> QED
    BY <2>2, <2>3
<1> QED
  BY <1>1, <1>2, <1>3

LEMMA FirstKey ==
    ASSUME NEW S, S \subseteq Key, S # {}
    PROVE  \E k \in S : \A j \in S : j = k \/ Less(k, j)
<1> DEFINE card(k) == Cardinality({j \in S : Less(j, k)})
           T == {card(k) : k \in S}
<1>1. IsFiniteSet(S)
  BY ReadersAssumption, FS_Subset
<1>2. /\ \A k \in S : card(k) \in Nat
      /\ \A a, b \in S : Less(a, b) => card(a) < card(b)
  BY <1>1, BelowGrows
<1> HIDE DEF card
<1>3. T \subseteq Nat /\ T # {}
  BY <1>2
<1>4. PICK m \in T : \A n \in T : m <= n
  <2> HIDE DEF T
  <2> QED
    BY <1>3, LeastNat
<1>5. PICK k \in S : m = card(k)
  OBVIOUS
<1>6. ASSUME NEW j \in S PROVE j = k \/ Less(k, j)
  <2>1. card(k) <= card(j)
    BY <1>4, <1>5
  <2>2. ~Less(j, k)
    BY <1>2, <2>1
  <2> QED
    BY <2>2, KeyOrder
<1> QED
  BY <1>6

LEMMA RankFacts ==
    ASSUME NEW view, NEW k \in Stored(view)
    PROVE  /\ Rank(view, k) \in Nat
           /\ Rank(view, k) < Cardinality(Stored(view))
           /\ \A j \in Stored(view) : Rank(view, j) = Rank(view, k) => j = k
           /\ Nth(view, Rank(view, k)) = k
<1> DEFINE S == Stored(view)
<1>0. S \subseteq Key /\ IsFiniteSet(S)
  BY StoredIsFinite
<1>1. /\ \A j \in S : Rank(view, j) \in Nat /\ Rank(view, j) < Cardinality(S)
      /\ \A a, b \in S : Less(a, b) => Rank(view, a) < Rank(view, b)
  <2> HIDE DEF S
  <2>1. \A j \in S : Rank(view, j) = Cardinality({i \in S : Less(i, j)})
    BY DEF Rank, S
  <2> QED
    BY <1>0, <2>1, BelowGrows
<1> HIDE DEF S
<1>2. ASSUME NEW j \in S, Rank(view, j) = Rank(view, k)
      PROVE  j = k
  <2>1. k \in S
    BY DEF S
  <2>2. ~Less(j, k) /\ ~Less(k, j)
    BY <1>1, <1>2, <2>1
  <2> QED
    BY <1>0, <2>1, <2>2, KeyOrder
<1>3. Nth(view, Rank(view, k)) = k
  BY <1>2 DEF Nth, S
<1> QED
  BY <1>1, <1>2, <1>3 DEF S

-------------------------------------------------------------------------------
(***************************************************************************)
(* The moves of an iterator.                                               *)
(***************************************************************************)
Iter == [view : View, at : Key \cup {End}, err : BOOLEAN]

\* The keys a loop has had when its iterator is at it.
Passed(it) ==
    IF Valid(it) THEN {k \in Stored(it.view) : Less(k, it.at)} ELSE Stored(it.view)

LEMMA MoveIs ==
    ASSUME NEW it \in Iter, NEW S, S \subseteq Key, NEW m \in Move(it, S)
    PROVE  /\ m \in Iter /\ m.view = it.view
           /\ \/ m.at = End /\ m.err = TRUE
              \/ m.at = End /\ m.err = FALSE /\ S = {}
              \/ /\ m.at \in S /\ m.at # End /\ m.err = FALSE
                 /\ \A j \in S : j = m.at \/ Less(m.at, j)
<1> DEFINE first == CHOOSE k \in S : \A j \in S : j = k \/ Less(k, j)
<1>1. S # {} => first \in S /\ \A j \in S : j = first \/ Less(first, j)
  BY FirstKey
<1>2. End \notin S
  BY ReadersAssumption
<1>3. \/ m = [it EXCEPT !.at = IF S = {} THEN End ELSE first, !.err = FALSE]
      \/ m = [it EXCEPT !.at = End, !.err = TRUE]
  BY DEF Move
<1> HIDE DEF first
<1>4. CASE m = [it EXCEPT !.at = End, !.err = TRUE]
  BY <1>4 DEF Iter
<1>5. CASE m = [it EXCEPT !.at = IF S = {} THEN End ELSE first, !.err = FALSE]
  <2>1. CASE S = {}
    BY <1>5, <2>1 DEF Iter
  <2>2. CASE S # {}
    <3>1. first \in Key \cup {End}
      BY <1>1, <2>2
    <3>2. m = [it EXCEPT !.at = first, !.err = FALSE]
      BY <1>5, <2>2
    <3>3. m \in Iter /\ m.view = it.view /\ m.at = first /\ m.err = FALSE
      BY <3>1, <3>2 DEF Iter
    <3> QED
      BY <1>1, <1>2, <2>2, <3>3
  <2> QED
    BY <2>1, <2>2
<1> QED
  BY <1>3, <1>4, <1>5

\* A pass begins with no key behind it, ...
LEMMA PassBegins ==
    ASSUME NEW it \in Iter, NEW m \in SeekToFirst(it)
    PROVE  /\ m \in Iter /\ m.view = it.view
           /\ Valid(m) => m.at \in Stored(m.view)
           /\ Valid(m) \/ ~m.err => Passed(m) = {}
<1> DEFINE S == Stored(it.view)
<1>1. S \subseteq Key /\ m \in Move(it, S)
  BY StoredIsFinite DEF SeekToFirst
<1>2. /\ m \in Iter /\ m.view = it.view
      /\ \/ m.at = End /\ m.err = TRUE
         \/ m.at = End /\ m.err = FALSE /\ S = {}
         \/ /\ m.at \in S /\ m.at # End /\ m.err = FALSE
            /\ \A j \in S : j = m.at \/ Less(m.at, j)
  <2> HIDE DEF S
  <2> QED
    BY <1>1, MoveIs
<1>3. \A a, b \in S : Less(a, b) => a # b /\ ~Less(b, a)
  BY <1>1, KeyOrder
<1>4. \A a \in S : ~Less(a, a)
  BY <1>1, KeyOrder
<1> QED
  BY <1>2, <1>3, <1>4 DEF Passed, Valid

\* ... and a step of it puts the key it was at behind it.
LEMMA PassGoesOn ==
    ASSUME NEW it \in Iter, Valid(it), it.at \in Stored(it.view), NEW m \in IterNext(it)
    PROVE  /\ m \in Iter /\ m.view = it.view
           /\ Valid(m) => m.at \in Stored(m.view)
           /\ it.at \notin Passed(it)
           /\ Valid(m) \/ ~m.err => Passed(m) = Passed(it) \cup {it.at}
<1> DEFINE S == {k \in Stored(it.view) : Less(it.at, k)}
<1>1. Stored(it.view) \subseteq Key
  BY StoredIsFinite
<1>2. S \subseteq Key /\ m \in Move(it, S)
  BY <1>1 DEF IterNext
<1>3. /\ m \in Iter /\ m.view = it.view
      /\ \/ m.at = End /\ m.err = TRUE
         \/ m.at = End /\ m.err = FALSE /\ S = {}
         \/ /\ m.at \in S /\ m.at # End /\ m.err = FALSE
            /\ \A j \in S : j = m.at \/ Less(m.at, j)
  <2> HIDE DEF S
  <2> QED
    BY <1>2, MoveIs
<1>4. it.at \notin Passed(it)
  BY <1>1, KeyOrder DEF Passed
<1>5. Passed(it) = {k \in Stored(it.view) : Less(k, it.at)}
  BY DEF Passed
<1>6. ASSUME m.at = End, S = {} PROVE Passed(m) = Passed(it) \cup {it.at}
  <2>1. Passed(m) = Stored(it.view)
    BY <1>3, <1>6 DEF Passed, Valid
  <2>2. \A k \in Stored(it.view) : ~Less(it.at, k)
    BY <1>6
  <2> QED
    BY <1>1, <1>5, <2>1, <2>2, KeyOrder
<1>7. ASSUME m.at \in S, m.at # End, \A j \in S : j = m.at \/ Less(m.at, j)
      PROVE  Passed(m) = Passed(it) \cup {it.at}
  <2>1. Passed(m) = {k \in Stored(it.view) : Less(k, m.at)}
    BY <1>3, <1>7 DEF Passed, Valid
  <2>2. m.at \in Stored(it.view) /\ Less(it.at, m.at)
    BY <1>7
  <2>3. ASSUME NEW k \in Stored(it.view)
        PROVE  Less(k, m.at) <=> Less(k, it.at) \/ k = it.at
    <3>1. CASE Less(it.at, k)
      <4>1. ~Less(k, it.at) /\ k # it.at
        BY <1>1, <3>1, KeyOrder
      <4>2. k = m.at \/ Less(m.at, k)
        BY <1>7, <3>1
      <4>3. ~Less(k, m.at)
        BY <1>1, <2>2, <4>2, KeyOrder
      <4> QED
        BY <4>1, <4>3
    <3>2. CASE ~Less(it.at, k)
      <4>1. k = it.at \/ Less(k, it.at)
        BY <1>1, <3>2, KeyOrder
      <4>2. Less(k, m.at)
        BY <1>1, <2>2, <4>1, KeyOrder
      <4> QED
        BY <4>1, <4>2
    <3> QED
      BY <3>1, <3>2
  <2> QED
    BY <1>5, <2>1, <2>3
<1> QED
  BY <1>3, <1>4, <1>6, <1>7 DEF Valid

-------------------------------------------------------------------------------
(***************************************************************************)
(* SCAN.                                                                   *)
(***************************************************************************)
Wanted == {k \in Stored(scan.it.view) : IsPrefix(scan.key, k)}
Got == Stored(scan.items)

\* The loop has got the wanted keys before the one it is at, and those that
\* are missing come after it, or are lost to a read error.  ScanExact says
\* nothing of the loop and is not inductive without this.
ScanLoop ==
    /\ scan.key \in Key
    /\ Valid(scan.it) => scan.it.at \in Stored(scan.it.view) /\ ~Less(scan.it.at, scan.key)
    /\ \A k \in Got : /\ k \in Wanted /\ scan.items[k] = scan.it.view[k]
                      /\ Valid(scan.it) => Less(k, scan.it.at)
    /\ \A k \in Wanted \ Got :
          /\ IF Valid(scan.it) THEN ~Less(k, scan.it.at) ELSE scan.it.err
          /\ \A j \in Got : Less(j, k)

ScanType ==
    /\ data \in View
    /\ scan \in [pc : {"idle", "loop", "returned"}, key : Key \cup {<<>>}, it : Iter,
                 items : View]

ScanInv == ScanType /\ (scan.pc = "loop" => ScanLoop) /\ ScanExact

LEMMA EmptyView == NoItems \in View /\ NoIterator \in Iter /\ Stored(NoItems) = {}
<1>1. NoItems \in View /\ Stored(NoItems) = {}
  BY DEF NoItems, View, Stored
<1>2. NoIterator = [view |-> NoItems, at |-> End, err |-> FALSE]
  BY DEF NoIterator, NewIterator, NoItems
<1> QED
  BY <1>1, <1>2 DEF Iter

LEMMA NewIteratorType ==
    ASSUME NEW view \in View
    PROVE  NewIterator(view) \in Iter /\ NewIterator(view).view = view
  BY DEF NewIterator, Iter

\* NewIterator and Seek: nothing is got yet.
LEMMA ScanStarts ==
    ASSUME ScanInv, NEW key \in Key, Scan(key)
    PROVE  ScanInv'
<1>1. PICK m \in Seek(NewIterator(data), key) :
          scan' = [pc |-> "loop", key |-> key, it |-> m, items |-> NoItems]
  BY DEF Scan
<1> DEFINE it == NewIterator(data)
           S == {k \in Stored(it.view) : ~Less(k, key)}
<1>2. it \in Iter /\ it.view = data
  BY NewIteratorType DEF ScanInv, ScanType
<1>3. S \subseteq Key /\ m \in Move(it, S)
  BY <1>1, StoredIsFinite DEF Seek
<1> HIDE DEF it
<1>4. /\ m \in Iter /\ m.view = data
      /\ \/ m.at = End /\ m.err = TRUE
         \/ m.at = End /\ m.err = FALSE /\ S = {}
         \/ /\ m.at \in S /\ m.at # End /\ m.err = FALSE
            /\ \A j \in S : j = m.at \/ Less(m.at, j)
  <2> HIDE DEF S
  <2> QED
    BY <1>2, <1>3, MoveIs
<1>5. data' = data
  BY DEF Scan
<1>6. ScanType'
  BY <1>1, <1>4, <1>5, EmptyView DEF ScanInv, ScanType
<1>7. /\ scan'.pc = "loop" /\ scan'.key = key /\ scan'.it = m /\ scan'.items = NoItems
  BY <1>1
<1>8. Got' = {}
  BY <1>7, EmptyView DEF Got
<1>9. Wanted' = {k \in Stored(data) : IsPrefix(key, k)}
  BY <1>4, <1>7 DEF Wanted
<1>10. Wanted' \subseteq S
  <2>1. Stored(data) \subseteq Key
    BY StoredIsFinite
  <2> QED
    BY <1>2, <1>9, <2>1, PrefixFirst
<1>11. \A a, b \in S : Less(a, b) => ~Less(b, a)
  BY <1>3, KeyOrder
<1>12. \A a \in S : ~Less(a, a)
  BY <1>3, KeyOrder
<1>13. ScanLoop'
  <2>1. Valid(m) => m.at \in Stored(data) /\ ~Less(m.at, key)
    BY <1>2, <1>4 DEF Valid
  <2>2. \A k \in Wanted' : IF Valid(m) THEN ~Less(k, m.at) ELSE m.err
    BY <1>4, <1>10, <1>11, <1>12 DEF Valid
  <2> QED
    BY <1>4, <1>7, <1>8, <2>1, <2>2 DEF ScanLoop
<1> QED
  BY <1>6, <1>7, <1>13 DEF ScanInv, ScanExact

\* The key the iterator is at is got, and the iterator goes on to the next.
LEMMA ScanGoesOn ==
    ASSUME ScanInv, ScanItem
    PROVE  ScanInv'
<1> DEFINE it == scan.it
           at == scan.it.at
           S == {k \in Stored(it.view) : Less(at, k)}
<1>1. scan.pc = "loop" /\ Valid(it) /\ IsPrefix(scan.key, at) /\ data' = data
  BY DEF ScanItem
<1>2. PICK m \in IterNext(it) :
          scan' = [scan EXCEPT !.it = m, !.items[at] = it.view[at]]
  BY DEF ScanItem
<1>3. ScanType /\ ScanLoop
  BY <1>1 DEF ScanInv
<1>4. it \in Iter /\ scan.items \in View /\ it.view \in View
  BY <1>3 DEF ScanType, Iter
<1>5. at \in Stored(it.view) /\ at \in Key /\ ~Less(at, scan.key) /\ scan.key \in Key
  BY <1>1, <1>3, StoredIsFinite DEF ScanLoop
<1>6. /\ scan'.pc = "loop" /\ scan'.key = scan.key /\ scan'.it = m
      /\ scan'.items = [scan.items EXCEPT ![at] = it.view[at]]
  BY <1>1, <1>2, <1>3 DEF ScanType
<1>7. S \subseteq Key /\ m \in Move(it, S) /\ Stored(it.view) \subseteq Key
  BY <1>2, StoredIsFinite DEF IterNext
<1>8. /\ m \in Iter /\ m.view = it.view
      /\ \/ m.at = End /\ m.err = TRUE
         \/ m.at = End /\ m.err = FALSE /\ S = {}
         \/ /\ m.at \in S /\ m.at # End /\ m.err = FALSE
            /\ \A j \in S : j = m.at \/ Less(m.at, j)
  <2> HIDE DEF S, it, at
  <2> QED
    BY <1>4, <1>7, MoveIs
<1>9. [scan.items EXCEPT ![at] = it.view[at]] \in View
  BY <1>4, <1>5 DEF View
<1>10. ScanType'
  <2>1. scan' \in [pc : {"idle", "loop", "returned"}, key : Key \cup {<<>>}, it : Iter,
                   items : View]
    <3>1. scan' = [pc |-> "loop", key |-> scan.key, it |-> m,
                   items |-> [scan.items EXCEPT ![at] = it.view[at]]]
      BY <1>1, <1>2, <1>3 DEF ScanType
    <3> HIDE DEF it, at
    <3> QED
      BY <1>5, <1>8, <1>9, <3>1
  <2> QED
    BY <1>1, <1>3, <2>1 DEF ScanType
<1>11. Wanted' = Wanted
  BY <1>6, <1>8 DEF Wanted
<1>12. Got' = Got \cup {at}
  <2>1. it.view[at] # None
    BY <1>5 DEF Stored
  <2>2. \A k \in Key : scan'.items[k] = IF k = at THEN it.view[at] ELSE scan.items[k]
    BY <1>4, <1>6 DEF View
  <2> HIDE DEF it, at
  <2> QED
    BY <1>5, <2>1, <2>2 DEF Got, Stored
<1>13. at \in Wanted
  BY <1>1, <1>5 DEF Wanted
<1>14. Got \subseteq Key /\ Wanted \subseteq Stored(it.view)
  BY DEF Got, Stored, Wanted
<1>15. ASSUME NEW k \in Got'
       PROVE  /\ k \in Wanted' /\ scan'.items[k] = scan'.it.view[k]
              /\ Valid(scan'.it) => Less(k, scan'.it.at)
  <2>1. k \in Wanted
    BY <1>3, <1>12, <1>13 DEF ScanLoop
  <2>2. scan'.items[k] = it.view[k]
    <3>1. scan.items[k] = it.view[k] \/ k = at
      BY <1>3, <1>12 DEF ScanLoop
    <3>2. k \in Key
      BY <1>7, <1>14, <2>1
    <3> HIDE DEF it, at
    <3> QED
      BY <1>4, <1>6, <3>1, <3>2 DEF View
  <2>3. k = at \/ Less(k, at)
    BY <1>1, <1>3, <1>12 DEF ScanLoop
  <2>4. ASSUME Valid(m) PROVE Less(k, m.at)
    <3>1. m.at \in S
      BY <1>8, <2>4 DEF Valid
    <3>2. m.at \in Key /\ Less(at, m.at)
      BY <1>7, <3>1
    <3>3. k \in Key
      BY <1>7, <1>14, <2>1
    <3> HIDE DEF at, S
    <3> QED
      BY <1>5, <2>3, <3>2, <3>3, KeyOrder
  <2> QED
    BY <1>6, <1>8, <1>11, <2>1, <2>2, <2>4
<1>16. ASSUME NEW k \in Wanted' \ Got'
       PROVE  /\ IF Valid(scan'.it) THEN ~Less(k, scan'.it.at) ELSE scan'.it.err
              /\ \A j \in Got' : Less(j, k)
  <2>1. k \in Wanted \ Got /\ k # at /\ k \in Stored(it.view) /\ k \in Key
    BY <1>7, <1>11, <1>12, <1>14
  <2>2. ~Less(k, at) /\ \A j \in Got : Less(j, k)
    BY <1>1, <1>3, <2>1 DEF ScanLoop
  <2>3. Less(at, k)
    <3> HIDE DEF at
    <3> QED
      BY <1>5, <2>1, <2>2, KeyOrder
  <2>4. k \in S
    BY <2>1, <2>3
  <2>5. IF Valid(m) THEN ~Less(k, m.at) ELSE m.err
    <3>1. CASE m.at = End
      BY <1>8, <2>4, <3>1 DEF Valid
    <3>2. CASE m.at # End
      <4>1. m.at \in S /\ (k = m.at \/ Less(m.at, k))
        BY <1>8, <2>4, <3>2
      <4>2. m.at \in Key
        BY <1>7, <4>1
      <4>3. ~Less(k, m.at)
        BY <2>1, <4>1, <4>2, KeyOrder
      <4> QED
        BY <3>2, <4>3 DEF Valid
    <3> QED
      BY <3>1, <3>2
  <2> QED
    BY <1>6, <1>12, <2>2, <2>3, <2>5
<1>17. Valid(m) => m.at \in Stored(m.view) /\ ~Less(m.at, scan.key)
  <2> SUFFICES ASSUME Valid(m) PROVE m.at \in Stored(it.view) /\ ~Less(m.at, scan.key)
    BY <1>8
  <2>1. m.at \in Stored(it.view) /\ m.at \in Key /\ Less(at, m.at)
    BY <1>7, <1>8 DEF Valid
  <2> HIDE DEF at
  <2>2. ~Less(m.at, scan.key)
    BY <1>5, <2>1, KeyOrder
  <2> QED
    BY <2>1, <2>2
<1>18. ScanLoop'
  <2>1. scan'.key \in Key
    BY <1>5, <1>6
  <2>2. Valid(scan'.it) => scan'.it.at \in Stored(scan'.it.view) /\ ~Less(scan'.it.at, scan'.key)
    BY <1>6, <1>17
  <2> QED
    BY <1>15, <1>16, <2>1, <2>2 DEF ScanLoop
<1> QED
  BY <1>6, <1>10, <1>18 DEF ScanInv, ScanExact

\* The loop ends: at a key without the prefix there are no more with it.
LEMMA ScanEnds ==
    ASSUME ScanInv, ScanReturns
    PROVE  ScanInv'
<1>1. /\ scan.pc = "loop" /\ scan' = [scan EXCEPT !.pc = "returned"] /\ data' = data
      /\ Valid(scan.it) => ~IsPrefix(scan.key, scan.it.at)
  BY DEF ScanReturns
<1>2. ScanType /\ ScanLoop
  BY <1>1 DEF ScanInv
<1>3. /\ scan'.pc = "returned" /\ scan'.key = scan.key /\ scan'.it = scan.it
      /\ scan'.items = scan.items
  BY <1>1, <1>2 DEF ScanType
<1>4. ScanType'
  BY <1>1, <1>2 DEF ScanType
<1>5. Stored(scan.it.view) \subseteq Key
  BY StoredIsFinite
<1>6. ASSUME NEW k \in Wanted \ Got
      PROVE  scan.it.err /\ \A j \in Got : Less(j, k)
  <2>1. CASE ~Valid(scan.it)
    BY <1>2, <2>1 DEF ScanLoop
  <2>2. CASE Valid(scan.it)
    <3>1. ~Less(k, scan.it.at)
      BY <1>2, <2>2 DEF ScanLoop
    <3>2. /\ scan.it.at \in Stored(scan.it.view) /\ ~Less(scan.it.at, scan.key)
          /\ scan.key \in Key
      BY <1>2, <2>2 DEF ScanLoop
    <3>3. k \in Stored(scan.it.view) /\ IsPrefix(scan.key, k)
      BY DEF Wanted
    <3>4. k # scan.it.at
      BY <1>1, <2>2, <3>3
    <3>5. Less(scan.it.at, k)
      BY <1>5, <3>1, <3>2, <3>3, <3>4, KeyOrder
    <3>6. IsPrefix(scan.key, scan.it.at)
      BY <1>5, <3>2, <3>3, <3>5, PrefixTogether
    <3> QED
      BY <1>1, <2>2, <3>6
  <2> QED
    BY <2>1, <2>2
<1>7. Got \subseteq Wanted /\ \A k \in Got : scan.items[k] = scan.it.view[k]
  BY <1>2 DEF ScanLoop
<1>8. ScanExact'
  BY <1>3, <1>6, <1>7 DEF ScanExact, Wanted, Got
<1> QED
  BY <1>3, <1>4, <1>8 DEF ScanInv

LEMMA ScanKept == ScanInv /\ [Next]_vars => ScanInv'
<1> SUFFICES ASSUME ScanInv, [Next]_vars PROVE ScanInv'
  OBVIOUS
<1>1. CASE UNCHANGED <<data, scan>>
  BY <1>1 DEF ScanInv, ScanType, ScanLoop, ScanExact, Wanted, Got
<1>2. ASSUME NEW puts \in View, Update(puts) PROVE ScanInv'
  <2>1. data' \in View /\ scan' = scan
    BY <1>2 DEF Update, View, ScanInv, ScanType, scanVars
  <2> QED
    BY <2>1 DEF ScanInv, ScanType, ScanLoop, ScanExact, Wanted, Got
<1>3. CASE ScanOver
  <2>1. data' = data /\ scan' = [pc |-> "idle", key |-> <<>>, it |-> NoIterator, items |-> NoItems]
    BY <1>3 DEF ScanOver
  <2> QED
    BY <2>1, EmptyView DEF ScanInv, ScanType, ScanExact
<1>4. CASE Saves
  BY <1>1, <1>4 DEF Saves, PrepareSnapshot, SaveBegins, CountKey, WriteCount, WriteItem,
                    SaveReturns, WriteFails, scanVars
<1>5. CASE Recovers
  BY <1>1, <1>5 DEF Recovers, RecoverBegins, RecoverItem, RecoverFails, RecoverReturns, scanVars
<1>6. CASE UNCHANGED vars
  BY <1>1, <1>6 DEF vars
<1> QED
  BY <1>2, <1>3, <1>4, <1>5, <1>6, ScanStarts, ScanGoesOn, ScanEnds DEF Next, Scans

LEMMA ScanInvariance == Spec => []ScanInv
<1>1. Init => ScanInv
  BY EmptyView DEF Init, ScanInv, ScanType, ScanExact
<1> QED
  BY <1>1, ScanKept, PTL DEF Spec

\* SCAN returns the pairs of its prefix as one state had them, over every
\* set of keys and whatever is updated meanwhile; a read error only cuts
\* off the last of them (commander.go 338-358).
THEOREM ScansAreExact == Spec => []ScanExact
<1>1. ScanInv => ScanExact
  BY DEF ScanInv
<1> QED
  BY <1>1, ScanInvariance, PTL

-------------------------------------------------------------------------------
(***************************************************************************)
(* saveToWriter.                                                           *)
(***************************************************************************)
Pair == [key : Key, val : Val]
Word == [count : Nat] \cup Pair \cup [size : Pair]

SaveType ==
    /\ data \in View
    /\ save \in [pc : {"idle", "prepared", "count", "items", "saved", "failed"},
                 who : {"nobody", "SaveSnapshot", "GetHash"}, ss : View, it : Iter, count : Nat]
    /\ stream \in Seq(Word)

\* Both passes go over the snapshot.
OnSnapshot ==
    save.pc \in {"count", "items"} =>
        /\ save.it.view = save.ss
        /\ Valid(save.it) => save.it.at \in Stored(save.ss)

\* The count is that of the keys the first pass has had.
Counted ==
    "count" \notin cut =>
        /\ save.pc = "count" => save.count = Cardinality(Passed(save.it))
        /\ save.pc \in {"items", "saved"} => save.count = Cardinality(Stored(save.ss))

\* The stream is the count and the first w pairs.
Written(w) ==
    /\ Len(stream) = 2 * w + 1 /\ stream[1] = Count(save.count)
    /\ \A r \in 0..(w - 1) :
          \E k \in Stored(save.ss) :
              /\ Rank(save.ss, k) = r
              /\ stream[2 * r + 2] = Size(Item(k, save.ss[k]))
              /\ stream[2 * r + 3] = Item(k, save.ss[k])

\* The stream holds the pairs the second pass has had: all of them when it
\* ends without a read error.
Streamed ==
    save.pc \in {"items", "saved"} =>
        \E w \in Nat :
            /\ Written(w)
            /\ save.pc = "items" /\ (Valid(save.it) \/ "items" \notin cut)
                  => w = Cardinality(Passed(save.it))
            /\ save.pc = "saved" /\ "items" \notin cut => w = Cardinality(Stored(save.ss))

SaveInv == SaveType /\ OnSnapshot /\ Counted /\ Streamed

LEMMA PassedIsFinite ==
    ASSUME NEW it
    PROVE  IsFiniteSet(Passed(it)) /\ Cardinality(Passed(it)) \in Nat
<1>1. Passed(it) \in SUBSET Stored(it.view)
  BY DEF Passed
<1>2. IsFiniteSet(Passed(it))
  BY <1>1, StoredIsFinite, FS_Subset
<1> QED
  BY <1>2, FS_CardinalityType

\* One more key has been had.
LEMMA PassCounts ==
    ASSUME NEW it \in Iter, Valid(it), it.at \in Stored(it.view), NEW m \in IterNext(it),
           Valid(m) \/ ~m.err
    PROVE  Cardinality(Passed(m)) = Cardinality(Passed(it)) + 1
<1>1. Passed(m) = Passed(it) \cup {it.at} /\ it.at \notin Passed(it)
  BY PassGoesOn
<1> QED
  BY <1>1, PassedIsFinite, FS_AddElement

LEMMA RankOfCurrent ==
    ASSUME NEW it \in Iter, Valid(it), it.at \in Stored(it.view)
    PROVE  Rank(it.view, it.at) = Cardinality(Passed(it))
  BY DEF Rank, Passed

\* A snapshot is prepared, or the first pass begins.
LEMMA SaveStarts ==
    ASSUME SaveInv, SaveBegins \/ \E who \in {"SaveSnapshot", "GetHash"} : PrepareSnapshot(who)
    PROVE  SaveInv'
<1>1. ASSUME NEW who \in {"SaveSnapshot", "GetHash"}, PrepareSnapshot(who) PROVE SaveInv'
  <2>1. /\ save' = [save EXCEPT !.pc = "prepared", !.who = who, !.ss = data]
        /\ data' = data /\ stream' = stream /\ cut' = cut
    BY <1>1 DEF PrepareSnapshot
  <2>2. SaveType'
    BY <2>1 DEF SaveInv, SaveType
  <2>3. save'.pc = "prepared"
    BY <2>1 DEF SaveInv, SaveType
  <2> QED
    BY <2>2, <2>3 DEF SaveInv, OnSnapshot, Counted, Streamed
<1>2. CASE SaveBegins
  <2> DEFINE it0 == NewIterator(save.ss)
  <2>1. PICK m \in SeekToFirst(it0) :
            /\ save' = [save EXCEPT !.pc = "count", !.it = m, !.count = 0]
            /\ cut' = IF m.err THEN cut \cup {"count"} ELSE cut
    BY <1>2 DEF SaveBegins, Saving, Cut
  <2>2. data' = data /\ stream' = stream
    BY <1>2 DEF SaveBegins
  <2>3. it0 \in Iter /\ it0.view = save.ss
    BY NewIteratorType DEF SaveInv, SaveType
  <2> HIDE DEF it0
  <2>4. /\ m \in Iter /\ m.view = save.ss /\ (Valid(m) => m.at \in Stored(m.view))
        /\ (Valid(m) \/ ~m.err => Passed(m) = {})
    BY <2>3, PassBegins
  <2>5. SaveType'
    BY <2>1, <2>2, <2>4 DEF SaveInv, SaveType
  <2>6. save'.pc = "count" /\ save'.it = m /\ save'.count = 0 /\ save'.ss = save.ss
    BY <2>1 DEF SaveInv, SaveType
  <2>7. OnSnapshot'
    BY <2>4, <2>6 DEF OnSnapshot
  <2>8. Counted'
    <3> SUFFICES ASSUME "count" \notin cut' PROVE save'.count = Cardinality(Passed(save'.it))
      BY <2>6 DEF Counted
    <3>1. ~m.err
      BY <2>1
    <3>2. Passed(m) = {}
      BY <2>4, <3>1
    <3> QED
      BY <2>6, <3>2, FS_EmptySet
  <2> QED
    BY <2>5, <2>6, <2>7, <2>8 DEF SaveInv, Streamed
<1> QED
  BY <1>1, <1>2

\* A key is counted.
LEMMA CountKeepsInv ==
    ASSUME SaveInv, CountKey
    PROVE  SaveInv'
<1> DEFINE it == save.it
<1>1. PICK m \in IterNext(it) :
          /\ save' = [save EXCEPT !.pc = "count", !.it = m, !.count = save.count + 1]
          /\ cut' = IF m.err THEN cut \cup {"count"} ELSE cut
  BY DEF CountKey, Saving, Cut
<1>2. save.pc = "count" /\ Valid(it) /\ data' = data /\ stream' = stream
  BY DEF CountKey
<1>3. it \in Iter /\ it.view = save.ss /\ it.at \in Stored(it.view)
  BY <1>2 DEF SaveInv, SaveType, OnSnapshot
<1> HIDE DEF it
<1>4. m \in Iter /\ m.view = save.ss /\ (Valid(m) => m.at \in Stored(m.view))
  BY <1>2, <1>3, PassGoesOn
<1>5. /\ save'.pc = "count" /\ save'.it = m /\ save'.count = save.count + 1
      /\ save'.ss = save.ss
  BY <1>1 DEF SaveInv, SaveType
<1>6. SaveType'
  <2> DEFINE more == save.count + 1
  <2>1. more \in Nat
    BY DEF SaveInv, SaveType
  <2>2. save' = [save EXCEPT !.pc = "count", !.it = m, !.count = more]
    BY <1>1
  <2> HIDE DEF more
  <2> QED
    BY <1>2, <1>4, <2>1, <2>2 DEF SaveInv, SaveType
<1>7. OnSnapshot'
  BY <1>4, <1>5 DEF OnSnapshot
<1>8. Counted'
  <2> SUFFICES ASSUME "count" \notin cut' PROVE save'.count = Cardinality(Passed(save'.it))
    BY <1>5 DEF Counted
  <2>1. ~m.err /\ "count" \notin cut
    BY <1>1
  <2>2. save.count = Cardinality(Passed(it))
    BY <1>2, <2>1 DEF SaveInv, Counted, it
  <2>3. Cardinality(Passed(m)) = Cardinality(Passed(it)) + 1
    BY <1>2, <1>3, <2>1, PassCounts
  <2> QED
    BY <1>5, <2>2, <2>3
<1> QED
  BY <1>5, <1>6, <1>7, <1>8 DEF SaveInv, Streamed

\* The count is written and the second pass begins.
LEMMA WriteCountKeepsInv ==
    ASSUME SaveInv, WriteCount
    PROVE  SaveInv'
<1> DEFINE it == save.it
<1>1. PICK m \in SeekToFirst(it) :
          /\ save' = [save EXCEPT !.pc = "items", !.it = m, !.count = save.count]
          /\ cut' = IF m.err THEN cut \cup {"items"} ELSE cut
  BY DEF WriteCount, Saving, Cut
<1>2. /\ save.pc = "count" /\ ~Valid(it) /\ data' = data
      /\ stream' = <<Count(save.count)>>
  BY DEF WriteCount
<1>3. it \in Iter /\ it.view = save.ss /\ save.count \in Nat
  BY <1>2 DEF SaveInv, SaveType, OnSnapshot
<1>4. Passed(it) = Stored(save.ss)
  BY <1>2, <1>3 DEF Passed
<1> HIDE DEF it
<1>5. /\ m \in Iter /\ m.view = save.ss /\ (Valid(m) => m.at \in Stored(m.view))
      /\ (Valid(m) \/ ~m.err => Passed(m) = {})
  BY <1>3, PassBegins
<1>6. /\ save'.pc = "items" /\ save'.it = m /\ save'.count = save.count
      /\ save'.ss = save.ss
  BY <1>1 DEF SaveInv, SaveType
<1>7. Count(save.count) \in Word
  BY <1>3 DEF Count, Word
<1>8. SaveType'
  <2>1. stream' \in Seq(Word)
    BY <1>2, <1>7
  <2> QED
    BY <1>1, <1>2, <1>5, <2>1 DEF SaveInv, SaveType
<1>9. OnSnapshot'
  BY <1>5, <1>6 DEF OnSnapshot
<1>10. Counted'
  <2> SUFFICES ASSUME "count" \notin cut' PROVE save'.count = Cardinality(Stored(save'.ss))
    BY <1>6 DEF Counted
  <2>1. "count" \notin cut
    BY <1>1
  <2> QED
    BY <1>2, <1>4, <1>6, <2>1 DEF SaveInv, Counted, it
<1>11. Streamed'
  <2>1. Written(0)'
    <3>1. Len(stream') = 1 /\ stream'[1] = Count(save'.count)
      BY <1>2, <1>6
    <3> QED
      BY <3>1 DEF Written
  <2>2. Valid(m) \/ "items" \notin cut' => 0 = Cardinality(Passed(m))
    BY <1>1, <1>5, FS_EmptySet
  <2> QED
    BY <1>6, <2>1, <2>2 DEF Streamed
<1> QED
  BY <1>8, <1>9, <1>10, <1>11 DEF SaveInv

LEMMA TwoMore ==
    ASSUME NEW S, NEW s \in Seq(S), NEW a \in S, NEW b \in S
    PROVE  /\ Len(s \o <<a, b>>) = Len(s) + 2
           /\ \A i \in 1..Len(s) : (s \o <<a, b>>)[i] = s[i]
           /\ (s \o <<a, b>>)[Len(s) + 1] = a /\ (s \o <<a, b>>)[Len(s) + 2] = b
  OBVIOUS

\* A pair is written: the one whose rank is the number of those before it.
LEMMA WriteItemKeepsInv ==
    ASSUME SaveInv, WriteItem
    PROVE  SaveInv'
<1> DEFINE it == save.it
           at == save.it.at
           item == Item(at, it.view[at])
<1>1. PICK m \in IterNext(it) :
          /\ save' = [save EXCEPT !.pc = "items", !.it = m, !.count = save.count]
          /\ cut' = IF m.err THEN cut \cup {"items"} ELSE cut
  BY DEF WriteItem, Saving, Cut
<1>2. /\ save.pc = "items" /\ Valid(it) /\ data' = data
      /\ stream' = stream \o <<Size(item), item>>
  BY DEF WriteItem
<1>3. /\ it \in Iter /\ it.view = save.ss /\ at \in Stored(it.view)
      /\ save.ss \in View /\ stream \in Seq(Word)
  BY <1>2 DEF SaveInv, SaveType, OnSnapshot
<1>4. m \in Iter /\ m.view = save.ss /\ (Valid(m) => m.at \in Stored(m.view))
  <2> HIDE DEF it
  <2> QED
    BY <1>2, <1>3, PassGoesOn DEF it
<1>5. /\ save'.pc = "items" /\ save'.it = m /\ save'.count = save.count
      /\ save'.ss = save.ss
  BY <1>1 DEF SaveInv, SaveType
<1>6. item \in Word /\ Size(item) \in Word
  <2>1. at \in Key /\ it.view[at] \in Val
    BY <1>3 DEF Stored, View
  <2>2. item \in Pair
    BY <2>1 DEF Item, Pair
  <2> QED
    BY <2>2 DEF Size, Word
<1> HIDE DEF it, at, item
<1>7. SaveType'
  <2>1. stream' \in Seq(Word)
    BY <1>2, <1>3, <1>6
  <2> QED
    BY <1>1, <1>2, <1>4, <2>1 DEF SaveInv, SaveType
<1>8. OnSnapshot'
  BY <1>4, <1>5 DEF OnSnapshot
<1>9. Counted'
  <2>1. "count" \notin cut' => "count" \notin cut
    BY <1>1
  <2> QED
    BY <1>2, <1>5, <2>1 DEF SaveInv, Counted
<1>10. Streamed'
  <2>1. PICK w \in Nat : Written(w) /\ w = Cardinality(Passed(it))
    BY <1>2 DEF SaveInv, Streamed, it
  <2>2. /\ Len(stream) = 2 * w + 1
        /\ \A r \in 0..(w - 1) :
              \E k \in Stored(save.ss) :
                  /\ Rank(save.ss, k) = r
                  /\ stream[2 * r + 2] = Size(Item(k, save.ss[k]))
                  /\ stream[2 * r + 3] = Item(k, save.ss[k])
        /\ stream[1] = Count(save.count)
    BY <2>1 DEF Written
  <2>3. Rank(save.ss, at) = w /\ item = Item(at, save.ss[at]) /\ at \in Stored(save.ss)
    BY <1>2, <1>3, <2>1, RankOfCurrent DEF it, at, item
  <2>4. /\ Len(stream') = 2 * w + 3
        /\ \A i \in 1..(2 * w + 1) : stream'[i] = stream[i]
        /\ stream'[2 * w + 2] = Size(item) /\ stream'[2 * w + 3] = item
    <3>1. /\ Len(stream') = Len(stream) + 2
          /\ \A i \in 1..Len(stream) : stream'[i] = stream[i]
          /\ stream'[Len(stream) + 1] = Size(item) /\ stream'[Len(stream) + 2] = item
      BY <1>2, <1>3, <1>6, TwoMore
    <3>2. Len(stream) + 1 = 2 * w + 2 /\ Len(stream) + 2 = 2 * w + 3
      BY <2>2
    <3> QED
      BY <2>2, <3>1, <3>2
  <2>5. ASSUME NEW r \in 0..w
        PROVE  \E k \in Stored(save.ss) :
                  /\ Rank(save.ss, k) = r
                  /\ stream'[2 * r + 2] = Size(Item(k, save.ss[k]))
                  /\ stream'[2 * r + 3] = Item(k, save.ss[k])
    <3>1. CASE r = w
      BY <2>3, <2>4, <3>1
    <3>2. CASE r # w
      <4>1. /\ r \in 0..(w - 1) /\ 2 * r + 2 \in 1..(2 * w + 1)
            /\ 2 * r + 3 \in 1..(2 * w + 1)
        BY <3>2
      <4>2. stream'[2 * r + 2] = stream[2 * r + 2] /\ stream'[2 * r + 3] = stream[2 * r + 3]
        BY <2>4, <4>1
      <4> QED
        BY <2>2, <4>1, <4>2
    <3> QED
      BY <3>1, <3>2
  <2>6. Written(w + 1)'
    <3>1. Len(stream') = 2 * (w + 1) + 1 /\ (w + 1) - 1 = w
      BY <2>4
    <3>2. stream'[1] = Count(save'.count)
      BY <1>5, <2>2, <2>4
    <3> QED
      BY <1>5, <2>5, <3>1, <3>2 DEF Written
  <2>7. Valid(m) \/ "items" \notin cut' => w + 1 = Cardinality(Passed(m))
    <3> SUFFICES ASSUME Valid(m) \/ ~m.err PROVE Cardinality(Passed(m)) = w + 1
      BY <1>1
    <3>1. it.at \in Stored(it.view)
      BY <1>3 DEF at, it
    <3> QED
      BY <1>2, <1>3, <2>1, <3>1, PassCounts
  <2>8. w + 1 \in Nat
    OBVIOUS
  <2> QED
    BY <1>5, <2>6, <2>7, <2>8 DEF Streamed
<1> QED
  BY <1>7, <1>8, <1>9, <1>10 DEF SaveInv

\* The second pass is over.
LEMMA SaveReturnsKeepsInv ==
    ASSUME SaveInv, SaveReturns
    PROVE  SaveInv'
<1>1. /\ save' = [save EXCEPT !.pc = "saved", !.it = NoIterator, !.count = save.count]
      /\ save.pc = "items" /\ ~Valid(save.it)
      /\ data' = data /\ stream' = stream /\ cut' = cut
  BY DEF SaveReturns, Saving
<1>2. save'.pc = "saved" /\ save'.count = save.count /\ save'.ss = save.ss
  BY <1>1 DEF SaveInv, SaveType
<1>3. SaveType'
  BY <1>1, EmptyView DEF SaveInv, SaveType
<1>4. Counted'
  BY <1>1, <1>2 DEF SaveInv, Counted
<1>5. Passed(save.it) = Stored(save.ss)
  BY <1>1 DEF SaveInv, OnSnapshot, Passed
<1>6. PICK w \in Nat : Written(w) /\ ("items" \notin cut => w = Cardinality(Passed(save.it)))
  BY <1>1 DEF SaveInv, Streamed
<1>7. Written(w)'
  BY <1>1, <1>2, <1>6 DEF Written
<1>8. Streamed'
  BY <1>1, <1>2, <1>5, <1>6, <1>7 DEF Streamed
<1> QED
  BY <1>2, <1>3, <1>4, <1>8 DEF SaveInv, OnSnapshot

\* A Write fails: nothing is promised of what is there of the stream.
LEMMA WriteFailsKeepsInv ==
    ASSUME SaveInv, WriteFails
    PROVE  SaveInv'
<1>1. save' = [save EXCEPT !.pc = "failed", !.it = NoIterator, !.count = save.count] /\ data' = data
  BY DEF WriteFails, Saving
<1>2. save'.pc = "failed"
  BY <1>1 DEF SaveInv, SaveType
<1>3. stream' \in Seq(Word)
  <2> DEFINE pair == Item(save.it.at, save.it.view[save.it.at])
  <2>1. CASE stream' = stream
    BY <2>1 DEF SaveInv, SaveType
  <2>2. CASE save.pc = "items" /\ Valid(save.it) /\ stream' = Append(stream, Size(pair))
    <3>1. save.it.at \in Stored(save.ss) /\ save.it.view = save.ss /\ save.ss \in View
      BY <2>2 DEF SaveInv, SaveType, OnSnapshot
    <3>2. pair \in Pair
      BY <3>1 DEF Stored, View, Item, Pair
    <3>3. Size(pair) \in Word
      BY <3>2 DEF Size, Word
    <3> HIDE DEF pair
    <3> QED
      BY <2>2, <3>3 DEF SaveInv, SaveType
  <2> QED
    BY <2>1, <2>2 DEF WriteFails
<1>4. SaveType'
  BY <1>1, <1>3, EmptyView DEF SaveInv, SaveType
<1> QED
  BY <1>2, <1>4 DEF SaveInv, OnSnapshot, Counted, Streamed

LEMMA SaveKept == SaveInv /\ [Next]_vars => SaveInv'
<1> SUFFICES ASSUME SaveInv, [Next]_vars PROVE SaveInv'
  OBVIOUS
<1>1. ASSUME UNCHANGED <<save, stream, cut>>, data' \in View PROVE SaveInv'
  <2>1. SaveType' /\ OnSnapshot' /\ Counted'
    BY <1>1 DEF SaveInv, SaveType, OnSnapshot, Counted
  <2>2. \A w \in Nat : Written(w)' <=> Written(w)
    BY <1>1 DEF Written
  <2>3. Streamed'
    BY <1>1, <2>2 DEF SaveInv, Streamed
  <2> QED
    BY <2>1, <2>3 DEF SaveInv
<1>2. data \in View
  BY DEF SaveInv, SaveType
<1>3. ASSUME NEW puts \in View, Update(puts) PROVE SaveInv'
  <2>1. data' \in View
    BY <1>2, <1>3 DEF Update, View
  <2> QED
    BY <1>1, <1>3, <2>1 DEF Update, saveVars
<1>4. CASE Scans
  BY <1>1, <1>2, <1>4 DEF Scans, Scan, ScanItem, ScanReturns, ScanOver, saveVars
<1>5. CASE Recovers
  BY <1>1, <1>2, <1>5 DEF Recovers, RecoverBegins, RecoverItem, RecoverFails, RecoverReturns,
                          saveVars
<1>6. CASE UNCHANGED vars
  BY <1>1, <1>2, <1>6 DEF vars
<1>7. CASE Saves
  BY <1>7, SaveStarts, CountKeepsInv, WriteCountKeepsInv, WriteItemKeepsInv,
     SaveReturnsKeepsInv, WriteFailsKeepsInv DEF Saves
<1> QED
  BY <1>3, <1>4, <1>5, <1>6, <1>7 DEF Next

LEMMA SaveInvariance == Spec => []SaveInv
<1>1. Init => SaveInv
  BY EmptyView DEF Init, SaveInv, SaveType, OnSnapshot, Counted, Streamed
<1> QED
  BY <1>1, SaveKept, PTL DEF Spec

\* A stream of all the pairs is what the state is encoded to.
LEMMA WrittenIsEncoded ==
    ASSUME SaveInv, save.count = Cardinality(Stored(save.ss)), Written(save.count)
    PROVE  stream = Encoded(save.ss)
<1> DEFINE n == Cardinality(Stored(save.ss))
           E == Encoded(save.ss)
<1>1. n \in Nat /\ stream \in Seq(Word)
  BY StoredIsFinite DEF SaveInv, SaveType
<1>2. /\ Len(stream) = 2 * n + 1 /\ stream[1] = Count(n)
      /\ \A r \in 0..(n - 1) :
            \E k \in Stored(save.ss) :
                /\ Rank(save.ss, k) = r
                /\ stream[2 * r + 2] = Size(Item(k, save.ss[k]))
                /\ stream[2 * r + 3] = Item(k, save.ss[k])
  BY DEF Written
<1>3. E = [i \in 1..(2 * n + 1) |->
              IF i = 1 THEN Count(n)
              ELSE IF i % 2 = 0
                   THEN Size(Item(Nth(save.ss, (i - 2) \div 2), save.ss[Nth(save.ss, (i - 2) \div 2)]))
                   ELSE Item(Nth(save.ss, (i - 2) \div 2), save.ss[Nth(save.ss, (i - 2) \div 2)])]
  BY DEF Encoded
<1> HIDE DEF n, E
<1>4. ASSUME NEW i \in 1..(2 * n + 1)
      PROVE  stream[i] = E[i]
  <2>1. CASE i = 1
    BY <1>2, <1>3, <1>4, <2>1
  <2>2. CASE i # 1
    <3> DEFINE r == (i - 2) \div 2
               k == Nth(save.ss, r)
    <3>1. /\ r \in 0..(n - 1)
          /\ i % 2 = 0 => i = 2 * r + 2
          /\ i % 2 # 0 => i = 2 * r + 3
      BY <1>1, <1>4, <2>2
    <3> HIDE DEF r
    <3>2. PICK j \in Stored(save.ss) :
              /\ Rank(save.ss, j) = r
              /\ stream[2 * r + 2] = Size(Item(j, save.ss[j]))
              /\ stream[2 * r + 3] = Item(j, save.ss[j])
      BY <1>2, <3>1
    <3>3. k = j
      BY <3>2, RankFacts
    <3>4. E[i] = IF i % 2 = 0 THEN Size(Item(k, save.ss[k])) ELSE Item(k, save.ss[k])
      BY <1>3, <1>4, <2>2 DEF r
    <3> HIDE DEF k
    <3>5. CASE i % 2 = 0
      BY <3>1, <3>2, <3>3, <3>4, <3>5
    <3>6. CASE i % 2 # 0
      BY <3>1, <3>2, <3>3, <3>4, <3>6
    <3> QED
      BY <3>5, <3>6
  <2> QED
    BY <2>1, <2>2
<1>5. DOMAIN E = 1..(2 * n + 1) /\ E = [i \in DOMAIN E |-> E[i]]
  BY <1>3
<1>6. DOMAIN stream = 1..(2 * n + 1) /\ stream = [i \in DOMAIN stream |-> stream[i]]
  BY <1>1, <1>2
<1> QED
  BY <1>4, <1>5, <1>6 DEF E

\* saveToWriter makes of every state the one stream that state encodes to,
\* whatever is updated during its two passes, as long as no read fails:
\* replicas that have the same pairs have the same hash (commander.go
\* 442-477).
THEOREM SavesTheSnapshot == Spec => []SavedIsSnapshot
<1>1. SaveInv => SavedIsSnapshot
  <2> SUFFICES ASSUME SaveInv, save.pc = "saved", cut = {} PROVE stream = Encoded(save.ss)
    BY DEF SavedIsSnapshot
  <2>1. save.count = Cardinality(Stored(save.ss))
    BY DEF SaveInv, Counted
  <2>2. PICK w \in Nat : Written(w) /\ w = Cardinality(Stored(save.ss))
    BY DEF SaveInv, Streamed
  <2> QED
    BY <2>1, <2>2, WrittenIsEncoded
<1> QED
  BY <1>1, SaveInvariance, PTL

-------------------------------------------------------------------------------
(***************************************************************************)
(* RecoverFromSnapshot.                                                    *)
(***************************************************************************)

\* The first r pairs of a state.
FirstPairs(view, r) ==
    [k \in Key |-> IF k \in Stored(view) /\ Rank(view, k) < r THEN view[k] ELSE None]

RecType ==
    rec \in [pc : {"idle", "items", "failed", "recovered"}, rest : Seq(Word), left : Nat,
             wb : View]

\* Of the saved stream the first pairs are in the batch, the next ones are
\* still to be read, and some at the end may be lost.
Reading(r) ==
    /\ rec.left + r = save.count
    /\ rec.wb = FirstPairs(save.ss, r)
    /\ Len(rec.rest) + 2 * r + 1 <= Len(stream)
    /\ \A i \in 1..Len(rec.rest) : rec.rest[i] = stream[2 * r + 1 + i]

RecInv ==
    /\ RecType
    /\ rec.pc \in {"items", "recovered"} => save.pc = "saved"
    /\ rec.pc = "items" => \E r \in Nat : Reading(r)
    /\ RecoverAllOrNothing

LEMMA FirstPairsType ==
    ASSUME NEW view \in View, NEW r
    PROVE  FirstPairs(view, r) \in View
  BY DEF FirstPairs, View

LEMMA NoPairs ==
    ASSUME NEW view \in View
    PROVE  FirstPairs(view, 0) = NoBatch
<1>1. \A k \in Stored(view) : ~ (Rank(view, k) < 0)
  BY RankFacts
<1> QED
  BY <1>1 DEF FirstPairs, NoBatch

LEMMA AllPairs ==
    ASSUME NEW view \in View
    PROVE  FirstPairs(view, Cardinality(Stored(view))) = view
<1>1. \A k \in Stored(view) : Rank(view, k) < Cardinality(Stored(view))
  BY RankFacts
<1>2. \A k \in Key : k \notin Stored(view) => view[k] = None
  BY DEF Stored
<1>3. view = [k \in Key |-> view[k]]
  BY DEF View
<1> QED
  BY <1>1, <1>2, <1>3 DEF FirstPairs

LEMMA OneMorePair ==
    ASSUME NEW view \in View, NEW r \in Nat, NEW k \in Stored(view), Rank(view, k) = r
    PROVE  [FirstPairs(view, r) EXCEPT ![k] = view[k]] = FirstPairs(view, r + 1)
<1>1. \A j \in Stored(view) : Rank(view, j) \in Nat /\ (Rank(view, j) = r => j = k)
  BY RankFacts
<1>2. \A j \in Stored(view) : Rank(view, j) < r + 1 <=> Rank(view, j) < r \/ j = k
  BY <1>1
<1>3. k \in Key
  BY StoredIsFinite
<1> QED
  BY <1>2, <1>3 DEF FirstPairs

\* The count is read, of a stream that may have lost its end.
LEMMA RecoverStarts ==
    ASSUME SaveInv, RecInv, RecoverBegins
    PROVE  RecInv'
<1>1. /\ rec.pc = "idle" /\ save.pc = "saved"
      /\ save' = save /\ stream' = stream /\ cut' = cut /\ other' = other
  BY DEF RecoverBegins, saveVars
<1>2. PICK n \in 0..Len(stream) :
          IF n = 0 THEN Recovering("failed", <<>>, 0, NoBatch)
          ELSE Recovering("items", SubSeq(stream, 2, n), stream[1].count, NoBatch)
  BY DEF RecoverBegins
<1>3. stream \in Seq(Word) /\ save.ss \in View /\ save.count \in Nat
  BY DEF SaveInv, SaveType
<1>4. NoBatch \in View
  BY DEF NoBatch, View
<1>5. Stored(other) = {}
  BY <1>1 DEF RecInv, RecoverAllOrNothing
<1>6. CASE n = 0
  <2>1. rec' = [pc |-> "failed", rest |-> <<>>, left |-> 0, wb |-> NoBatch]
    BY <1>2, <1>6 DEF Recovering
  <2> QED
    BY <1>1, <1>4, <1>5, <2>1 DEF RecInv, RecType, RecoverAllOrNothing
<1>7. CASE n # 0
  <2>1. stream[1].count = save.count
    BY <1>1 DEF SaveInv, Streamed, Written, Count
  <2>2. rec' = [pc |-> "items", rest |-> SubSeq(stream, 2, n), left |-> save.count, wb |-> NoBatch]
    BY <1>2, <1>7, <2>1 DEF Recovering
  <2>3. /\ SubSeq(stream, 2, n) \in Seq(Word) /\ Len(SubSeq(stream, 2, n)) = n - 1
        /\ \A i \in 1..(n - 1) : SubSeq(stream, 2, n)[i] = stream[1 + i]
    BY <1>3, <1>7
  <2>4. RecType'
    BY <1>3, <1>4, <2>2, <2>3 DEF RecType
  <2>5. /\ rec'.pc = "items" /\ rec'.left = save.count /\ rec'.wb = NoBatch
        /\ rec'.rest = SubSeq(stream, 2, n)
    BY <2>2
  <2>6. Reading(0)'
    <3>1. rec'.left + 0 = save'.count
      BY <1>1, <1>3, <2>5
    <3>2. rec'.wb = FirstPairs(save'.ss, 0)
      BY <1>1, <1>3, <2>5, NoPairs
    <3>3. Len(rec'.rest) + 2 * 0 + 1 <= Len(stream')
      BY <1>1, <1>3, <1>7, <2>3, <2>5
    <3>4. \A i \in 1..Len(rec'.rest) : rec'.rest[i] = stream'[2 * 0 + 1 + i]
      BY <1>1, <2>3, <2>5
    <3> QED
      BY <3>1, <3>2, <3>3, <3>4 DEF Reading
  <2> QED
    BY <1>1, <1>5, <2>4, <2>5, <2>6 DEF RecInv, RecoverAllOrNothing
<1> QED
  BY <1>6, <1>7

\* A pair is read: the next one of the state.
LEMMA RecoverGoesOn ==
    ASSUME SaveInv, RecInv, RecoverItem
    PROVE  RecInv'
<1> DEFINE rest == rec.rest
           item == rec.rest[2]
           tail == SubSeq(rec.rest, 3, Len(rec.rest))
<1>1. /\ rec.pc = "items" /\ rec.left > 0 /\ Len(rest) >= 2
      /\ rec' = [pc |-> "items", rest |-> tail, left |-> rec.left - 1,
                 wb |-> [rec.wb EXCEPT ![item.key] = item.val]]
      /\ save' = save /\ stream' = stream /\ cut' = cut /\ other' = other
  BY DEF RecoverItem, Recovering, saveVars
<1>2. /\ save.pc = "saved" /\ rec.left \in Nat /\ rest \in Seq(Word)
      /\ stream \in Seq(Word) /\ save.ss \in View /\ save.count \in Nat
  BY <1>1 DEF RecInv, RecType, SaveInv, SaveType
<1>3. PICK r \in Nat : Reading(r)
  BY <1>1 DEF RecInv
<1>4. /\ rec.left + r = save.count /\ rec.wb = FirstPairs(save.ss, r)
      /\ Len(rest) + 2 * r + 1 <= Len(stream)
      /\ \A i \in 1..Len(rest) : rest[i] = stream[2 * r + 1 + i]
  BY <1>3 DEF Reading
<1>5. PICK w \in Nat : Written(w)
  BY <1>2 DEF SaveInv, Streamed
<1>6. r \in 0..(w - 1)
  <2>1. Len(stream) = 2 * w + 1
    BY <1>5 DEF Written
  <2>2. Len(rest) \in Nat
    BY <1>2
  <2>3. Len(rest) >= 2 /\ Len(rest) + 2 * r + 1 <= Len(stream)
    BY <1>1, <1>4
  <2> HIDE DEF rest
  <2> QED
    BY <2>1, <2>2, <2>3
<1>7. PICK k \in Stored(save.ss) :
          Rank(save.ss, k) = r /\ stream[2 * r + 3] = Item(k, save.ss[k])
  BY <1>5, <1>6 DEF Written
<1>8. item = Item(k, save.ss[k])
  <2>1. 2 \in 1..Len(rest) /\ 2 * r + 1 + 2 = 2 * r + 3
    BY <1>1, <1>2
  <2> QED
    BY <1>4, <1>7, <2>1
<1>9. item.key = k /\ item.val = save.ss[k]
  BY <1>8 DEF Item
<1>10. [rec.wb EXCEPT ![item.key] = item.val] = FirstPairs(save.ss, r + 1)
  <2>1. [FirstPairs(save.ss, r) EXCEPT ![k] = save.ss[k]] = FirstPairs(save.ss, r + 1)
    BY <1>2, <1>7, OneMorePair
  <2> HIDE DEF item
  <2> QED
    BY <1>4, <1>9, <2>1
<1>11. /\ tail \in Seq(Word) /\ Len(tail) = Len(rest) - 2
       /\ \A i \in 1..(Len(rest) - 2) : tail[i] = rest[2 + i]
  BY <1>1, <1>2
<1> HIDE DEF tail, item, rest
<1>12. /\ rec'.pc = "items" /\ rec'.rest = tail /\ rec'.left = rec.left - 1
       /\ rec'.wb = FirstPairs(save.ss, r + 1)
  BY <1>1, <1>10
<1>13. RecType'
  <2>1. FirstPairs(save.ss, r + 1) \in View /\ rec.left - 1 \in Nat
    BY <1>1, <1>2, FirstPairsType
  <2>2. rec' = [pc |-> "items", rest |-> tail, left |-> rec.left - 1,
                wb |-> FirstPairs(save.ss, r + 1)]
    BY <1>1, <1>10
  <2> QED
    BY <1>11, <2>1, <2>2 DEF RecType
<1>14. Reading(r + 1)'
  <2>0. Len(rest) \in Nat /\ Len(stream) \in Nat
    BY <1>2
  <2>1. rec'.left + (r + 1) = save'.count
    <3>1. /\ rec.left \in Nat /\ rec.left + r = save.count /\ rec'.left = rec.left - 1
          /\ save' = save
      BY <1>1, <1>2, <1>4, <1>12
    <3> QED
      BY <3>1
  <2>2. Len(rec'.rest) + 2 * (r + 1) + 1 <= Len(stream')
    BY <1>1, <1>4, <1>11, <1>12, <2>0
  <2>3. ASSUME NEW i \in 1..Len(rec'.rest)
        PROVE  rec'.rest[i] = stream'[2 * (r + 1) + 1 + i]
    <3>1. i \in 1..(Len(rest) - 2) /\ 2 + i \in 1..Len(rest)
      BY <1>11, <1>12, <2>0
    <3>2. 2 * r + 1 + (2 + i) = 2 * (r + 1) + 1 + i
      BY <3>1
    <3>3. tail[i] = stream[2 * r + 1 + (2 + i)]
      BY <1>4, <1>11, <3>1
    <3> QED
      BY <1>1, <1>12, <3>2, <3>3
  <2> QED
    BY <1>1, <1>12, <2>1, <2>2, <2>3 DEF Reading
<1>15. RecoverAllOrNothing'
  BY <1>1, <1>12 DEF RecInv, RecoverAllOrNothing
<1> QED
  BY <1>1, <1>2, <1>12, <1>13, <1>14, <1>15 DEF RecInv

\* The error is returned, or the batch is written.
LEMMA RecoverEnds ==
    ASSUME SaveInv, RecInv, RecoverFails \/ RecoverReturns
    PROVE  RecInv'
<1>1. NoBatch \in View
  BY DEF NoBatch, View
<1>2. CASE RecoverFails
  <2>1. /\ rec' = [pc |-> "failed", rest |-> <<>>, left |-> 0, wb |-> NoBatch]
        /\ rec.pc = "items" /\ save' = save /\ cut' = cut /\ other' = other
    BY <1>2 DEF RecoverFails, Recovering, saveVars
  <2> QED
    BY <1>1, <2>1 DEF RecInv, RecType, RecoverAllOrNothing
<1>3. CASE RecoverReturns
  <2>1. /\ rec' = [pc |-> "recovered", rest |-> <<>>, left |-> 0, wb |-> NoBatch]
        /\ rec.pc = "items" /\ rec.left = 0
        /\ save' = save /\ cut' = cut /\ other' = rec.wb
    BY <1>3 DEF RecoverReturns, Recovering, saveVars
  <2>2. PICK r \in Nat : Reading(r)
    BY <2>1 DEF RecInv
  <2>3. save.pc = "saved" /\ save.ss \in View /\ save.count \in Nat
    BY <2>1 DEF RecInv, SaveInv, SaveType
  <2>4. r = save.count /\ rec.wb = FirstPairs(save.ss, r)
    BY <2>1, <2>2, <2>3 DEF Reading
  <2>5. ASSUME "count" \notin cut PROVE rec.wb = save.ss
    <3>1. save.count = Cardinality(Stored(save.ss))
      BY <2>3, <2>5 DEF SaveInv, Counted
    <3> QED
      BY <2>3, <2>4, <3>1, AllPairs
  <2> QED
    BY <1>1, <2>1, <2>3, <2>5 DEF RecInv, RecType, RecoverAllOrNothing
<1> QED
  BY <1>2, <1>3

LEMMA RecKept == SaveInv /\ RecInv /\ [Next]_vars => RecInv'
<1> SUFFICES ASSUME SaveInv, RecInv, [Next]_vars PROVE RecInv'
  OBVIOUS
<1>1. ASSUME UNCHANGED <<save, stream, cut, rec, other>> PROVE RecInv'
  <2>1. \A r \in Nat : Reading(r)' <=> Reading(r)
    BY <1>1 DEF Reading
  <2> QED
    BY <1>1, <2>1 DEF RecInv, RecType, RecoverAllOrNothing
<1>2. CASE Saves
  <2>1. UNCHANGED <<rec, other>> /\ save.pc # "saved"
    BY <1>2 DEF Saves, PrepareSnapshot, SaveBegins, CountKey, WriteCount, WriteItem, SaveReturns,
                WriteFails, recVars
  <2>2. rec.pc \notin {"items", "recovered"}
    BY <2>1 DEF RecInv
  <2> QED
    BY <2>1, <2>2 DEF RecInv, RecType, RecoverAllOrNothing
<1>3. CASE Scans
  BY <1>1, <1>3 DEF Scans, Scan, ScanItem, ScanReturns, ScanOver, saveVars, recVars
<1>4. CASE \E puts \in View : Update(puts)
  BY <1>1, <1>4 DEF Update, saveVars, recVars
<1>5. CASE UNCHANGED vars
  BY <1>1, <1>5 DEF vars
<1> QED
  BY <1>2, <1>3, <1>4, <1>5, RecoverStarts, RecoverGoesOn, RecoverEnds DEF Next, Recovers

\* A replica that recovers gets all of the snapshot or nothing of it,
\* wherever the stream breaks off and whatever read of the second pass
\* failed (commander.go 442-477, 502-545); what this rests on is the count
\* of the first pass.
THEOREM RecoversAllOrNothing == Spec => []RecoverAllOrNothing
<1>1. Init => RecInv
  <2> SUFFICES ASSUME Init PROVE RecInv
    OBVIOUS
  <2>1. NoBatch \in View
    BY DEF NoBatch, View
  <2>2. Stored(other) = {}
    BY DEF Init, Stored
  <2> QED
    BY <2>1, <2>2 DEF Init, RecInv, RecType, RecoverAllOrNothing
<1>2. RecInv => RecoverAllOrNothing
  BY DEF RecInv
<1> QED
  BY <1>1, <1>2, SaveInvariance, RecKept, PTL DEF Spec

===============================================================================

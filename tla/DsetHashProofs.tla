--------------------------- MODULE DsetHashProofs ---------------------------
(***************************************************************************)
(* Theorems about DsetHash, for every number of domains and of buckets,    *)
(* every hash function and all sizes: the count of elements is exact, each *)
(* element is stored once, and the table implements the map of DsetSet.    *)
(*                                                                         *)
(* The proofs look at a table as the set of the slots in use (Contents):   *)
(* what happens inside an array, its holes, its growing and shrinking, is  *)
(* in lemmas that say how the set of its slots changes.                    *)
(***************************************************************************)
EXTENDS DsetHash, FiniteSetTheorems, WellFoundedInduction, NaturalsInduction, TLAPS

-----------------------------------------------------------------------------
(* Numbers, sizes and ranks.                                               *)

\* A set of natural numbers that is not empty has a least member, and Min
\* chooses it.
LEMMA LeastIsMember ==
  ASSUME NEW T \in SUBSET Nat, T # {}
  PROVE  Min(T) \in T /\ \A y \in T : Min(T) <= y
<1> DEFINE R == OpToRel(<, Nat)
<1>1. PICK x \in T : \A y \in T : ~(<<y, x>> \in R)
  <2>1. IsWellFoundedOn(R, Nat)
    BY NatLessThanWellFounded
  <2> HIDE DEF R
  <2> QED
    BY <2>1, WFMin
<1>2. ASSUME NEW y \in T PROVE x <= y
  <2>1. y < x => <<y, x>> \in R
    BY DEF OpToRel
  <2>2. x \in Nat /\ y \in Nat
    OBVIOUS
  <2> HIDE DEF R
  <2> QED
    BY <1>1, <2>1, <2>2
<1>3. \E z \in T : \A y \in T : z <= y
  BY <1>2
<1> QED
  BY <1>3 DEF Min

\* R is a strict total order of S.
TotalOrder(S, R) ==
  /\ \A x \in S : <<x, x>> \notin R
  /\ \A x, y, z \in S : <<x, y>> \in R /\ <<y, z>> \in R => <<x, z>> \in R
  /\ \A x, y \in S : x = y \/ <<x, y>> \in R \/ <<y, x>> \in R

\* The number of members that come before each one.
RankIn(S, R) == [x \in S |-> Cardinality({y \in S : <<y, x>> \in R})]

\* In a finite set with a strict total order every rank below the number of
\* members belongs to exactly one member.
LEMMA Ranks ==
  ASSUME NEW S, IsFiniteSet(S), NEW R, TotalOrder(S, R)
  PROVE  /\ RankIn(S, R) \in [S -> 0 .. Cardinality(S) - 1]
         /\ \A x, y \in S : RankIn(S, R)[x] = RankIn(S, R)[y] => x = y
         /\ \A i \in 0 .. Cardinality(S) - 1 : \E x \in S : RankIn(S, R)[x] = i
<1>a. PICK f : f = RankIn(S, R)
  OBVIOUS
<1> USE <1>a DEF TotalOrder, RankIn
<1> DEFINE below(x) == {y \in S : <<y, x>> \in R}
<1>0. Cardinality(S) \in Nat
  BY FS_CardinalityType
<1>1. ASSUME NEW x \in S
      PROVE  IsFiniteSet(below(x)) /\ Cardinality(below(x)) \in 0 .. Cardinality(S) - 1
  <2>1. below(x) \in SUBSET S /\ x \notin below(x)
    OBVIOUS
  <2> HIDE DEF below
  <2>2. /\ IsFiniteSet(below(x)) /\ Cardinality(below(x)) <= Cardinality(S)
        /\ Cardinality(S) = Cardinality(below(x)) => S = below(x)
    BY <2>1, FS_Subset
  <2>3. Cardinality(below(x)) \in Nat
    BY <2>2, FS_CardinalityType
  <2> QED
    BY <1>0, <2>1, <2>2, <2>3
<1>2. f \in [S -> 0 .. Cardinality(S) - 1]
  BY <1>1
<1>3. ASSUME NEW x \in S, NEW y \in S, <<x, y>> \in R PROVE f[x] # f[y]
  <2>1. below(x) \in SUBSET below(y) /\ x \in below(y) /\ x \notin below(x)
    BY <1>3
  <2>2. f[x] = Cardinality(below(x)) /\ f[y] = Cardinality(below(y))
    OBVIOUS
  <2>3. IsFiniteSet(below(y))
    BY <1>1
  <2> HIDE DEF below
  <2>4. Cardinality(below(y)) = Cardinality(below(x)) => below(y) = below(x)
    BY <2>1, <2>3, FS_Subset
  <2> QED
    BY <2>1, <2>2, <2>4
<1>4. \A x, y \in S : f[x] = f[y] => x = y
  BY <1>3
<1>5. f \in Injection(S, 0 .. Cardinality(S) - 1)
  BY <1>2, <1>4 DEF Injection, IsInjective
<1>6. /\ IsFiniteSet(0 .. Cardinality(S) - 1)
      /\ Cardinality(0 .. Cardinality(S) - 1) = Cardinality(S)
  <2>1. 0 \in Int /\ Cardinality(S) - 1 \in Int
    BY <1>0
  <2>2. /\ IsFiniteSet(0 .. Cardinality(S) - 1)
        /\ Cardinality(0 .. Cardinality(S) - 1) =
             IF 0 > Cardinality(S) - 1 THEN 0 ELSE (Cardinality(S) - 1) - 0 + 1
    BY <2>1, FS_Interval
  <2> QED
    BY <1>0, <2>2
<1>7. f \in Surjection(S, 0 .. Cardinality(S) - 1)
  BY <1>5, <1>6, FS_Injection
<1>8. \A i \in 0 .. Cardinality(S) - 1 : \E x \in S : f[x] = i
  BY <1>7 DEF Surjection
<1> QED
  BY <1>a, <1>2, <1>4, <1>8, Zenon

\* Nth numbers the members of a finite set of numbers from 0.
LEMMA NthNumbers ==
  ASSUME NEW S \in SUBSET Int, IsFiniteSet(S)
  PROVE  /\ \A i \in 0 .. Cardinality(S) - 1 : Nth(S, i) \in S
         /\ \A i, j \in 0 .. Cardinality(S) - 1 : Nth(S, i) = Nth(S, j) => i = j
         /\ \A x \in S : \E i \in 0 .. Cardinality(S) - 1 : Nth(S, i) = x
<1>1. PICK R : R = {p \in S \X S : p[1] < p[2]}
  OBVIOUS
<1>2. \A x, y \in S : <<x, y>> \in R <=> x < y
  BY <1>1
<1>3. PICK f : f = RankIn(S, R)
  OBVIOUS
<1>4. \A x \in S : f[x] = Cardinality({y \in S : y < x})
  <2>1. \A x \in S : {y \in S : <<y, x>> \in R} = {y \in S : y < x}
    BY <1>2
  <2> QED
    BY <2>1, <1>3 DEF RankIn
<1>5. TotalOrder(S, R)
  BY <1>2 DEF TotalOrder
<1>6. /\ f \in [S -> 0 .. Cardinality(S) - 1]
      /\ \A x, y \in S : f[x] = f[y] => x = y
      /\ \A i \in 0 .. Cardinality(S) - 1 : \E x \in S : f[x] = i
  <2>1. /\ RankIn(S, R) \in [S -> 0 .. Cardinality(S) - 1]
        /\ \A x, y \in S : RankIn(S, R)[x] = RankIn(S, R)[y] => x = y
        /\ \A i \in 0 .. Cardinality(S) - 1 : \E x \in S : RankIn(S, R)[x] = i
    BY <1>5, Ranks, Zenon
  <2> QED
    BY <2>1, <1>3, Zenon
<1>7. ASSUME NEW i \in 0 .. Cardinality(S) - 1 PROVE Nth(S, i) \in S /\ f[Nth(S, i)] = i
  <2>1. \E x \in S : Cardinality({y \in S : y < x}) = i
    BY <1>4, <1>6, Zenon
  <2>2. Nth(S, i) \in S /\ Cardinality({y \in S : y < Nth(S, i)}) = i
    BY <2>1, Zenon DEF Nth
  <2> QED
    BY <2>2, <1>4
<1>8. \A x \in S : \E i \in 0 .. Cardinality(S) - 1 : Nth(S, i) = x
  <2> TAKE x \in S
  <2>1. f[x] \in 0 .. Cardinality(S) - 1
    BY <1>6
  <2>2. Nth(S, f[x]) \in S /\ f[Nth(S, f[x])] = f[x]
    BY <2>1, <1>7
  <2> QED
    BY <2>1, <2>2, <1>6
<1> QED
  BY <1>6, <1>7, <1>8

\* The sizes: multiples of InitSize up to MaxSize.
LEMMA SizesGrow ==
  ASSUME NEW s \in Sizes
  PROVE  /\ s \in Nat
         /\ s < MaxSize => s + InitSize \in Sizes
         /\ s >= InitSize => s - InitSize \in Sizes
<1> USE HashAssumption
<1>1. PICK q \in Nat : s = InitSize * q
  <2>1. s \in Nat /\ s % InitSize = 0
    BY DEF Sizes
  <2>2. s = InitSize * (s \div InitSize) + (s % InitSize) /\ s \div InitSize \in Nat
    BY <2>1
  <2> QED
    BY <2>1, <2>2
<1>2. PICK m \in Nat : MaxSize = InitSize * m
  <2>2. MaxSize = InitSize * (MaxSize \div InitSize) + (MaxSize % InitSize) /\ MaxSize \div InitSize \in Nat
    OBVIOUS
  <2> QED
    BY <2>2
<1>3. s \in 0 .. MaxSize
  BY DEF Sizes
<1>4. ASSUME s < MaxSize PROVE s + InitSize \in Sizes
  <2>1. s + InitSize = InitSize * (q + 1)
    BY <1>1, <1>3
  <2>2. (s + InitSize) % InitSize = 0
    <3> DEFINE r == q + 1
    <3>1. r \in Nat
      OBVIOUS
    <3> HIDE DEF r
    <3>2. (InitSize * r) % InitSize = 0
      BY <3>1
    <3> QED
      BY <3>2, <2>1 DEF r
  <2>3. s + InitSize <= MaxSize
    <3>1. q * InitSize < m * InitSize
      BY <1>1, <1>2, <1>4
    <3>2. q * InitSize + InitSize <= m * InitSize
      BY <3>1
    <3> QED
      BY <3>2, <1>1, <1>2
  <2> QED
    BY <2>2, <2>3, <1>3 DEF Sizes
<1>5. ASSUME s >= InitSize PROVE s - InitSize \in Sizes
  <2>1. q # 0
    BY <1>1, <1>5
  <2> DEFINE r == q - 1
  <2>2. r \in Nat /\ s - InitSize = InitSize * r
    BY <2>1, <1>1
  <2> HIDE DEF r
  <2>3. (InitSize * r) % InitSize = 0
    BY <2>2
  <2> QED
    BY <2>2, <2>3, <1>3, <1>5 DEF Sizes
<1> QED
  BY <1>3, <1>4, <1>5

\* The size that c slots need, rounded up.
LEMMA SizesRound ==
  ASSUME NEW c \in 0 .. MaxSize,
         NEW s, s = InitSize * ((c + InitSize - 1) \div InitSize)
  PROVE  s \in Sizes /\ c <= s
<1> USE HashAssumption
<1> DEFINE a == c + InitSize - 1
           q == a \div InitSize
<1>1. a \in Nat
  OBVIOUS
<1>2. a = InitSize * q + (a % InitSize) /\ q \in Nat /\ a % InitSize \in 0 .. InitSize - 1
  <2> HIDE DEF a
  <2> QED
    BY <1>1
<1>3. s = InitSize * q
  OBVIOUS
<1> HIDE DEF q
<1>4. s % InitSize = 0
  BY <1>2, <1>3
<1>5. s \in Nat /\ s <= c + InitSize - 1 /\ c <= s
  <2>1. s \in Int
    BY <1>2, <1>3
  <2>2. c + InitSize - 1 = s + (a % InitSize)
    BY <1>2, <1>3
  <2> DEFINE r == a % InitSize
  <2>3. r \in 0 .. InitSize - 1
    BY <1>2
  <2> HIDE DEF r, a
  <2> QED
    BY <2>1, <2>2, <2>3 DEF r
<1>6. PICK m \in Nat : MaxSize = InitSize * m
  <2>2. MaxSize = InitSize * (MaxSize \div InitSize) + (MaxSize % InitSize) /\ MaxSize \div InitSize \in Nat
    OBVIOUS
  <2> QED
    BY <2>2
<1>7. s <= MaxSize
  <2>1. q * InitSize > m * InitSize => q * InitSize >= m * InitSize + InitSize
    BY <1>2
  <2> QED
    BY <2>1, <1>2, <1>3, <1>5, <1>6
<1> QED
  BY <1>4, <1>5, <1>7 DEF Sizes

-----------------------------------------------------------------------------
(* One bucket.                                                             *)

\* A bucket that holds domains of key k in a table of b bits, each once.
GoodBucket(n, k, b) ==
  n # NoBucket =>
    /\ BucketOK(n)
    /\ \A i \in n.used : n.value[i].elem \in Domains /\ HKEY(n.value[i].elem, b) = k
    /\ \A i, j \in n.used : n.value[i].elem = n.value[j].elem => i = j

\* What a bucket holds.
Contents(n) == IF n = NoBucket THEN {} ELSE {n.value[i] : i \in n.used}

\* How to see that a record is a bucket.
LEMMA MakeBucket ==
  ASSUME NEW s \in Sizes, NEW p \in 0 .. s, NEW u \in SUBSET (0 .. p - 1),
         NEW v \in [0 .. s - 1 -> SlotType],
         NEW n, n = [size |-> s, pos |-> p, used |-> u, value |-> v]
  PROVE  BucketOK(n) /\ n # NoBucket
<1> USE HashAssumption
<1>1. s \in 0 .. MaxSize /\ s \in Nat
  BY DEF Sizes
<1>2. n.size = s /\ n.pos = p /\ n.used = u /\ n.value = v
  OBVIOUS
<1>3. u \in SUBSET (0 .. s - 1)
  BY <1>1
<1>4. n \in BucketType(s)
  BY <1>1, <1>3 DEF BucketType
<1> QED
  BY <1>1, <1>2, <1>4 DEF BucketOK

\* What it means to be a bucket.
LEMMA BucketIs ==
  ASSUME NEW n, BucketOK(n)
  PROVE  /\ n # NoBucket
         /\ n = [size |-> n.size, pos |-> n.pos, used |-> n.used, value |-> n.value]
         /\ n.size \in Sizes /\ n.size \in Nat /\ n.size <= MaxSize
         /\ n.pos \in Nat /\ n.pos <= n.size
         /\ n.used \in SUBSET (0 .. n.pos - 1) /\ n.used \in SUBSET Nat
         /\ n.used \in SUBSET (0 .. n.size - 1)
         /\ n.value \in [0 .. n.size - 1 -> SlotType]
         /\ Live(n) = n.used
         /\ IsFiniteSet(n.used)
<1> USE HashAssumption
<1>1. n.size \in Sizes /\ n.size \in 0 .. MaxSize /\ n.size \in Nat /\ n \in BucketType(n.size)
  BY DEF BucketOK, Sizes
<1>2. n # NoBucket
  BY <1>1
<1>3. n = [size |-> n.size, pos |-> n.pos, used |-> n.used, value |-> n.value]
  BY <1>1 DEF BucketType
<1>4. n.pos \in 0 .. n.size /\ n.value \in [0 .. n.size - 1 -> SlotType]
  BY <1>1 DEF BucketType
<1>5. n.used \in SUBSET (0 .. n.pos - 1)
  BY DEF BucketOK
<1>6. n.used \in SUBSET Nat /\ n.used \in SUBSET (0 .. n.size - 1)
  BY <1>1, <1>4, <1>5
<1>7. Live(n) = n.used
  BY <1>4, <1>5, <1>1 DEF Live
<1>8. IsFiniteSet(n.used)
  <2>1. 0 \in Int /\ n.pos - 1 \in Int
    BY <1>4, <1>1
  <2>2. IsFiniteSet(0 .. n.pos - 1)
    BY <2>1, FS_Interval
  <2> QED
    BY <2>2, <1>5, FS_Subset
<1> QED
  BY <1>1, <1>2, <1>3, <1>4, <1>5, <1>6, <1>7, <1>8

\* A bucket whose slots are some of those of a good one is good.
LEMMA SlotsMoved ==
  ASSUME NEW n, NEW k, NEW b, n # NoBucket, GoodBucket(n, k, b),
         NEW m, BucketOK(m), NEW J \in SUBSET n.used,
         NEW g \in [m.used -> J],
         \A i, j \in m.used : g[i] = g[j] => i = j,
         \A x \in J : \E i \in m.used : g[i] = x,
         \A i \in m.used : m.value[i] = n.value[g[i]]
  PROVE  GoodBucket(m, k, b) /\ Contents(m) = {n.value[i] : i \in J}
<1>1. m # NoBucket
  BY BucketIs
<1>2. \A i \in m.used : g[i] \in J /\ g[i] \in n.used
  OBVIOUS
<1>3. \A i \in m.used : m.value[i].elem \in Domains /\ HKEY(m.value[i].elem, b) = k
  BY <1>2 DEF GoodBucket
<1>4. ASSUME NEW i \in m.used, NEW j \in m.used, m.value[i].elem = m.value[j].elem
      PROVE  i = j
  <2>1. n.value[g[i]].elem = n.value[g[j]].elem
    BY <1>4
  <2>2. g[i] = g[j]
    BY <2>1, <1>2 DEF GoodBucket
  <2> QED
    BY <2>2
<1>5. GoodBucket(m, k, b)
  BY <1>3, <1>4 DEF GoodBucket
<1>6. {m.value[i] : i \in m.used} = {n.value[i] : i \in J}
  BY <1>2
<1> QED
  BY <1>1, <1>5, <1>6 DEF Contents

LEMMA ZeroSlotType == ZeroSlot \in SlotType
BY HashAssumption DEF ZeroSlot, SlotType

\* kzalloc of an array.
LEMMA NewBucketGood ==
  ASSUME NEW k, NEW b
  PROVE  /\ BucketOK(NewBucket(InitSize)) /\ GoodBucket(NewBucket(InitSize), k, b)
         /\ NewBucket(InitSize) # NoBucket
         /\ NewBucket(InitSize).pos = 0 /\ NewBucket(InitSize).used = {}
         /\ NewBucket(InitSize).size = InitSize
         /\ Contents(NewBucket(InitSize)) = {}
<1> DEFINE n == NewBucket(InitSize)
<1>1. InitSize \in Sizes
  <2>1. 0 \in Sizes
    BY HashAssumption DEF Sizes
  <2>2. 0 + InitSize \in Sizes
    BY <2>1, SizesGrow, HashAssumption
  <2> QED
    BY <2>2, HashAssumption
<1>2. [i \in 0 .. InitSize - 1 |-> ZeroSlot] \in [0 .. InitSize - 1 -> SlotType]
  BY ZeroSlotType
<1>3. n.pos = 0 /\ n.used = {} /\ n.size = InitSize
  BY DEF NewBucket
<1>4. BucketOK(n) /\ n # NoBucket
  <2>1. 0 \in 0 .. InitSize /\ {} \in SUBSET (0 .. 0 - 1)
    BY HashAssumption
  <2> QED
    BY <1>1, <1>2, <2>1, MakeBucket DEF NewBucket
<1> QED
  BY <1>3, <1>4 DEF GoodBucket, Contents

\* A longer array with the same slots.
LEMMA EnlargedGood ==
  ASSUME NEW n, NEW k, NEW b, n # NoBucket, GoodBucket(n, k, b), n.size < MaxSize
  PROVE  /\ BucketOK(Enlarged(n)) /\ GoodBucket(Enlarged(n), k, b)
         /\ Enlarged(n).pos = n.pos /\ Enlarged(n).used = n.used
         /\ Enlarged(n).size = n.size + InitSize
         /\ Contents(Enlarged(n)) = Contents(n)
<1> DEFINE s == n.size + InitSize
           v == [i \in 0 .. s - 1 |-> IF i < n.size THEN n.value[i] ELSE ZeroSlot]
           m == [size |-> s, pos |-> n.pos, used |-> n.used, value |-> v]
<1> USE HashAssumption
<1>1. BucketOK(n)
  BY DEF GoodBucket
<1>2. /\ n.size \in Sizes /\ n.size \in Nat /\ n.pos \in Nat /\ n.pos <= n.size
      /\ n.used \in SUBSET (0 .. n.pos - 1) /\ n.used \in SUBSET (0 .. n.size - 1)
      /\ n.value \in [0 .. n.size - 1 -> SlotType]
  BY <1>1, BucketIs
<1>3. Enlarged(n) = m
  <2>1. PICK z : z = NewBucket(s)
    OBVIOUS
  <2>2. Enlarged(n) =
          [z EXCEPT !.pos = n.pos, !.used = n.used,
             !.value = [i \in DOMAIN z.value |-> IF i < n.size THEN n.value[i] ELSE z.value[i]]]
    BY <2>1 DEF Enlarged
  <2>3. z = [size |-> s, pos |-> 0, used |-> {}, value |-> [i \in 0 .. s - 1 |-> ZeroSlot]]
    BY <2>1 DEF NewBucket
  <2>4. [i \in DOMAIN z.value |-> IF i < n.size THEN n.value[i] ELSE z.value[i]] = v
    BY <2>3
  <2> HIDE DEF v
  <2> QED
    BY <2>2, <2>3, <2>4
<1>4. s \in Sizes
  BY <1>2, SizesGrow
<1>5. v \in [0 .. s - 1 -> SlotType]
  BY <1>2, ZeroSlotType
<1>6. BucketOK(m)
  <2>1. n.pos \in 0 .. s
    BY <1>2
  <2> HIDE DEF s, v
  <2> QED
    BY <1>2, <1>4, <1>5, <2>1, MakeBucket
<1>7. \A i \in n.used : m.value[i] = n.value[i]
  BY <1>2
<1>8. m.used = n.used /\ m.pos = n.pos /\ m.size = s
  OBVIOUS
<1> HIDE DEF m
<1>9. GoodBucket(m, k, b) /\ Contents(m) = {n.value[i] : i \in n.used}
  <2> DEFINE g == [i \in n.used |-> i]
  <2>1. g \in [m.used -> n.used] /\ \A i \in m.used : g[i] = i
    BY <1>8
  <2> HIDE DEF g
  <2> QED
    BY <2>1, <1>6, <1>7, <1>8, SlotsMoved
<1>10. Contents(n) = {n.value[i] : i \in n.used}
  BY DEF Contents
<1> QED
  BY <1>3, <1>6, <1>8, <1>9, <1>10

\* Used slots and holes make up the slots below pos.
LEMMA HolesCount ==
  ASSUME NEW n, BucketOK(n)
  PROVE  /\ Cardinality(n.used) \in Nat /\ Cardinality(Holes(n)) \in Nat
         /\ Cardinality(n.used) + Cardinality(Holes(n)) = n.pos
<1>1. /\ n.pos \in Nat /\ n.used \in SUBSET (0 .. n.pos - 1) /\ IsFiniteSet(n.used)
  BY BucketIs
<1>2. IsFiniteSet(0 .. n.pos - 1) /\ Cardinality(0 .. n.pos - 1) = n.pos
  <2>1. 0 \in Int /\ n.pos - 1 \in Int
    BY <1>1
  <2>2. /\ IsFiniteSet(0 .. n.pos - 1)
        /\ Cardinality(0 .. n.pos - 1) = IF 0 > n.pos - 1 THEN 0 ELSE (n.pos - 1) - 0 + 1
    BY <2>1, FS_Interval
  <2> QED
    BY <1>1, <2>2
<1>3. Holes(n) = (0 .. n.pos - 1) \ n.used /\ (0 .. n.pos - 1) \cap n.used = n.used
  BY <1>1 DEF Holes
<1>4. /\ IsFiniteSet(Holes(n))
      /\ Cardinality(Holes(n)) = Cardinality(0 .. n.pos - 1) - Cardinality(n.used)
  <2>1. /\ IsFiniteSet((0 .. n.pos - 1) \ n.used)
        /\ Cardinality((0 .. n.pos - 1) \ n.used) =
             Cardinality(0 .. n.pos - 1) - Cardinality((0 .. n.pos - 1) \cap n.used)
    BY <1>2, FS_Difference, Zenon
  <2> QED
    BY <1>3, <2>1, Zenon
<1>5. Cardinality(n.used) \in Nat
  BY <1>1, FS_CardinalityType
<1>6. Cardinality(Holes(n)) \in Nat
  BY <1>4, FS_CardinalityType
<1> QED
  BY <1>1, <1>2, <1>4, <1>5, <1>6

\* A shorter array with the same slots, moved together.
LEMMA ShrunkGood ==
  ASSUME NEW n, NEW k, NEW b, n # NoBucket, GoodBucket(n, k, b),
         Cardinality(n.used) <= n.size - InitSize
  PROVE  /\ BucketOK(Shrunk(n)) /\ GoodBucket(Shrunk(n), k, b)
         /\ Contents(Shrunk(n)) = Contents(n)
<1> DEFINE s == n.size - InitSize
           c == Cardinality(n.used)
           v == [i \in 0 .. s - 1 |-> IF i < c THEN n.value[Nth(n.used, i)] ELSE ZeroSlot]
           m == [size |-> s, pos |-> c, used |-> 0 .. c - 1, value |-> v]
<1> USE HashAssumption
<1>1. BucketOK(n)
  BY DEF GoodBucket
<1>2. /\ n.size \in Sizes /\ n.size \in Nat
      /\ n.used \in SUBSET Nat /\ n.used \in SUBSET (0 .. n.size - 1) /\ IsFiniteSet(n.used)
      /\ n.value \in [0 .. n.size - 1 -> SlotType] /\ Live(n) = n.used
  BY <1>1, BucketIs
<1>3. c \in Nat
  BY <1>2, FS_CardinalityType
<1>4. s \in Sizes /\ s \in Nat
  <2>1. n.size >= InitSize
    BY <1>2, <1>3
  <2> QED
    BY <1>2, <2>1, SizesGrow
<1>5. /\ \A i \in 0 .. c - 1 : Nth(n.used, i) \in n.used
      /\ \A i, j \in 0 .. c - 1 : Nth(n.used, i) = Nth(n.used, j) => i = j
      /\ \A x \in n.used : \E i \in 0 .. c - 1 : Nth(n.used, i) = x
  <2>1. n.used \in SUBSET Int
    BY <1>2
  <2> QED
    BY <2>1, <1>2, NthNumbers, Zenon
<1>6. Shrunk(n) = m
  <2>1. PICK z : z = NewBucket(s)
    OBVIOUS
  <2>2. Shrunk(n) =
          [z EXCEPT !.pos = c, !.used = 0 .. c - 1,
             !.value = [i \in DOMAIN z.value |->
                          IF i < c THEN n.value[Nth(n.used, i)] ELSE z.value[i]]]
    BY <2>1, <1>2 DEF Shrunk
  <2>3. z = [size |-> s, pos |-> 0, used |-> {}, value |-> [i \in 0 .. s - 1 |-> ZeroSlot]]
    BY <2>1 DEF NewBucket
  <2>4. [i \in DOMAIN z.value |-> IF i < c THEN n.value[Nth(n.used, i)] ELSE z.value[i]] = v
    BY <2>3
  <2> HIDE DEF v
  <2> QED
    BY <2>2, <2>3, <2>4
<1>7. v \in [0 .. s - 1 -> SlotType]
  <2>1. ASSUME NEW i \in 0 .. s - 1
        PROVE  (IF i < c THEN n.value[Nth(n.used, i)] ELSE ZeroSlot) \in SlotType
    <3>1. CASE i < c
      <4>1. i \in 0 .. c - 1
        BY <3>1, <1>3
      <4>2. Nth(n.used, i) \in 0 .. n.size - 1
        BY <4>1, <1>2, <1>5
      <4> HIDE DEF c
      <4> QED
        BY <3>1, <4>2, <1>2
    <3> QED
      BY <3>1, ZeroSlotType
  <2> QED
    BY <2>1
<1>8. \A i \in 0 .. c - 1 : v[i] = n.value[Nth(n.used, i)]
  BY <1>3, <1>4
<1>9. BucketOK(m)
  <2>1. c \in 0 .. s /\ 0 .. c - 1 \in SUBSET (0 .. c - 1)
    BY <1>3, <1>4
  <2> HIDE DEF s, v, c
  <2> QED
    BY <1>4, <1>7, <2>1, MakeBucket
<1>10. m.used = 0 .. c - 1 /\ m.value = v
  OBVIOUS
<1>11. GoodBucket(m, k, b) /\ Contents(m) = {n.value[i] : i \in n.used}
  <2> DEFINE g == [i \in 0 .. c - 1 |-> Nth(n.used, i)]
  <2> HIDE DEF c, v, m
  <2>1. g \in [m.used -> n.used] /\ \A i \in m.used : g[i] = Nth(n.used, i)
    BY <1>5, <1>10
  <2> HIDE DEF g
  <2>2. /\ \A i, j \in m.used : g[i] = g[j] => i = j
        /\ \A x \in n.used : \E i \in m.used : g[i] = x
    BY <2>1, <1>5, <1>10
  <2>3. \A i \in m.used : m.value[i] = n.value[g[i]]
    BY <2>1, <1>8, <1>10
  <2> QED
    BY <2>1, <2>2, <2>3, <1>9, SlotsMoved
<1> HIDE DEF m
<1>12. Contents(n) = {n.value[i] : i \in n.used}
  BY DEF Contents
<1> QED
  BY <1>6, <1>9, <1>11, <1>12

\* Slots are given up.
LEMMA ClearedGood ==
  ASSUME NEW n, NEW k, NEW b, n # NoBucket, GoodBucket(n, k, b), NEW J \in SUBSET n.used
  PROVE  /\ BucketOK(Cleared(n, J)) /\ GoodBucket(Cleared(n, J), k, b)
         /\ Cleared(n, J).size = n.size /\ Cleared(n, J).pos = n.pos
         /\ Cleared(n, J).used = n.used \ J
         /\ Contents(Cleared(n, J)) = {n.value[i] : i \in n.used \ J}
<1> DEFINE v == [i \in 0 .. n.size - 1 |->
                   IF i \in J THEN [ZeroSlot EXCEPT !.packets = n.value[i].packets]
                              ELSE n.value[i]]
           m == [size |-> n.size, pos |-> n.pos, used |-> n.used \ J, value |-> v]
<1> USE HashAssumption
<1>1. BucketOK(n)
  BY DEF GoodBucket
<1>2. /\ n.size \in Sizes /\ n.size \in Nat /\ n.pos \in Nat /\ n.pos <= n.size
      /\ n.used \in SUBSET (0 .. n.pos - 1) /\ n.used \in SUBSET (0 .. n.size - 1)
      /\ n.value \in [0 .. n.size - 1 -> SlotType]
      /\ n = [size |-> n.size, pos |-> n.pos, used |-> n.used, value |-> n.value]
  BY <1>1, BucketIs
<1>3. Cleared(n, J) = m
  <2>1. Cleared(n, J) =
          [n EXCEPT !.used = n.used \ J,
             !.value = [i \in DOMAIN n.value |->
                          IF i \in J THEN [ZeroSlot EXCEPT !.packets = n.value[i].packets]
                                     ELSE n.value[i]]]
    BY DEF Cleared
  <2>2. [i \in DOMAIN n.value |->
           IF i \in J THEN [ZeroSlot EXCEPT !.packets = n.value[i].packets]
                      ELSE n.value[i]] = v
    BY <1>2
  <2> HIDE DEF v
  <2> QED
    BY <2>1, <2>2, <1>2
<1>4. v \in [0 .. n.size - 1 -> SlotType]
  <2>1. ASSUME NEW x \in SlotType PROVE [ZeroSlot EXCEPT !.packets = x.packets] \in SlotType
    BY DEF SlotType, ZeroSlot
  <2> QED
    BY <2>1, <1>2
<1>5. BucketOK(m)
  <2>1. n.pos \in 0 .. n.size /\ n.used \ J \in SUBSET (0 .. n.pos - 1)
    BY <1>2
  <2> HIDE DEF v
  <2> QED
    BY <1>2, <1>4, <2>1, MakeBucket
<1>6. m.size = n.size /\ m.pos = n.pos /\ m.used = n.used \ J /\ m.value = v
  OBVIOUS
<1>7. \A i \in n.used \ J : v[i] = n.value[i]
  BY <1>2
<1> HIDE DEF m, v
<1>8. GoodBucket(m, k, b) /\ Contents(m) = {n.value[i] : i \in n.used \ J}
  <2> DEFINE g == [i \in n.used \ J |-> i]
  <2>1. g \in [m.used -> n.used \ J] /\ \A i \in m.used : g[i] = i
    BY <1>6
  <2> HIDE DEF g
  <2>2. /\ \A i, j \in m.used : g[i] = g[j] => i = j
        /\ \A x \in n.used \ J : \E i \in m.used : g[i] = x
        /\ \A i \in m.used : m.value[i] = n.value[g[i]]
    BY <2>1, <1>6, <1>7
  <2>3. n.used \ J \in SUBSET n.used
    OBVIOUS
  <2> QED
    BY <2>1, <2>2, <2>3, <1>5, SlotsMoved
<1> QED
  BY <1>3, <1>5, <1>6, <1>8

\* The bucket that mtype_del leaves behind, before it is shrunk.
LEMMA TrimmedGood ==
  ASSUME NEW n, NEW k, NEW b, n # NoBucket, GoodBucket(n, k, b), NEW i \in n.used
  PROVE  /\ BucketOK(Trimmed(n, i)) /\ GoodBucket(Trimmed(n, i), k, b)
         /\ Trimmed(n, i).size = n.size /\ Trimmed(n, i).used = n.used \ {i}
         /\ Contents(Trimmed(n, i)) = {n.value[j] : j \in n.used \ {i}}
<1> DEFINE p == IF i + 1 = n.pos THEN i ELSE n.pos
<1>1. {i} \in SUBSET n.used
  OBVIOUS
<1>2. PICK z : z = Cleared(n, {i})
  OBVIOUS
<1>3. /\ BucketOK(z) /\ GoodBucket(z, k, b)
      /\ z.size = n.size /\ z.pos = n.pos /\ z.used = n.used \ {i}
      /\ Contents(z) = {n.value[j] : j \in n.used \ {i}}
  BY <1>1, <1>2, ClearedGood
<1>4. /\ z # NoBucket /\ z.size \in Sizes /\ z.size \in Nat
      /\ z.pos \in Nat /\ z.pos <= z.size /\ z.used \in SUBSET (0 .. z.pos - 1)
      /\ z.value \in [0 .. z.size - 1 -> SlotType]
      /\ z = [size |-> z.size, pos |-> z.pos, used |-> z.used, value |-> z.value]
  BY <1>3, BucketIs
<1>0. PICK m : m = Trimmed(n, i)
  OBVIOUS
<1>5. m = [z EXCEPT !.pos = p]
  BY <1>0, <1>2, <1>3 DEF Trimmed
<1>6. n.used \in SUBSET (0 .. n.pos - 1)
  BY BucketIs DEF GoodBucket
<1>7. p \in 0 .. z.size /\ z.used \in SUBSET (0 .. p - 1)
  BY <1>3, <1>4, <1>6
<1> HIDE DEF p
<1>8. m = [size |-> z.size, pos |-> p, used |-> z.used, value |-> z.value]
  BY <1>4, <1>5
<1>9. BucketOK(m) /\ m # NoBucket
  BY <1>4, <1>7, <1>8, MakeBucket
<1>10. m.used = z.used /\ m.value = z.value /\ m.size = z.size
  BY <1>8
<1>11. GoodBucket(m, k, b) /\ Contents(m) = Contents(z)
  BY <1>3, <1>4, <1>9, <1>10 DEF GoodBucket, Contents
<1> QED
  BY <1>0, <1>3, <1>9, <1>10, <1>11

\* An element is written into slot i.
LEMMA WrittenGood ==
  ASSUME NEW n, NEW k, NEW b, BucketOK(n), GoodBucket(n, k, b),
         NEW i \in 0 .. n.size - 1, i <= n.pos,
         NEW new \in SlotType, new.elem \in Domains, HKEY(new.elem, b) = k,
         \A j \in n.used \ {i} : n.value[j].elem # new.elem
  PROVE  /\ BucketOK(WithSlot(n, i, new)) /\ GoodBucket(WithSlot(n, i, new), k, b)
         /\ Contents(WithSlot(n, i, new)) = {n.value[j] : j \in n.used \ {i}} \cup {new}
<1> DEFINE p == IF i < n.pos THEN n.pos ELSE i + 1
           v == [n.value EXCEPT ![i] = new]
<1>1. /\ n # NoBucket /\ n.size \in Sizes /\ n.size \in Nat
      /\ n.pos \in Nat /\ n.pos <= n.size /\ n.used \in SUBSET (0 .. n.pos - 1)
      /\ n.used \in SUBSET (0 .. n.size - 1)
      /\ n.value \in [0 .. n.size - 1 -> SlotType]
      /\ n = [size |-> n.size, pos |-> n.pos, used |-> n.used, value |-> n.value]
  BY BucketIs
<1>0. PICK m : m = WithSlot(n, i, new)
  OBVIOUS
<1>2. m = [n EXCEPT !.value = v, !.used = n.used \cup {i}, !.pos = p]
  BY <1>0 DEF WithSlot
<1>3. v \in [0 .. n.size - 1 -> SlotType]
  BY <1>1
<1>4. p \in 0 .. n.size /\ n.used \cup {i} \in SUBSET (0 .. p - 1)
  BY <1>1
<1>5. \A j \in n.used \ {i} : v[j] = n.value[j]
  BY <1>1
<1>6. v[i] = new
  BY <1>1
<1> HIDE DEF p, v
<1>7. m = [size |-> n.size, pos |-> p, used |-> n.used \cup {i}, value |-> v]
  BY <1>1, <1>2
<1>8. BucketOK(m) /\ m # NoBucket
  BY <1>1, <1>3, <1>4, <1>7, MakeBucket
<1>9. m.used = n.used \cup {i} /\ m.value = v
  BY <1>7
<1>10. \A j \in m.used : m.value[j].elem \in Domains /\ HKEY(m.value[j].elem, b) = k
  BY <1>1, <1>5, <1>6, <1>9 DEF GoodBucket
<1>11. ASSUME NEW x \in m.used, NEW y \in m.used, m.value[x].elem = m.value[y].elem
       PROVE  x = y
  <2>1. CASE x = i /\ y # i
    BY <1>11, <2>1, <1>5, <1>6, <1>9
  <2>2. CASE x # i /\ y = i
    BY <1>11, <2>2, <1>5, <1>6, <1>9
  <2>3. CASE x # i /\ y # i
    BY <1>1, <1>11, <2>3, <1>5, <1>9 DEF GoodBucket
  <2> QED
    BY <2>1, <2>2, <2>3
<1>12. {m.value[j] : j \in m.used} = {n.value[j] : j \in n.used \ {i}} \cup {new}
  BY <1>5, <1>6, <1>9
<1>13. GoodBucket(m, k, b) /\ Contents(m) = {m.value[j] : j \in m.used}
  BY <1>8, <1>10, <1>11 DEF GoodBucket, Contents
<1> QED
  BY <1>0, <1>8, <1>12, <1>13

\* mtype_expire leaves what has not timed out.
LEMMA ExpiredGood ==
  ASSUME NEW n, NEW k, NEW b, n # NoBucket, GoodBucket(n, k, b), NEW oom \in BOOLEAN
  PROVE  /\ GoodBucket(ExpireBucket(n, oom), k, b)
         /\ Contents(ExpireBucket(n, oom)) = {x \in Contents(n) : x.timeout # "over"}
<1> USE HashAssumption
<1>1. BucketOK(n) /\ Live(n) = n.used
  BY BucketIs DEF GoodBucket
<1>2. Lapsed(n) = {i \in n.used : n.value[i].timeout = "over"}
  BY <1>1 DEF Lapsed, Expired
<1>3. PICK m : m = Cleared(n, Lapsed(n))
  OBVIOUS
<1>4. /\ BucketOK(m) /\ GoodBucket(m, k, b)
      /\ m.size = n.size /\ m.pos = n.pos /\ m.used = n.used \ Lapsed(n)
      /\ Contents(m) = {n.value[i] : i \in n.used \ Lapsed(n)}
  BY <1>2, <1>3, ClearedGood
<1>5. {n.value[i] : i \in n.used \ Lapsed(n)} = {x \in Contents(n) : x.timeout # "over"}
  BY <1>2 DEF Contents
<1>6. /\ m # NoBucket /\ m.size \in Nat /\ m.pos \in Nat /\ m.pos <= m.size
      /\ IsFiniteSet(m.used)
  BY <1>4, BucketIs
<1>7. /\ Cardinality(m.used) \in Nat /\ Cardinality(Holes(m)) \in Nat
      /\ Cardinality(m.used) + Cardinality(Holes(m)) = m.pos
  BY <1>4, HolesCount
<1>8. ExpireBucket(n, oom) =
        IF Cardinality(Holes(m)) < InitSize THEN m
        ELSE IF Cardinality(Holes(m)) >= m.size THEN NoBucket
        ELSE IF oom THEN m ELSE Shrunk(m)
  BY <1>3 DEF ExpireBucket
<1>9. CASE ExpireBucket(n, oom) = m
  BY <1>4, <1>5, <1>9
<1>10. CASE Cardinality(Holes(m)) >= InitSize /\ Cardinality(Holes(m)) >= m.size
  <2>1. Cardinality(m.used) = 0
    BY <1>6, <1>7, <1>10
  <2>2. m.used = {}
    BY <1>6, <2>1, FS_EmptySet
  <2>3. {x \in Contents(n) : x.timeout # "over"} = {}
    BY <2>2, <1>4, <1>5
  <2>4. ExpireBucket(n, oom) = NoBucket
    BY <1>8, <1>10, <1>7
  <2> QED
    BY <2>3, <2>4 DEF GoodBucket, Contents
<1>11. CASE Cardinality(Holes(m)) >= InitSize /\ ExpireBucket(n, oom) = Shrunk(m)
  <2>1. Cardinality(m.used) <= m.size - InitSize
    BY <1>6, <1>7, <1>11
  <2>2. GoodBucket(Shrunk(m), k, b) /\ Contents(Shrunk(m)) = Contents(m)
    BY <2>1, <1>4, <1>6, ShrunkGood
  <2> QED
    BY <2>2, <1>4, <1>5, <1>11
<1> QED
  BY <1>7, <1>8, <1>9, <1>10, <1>11

-----------------------------------------------------------------------------
(* A table.                                                                *)

\* A table of b bits whose buckets are good.
GoodTable(T, b) ==
  /\ b \in InitBits .. MaxBits
  /\ DOMAIN T = 0 .. jhash_size(b) - 1
  /\ \A k \in DOMAIN T : GoodBucket(T[k], k, b)

\* All slots in use.
Everything(T) == UNION {Contents(T[k]) : k \in DOMAIN T}

\* The used slots as in Stored and SlotAt.
StoredIn(T) == UNION {{<<k, i>> : i \in Live(T[k])} : k \in {j \in DOMAIN T : T[j] # NoBucket}}

SlotIn(T, x) == T[x[1]].value[x[2]]

\* The hash of a domain selects a bucket of the table.
LEMMA KeyInTable ==
  ASSUME NEW b \in InitBits .. MaxBits, NEW d \in Domains
  PROVE  HKEY(d, b) \in 0 .. jhash_size(b) - 1
<1> DEFINE h == Hash[d]
           s == jhash_size(b)
<1>1. h \in Nat /\ s \in Nat \ {0}
  BY HashAssumption
<1> HIDE DEF h, s
<1>2. h % s \in 0 .. s - 1
  BY <1>1
<1> QED
  BY <1>2 DEF HKEY, h, s

LEMMA InTable ==
  ASSUME NEW T, NEW b, GoodTable(T, b)
  PROVE  \A x : x \in StoredIn(T) <=>
           \E k \in DOMAIN T : \E i \in T[k].used : T[k] # NoBucket /\ x = <<k, i>>
<1>1. \A k \in DOMAIN T : T[k] # NoBucket => Live(T[k]) = T[k].used
  BY BucketIs DEF GoodTable, GoodBucket
<1> QED
  BY <1>1 DEF StoredIn

\* What is known of a slot of the table.
LEMMA TableSlots ==
  ASSUME NEW T, NEW b, GoodTable(T, b)
  PROVE  /\ \A s \in Everything(T) :
              /\ s \in SlotType /\ s.elem \in Domains
              /\ HKEY(s.elem, b) \in DOMAIN T /\ s \in Contents(T[HKEY(s.elem, b)])
         /\ \A s, t \in Everything(T) : s.elem = t.elem => s = t
<1>1. ASSUME NEW s \in Everything(T)
      PROVE  /\ s \in SlotType /\ s.elem \in Domains
             /\ HKEY(s.elem, b) \in DOMAIN T /\ s \in Contents(T[HKEY(s.elem, b)])
  <2>1. PICK k \in DOMAIN T : s \in Contents(T[k])
    BY DEF Everything
  <2>2. T[k] # NoBucket /\ \E i \in T[k].used : s = T[k].value[i]
    BY <2>1 DEF Contents
  <2>3. PICK i \in T[k].used : s = T[k].value[i]
    BY <2>2
  <2>4. GoodBucket(T[k], k, b) /\ BucketOK(T[k])
    BY <2>2 DEF GoodTable, GoodBucket
  <2>5. /\ T[k].used \in SUBSET (0 .. T[k].size - 1)
        /\ T[k].value \in [0 .. T[k].size - 1 -> SlotType]
    BY <2>4, BucketIs
  <2>6. s \in SlotType
    BY <2>3, <2>5
  <2>7. s.elem \in Domains /\ HKEY(s.elem, b) = k
    BY <2>2, <2>3, <2>4 DEF GoodBucket
  <2> QED
    BY <2>1, <2>6, <2>7
<1>2. ASSUME NEW s \in Everything(T), NEW t \in Everything(T), s.elem = t.elem PROVE s = t
  <2> DEFINE k == HKEY(s.elem, b)
  <2>1. k \in DOMAIN T /\ s \in Contents(T[k]) /\ t \in Contents(T[k])
    BY <1>1, <1>2
  <2> HIDE DEF k
  <2>2. T[k] # NoBucket /\ GoodBucket(T[k], k, b)
    BY <2>1 DEF Contents, GoodTable
  <2>3. PICK i \in T[k].used : s = T[k].value[i]
    BY <2>1, <2>2 DEF Contents
  <2>4. PICK j \in T[k].used : t = T[k].value[j]
    BY <2>1, <2>2 DEF Contents
  <2>5. i = j
    BY <2>2, <2>3, <2>4, <1>2 DEF GoodBucket
  <2> QED
    BY <2>3, <2>4, <2>5
<1> QED
  BY <1>1, <1>2

\* There are only finitely many slots in use, since every domain has one.
LEMMA EverythingFinite ==
  ASSUME NEW T, NEW b, GoodTable(T, b)
  PROVE  IsFiniteSet(Everything(T))
<1>1. PICK f : f = [s \in Everything(T) |-> s.elem]
  OBVIOUS
<1>2. f \in Injection(Everything(T), Domains)
  BY <1>1, TableSlots DEF Injection, IsInjective
<1> QED
  BY <1>2, FS_Injection, HashAssumption

\* Every place in use holds a slot of the table, in the bucket of its key, and
\* no two places hold the same element.
LEMMA PlacesOnce ==
  ASSUME NEW T, NEW b, GoodTable(T, b), NEW x \in StoredIn(T)
  PROVE  /\ SlotIn(T, x) \in Everything(T)
         /\ x[1] = HKEY(SlotIn(T, x).elem, b)
         /\ \A y \in StoredIn(T) : SlotIn(T, x).elem = SlotIn(T, y).elem => x = y
<1>a. PICK k \in DOMAIN T : \E i \in T[k].used : T[k] # NoBucket /\ x = <<k, i>>
  BY InTable
<1>1. PICK i \in T[k].used : T[k] # NoBucket /\ x = <<k, i>>
  BY <1>a
<1>2. SlotIn(T, x) = T[k].value[i] /\ x[1] = k
  BY <1>1 DEF SlotIn
<1>3. GoodBucket(T[k], k, b)
  BY DEF GoodTable
<1>4. HKEY(T[k].value[i].elem, b) = k
  BY <1>1, <1>3 DEF GoodBucket
<1>5. T[k].value[i] \in Contents(T[k])
  BY <1>1 DEF Contents
<1>6. ASSUME NEW y \in StoredIn(T), SlotIn(T, x).elem = SlotIn(T, y).elem PROVE x = y
  <2>a. PICK l \in DOMAIN T : \E j \in T[l].used : T[l] # NoBucket /\ y = <<l, j>>
    BY InTable
  <2>1. PICK j \in T[l].used : T[l] # NoBucket /\ y = <<l, j>>
    BY <2>a
  <2>2. SlotIn(T, y) = T[l].value[j]
    BY <2>1 DEF SlotIn
  <2>3. GoodBucket(T[l], l, b)
    BY DEF GoodTable
  <2>4. k = l
    BY <1>1, <1>2, <1>4, <1>6, <2>1, <2>2, <2>3 DEF GoodBucket
  <2>5. i = j
    BY <1>1, <1>2, <1>3, <1>6, <2>1, <2>2, <2>4 DEF GoodBucket
  <2> QED
    BY <1>1, <2>1, <2>4, <2>5
<1> QED
  BY <1>2, <1>4, <1>5, <1>6 DEF Everything

\* Counting places is counting slots.
LEMMA PlacesCount ==
  ASSUME NEW T, NEW b, GoodTable(T, b), NEW A \in SUBSET Everything(T)
  PROVE  /\ IsFiniteSet({x \in StoredIn(T) : SlotIn(T, x) \in A})
         /\ Cardinality({x \in StoredIn(T) : SlotIn(T, x) \in A}) = Cardinality(A)
<1>1. PICK P : P = {x \in StoredIn(T) : SlotIn(T, x) \in A}
  OBVIOUS
<1>2. PICK f : f = [x \in P |-> SlotIn(T, x)]
  OBVIOUS
<1>3. f \in [P -> A]
  BY <1>1, <1>2
<1>4. ASSUME NEW x \in P, NEW y \in P, f[x] = f[y] PROVE x = y
  <2>1. x \in StoredIn(T) /\ y \in StoredIn(T) /\ SlotIn(T, x).elem = SlotIn(T, y).elem
    BY <1>1, <1>2, <1>4
  <2> QED
    BY <2>1, PlacesOnce
<1>5. ASSUME NEW s \in A PROVE \E x \in P : f[x] = s
  <2>1. PICK k \in DOMAIN T : s \in Contents(T[k])
    BY DEF Everything
  <2>2. T[k] # NoBucket
    BY <2>1 DEF Contents
  <2>3. PICK i \in T[k].used : s = T[k].value[i]
    BY <2>1, <2>2 DEF Contents
  <2>4. <<k, i>> \in StoredIn(T) /\ SlotIn(T, <<k, i>>) = s
    BY <2>2, <2>3, InTable DEF SlotIn
  <2> QED
    BY <2>4, <1>1, <1>2
<1>6. f \in Injection(P, A) /\ f \in Surjection(P, A)
  BY <1>3, <1>4, <1>5 DEF Injection, IsInjective, Surjection
<1>7. IsFiniteSet(A)
  BY EverythingFinite, FS_Subset
<1>8. IsFiniteSet(P) /\ Cardinality(P) = Cardinality(A)
  BY <1>6, <1>7, FS_Injection
<1> QED
  BY <1>1, <1>8

\* U is T with m for bucket k.
Replaces(U, T, k, m) ==
  /\ DOMAIN U = DOMAIN T /\ U[k] = m
  /\ \A j \in DOMAIN T \ {k} : U[j] = T[j]

\* A bucket is replaced by another one.
LEMMA BucketReplaced ==
  ASSUME NEW T, NEW b, GoodTable(T, b), NEW k \in DOMAIN T, NEW m, GoodBucket(m, k, b),
         NEW U, Replaces(U, T, k, m)
  PROVE  /\ GoodTable(U, b)
         /\ Everything(U) = (Everything(T) \ Contents(T[k])) \cup Contents(m)
<1>2. DOMAIN U = DOMAIN T /\ U[k] = m /\ \A j \in DOMAIN T \ {k} : U[j] = T[j]
  BY DEF Replaces
<1>3. GoodTable(U, b)
  BY <1>2 DEF GoodTable
<1>4. ASSUME NEW j \in DOMAIN T, NEW s \in Contents(T[j]), s \in Contents(T[k]) PROVE j = k
  <2>1. T[j] # NoBucket /\ T[k] # NoBucket /\ GoodBucket(T[j], j, b) /\ GoodBucket(T[k], k, b)
    BY <1>4 DEF Contents, GoodTable
  <2>2. PICK x \in T[j].used : s = T[j].value[x]
    BY <2>1 DEF Contents
  <2>3. PICK y \in T[k].used : s = T[k].value[y]
    BY <2>1, <1>4 DEF Contents
  <2> QED
    BY <2>1, <2>2, <2>3 DEF GoodBucket
<1>5. Everything(U) = (Everything(T) \ Contents(T[k])) \cup Contents(m)
  <2>1. ASSUME NEW s PROVE s \in Everything(U) <=> \E j \in DOMAIN T : s \in Contents(U[j])
    BY <1>2 DEF Everything
  <2>2. ASSUME NEW s PROVE s \in Everything(T) <=> \E j \in DOMAIN T : s \in Contents(T[j])
    BY DEF Everything
  <2> QED
    BY <2>1, <2>2, <1>2, <1>4
<1> QED
  BY <1>3, <1>5

\* mtype_expire on the whole table.
LEMMA ExpireAllGood ==
  ASSUME GoodTable(bucket, bits), NEW oom
  PROVE  /\ GoodTable(ExpireAll(oom), bits)
         /\ Everything(ExpireAll(oom)) = {s \in Everything(bucket) : s.timeout # "over"}
<1>1. PICK U : U = ExpireAll(oom)
  OBVIOUS
<1>2. /\ DOMAIN U = DOMAIN bucket
      /\ \A k \in DOMAIN bucket :
           U[k] = IF bucket[k] = NoBucket THEN NoBucket ELSE ExpireBucket(bucket[k], k \in oom)
  BY <1>1 DEF ExpireAll, GoodTable, Keys
<1>3. ASSUME NEW k \in DOMAIN bucket
      PROVE  /\ GoodBucket(U[k], k, bits)
             /\ Contents(U[k]) = {s \in Contents(bucket[k]) : s.timeout # "over"}
  <2>1. CASE bucket[k] = NoBucket
    BY <1>2, <2>1 DEF GoodBucket, Contents
  <2>2. CASE bucket[k] # NoBucket
    <3>1. GoodBucket(bucket[k], k, bits) /\ (k \in oom) \in BOOLEAN
      BY DEF GoodTable
    <3>2. /\ GoodBucket(ExpireBucket(bucket[k], k \in oom), k, bits)
          /\ Contents(ExpireBucket(bucket[k], k \in oom)) =
               {s \in Contents(bucket[k]) : s.timeout # "over"}
      BY <2>2, <3>1, ExpiredGood
    <3> QED
      BY <1>2, <2>2, <3>2
  <2> QED
    BY <2>1, <2>2
<1>4. GoodTable(U, bits)
  BY <1>2, <1>3 DEF GoodTable
<1>5. Everything(U) = {s \in Everything(bucket) : s.timeout # "over"}
  BY <1>2, <1>3 DEF Everything
<1> QED
  BY <1>1, <1>4, <1>5

\* The places of the current table.
LEMMA StoredIs ==
  ASSUME GoodTable(bucket, bits)
  PROVE  Stored = StoredIn(bucket) /\ \A x : SlotAt(x) = SlotIn(bucket, x)
BY DEF GoodTable, Stored, StoredIn, Keys, SlotAt, SlotIn

\* The count that mtype_expire leaves is that of the slots it leaves.
LEMMA AfterExpireCounts ==
  ASSUME GoodTable(bucket, bits), elements = Cardinality(Everything(bucket)), NEW oom
  PROVE  /\ GoodTable(AfterExpire(oom).bucket, bits)
         /\ Everything(AfterExpire(oom).bucket) = {s \in Everything(bucket) : s.timeout # "over"}
         /\ AfterExpire(oom).elements = Cardinality(Everything(AfterExpire(oom).bucket))
<1>1. /\ GoodTable(ExpireAll(oom), bits)
      /\ Everything(ExpireAll(oom)) = {s \in Everything(bucket) : s.timeout # "over"}
  BY ExpireAllGood
<1>2. PICK E : E = Everything(bucket)
  OBVIOUS
<1>3. PICK A : A = {s \in E : s.timeout = "over"}
  OBVIOUS
<1>4. A \in SUBSET Everything(bucket)
  BY <1>2, <1>3
<1>5. Overdue = {x \in StoredIn(bucket) : SlotIn(bucket, x) \in A}
  <2>1. ASSUME NEW x \in StoredIn(bucket) PROVE SlotIn(bucket, x) \in E
    <3>1. PICK k \in DOMAIN bucket :
            \E i \in bucket[k].used : bucket[k] # NoBucket /\ x = <<k, i>>
      BY InTable
    <3>2. SlotIn(bucket, x) \in Contents(bucket[k])
      BY <3>1 DEF SlotIn, Contents
    <3> QED
      BY <3>2, <1>2 DEF Everything
  <2> QED
    BY <2>1, <1>3, StoredIs DEF Overdue
<1>6. Cardinality(Overdue) = Cardinality(A)
  BY <1>4, <1>5, PlacesCount, Zenon
<1>7. IsFiniteSet(E)
  BY <1>2, EverythingFinite
<1>8. /\ E \ A = {s \in E : s.timeout # "over"} /\ E \cap A = A
  BY <1>3
<1>9. Cardinality(E \ A) = Cardinality(E) - Cardinality(E \cap A)
  BY <1>7, FS_Difference
<1> QED
  BY <1>1, <1>2, <1>6, <1>8, <1>9 DEF AfterExpire

\* The bucket that mtype_resize fills.
LEMMA FilledGood ==
  ASSUME GoodTable(bucket, bits), NEW b \in InitBits .. MaxBits, NEW k,
         NEW X \in SUBSET Stored, \A x \in X : HKEY(SlotAt(x).elem, b) = k,
         Cardinality(X) <= MaxSize
  PROVE  /\ GoodBucket(Filled(X), k, b)
         /\ Contents(Filled(X)) = {SlotAt(x) : x \in X}
<1> DEFINE c == Cardinality(X)
           place(i) == CHOOSE x \in X : Cardinality({y \in X : Before(y, x)}) = i
<1>1. IsFiniteSet(X) /\ c \in Nat
  <2>1. Everything(bucket) \in SUBSET Everything(bucket)
    OBVIOUS
  <2>2. IsFiniteSet({x \in StoredIn(bucket) : SlotIn(bucket, x) \in Everything(bucket)})
    BY <2>1, PlacesCount, Zenon
  <2>3. ASSUME NEW x \in StoredIn(bucket) PROVE SlotIn(bucket, x) \in Everything(bucket)
    <3>1. PICK l \in DOMAIN bucket :
            \E i \in bucket[l].used : bucket[l] # NoBucket /\ x = <<l, i>>
      BY InTable
    <3>2. SlotIn(bucket, x) \in Contents(bucket[l])
      BY <3>1 DEF SlotIn, Contents
    <3> QED
      BY <3>2 DEF Everything
  <2>4. {x \in StoredIn(bucket) : SlotIn(bucket, x) \in Everything(bucket)} = Stored
    BY <2>3, StoredIs
  <2>5. IsFiniteSet(X)
    BY <2>2, <2>4, FS_Subset
  <2> QED
    BY <2>5, FS_CardinalityType
<1>2. ASSUME NEW x \in X
      PROVE  /\ x[1] \in Int /\ x[2] \in Int /\ x = <<x[1], x[2]>>
             /\ x[1] \in DOMAIN bucket /\ bucket[x[1]] # NoBucket
             /\ x[2] \in bucket[x[1]].used
  <2>1. PICK l \in DOMAIN bucket :
          \E i \in bucket[l].used : bucket[l] # NoBucket /\ x = <<l, i>>
    BY InTable, StoredIs
  <2>2. PICK i \in bucket[l].used : bucket[l] # NoBucket /\ x = <<l, i>>
    BY <2>1
  <2>3. l \in Int
    BY DEF GoodTable
  <2>4. i \in Int
    BY <2>2, BucketIs DEF GoodTable, GoodBucket
  <2> QED
    BY <2>2, <2>3, <2>4
<1>3. ASSUME NEW x \in X, NEW y \in X, SlotAt(x).elem = SlotAt(y).elem PROVE x = y
  <2>1. /\ GoodBucket(bucket[x[1]], x[1], bits) /\ GoodBucket(bucket[y[1]], y[1], bits)
    BY <1>2 DEF GoodTable
  <2>2. x[1] = y[1]
    BY <2>1, <1>2, <1>3 DEF GoodBucket, SlotAt
  <2>3. x[2] = y[2]
    BY <2>1, <2>2, <1>2, <1>3 DEF GoodBucket, SlotAt
  <2> QED
    BY <2>2, <2>3, <1>2
<1>4. ASSUME NEW x \in X PROVE SlotAt(x) \in SlotType /\ SlotAt(x).elem \in Domains
  <2>1. GoodBucket(bucket[x[1]], x[1], bits) /\ BucketOK(bucket[x[1]])
    BY <1>2 DEF GoodTable, GoodBucket
  <2>2. /\ bucket[x[1]].used \in SUBSET (0 .. bucket[x[1]].size - 1)
        /\ bucket[x[1]].value \in [0 .. bucket[x[1]].size - 1 -> SlotType]
    BY <2>1, BucketIs
  <2>3. SlotAt(x) \in SlotType
    BY <2>2, <1>2 DEF SlotAt
  <2> QED
    BY <2>1, <2>3, <1>2 DEF GoodBucket, SlotAt
<1>5. /\ \A i \in 0 .. c - 1 : place(i) \in X
      /\ \A i, j \in 0 .. c - 1 : place(i) = place(j) => i = j
      /\ \A x \in X : \E i \in 0 .. c - 1 : place(i) = x
  <2>1. PICK R : R = {p \in X \X X : Before(p[1], p[2])}
    OBVIOUS
  <2>2. \A x, y \in X : <<x, y>> \in R <=> Before(x, y)
    BY <2>1
  <2>3. TotalOrder(X, R)
    <3>1. \A x, y \in X : <<x, y>> \in R <=> x[1] < y[1] \/ (x[1] = y[1] /\ x[2] < y[2])
      BY <2>2 DEF Before
    <3>2. \A x, y \in X : x[1] = y[1] /\ x[2] = y[2] => x = y
      BY <1>2
    <3>3. \A x \in X : x[1] \in Int /\ x[2] \in Int
      BY <1>2
    <3> QED
      BY <3>1, <3>2, <3>3 DEF TotalOrder
  <2>4. /\ RankIn(X, R) \in [X -> 0 .. Cardinality(X) - 1]
        /\ \A x, y \in X : RankIn(X, R)[x] = RankIn(X, R)[y] => x = y
        /\ \A i \in 0 .. Cardinality(X) - 1 : \E x \in X : RankIn(X, R)[x] = i
    <3> HIDE DEF c, place
    <3> QED
      BY <1>1, <2>3, Ranks, SMTT(30)
  <2>5. \A x \in X : RankIn(X, R)[x] = Cardinality({y \in X : Before(y, x)})
    <3>1. \A x \in X : {y \in X : <<y, x>> \in R} = {y \in X : Before(y, x)}
      BY <2>2
    <3> QED
      BY <3>1 DEF RankIn
  <2>6. ASSUME NEW i \in 0 .. c - 1
        PROVE  place(i) \in X /\ RankIn(X, R)[place(i)] = i
    <3>0. PICK x \in X : RankIn(X, R)[x] = i
      <4> HIDE DEF place
      <4> QED
        BY <2>4
    <3>1. \E z \in X : Cardinality({y \in X : Before(y, z)}) = i
      <4>1. Cardinality({y \in X : Before(y, x)}) = i
        BY <3>0, <2>5, Zenon
      <4> QED
        BY <4>1, Zenon
    <3>2. place(i) \in X /\ Cardinality({y \in X : Before(y, place(i))}) = i
      BY <3>1, Zenon
    <3> HIDE DEF place
    <3> QED
      BY <3>2, <2>5
  <2> HIDE DEF place
  <2>7. ASSUME NEW x \in X PROVE \E i \in 0 .. c - 1 : place(i) = x
    <3>1. RankIn(X, R)[x] \in 0 .. c - 1
      BY <2>4
    <3>2. place(RankIn(X, R)[x]) \in X /\ RankIn(X, R)[place(RankIn(X, R)[x])] = RankIn(X, R)[x]
      BY <3>1, <2>6
    <3>3. place(RankIn(X, R)[x]) = x
      BY <3>2, <2>4
    <3> QED
      BY <3>1, <3>3
  <2>8. ASSUME NEW i \in 0 .. c - 1, NEW j \in 0 .. c - 1, place(i) = place(j) PROVE i = j
    BY <2>6, <2>8
  <2> QED
    BY <2>6, <2>7, <2>8
<1>6. CASE X = {}
  <2>1. c = 0
    BY <1>6, FS_EmptySet
  <2>2. Filled(X) = NoBucket
    BY <2>1 DEF Filled
  <2> QED
    BY <1>6, <2>2 DEF GoodBucket, Contents
<1>7. CASE X # {}
  <2> DEFINE s == InitSize * ((c + InitSize - 1) \div InitSize)
             v == [i \in 0 .. s - 1 |-> IF i < c THEN SlotAt(place(i)) ELSE ZeroSlot]
             m == [size |-> s, pos |-> c, used |-> 0 .. c - 1, value |-> v]
  <2>1. c # 0
    BY <1>1, <1>7, FS_EmptySet
  <2>2. Filled(X) =
          [NewBucket(s) EXCEPT !.pos = c, !.used = 0 .. c - 1,
             !.value = [i \in DOMAIN NewBucket(s).value |->
                          IF i < c THEN SlotAt(place(i)) ELSE NewBucket(s).value[i]]]
    BY <2>1 DEF Filled
  <2> HIDE DEF place
  <2>3. s \in Sizes /\ c <= s /\ s \in Nat
    <3>1. c \in 0 .. MaxSize
      BY <1>1, HashAssumption
    <3> HIDE DEF c
    <3> QED
      BY <3>1, SizesRound, SizesGrow
  <2>4. Filled(X) = m
    <3> HIDE DEF s, c
    <3>1. PICK z : z = NewBucket(s)
      OBVIOUS
    <3>2. z = [size |-> s, pos |-> 0, used |-> {}, value |-> [i \in 0 .. s - 1 |-> ZeroSlot]]
      BY <3>1 DEF NewBucket
    <3>3. [i \in DOMAIN z.value |-> IF i < c THEN SlotAt(place(i)) ELSE z.value[i]] = v
      BY <3>2
    <3>4. Filled(X) = [z EXCEPT !.pos = c, !.used = 0 .. c - 1,
             !.value = [i \in DOMAIN z.value |->
                          IF i < c THEN SlotAt(place(i)) ELSE z.value[i]]]
      BY <2>2, <3>1
    <3> HIDE DEF v
    <3> QED
      BY <3>2, <3>3, <3>4
  <2>5. v \in [0 .. s - 1 -> SlotType] /\ \A i \in 0 .. c - 1 : v[i] = SlotAt(place(i))
    <3> HIDE DEF c, s
    <3>1. ASSUME NEW i \in 0 .. s - 1
          PROVE  (IF i < c THEN SlotAt(place(i)) ELSE ZeroSlot) \in SlotType
      <4>1. CASE i < c
        <5>1. i \in 0 .. c - 1
          BY <4>1, <1>1, <2>3
        <5> QED
          BY <4>1, <5>1, <1>4, <1>5
      <4> QED
        BY <4>1, ZeroSlotType
    <3> QED
      BY <3>1, <1>1, <2>3
  <2>6. m.used = 0 .. c - 1 /\ m.value = v
    OBVIOUS
  <2>7. BucketOK(m) /\ m # NoBucket
    <3>1. c \in 0 .. s /\ 0 .. c - 1 \in SUBSET (0 .. c - 1)
      BY <1>1, <2>3
    <3> HIDE DEF c, s, v
    <3> QED
      BY <2>3, <2>5, <3>1, MakeBucket
  <2> HIDE DEF c, s, v, m
  <2>8. \A i \in m.used : m.value[i] = SlotAt(place(i)) /\ place(i) \in X
    BY <2>5, <2>6, <1>5
  <2>9. \A i \in m.used : m.value[i].elem \in Domains /\ HKEY(m.value[i].elem, b) = k
    BY <2>8, <1>4
  <2>10. ASSUME NEW i \in m.used, NEW j \in m.used, m.value[i].elem = m.value[j].elem
         PROVE  i = j
    <3>1. place(i) = place(j)
      BY <2>8, <2>10, <1>3
    <3> QED
      BY <3>1, <2>6, <1>5
  <2>11. {m.value[i] : i \in m.used} = {SlotAt(x) : x \in X}
    BY <2>6, <2>8, <1>5
  <2>12. GoodBucket(m, k, b) /\ Contents(m) = {m.value[i] : i \in m.used}
    BY <2>7, <2>9, <2>10 DEF GoodBucket, Contents
  <2> QED
    BY <2>4, <2>11, <2>12
<1> QED
  BY <1>6, <1>7

\* mtype_resize moves every slot to the bucket of its new key.
LEMMA ResizedGood ==
  ASSUME GoodTable(bucket, bits), NEW b \in InitBits .. MaxBits,
         \A k \in 0 .. jhash_size(b) - 1 : Cardinality(Moving(b, k)) <= MaxSize
  PROVE  /\ GoodTable([k \in 0 .. jhash_size(b) - 1 |-> Filled(Moving(b, k))], b)
         /\ Everything([k \in 0 .. jhash_size(b) - 1 |-> Filled(Moving(b, k))]) =
              Everything(bucket)
<1>1. PICK U : U = [k \in 0 .. jhash_size(b) - 1 |-> Filled(Moving(b, k))]
  OBVIOUS
<1>2. ASSUME NEW k \in 0 .. jhash_size(b) - 1
      PROVE  /\ GoodBucket(Filled(Moving(b, k)), k, b)
             /\ Contents(Filled(Moving(b, k))) = {SlotAt(x) : x \in Moving(b, k)}
  <2>1. Moving(b, k) \in SUBSET Stored /\ \A x \in Moving(b, k) : HKEY(SlotAt(x).elem, b) = k
    BY DEF Moving
  <2> QED
    BY <2>1, FilledGood
<1>3. /\ DOMAIN U = 0 .. jhash_size(b) - 1
      /\ \A k \in DOMAIN U : U[k] = Filled(Moving(b, k))
  BY <1>1
<1>4. GoodTable(U, b)
  BY <1>2, <1>3 DEF GoodTable
<1>5. ASSUME NEW s \in Everything(bucket) PROVE s \in Everything(U)
  <2>1. PICK k \in DOMAIN bucket : s \in Contents(bucket[k])
    BY DEF Everything
  <2>2. bucket[k] # NoBucket
    BY <2>1 DEF Contents
  <2>3. PICK i \in bucket[k].used : s = bucket[k].value[i]
    BY <2>1, <2>2 DEF Contents
  <2>4. <<k, i>> \in Stored /\ SlotAt(<<k, i>>) = s
    BY <2>2, <2>3, InTable, StoredIs DEF SlotAt
  <2>5. s.elem \in Domains
    BY TableSlots
  <2>6. HKEY(s.elem, b) \in DOMAIN U
    BY <2>5, <1>3, KeyInTable
  <2>7. <<k, i>> \in Moving(b, HKEY(s.elem, b))
    BY <2>4 DEF Moving
  <2>8. s \in Contents(U[HKEY(s.elem, b)])
    BY <1>2, <1>3, <2>4, <2>6, <2>7
  <2> QED
    BY <2>6, <2>8 DEF Everything
<1>6. ASSUME NEW s \in Everything(U) PROVE s \in Everything(bucket)
  <2>1. PICK k \in DOMAIN U : s \in Contents(U[k])
    BY DEF Everything
  <2>2. PICK x \in Moving(b, k) : s = SlotAt(x)
    BY <2>1, <1>2, <1>3
  <2>3. x \in StoredIn(bucket) /\ s = SlotIn(bucket, x)
    BY <2>2, StoredIs DEF Moving
  <2>4. PICK l \in DOMAIN bucket : \E i \in bucket[l].used : bucket[l] # NoBucket /\ x = <<l, i>>
    BY <2>3, InTable
  <2>5. s \in Contents(bucket[l])
    BY <2>3, <2>4 DEF SlotIn, Contents
  <2> QED
    BY <2>5 DEF Everything
<1>7. Everything(U) = Everything(bucket)
  BY <1>5, <1>6
<1> QED
  BY <1>1, <1>4, <1>7

-----------------------------------------------------------------------------
(* The invariant.                                                          *)

\* A good table with b bits, whose slots are n in number, and which are not
\* limited in time when the set is not.
Core(T, b, n) ==
  /\ GoodTable(T, b)
  /\ n = Cardinality(Everything(T))
  /\ WithTimeout \/ \A s \in Everything(T) : s.timeout = "perm"

\* The command: it resizes to a larger table only.  If the largest table is
\* large enough for all domains, a larger one is never asked for.
OpInv ==
  /\ op \in OpType
  /\ op.pc = "idle" => op = NoOp
  /\ op.pc # "idle" => op.elem \in Domains
  /\ op.pc = "resize" => op.bits >= bits /\ (MayRunOut \/ op.bits < MaxBits)

HashInv ==
  /\ Core(bucket, bits, elements)
  /\ OpInv
  /\ ret \in {"none", "ok", "exist", "full", "nomem"}
  /\ wild \in BOOLEAN

LEMMA CoreCount ==
  ASSUME NEW T, NEW b, NEW n, Core(T, b, n)
  PROVE  n \in Nat /\ IsFiniteSet(Everything(T))
<1>1. IsFiniteSet(Everything(T))
  BY EverythingFinite DEF Core
<1> QED
  BY <1>1, FS_CardinalityType DEF Core

LEMMA HashInvType == HashInv => TypeOK
<1> SUFFICES ASSUME HashInv PROVE TypeOK
  OBVIOUS
<1>1. GoodTable(bucket, bits)
  BY DEF HashInv, Core
<1>2. elements \in Nat
  BY CoreCount DEF HashInv
<1>3. DOMAIN bucket = Keys /\ \A k \in Keys : bucket[k] = NoBucket \/ BucketOK(bucket[k])
  BY <1>1 DEF GoodTable, GoodBucket, Keys
<1>4. bits \in InitBits .. MaxBits
  BY <1>1 DEF GoodTable
<1> QED
  BY <1>2, <1>3, <1>4 DEF HashInv, OpInv, TypeOK

LEMMA HashInvInit == Init => HashInv
<1> SUFFICES ASSUME Init PROVE HashInv
  OBVIOUS
<1>1. DOMAIN bucket = 0 .. jhash_size(bits) - 1 /\ \A k \in DOMAIN bucket : bucket[k] = NoBucket
  BY DEF Init
<1>2. GoodTable(bucket, bits)
  BY <1>1, HashAssumption DEF Init, GoodTable, GoodBucket
<1>3. Everything(bucket) = {}
  BY <1>1 DEF Everything, Contents
<1>4. Core(bucket, bits, elements)
  BY <1>2, <1>3, FS_EmptySet DEF Core, Init
<1>5. NoOp \in OpType
  BY HashAssumption DEF NoOp, OpType
<1> QED
  BY <1>4, <1>5 DEF HashInv, OpInv, Init, NoOp

\* Slot i of bucket n, which is to become bucket k of T, can take the slot new
\* over the slots R.
Takes(T, b, k, n, i, new, R) ==
  /\ BucketOK(n) /\ GoodBucket(n, k, b)
  /\ i \in 0 .. n.size - 1 /\ i <= n.pos
  /\ new \in SlotType /\ new.elem \in Domains /\ HKEY(new.elem, b) = k
  /\ WithTimeout \/ new.timeout = "perm"
  /\ \A j \in n.used \ {i} : n.value[j].elem # new.elem
  /\ R \in SUBSET Contents(T[k])
  /\ Contents(T[k]) \ R = {n.value[j] : j \in n.used \ {i}}
  /\ R = {} \/ \E old : R = {old}

\* An element is stored in bucket k, over the slots R.
LEMMA StoredInto ==
  ASSUME NEW T, NEW b, NEW e, Core(T, b, e), NEW k \in DOMAIN T,
         NEW n, NEW i, NEW new, NEW R, Takes(T, b, k, n, i, new, R),
         NEW U, Replaces(U, T, k, WithSlot(n, i, new))
  PROVE  /\ Core(U, b, IF R = {} THEN e + 1 ELSE e)
         /\ Everything(U) = (Everything(T) \ R) \cup {new}
         /\ R \in SUBSET Everything(T)
         /\ \A s \in Everything(T) \ R : s.elem # new.elem
<1>1. PICK m : m = WithSlot(n, i, new)
  OBVIOUS
<1>2. /\ BucketOK(m) /\ GoodBucket(m, k, b)
      /\ Contents(m) = {n.value[j] : j \in n.used \ {i}} \cup {new}
  BY <1>1, WrittenGood DEF Takes
<1>3. GoodTable(T, b)
  BY DEF Core
<1>5. GoodTable(U, b) /\ Everything(U) = (Everything(T) \ Contents(T[k])) \cup Contents(m)
  BY <1>1, <1>2, <1>3, BucketReplaced
<1>6. Contents(T[k]) \in SUBSET Everything(T)
  BY DEF Everything
<1>7. PICK E : E = Everything(T)
  OBVIOUS
<1>8. Everything(U) = (E \ R) \cup {new} /\ R \in SUBSET E
  BY <1>2, <1>5, <1>6, <1>7 DEF Takes
<1>9. ASSUME NEW s \in E \ R PROVE s.elem # new.elem
  <2>1. CASE s \in Contents(T[k])
    BY <2>1 DEF Takes
  <2>2. CASE s \notin Contents(T[k])
    BY <2>2, <1>3, <1>7, TableSlots DEF Takes
  <2> QED
    BY <2>1, <2>2
<1>10. new \notin E \ R
  BY <1>9
<1>11. IsFiniteSet(E) /\ Cardinality(E) \in Nat /\ Cardinality(E) = e
  BY <1>7, CoreCount DEF Core
<1>12. (IF R = {} THEN e + 1 ELSE e) = Cardinality(Everything(U))
  <2>1. CASE R = {}
    <3>1. E \ R = E
      BY <2>1
    <3>2. Cardinality(E \cup {new}) = Cardinality(E) + 1
      BY <1>10, <1>11, <3>1, FS_AddElement
    <3> QED
      BY <2>1, <3>1, <3>2, <1>8, <1>11
  <2>2. CASE R # {}
    <3>1. PICK old : R = {old}
      BY <2>2 DEF Takes
    <3>2. IsFiniteSet(E \ {old}) /\ Cardinality(E \ {old}) = Cardinality(E) - 1
      BY <1>8, <1>11, <3>1, FS_RemoveElement
    <3>3. Cardinality((E \ {old}) \cup {new}) = Cardinality(E \ {old}) + 1
      BY <1>10, <3>1, <3>2, FS_AddElement
    <3> QED
      BY <1>8, <1>11, <2>2, <3>1, <3>2, <3>3
  <2> QED
    BY <2>1, <2>2
<1>13. WithTimeout \/ \A s \in Everything(U) : s.timeout = "perm"
  <2>1. CASE ~WithTimeout
    <3>1. \A s \in E : s.timeout = "perm"
      BY <2>1, <1>7 DEF Core
    <3>2. new.timeout = "perm"
      BY <2>1 DEF Takes
    <3> QED
      BY <3>1, <3>2, <1>8
  <2> QED
    BY <2>1
<1> QED
  BY <1>5, <1>7, <1>8, <1>9, <1>12, <1>13 DEF Core

-----------------------------------------------------------------------------
(* What mtype_add does to the slots.                                       *)

Alive(F, d) == \E s \in F : s.elem = d /\ s.timeout # "over"

\* The set that mtype_add works on: when it is full nothing in it is overdue.
Prepared(S) ==
  /\ Core(S.bucket, bits, S.elements)
  /\ Full(S) => \A s \in Everything(S.bucket) : s.timeout # "over"

\* The element is stored, over the slots R.
AddStores(F) ==
  \E new \in SlotType, R \in SUBSET F :
    /\ new.elem = op.elem /\ new.timeout = op.timeout
    /\ Everything(bucket') = (F \ R) \cup {new}
    /\ \A s \in R : s.elem = op.elem \/ s.timeout = "over"
    /\ \A s \in F \ R : s.elem # op.elem
    /\ op.exist \/ ~Alive(F, op.elem)
    /\ ret' = "ok" /\ op' = NoOp

\* The element is refused.
AddRefuses(F) ==
  /\ Everything(bucket') = F
  /\ \/ ret' = "exist" /\ Alive(F, op.elem) /\ ~op.exist
     \/ /\ ret' = "full" /\ \A s \in F : s.elem # op.elem /\ s.timeout # "over"
        /\ Cardinality(F) >= MaxElem
     \/ ret' = "nomem" /\ CanFail
  /\ op' = NoOp

\* The add goes on: it has to resize the table, or has left it.
AddGoesOn(F) ==
  /\ Everything(bucket') = F
  /\ \/ op' = op
     \/ op' = [op EXCEPT !.pc = "resize", !.bits = bits] /\ (MayRunOut \/ bits < MaxBits)
  /\ ret' = ret

AddDoes(F) ==
  /\ Core(bucket', bits', elements') /\ bits' = bits /\ wild' \in BOOLEAN
  /\ AddStores(F) \/ AddRefuses(F) \/ AddGoesOn(F)

\* The slot that the add writes.
LEMMA NewSlotType ==
  ASSUME OpInv, op.pc = "add", NEW old \in SlotType
  PROVE  /\ NewSlot(old) \in SlotType /\ NewSlot(old).elem = op.elem
         /\ NewSlot(old).timeout = op.timeout /\ op.elem \in Domains
         /\ (WithTimeout \/ op.timeout = "perm")
<1>1. /\ op.elem \in Domains /\ op.timeout \in Timeouts
      /\ op.packets \in {-1, 0}
  BY DEF OpInv, OpType
<1>2. old.packets \in 0 .. MaxPackets
  BY DEF SlotType
<1>3. (IF op.packets < 0 THEN old.packets ELSE op.packets) \in 0 .. MaxPackets
  BY <1>1, <1>2, HashAssumption
<1>4. WithTimeout \/ op.timeout = "perm"
  BY <1>1, HashAssumption DEF WithTimeout
<1> QED
  BY <1>1, <1>3, <1>4, HashAssumption DEF NewSlot, SlotType

\* A new element is stored in slot i of n, over the slots R.
LEMMA StoreDoes ==
  ASSUME HashInv, op.pc = "add", NEW S, Prepared(S),
         NEW n, NEW i, NEW R, n.value[i] \in SlotType,
         Takes(S.bucket, bits, HKEY(op.elem, bits), n, i, NewSlot(n.value[i]), R),
         Store(S, HKEY(op.elem, bits), n, i),
         elements' = IF R = {} THEN S.elements + 1 ELSE S.elements,
         \A s \in R : s.elem = op.elem \/ s.timeout = "over",
         op.exist \/ \A s \in R : s.timeout = "over"
  PROVE  AddDoes(Everything(S.bucket))
<1>1. PICK k : k = HKEY(op.elem, bits)
  OBVIOUS
<1>2. PICK new : new = NewSlot(n.value[i])
  OBVIOUS
<1>3. /\ new \in SlotType /\ new.elem = op.elem /\ new.timeout = op.timeout
      /\ op.elem \in Domains /\ (WithTimeout \/ op.timeout = "perm")
  BY <1>2, NewSlotType DEF HashInv
<1>4. PICK T : T = S.bucket
  OBVIOUS
<1>5. Core(T, bits, S.elements) /\ GoodTable(T, bits)
  BY <1>4 DEF Prepared, Core
<1>6. k \in DOMAIN T
  BY <1>1, <1>3, <1>5, KeyInTable DEF GoodTable
<1>7. Replaces(bucket', T, k, WithSlot(n, i, new)) /\ bits' = bits
  <2>1. bucket' = [T EXCEPT ![k] = WithSlot(n, i, new)] /\ bits' = bits
    BY <1>1, <1>2, <1>4 DEF Store
  <2> QED
    BY <2>1, <1>6 DEF Replaces
<1>8. ret' = "ok" /\ op' = NoOp /\ wild' = wild
  BY DEF Store, Answer
<1>9. /\ Core(bucket', bits, elements')
      /\ Everything(bucket') = (Everything(T) \ R) \cup {new}
      /\ R \in SUBSET Everything(T)
      /\ \A s \in Everything(T) \ R : s.elem # new.elem
  <2>1. Takes(T, bits, k, n, i, new, R)
    BY <1>1, <1>2, <1>4
  <2>2. PICK U : U = bucket'
    OBVIOUS
  <2>3. Replaces(U, T, k, WithSlot(n, i, new))
    BY <2>2, <1>7
  <2>4. /\ Core(U, bits, IF R = {} THEN S.elements + 1 ELSE S.elements)
        /\ Everything(U) = (Everything(T) \ R) \cup {new}
        /\ R \in SUBSET Everything(T)
        /\ \A s \in Everything(T) \ R : s.elem # new.elem
    BY <2>1, <2>3, <1>5, <1>6, StoredInto
  <2> QED
    BY <2>2, <2>4
<1>10. op.exist \/ ~Alive(Everything(T), op.elem)
  BY <1>3, <1>9 DEF Alive
<1>11. AddStores(Everything(T))
  BY <1>3, <1>7, <1>8, <1>9, <1>10 DEF AddStores
<1> QED
  BY <1>4, <1>7, <1>8, <1>9, <1>11 DEF AddDoes, HashInv

\* The add ends with a refusal.
LEMMA RefuseDoes ==
  ASSUME HashInv, NEW S, Prepared(S), NEW r, Refuse(S, r),
         \/ r = "exist" /\ Alive(Everything(S.bucket), op.elem) /\ ~op.exist
         \/ r = "full" /\ Full(S) /\ \A s \in Everything(S.bucket) : s.elem # op.elem
         \/ r = "nomem" /\ CanFail
  PROVE  AddDoes(Everything(S.bucket))
<1>1. /\ bucket' = S.bucket /\ elements' = S.elements /\ bits' = bits
      /\ ret' = r /\ op' = NoOp /\ wild' = wild
  BY DEF Refuse, Answer
<1>2. Core(bucket', bits', elements')
  BY <1>1 DEF Prepared
<1>3. Full(S) => /\ Cardinality(Everything(S.bucket)) >= MaxElem
                 /\ \A s \in Everything(S.bucket) : s.timeout # "over"
  BY DEF Prepared, Full, Core
<1>4. AddRefuses(Everything(S.bucket))
  BY <1>1, <1>3 DEF AddRefuses
<1> QED
  BY <1>1, <1>2, <1>4 DEF AddDoes, HashInv

\* An element that is not in its bucket is nowhere.
LEMMA NotInBucket ==
  ASSUME NEW T, NEW b, GoodTable(T, b), NEW d \in Domains,
         T[HKEY(d, b)] # NoBucket => \A i \in T[HKEY(d, b)].used : T[HKEY(d, b)].value[i].elem # d
  PROVE  \A s \in Everything(T) : s.elem # d
<1> SUFFICES ASSUME NEW s \in Everything(T), s.elem = d PROVE FALSE
  OBVIOUS
<1>1. s \in Contents(T[HKEY(d, b)])
  BY TableSlots
<1> QED
  BY <1>1 DEF Contents

LEMMA FailuresMean ==
  ASSUME NEW oom \in Failures, oom
  PROVE  CanFail
BY HashAssumption DEF Failures

\* The facts that all cases of an add start from.
LEMMA AddStart ==
  ASSUME HashInv, op.pc = "add", NEW S, Prepared(S)
  PROVE  /\ GoodTable(S.bucket, bits) /\ op.elem \in Domains
         /\ HKEY(op.elem, bits) \in DOMAIN S.bucket
         /\ GoodBucket(S.bucket[HKEY(op.elem, bits)], HKEY(op.elem, bits), bits)
<1>1. GoodTable(S.bucket, bits) /\ op.elem \in Domains
  BY DEF Prepared, Core, HashInv, OpInv
<1>2. HKEY(op.elem, bits) \in DOMAIN S.bucket
  BY <1>1, KeyInTable DEF GoodTable
<1> QED
  BY <1>1, <1>2 DEF GoodTable

LEMMA AddFirstDoes ==
  ASSUME HashInv, op.pc = "add", NEW S, Prepared(S), NEW oom \in Failures,
         AddFirst(S, HKEY(op.elem, bits), oom)
  PROVE  AddDoes(Everything(S.bucket))
<1>1. PICK k : k = HKEY(op.elem, bits)
  OBVIOUS
<1>2. GoodTable(S.bucket, bits) /\ op.elem \in Domains
  BY AddStart
<1>3. S.bucket[k] = NoBucket
  BY <1>1 DEF AddFirst
<1>4. \A s \in Everything(S.bucket) : s.elem # op.elem
  BY <1>1, <1>2, <1>3, NotInBucket
<1>5. CASE Full(S) /\ Refuse(S, "full")
  BY <1>4, <1>5, RefuseDoes
<1>6. CASE oom /\ Refuse(S, "nomem")
  BY <1>6, FailuresMean, RefuseDoes
<1>7. CASE Store(S, k, NewBucket(InitSize), 0) /\ elements' = S.elements + 1
  <2>1. PICK n : n = NewBucket(InitSize)
    OBVIOUS
  <2>2. /\ BucketOK(n) /\ GoodBucket(n, k, bits)
        /\ n.pos = 0 /\ n.used = {} /\ n.size = InitSize
    BY <2>1, NewBucketGood
  <2>3. 0 \in 0 .. n.size - 1
    BY <2>2, HashAssumption
  <2>4. n.value[0] \in SlotType
    BY <2>2, <2>3, BucketIs
  <2>5. Contents(S.bucket[k]) = {}
    BY <1>3 DEF Contents
  <2>6. /\ NewSlot(n.value[0]) \in SlotType /\ NewSlot(n.value[0]).elem = op.elem
        /\ NewSlot(n.value[0]).timeout = op.timeout /\ (WithTimeout \/ op.timeout = "perm")
    BY <2>4, NewSlotType DEF HashInv
  <2>7. Takes(S.bucket, bits, k, n, 0, NewSlot(n.value[0]), {})
    BY <1>1, <1>2, <2>2, <2>3, <2>5, <2>6 DEF Takes
  <2> QED
    BY <1>1, <1>7, <2>1, <2>4, <2>7, StoreDoes
<1> QED
  BY <1>1, <1>5, <1>6, <1>7 DEF AddFirst

LEMMA AddAgainDoes ==
  ASSUME HashInv, op.pc = "add", NEW S, Prepared(S),
         AddAgain(S, HKEY(op.elem, bits), S.bucket[HKEY(op.elem, bits)])
  PROVE  AddDoes(Everything(S.bucket))
<1>1. PICK k : k = HKEY(op.elem, bits)
  OBVIOUS
<1>2. /\ GoodTable(S.bucket, bits) /\ op.elem \in Domains
      /\ k \in DOMAIN S.bucket /\ GoodBucket(S.bucket[k], k, bits)
  BY <1>1, AddStart
<1>3. PICK n : n = S.bucket[k]
  OBVIOUS
<1>4. /\ n # NoBucket
      /\ \E i \in Same(n) :
           \/ /\ op.exist \/ Expired(n, i)
              /\ Store(S, k, n, i)
              /\ elements' = S.elements
           \/ ~op.exist /\ ~Expired(n, i) /\ Refuse(S, "exist")
  BY <1>1, <1>3 DEF AddAgain
<1>5. GoodBucket(n, k, bits) /\ BucketOK(n)
  BY <1>2, <1>3, <1>4 DEF GoodBucket
<1>6. /\ Live(n) = n.used /\ n.used \in SUBSET (0 .. n.size - 1)
      /\ n.used \in SUBSET (0 .. n.pos - 1) /\ n.pos \in Nat
      /\ n.value \in [0 .. n.size - 1 -> SlotType]
  BY <1>5, BucketIs
<1>7. PICK i \in Same(n) :
        \/ /\ op.exist \/ Expired(n, i)
           /\ Store(S, k, n, i)
           /\ elements' = S.elements
        \/ ~op.exist /\ ~Expired(n, i) /\ Refuse(S, "exist")
  BY <1>4
<1>8. /\ i \in n.used /\ n.value[i].elem = op.elem /\ i \in 0 .. n.size - 1 /\ i <= n.pos
      /\ n.value[i] \in SlotType
  <2>1. i \in n.used /\ n.value[i].elem = op.elem
    BY <1>6 DEF Same
  <2>2. i \in 0 .. n.size - 1 /\ i \in 0 .. n.pos - 1
    BY <2>1, <1>6
  <2>3. i <= n.pos
    BY <2>2, <1>6
  <2> QED
    BY <2>1, <2>2, <2>3, <1>6
<1>9. Contents(n) = {n.value[j] : j \in n.used}
  BY <1>4 DEF Contents
<1>10. CASE ~op.exist /\ ~Expired(n, i) /\ Refuse(S, "exist")
  <2>1. n.value[i] \in Everything(S.bucket)
    BY <1>2, <1>3, <1>8, <1>9 DEF Everything
  <2>2. Alive(Everything(S.bucket), op.elem)
    BY <2>1, <1>8, <1>10 DEF Alive, Expired
  <2> QED
    BY <2>2, <1>10, RefuseDoes
<1>11. CASE (op.exist \/ Expired(n, i)) /\ Store(S, k, n, i) /\ elements' = S.elements
  <2>1. PICK R : R = {n.value[i]}
    OBVIOUS
  <2>2. \A j \in n.used \ {i} : n.value[j].elem # op.elem
    BY <1>4, <1>5, <1>8 DEF GoodBucket
  <2>3. R \in SUBSET Contents(n) /\ Contents(n) \ R = {n.value[j] : j \in n.used \ {i}}
    BY <2>1, <2>2, <1>8, <1>9
  <2>4. /\ NewSlot(n.value[i]) \in SlotType /\ NewSlot(n.value[i]).elem = op.elem
        /\ NewSlot(n.value[i]).timeout = op.timeout /\ (WithTimeout \/ op.timeout = "perm")
    BY <1>8, NewSlotType DEF HashInv
  <2>5. Takes(S.bucket, bits, k, n, i, NewSlot(n.value[i]), R)
    BY <1>1, <1>2, <1>3, <1>5, <1>8, <2>1, <2>2, <2>3, <2>4 DEF Takes
  <2>6. R # {} /\ \A s \in R : s.elem = op.elem /\ (op.exist \/ s.timeout = "over")
    BY <2>1, <1>8, <1>11 DEF Expired
  <2> QED
    BY <1>1, <1>8, <1>11, <2>5, <2>6, StoreDoes
<1> QED
  BY <1>7, <1>10, <1>11

LEMMA AddReuseDoes ==
  ASSUME HashInv, op.pc = "add", NEW S, Prepared(S),
         AddReuse(S, HKEY(op.elem, bits), S.bucket[HKEY(op.elem, bits)])
  PROVE  AddDoes(Everything(S.bucket))
<1>1. PICK k : k = HKEY(op.elem, bits)
  OBVIOUS
<1>2. /\ GoodTable(S.bucket, bits) /\ op.elem \in Domains
      /\ k \in DOMAIN S.bucket /\ GoodBucket(S.bucket[k], k, bits)
  BY <1>1, AddStart
<1>3. PICK n : n = S.bucket[k]
  OBVIOUS
<1>4. PICK i : i = Min(Reusable(n))
  OBVIOUS
<1>5. /\ n # NoBucket /\ Same(n) = {} /\ Reusable(n) # {}
      /\ \/ i \notin n.used /\ Store(S, k, n, i) /\ elements' = S.elements + 1
         \/ i \in n.used /\ Store(S, k, Cleared(n, {i}), i) /\ elements' = S.elements
  BY <1>1, <1>3, <1>4 DEF AddReuse
<1>6. GoodBucket(n, k, bits) /\ BucketOK(n)
  BY <1>2, <1>3, <1>5 DEF GoodBucket
<1>7. /\ Live(n) = n.used /\ n.used \in SUBSET (0 .. n.size - 1) /\ n.used \in SUBSET Nat
      /\ n.used \in SUBSET (0 .. n.pos - 1) /\ n.pos \in Nat /\ n.size \in Nat
      /\ n.pos <= n.size /\ n.value \in [0 .. n.size - 1 -> SlotType]
  BY <1>6, BucketIs
<1>8. i \in Reusable(n)
  <2>1. Reusable(n) \in SUBSET Nat
    BY <1>7 DEF Reusable, Holes, Lapsed
  <2> QED
    BY <1>4, <1>5, <2>1, LeastIsMember
<1>9. i \in 0 .. n.size - 1 /\ i < n.pos /\ i \in Nat /\ (i \in n.used => n.value[i].timeout = "over")
  BY <1>7, <1>8 DEF Reusable, Holes, Lapsed, Expired
<1>10. \A j \in n.used : n.value[j].elem # op.elem
  BY <1>5, <1>7 DEF Same
<1>11. Contents(n) = {n.value[j] : j \in n.used}
  BY <1>5 DEF Contents
<1>12. CASE i \notin n.used /\ Store(S, k, n, i) /\ elements' = S.elements + 1
  <2>1. n.used \ {i} = n.used
    BY <1>12
  <2>2. n.value[i] \in SlotType
    BY <1>7, <1>9
  <2>3. /\ NewSlot(n.value[i]) \in SlotType /\ NewSlot(n.value[i]).elem = op.elem
        /\ NewSlot(n.value[i]).timeout = op.timeout /\ (WithTimeout \/ op.timeout = "perm")
    BY <2>2, NewSlotType DEF HashInv
  <2>4. i <= n.pos
    BY <1>7, <1>9
  <2>5. Takes(S.bucket, bits, k, n, i, NewSlot(n.value[i]), {})
    BY <1>1, <1>2, <1>3, <1>6, <1>9, <1>10, <1>11, <2>1, <2>3, <2>4 DEF Takes
  <2> QED
    BY <1>1, <1>12, <2>2, <2>5, StoreDoes
<1>13. CASE i \in n.used /\ Store(S, k, Cleared(n, {i}), i) /\ elements' = S.elements
  <2>1. PICK m : m = Cleared(n, {i})
    OBVIOUS
  <2>2. {i} \in SUBSET n.used
    BY <1>13
  <2>3. /\ BucketOK(m) /\ GoodBucket(m, k, bits)
        /\ m.size = n.size /\ m.pos = n.pos /\ m.used = n.used \ {i}
        /\ Contents(m) = {n.value[j] : j \in n.used \ {i}}
    BY <1>5, <1>6, <2>1, <2>2, ClearedGood
  <2>4. m # NoBucket /\ m.value \in [0 .. m.size - 1 -> SlotType]
    BY <2>3, BucketIs
  <2>5. m.value[i] \in SlotType
    BY <2>3, <2>4, <1>9
  <2>6. /\ NewSlot(m.value[i]) \in SlotType /\ NewSlot(m.value[i]).elem = op.elem
        /\ NewSlot(m.value[i]).timeout = op.timeout /\ (WithTimeout \/ op.timeout = "perm")
    BY <2>5, NewSlotType DEF HashInv
  <2>7. m.used \ {i} = m.used /\ Contents(m) = {m.value[j] : j \in m.used}
    BY <2>3, <2>4 DEF Contents
  <2>8. \A j \in m.used : m.value[j].elem # op.elem
    <3>1. \A s \in Contents(m) : s.elem # op.elem
      BY <2>3, <1>10
    <3> QED
      BY <3>1, <2>7
  <2>9. PICK R : R = {n.value[i]}
    OBVIOUS
  <2>10. R \in SUBSET Contents(n) /\ Contents(n) \ R = {n.value[j] : j \in n.used \ {i}}
    <3>1. \A j \in n.used \ {i} : n.value[j] # n.value[i]
      BY <1>5, <1>6, <1>13 DEF GoodBucket
    <3> QED
      BY <3>1, <2>9, <1>11, <1>13
  <2>11. i \in 0 .. m.size - 1 /\ i <= m.pos
    BY <2>3, <1>7, <1>9
  <2>12. Takes(S.bucket, bits, k, m, i, NewSlot(m.value[i]), R)
    <3>1. \A j \in m.used \ {i} : m.value[j].elem # NewSlot(m.value[i]).elem
      BY <2>6, <2>8
    <3>2. Contents(S.bucket[k]) \ R = {m.value[j] : j \in m.used \ {i}}
      BY <1>3, <2>3, <2>7, <2>10
    <3>3. R = {} \/ \E old : R = {old}
      BY <2>9
    <3> QED
      BY <1>1, <1>2, <1>3, <2>3, <2>6, <2>10, <2>11, <3>1, <3>2, <3>3 DEF Takes
  <2>13. R # {} /\ \A s \in R : s.timeout = "over"
    BY <2>9, <1>9, <1>13
  <2> QED
    BY <1>1, <1>13, <2>1, <2>5, <2>12, <2>13, StoreDoes
<1> QED
  BY <1>5, <1>12, <1>13

\* forceadd writes outside of the bucket.
LEMMA AddForcedDoes ==
  ASSUME HashInv, op.pc = "add", NEW S, Prepared(S),
         AddForced(S, S.bucket[HKEY(op.elem, bits)])
  PROVE  AddDoes(Everything(S.bucket))
<1>1. /\ bucket' = S.bucket /\ elements' = S.elements /\ bits' = bits
      /\ op' = op /\ ret' = ret /\ wild' = TRUE
  BY DEF AddForced
<1>2. Core(bucket', bits', elements')
  BY <1>1 DEF Prepared
<1>3. AddGoesOn(Everything(S.bucket))
  BY <1>1 DEF AddGoesOn
<1> QED
  BY <1>1, <1>2, <1>3 DEF AddDoes

\* A domain that is not in its bucket has the same key as those that are.
LEMMA Colliding ==
  ASSUME NEW n, NEW k, NEW b, n # NoBucket, GoodBucket(n, k, b),
         NEW d \in Domains, HKEY(d, b) = k, \A i \in n.used : n.value[i].elem # d
  PROVE  Cardinality({e \in Domains : HKEY(e, b) = k}) > Cardinality(n.used)
<1>1. PICK D : D = {e \in Domains : HKEY(e, b) = k}
  OBVIOUS
<1>2. IsFiniteSet(D) /\ d \in D
  BY <1>1, HashAssumption, FS_Subset
<1>3. /\ IsFiniteSet(D \ {d}) /\ Cardinality(D \ {d}) = Cardinality(D) - 1
      /\ Cardinality(D) \in Nat
  BY <1>2, FS_RemoveElement, FS_CardinalityType
<1>4. BucketOK(n) /\ IsFiniteSet(n.used)
  BY BucketIs DEF GoodBucket
<1>5. PICK f : f = [i \in n.used |-> n.value[i].elem]
  OBVIOUS
<1>6. f \in [n.used -> D \ {d}]
  BY <1>1, <1>5 DEF GoodBucket
<1>7. \A i, j \in n.used : f[i] = f[j] => i = j
  BY <1>5 DEF GoodBucket
<1>8. f \in Injection(n.used, D \ {d})
  BY <1>6, <1>7 DEF Injection, IsInjective
<1>9. Cardinality(n.used) <= Cardinality(D \ {d}) /\ Cardinality(n.used) \in Nat
  BY <1>3, <1>4, <1>8, FS_Injection, FS_CardinalityType
<1> QED
  BY <1>1, <1>3, <1>9

\* When an add asks for a larger table than the largest, too many domains have
\* its key.
LEMMA ResizeWanted ==
  ASSUME bits \in InitBits .. MaxBits, NEW k \in 0 .. jhash_size(bits) - 1,
         NEW n, n # NoBucket, GoodBucket(n, k, bits),
         op.elem \in Domains, HKEY(op.elem, bits) = k,
         \A i \in n.used : n.value[i].elem # op.elem,
         Holes(n) = {}, n.pos >= n.size, n.size >= MaxSize
  PROVE  MayRunOut \/ bits < MaxBits
<1> SUFFICES ASSUME ~(bits < MaxBits) PROVE MayRunOut
  OBVIOUS
<1>1. bits = MaxBits
  BY HashAssumption
<1>2. BucketOK(n) /\ n.pos \in Nat /\ n.size \in Nat
  BY BucketIs DEF GoodBucket
<1>3. Cardinality(n.used) \in Nat /\ Cardinality(n.used) + Cardinality(Holes(n)) = n.pos
  BY <1>2, HolesCount
<1>4. Cardinality(n.used) >= MaxSize
  <2>1. Cardinality(Holes(n)) = 0
    BY FS_EmptySet
  <2> QED
    BY <1>2, <1>3, <2>1, HashAssumption
<1>5. Cardinality({e \in Domains : HKEY(e, bits) = k}) > Cardinality(n.used)
  BY Colliding
<1>6. IsFiniteSet({e \in Domains : HKEY(e, bits) = k})
  BY HashAssumption, FS_Subset
<1>7. Cardinality({e \in Domains : HKEY(e, bits) = k}) \in Nat
  BY <1>6, FS_CardinalityType
<1>8. Cardinality({e \in Domains : HKEY(e, MaxBits) = k}) > MaxSize
  BY <1>1, <1>3, <1>4, <1>5, <1>7, HashAssumption
<1> QED
  BY <1>1, <1>8 DEF MayRunOut

LEMMA AddLastDoes ==
  ASSUME HashInv, op.pc = "add", NEW S, Prepared(S), NEW oom \in Failures,
         AddLast(S, HKEY(op.elem, bits), S.bucket[HKEY(op.elem, bits)], oom)
  PROVE  AddDoes(Everything(S.bucket))
<1>1. PICK k : k = HKEY(op.elem, bits)
  OBVIOUS
<1>2. /\ GoodTable(S.bucket, bits) /\ op.elem \in Domains
      /\ k \in DOMAIN S.bucket /\ GoodBucket(S.bucket[k], k, bits)
  BY <1>1, AddStart
<1>3. PICK n : n = S.bucket[k]
  OBVIOUS
<1>4. /\ n # NoBucket /\ Same(n) = {} /\ Reusable(n) = {}
      /\ \/ Full(S) /\ Refuse(S, "full")
         \/ /\ ~Full(S) /\ n.pos >= n.size /\ n.size >= MaxSize
            /\ op' = [op EXCEPT !.pc = "resize", !.bits = bits]
            /\ bucket' = S.bucket /\ elements' = S.elements
            /\ UNCHANGED <<bits, ret, wild>>
         \/ oom /\ Refuse(S, "nomem")
         \/ /\ n.pos >= n.size => n.size < MaxSize
            /\ Store(S, k, IF n.pos < n.size THEN n ELSE Enlarged(n), n.pos)
            /\ elements' = S.elements + 1
  BY <1>1, <1>3 DEF AddLast
<1>5. GoodBucket(n, k, bits) /\ BucketOK(n)
  BY <1>2, <1>3, <1>4 DEF GoodBucket
<1>6. /\ Live(n) = n.used /\ n.pos \in Nat /\ n.size \in Nat /\ n.pos <= n.size
      /\ n.used \in SUBSET (0 .. n.pos - 1)
  BY <1>5, BucketIs
<1>7. \A i \in n.used : n.value[i].elem # op.elem
  BY <1>4, <1>6 DEF Same
<1>8. \A s \in Everything(S.bucket) : s.elem # op.elem
  <2>1. \A i \in S.bucket[k].used : S.bucket[k].value[i].elem # op.elem
    BY <1>3, <1>7
  <2> QED
    BY <1>1, <1>2, <2>1, NotInBucket
<1>9. CASE Full(S) /\ Refuse(S, "full")
  BY <1>8, <1>9, RefuseDoes
<1>10. CASE oom /\ Refuse(S, "nomem")
  BY <1>10, FailuresMean, RefuseDoes
<1>11. CASE /\ n.pos >= n.size /\ n.size >= MaxSize
            /\ op' = [op EXCEPT !.pc = "resize", !.bits = bits]
            /\ bucket' = S.bucket /\ elements' = S.elements
            /\ UNCHANGED <<bits, ret, wild>>
  <2>1. Holes(n) = {}
    BY <1>4 DEF Reusable
  <2>2. bits \in InitBits .. MaxBits /\ k \in 0 .. jhash_size(bits) - 1
    BY <1>2 DEF GoodTable
  <2>3. MayRunOut \/ bits < MaxBits
    BY <1>1, <1>2, <1>4, <1>5, <1>7, <1>11, <2>1, <2>2, ResizeWanted
  <2>4. AddGoesOn(Everything(S.bucket))
    BY <1>11, <2>3 DEF AddGoesOn
  <2>5. Core(bucket', bits', elements')
    BY <1>11 DEF Prepared
  <2> QED
    BY <1>11, <2>4, <2>5 DEF AddDoes, HashInv
<1>12. CASE /\ n.pos >= n.size => n.size < MaxSize
            /\ Store(S, k, IF n.pos < n.size THEN n ELSE Enlarged(n), n.pos)
            /\ elements' = S.elements + 1
  <2>1. PICK m : m = IF n.pos < n.size THEN n ELSE Enlarged(n)
    OBVIOUS
  <2>2. /\ BucketOK(m) /\ GoodBucket(m, k, bits) /\ m.pos = n.pos /\ m.used = n.used
        /\ n.pos \in 0 .. m.size - 1 /\ Contents(m) = Contents(n)
    <3>1. CASE n.pos < n.size
      BY <3>1, <2>1, <1>5, <1>6
    <3>2. CASE ~(n.pos < n.size)
      <4>1. /\ BucketOK(m) /\ GoodBucket(m, k, bits) /\ m.pos = n.pos /\ m.used = n.used
            /\ m.size = n.size + InitSize /\ Contents(m) = Contents(n)
        BY <3>2, <2>1, <1>4, <1>5, <1>6, <1>12, EnlargedGood
      <4> QED
        BY <4>1, <1>6, HashAssumption
    <3> QED
      BY <3>1, <3>2
  <2>3. m # NoBucket /\ m.value \in [0 .. m.size - 1 -> SlotType]
    BY <2>2, BucketIs
  <2>4. PICK i : i = n.pos
    OBVIOUS
  <2>5. m.value[i] \in SlotType /\ i \in 0 .. m.size - 1 /\ i <= m.pos
    <3>1. i \in 0 .. m.size - 1 /\ m.pos = i /\ i \in Nat
      BY <2>2, <2>4, <1>6
    <3>2. m.value[i] \in SlotType
      BY <3>1, <2>3
    <3>3. i <= m.pos
      BY <3>1
    <3> QED
      BY <3>1, <3>2, <3>3
  <2>6. /\ NewSlot(m.value[i]) \in SlotType /\ NewSlot(m.value[i]).elem = op.elem
        /\ NewSlot(m.value[i]).timeout = op.timeout /\ (WithTimeout \/ op.timeout = "perm")
    BY <2>5, NewSlotType DEF HashInv
  <2>7. m.used \ {i} = m.used
    <3>1. i \notin 0 .. n.pos - 1
      BY <2>4, <1>6
    <3> QED
      BY <3>1, <2>2, <1>6
  <2>8. Contents(m) = {m.value[j] : j \in m.used \ {i}}
    BY <2>3, <2>7 DEF Contents
  <2>9. \A j \in m.used : m.value[j].elem # op.elem
    <3>1. \A s \in Contents(n) : s.elem # op.elem
      BY <1>4, <1>7 DEF Contents
    <3> QED
      BY <3>1, <2>2, <2>7, <2>8
  <2>10. Takes(S.bucket, bits, k, m, i, NewSlot(m.value[i]), {})
    BY <1>1, <1>2, <1>3, <2>2, <2>5, <2>6, <2>7, <2>8, <2>9 DEF Takes
  <2>11. Store(S, k, m, i) /\ elements' = S.elements + 1
    BY <1>12, <2>1, <2>4
  <2>12. PICK R : R = {}
    OBVIOUS
  <2>13. /\ Takes(S.bucket, bits, HKEY(op.elem, bits), m, i, NewSlot(m.value[i]), R)
         /\ Store(S, HKEY(op.elem, bits), m, i)
         /\ elements' = IF R = {} THEN S.elements + 1 ELSE S.elements
         /\ \A s \in R : s.elem = op.elem \/ s.timeout = "over"
         /\ op.exist \/ \A s \in R : s.timeout = "over"
    BY <1>1, <2>10, <2>11, <2>12
  <2> QED
    BY <2>5, <2>13, StoreDoes
<1> QED
  BY <1>4, <1>9, <1>10, <1>11, <1>12

\* The set that mtype_add works on, with the slots of it that are left.
LEMMA AddPrepares ==
  ASSUME HashInv, NEW ooms,
         NEW S, S = IF elements >= MaxElem /\ WithTimeout THEN AfterExpire(ooms) ELSE Now
  PROVE  /\ Prepared(S)
         /\ \/ Everything(S.bucket) = Everything(bucket)
            \/ Everything(S.bucket) = {s \in Everything(bucket) : s.timeout # "over"}
<1>1. CASE elements >= MaxElem /\ WithTimeout
  <2>1. /\ GoodTable(S.bucket, bits)
        /\ Everything(S.bucket) = {s \in Everything(bucket) : s.timeout # "over"}
        /\ S.elements = Cardinality(Everything(S.bucket))
    BY <1>1, AfterExpireCounts DEF HashInv, Core
  <2> QED
    BY <1>1, <2>1 DEF Prepared, Core
<1>2. CASE ~(elements >= MaxElem /\ WithTimeout)
  <2>1. S.bucket = bucket /\ S.elements = elements
    BY <1>2 DEF Now
  <2>2. Core(S.bucket, bits, S.elements)
    BY <2>1 DEF HashInv
  <2>3. Full(S) => \A s \in Everything(S.bucket) : s.timeout # "over"
    BY <1>2, <2>1 DEF HashInv, Core, Full
  <2> QED
    BY <2>1, <2>2, <2>3 DEF Prepared
<1> QED
  BY <1>1, <1>2

\* mtype_add.
LEMMA AddStep ==
  ASSUME HashInv, NEW ooms, NEW oom \in Failures, Add(ooms, oom)
  PROVE  /\ op.pc = "add"
         /\ \/ AddDoes(Everything(bucket))
            \/ AddDoes({s \in Everything(bucket) : s.timeout # "over"})
<1>1. PICK S : S = IF elements >= MaxElem /\ WithTimeout THEN AfterExpire(ooms) ELSE Now
  OBVIOUS
<1>2. /\ op.pc = "add"
      /\ \/ AddFirst(S, HKEY(op.elem, bits), oom)
         \/ AddAgain(S, HKEY(op.elem, bits), S.bucket[HKEY(op.elem, bits)])
         \/ AddReuse(S, HKEY(op.elem, bits), S.bucket[HKEY(op.elem, bits)])
         \/ AddForced(S, S.bucket[HKEY(op.elem, bits)])
         \/ AddLast(S, HKEY(op.elem, bits), S.bucket[HKEY(op.elem, bits)], oom)
  BY <1>1 DEF Add
<1>3. /\ Prepared(S)
      /\ \/ Everything(S.bucket) = Everything(bucket)
         \/ Everything(S.bucket) = {s \in Everything(bucket) : s.timeout # "over"}
  BY <1>1, AddPrepares
<1>4. AddDoes(Everything(S.bucket))
  BY <1>2, <1>3, AddFirstDoes, AddAgainDoes, AddReuseDoes, AddForcedDoes, AddLastDoes
<1>5. CASE Everything(S.bucket) = Everything(bucket)
  <2>1. AddDoes(Everything(bucket))
    BY <1>4, <1>5
  <2> QED
    BY <1>2, <2>1
<1>6. CASE Everything(S.bucket) = {s \in Everything(bucket) : s.timeout # "over"}
  <2>1. AddDoes({s \in Everything(bucket) : s.timeout # "over"})
    BY <1>4, <1>6
  <2> QED
    BY <1>2, <2>1
<1> QED
  BY <1>3, <1>5, <1>6

-----------------------------------------------------------------------------
(* What the other operations do to the slots.                              *)

\* mtype_resize keeps the slots; the add goes on, unless there is no memory.
ResizeDoes ==
  /\ Core(bucket', bits', elements') /\ wild' = wild
  /\ Everything(bucket') = Everything(bucket)
  /\ \/ ret' = "nomem" /\ op' = NoOp /\ MayRunOut
     \/ /\ ret' = ret
        /\ op'.pc \in {"add", "resize"} /\ op'.elem = op.elem
        /\ op'.exist = op.exist /\ op'.timeout = op.timeout
        /\ op'.packets = op.packets /\ op' \in OpType
        /\ op'.pc = "resize" => op'.bits >= bits' /\ (MayRunOut \/ op'.bits < MaxBits)

\* The bucket that is too large for a table of b bits.
LEMMA TightMeans ==
  ASSUME GoodTable(bucket, bits), NEW b, NEW k, Cardinality(Moving(b, k)) > MaxSize
  PROVE  Cardinality({d \in Domains : HKEY(d, b) = k}) > MaxSize
<1>1. PICK D : D = {d \in Domains : HKEY(d, b) = k}
  OBVIOUS
<1>2. IsFiniteSet(D) /\ Cardinality(D) \in Nat
  BY <1>1, HashAssumption, FS_Subset, FS_CardinalityType
<1>3. PICK X : X = Moving(b, k)
  OBVIOUS
<1>4. PICK f : f = [x \in X |-> SlotIn(bucket, x).elem]
  OBVIOUS
<1>5. \A x \in X : x \in StoredIn(bucket) /\ HKEY(SlotIn(bucket, x).elem, b) = k
  BY <1>3, StoredIs DEF Moving
<1>6. \A x \in X : SlotIn(bucket, x).elem \in Domains
  BY <1>5, PlacesOnce, TableSlots
<1>7. f \in [X -> D]
  BY <1>1, <1>4, <1>5, <1>6
<1>8. \A x, y \in X : f[x] = f[y] => x = y
  BY <1>4, <1>5, PlacesOnce
<1>9. f \in Injection(X, D)
  BY <1>7, <1>8 DEF Injection, IsInjective
<1>10. IsFiniteSet(X) /\ Cardinality(X) <= Cardinality(D)
  BY <1>2, <1>9, FS_Injection
<1>11. Cardinality(X) \in Nat
  BY <1>10, FS_CardinalityType
<1> QED
  BY <1>1, <1>2, <1>3, <1>10, <1>11, HashAssumption

LEMMA ResizeStep ==
  ASSUME HashInv, NEW oom \in Failures, Resize(oom)
  PROVE  op.pc = "resize" /\ ResizeDoes
<1>1. PICK b : b = op.bits + 1
  OBVIOUS
<1>2. PICK U : U = [k \in 0 .. jhash_size(b) - 1 |-> Filled(Moving(b, k))]
  OBVIOUS
<1>3. /\ op.pc = "resize"
      /\ \/ /\ b > MaxBits \/ oom
            /\ Answer("nomem")
            /\ UNCHANGED <<bits, bucket, elements>>
         \/ /\ b <= MaxBits
            /\ \E k \in 0 .. jhash_size(b) - 1 : Cardinality(Moving(b, k)) > MaxSize
            /\ op' = [op EXCEPT !.bits = b]
            /\ UNCHANGED <<bits, bucket, elements, ret, wild>>
         \/ /\ b <= MaxBits
            /\ \A k \in 0 .. jhash_size(b) - 1 : ~(Cardinality(Moving(b, k)) > MaxSize)
            /\ bits' = b
            /\ bucket' = U
            /\ op' = [op EXCEPT !.pc = "add", !.bits = 0]
            /\ UNCHANGED <<elements, ret, wild>>
  BY <1>1, <1>2, Zenon DEF Resize, Attempt
<1>4. /\ Core(bucket, bits, elements) /\ GoodTable(bucket, bits)
      /\ bits \in InitBits .. MaxBits
  BY DEF HashInv, Core, GoodTable
<1>5. /\ op \in OpType /\ op.bits \in 0 .. MaxBits /\ op.bits >= bits
      /\ MayRunOut \/ op.bits < MaxBits
  BY <1>3 DEF HashInv, OpInv, OpType
<1>6. b \in Nat /\ b > bits /\ (b <= MaxBits => b \in InitBits .. MaxBits /\ b \in 0 .. MaxBits)
  BY <1>1, <1>4, <1>5, HashAssumption
<1>7. CASE /\ b > MaxBits \/ oom
           /\ Answer("nomem")
           /\ UNCHANGED <<bits, bucket, elements>>
  <2>1. MayRunOut
    <3>1. CASE oom
      BY <3>1, FailuresMean DEF MayRunOut
    <3>2. CASE b > MaxBits
      BY <3>2, <1>1, <1>5, HashAssumption
    <3> QED
      BY <1>7, <3>1, <3>2
  <2> QED
    BY <2>1, <1>3, <1>4, <1>7 DEF ResizeDoes, Answer
<1>8. CASE /\ b <= MaxBits
           /\ \E k \in 0 .. jhash_size(b) - 1 : Cardinality(Moving(b, k)) > MaxSize
           /\ op' = [op EXCEPT !.bits = b]
           /\ UNCHANGED <<bits, bucket, elements, ret, wild>>
  <2>1. MayRunOut \/ b < MaxBits
    <3>1. CASE b = MaxBits
      <4>1. PICK k \in 0 .. jhash_size(b) - 1 : Cardinality(Moving(b, k)) > MaxSize
        BY <1>8
      <4>2. Cardinality({d \in Domains : HKEY(d, b) = k}) > MaxSize
        BY <1>4, <4>1, TightMeans
      <4> QED
        BY <3>1, <4>2 DEF MayRunOut
    <3> QED
      BY <1>6, <1>8, <3>1, HashAssumption
  <2>2. /\ op'.pc = op.pc /\ op'.elem = op.elem /\ op'.exist = op.exist
        /\ op'.timeout = op.timeout /\ op'.packets = op.packets
        /\ op'.bits = b /\ op' \in OpType
    BY <1>5, <1>6, <1>8 DEF OpType
  <2> QED
    BY <2>1, <2>2, <1>3, <1>4, <1>6, <1>8 DEF ResizeDoes
<1>9. CASE /\ b <= MaxBits
           /\ \A k \in 0 .. jhash_size(b) - 1 : ~(Cardinality(Moving(b, k)) > MaxSize)
           /\ bits' = b
           /\ bucket' = U
           /\ op' = [op EXCEPT !.pc = "add", !.bits = 0]
           /\ UNCHANGED <<elements, ret, wild>>
  <2>1. b \in InitBits .. MaxBits
    BY <1>6, <1>9
  <2>2. ASSUME NEW k \in 0 .. jhash_size(b) - 1 PROVE Cardinality(Moving(b, k)) <= MaxSize
    <3>1. IsFiniteSet({x \in StoredIn(bucket) : SlotIn(bucket, x) \in Everything(bucket)})
      BY <1>4, PlacesCount
    <3>2. Moving(b, k) \in SUBSET {x \in StoredIn(bucket) : SlotIn(bucket, x) \in Everything(bucket)}
      BY <1>4, StoredIs, PlacesOnce DEF Moving
    <3>3. Cardinality(Moving(b, k)) \in Nat
      BY <3>1, <3>2, FS_Subset, FS_CardinalityType
    <3> QED
      BY <3>3, <1>9, HashAssumption
  <2>3. GoodTable(U, b) /\ Everything(U) = Everything(bucket)
    BY <1>2, <1>4, <2>1, <2>2, ResizedGood
  <2>4. Core(bucket', bits', elements') /\ Everything(bucket') = Everything(bucket)
    <3>1. Core(U, b, elements)
      BY <1>4, <2>3 DEF Core
    <3> QED
      BY <1>9, <2>3, <3>1
  <2>5. /\ op' = [op EXCEPT !.pc = "add", !.bits = 0] /\ ret' = ret /\ wild' = wild
    BY <1>9
  <2>6. 0 \in 0 .. MaxBits
    BY HashAssumption
  <2>7. /\ op'.pc = "add" /\ op'.elem = op.elem /\ op'.exist = op.exist
        /\ op'.timeout = op.timeout /\ op'.packets = op.packets /\ op' \in OpType
    BY <1>5, <2>5, <2>6 DEF OpType
  <2> QED
    BY <2>4, <2>5, <2>7, <1>3 DEF ResizeDoes
<1> QED
  BY <1>3, <1>7, <1>8, <1>9

\* mtype_del takes one slot away, or finds none.
DelDoes ==
  /\ Core(bucket', bits', elements') /\ wild' = wild /\ op' = NoOp
  /\ \/ /\ ret' = "exist" /\ Everything(bucket') = Everything(bucket)
        /\ ~Alive(Everything(bucket), op.elem)
     \/ /\ ret' = "ok"
        /\ \E s \in Everything(bucket) :
             /\ s.elem = op.elem /\ s.timeout # "over"
             /\ Everything(bucket') = Everything(bucket) \ {s}

\* An element of the set is in its bucket.
LEMMA AliveMeans ==
  ASSUME NEW T, NEW b, GoodTable(T, b), NEW d \in Domains
  PROVE  Alive(Everything(T), d) <=>
           /\ T[HKEY(d, b)] # NoBucket
           /\ \E i \in Live(T[HKEY(d, b)]) :
                /\ T[HKEY(d, b)].value[i].elem = d
                /\ ~Expired(T[HKEY(d, b)], i)
<1>1. PICK n : n = T[HKEY(d, b)]
  OBVIOUS
<1>2. HKEY(d, b) \in DOMAIN T /\ GoodBucket(n, HKEY(d, b), b)
  BY <1>1, KeyInTable DEF GoodTable
<1>3. n # NoBucket => Live(n) = n.used
  BY <1>2, BucketIs DEF GoodBucket
<1>4. ASSUME NEW s \in Everything(T), s.elem = d, s.timeout # "over"
      PROVE  n # NoBucket /\ \E i \in Live(n) : n.value[i].elem = d /\ ~Expired(n, i)
  <2>1. s \in Contents(n)
    BY <1>1, <1>4, TableSlots
  <2>2. n # NoBucket
    BY <2>1 DEF Contents
  <2>3. PICK i \in n.used : s = n.value[i]
    BY <2>1, <2>2 DEF Contents
  <2> QED
    BY <2>2, <2>3, <1>3, <1>4 DEF Expired
<1>5. ASSUME n # NoBucket, NEW i \in Live(n), n.value[i].elem = d, ~Expired(n, i)
      PROVE  Alive(Everything(T), d)
  <2>1. n.value[i] \in Contents(n)
    BY <1>3, <1>5 DEF Contents
  <2>2. n.value[i] \in Everything(T)
    BY <2>1, <1>1, <1>2 DEF Everything
  <2> QED
    BY <2>2, <1>5 DEF Alive, Expired
<1> QED
  BY <1>1, <1>4, <1>5 DEF Alive

\* A bucket is replaced by one without the slot s.
LEMMA SlotGone ==
  ASSUME NEW T, NEW b, NEW e, Core(T, b, e), NEW k \in DOMAIN T, NEW s \in Contents(T[k]),
         NEW m, GoodBucket(m, k, b), Contents(m) = Contents(T[k]) \ {s},
         NEW U, Replaces(U, T, k, m)
  PROVE  Core(U, b, e - 1) /\ Everything(U) = Everything(T) \ {s} /\ s \in Everything(T)
<1>1. GoodTable(T, b)
  BY DEF Core
<1>2. /\ GoodTable(U, b)
      /\ Everything(U) = (Everything(T) \ Contents(T[k])) \cup Contents(m)
  BY <1>1, BucketReplaced
<1>3. PICK E : E = Everything(T)
  OBVIOUS
<1>4. Contents(T[k]) \in SUBSET E /\ s \in E
  BY <1>3 DEF Everything
<1>5. Everything(U) = E \ {s}
  BY <1>2, <1>3, <1>4
<1>6. IsFiniteSet(E) /\ e = Cardinality(E)
  BY <1>3, CoreCount DEF Core
<1>7. Cardinality(E \ {s}) = e - 1
  BY <1>4, <1>6, FS_RemoveElement
<1>8. WithTimeout \/ \A t \in Everything(U) : t.timeout = "perm"
  BY <1>3, <1>5 DEF Core
<1> QED
  BY <1>2, <1>3, <1>4, <1>5, <1>7, <1>8 DEF Core

LEMMA DelStep ==
  ASSUME HashInv, NEW oom, Del(oom)
  PROVE  op.pc = "del" /\ DelDoes
<1>1. PICK k : k = HKEY(op.elem, bits)
  OBVIOUS
<1>2. PICK n : n = bucket[k]
  OBVIOUS
<1>3. /\ op.pc = "del" /\ bits' = bits
      /\ \/ /\ n # NoBucket => \A i \in Same(n) : Expired(n, i)
            /\ Answer("exist")
            /\ UNCHANGED <<bucket, elements>>
         \/ /\ n # NoBucket
            /\ \E i \in Same(n) :
                 /\ ~Expired(n, i)
                 /\ Answer("ok")
                 /\ elements' = elements - 1
                 /\ bucket' = [bucket EXCEPT ![k] =
                      IF Trimmed(n, i).pos = 0 THEN NoBucket
                      ELSE IF Cardinality(Holes(Trimmed(n, i))) >= InitSize /\ ~oom
                           THEN Shrunk(Trimmed(n, i))
                      ELSE Trimmed(n, i)]
  BY <1>1, <1>2 DEF Del
<1>4. Core(bucket, bits, elements) /\ GoodTable(bucket, bits) /\ op.elem \in Domains
  BY <1>3 DEF HashInv, OpInv, Core
<1>5. k \in DOMAIN bucket /\ GoodBucket(n, k, bits)
  BY <1>1, <1>2, <1>4, KeyInTable DEF GoodTable
<1>6. n # NoBucket => BucketOK(n) /\ Live(n) = n.used
  BY <1>5, BucketIs DEF GoodBucket
<1>7. CASE /\ n # NoBucket => \A i \in Same(n) : Expired(n, i)
           /\ Answer("exist")
           /\ UNCHANGED <<bucket, elements>>
  <2>1. ~Alive(Everything(bucket), op.elem)
    <3>1. n # NoBucket => \A i \in Live(n) : n.value[i].elem = op.elem => Expired(n, i)
      BY <1>7 DEF Same
    <3> QED
      BY <3>1, <1>1, <1>2, <1>4, AliveMeans
  <2>2. ret' = "exist" /\ op' = NoOp /\ wild' = wild /\ bucket' = bucket /\ elements' = elements
    BY <1>7 DEF Answer
  <2> QED
    BY <2>1, <2>2, <1>3, <1>4 DEF DelDoes
<1>8. CASE /\ n # NoBucket
           /\ \E i \in Same(n) :
                /\ ~Expired(n, i)
                /\ Answer("ok")
                /\ elements' = elements - 1
                /\ bucket' = [bucket EXCEPT ![k] =
                     IF Trimmed(n, i).pos = 0 THEN NoBucket
                     ELSE IF Cardinality(Holes(Trimmed(n, i))) >= InitSize /\ ~oom
                          THEN Shrunk(Trimmed(n, i))
                     ELSE Trimmed(n, i)]
  <2>1. PICK i \in Same(n) :
          /\ ~Expired(n, i)
          /\ Answer("ok")
          /\ elements' = elements - 1
          /\ bucket' = [bucket EXCEPT ![k] =
               IF Trimmed(n, i).pos = 0 THEN NoBucket
               ELSE IF Cardinality(Holes(Trimmed(n, i))) >= InitSize /\ ~oom
                    THEN Shrunk(Trimmed(n, i))
               ELSE Trimmed(n, i)]
    BY <1>8
  <2>2. i \in n.used /\ n.value[i].elem = op.elem /\ n.value[i].timeout # "over"
    BY <2>1, <1>6, <1>8 DEF Same, Expired
  <2>3. PICK m : m = Trimmed(n, i)
    OBVIOUS
  <2>4. /\ BucketOK(m) /\ GoodBucket(m, k, bits) /\ m # NoBucket
        /\ Contents(m) = {n.value[j] : j \in n.used \ {i}}
    BY <2>2, <2>3, <1>5, <1>8, TrimmedGood, BucketIs
  <2>5. PICK w : w = IF m.pos = 0 THEN NoBucket
                     ELSE IF Cardinality(Holes(m)) >= InitSize /\ ~oom THEN Shrunk(m) ELSE m
    OBVIOUS
  <2>6. GoodBucket(w, k, bits) /\ Contents(w) = Contents(m)
    <3>1. CASE m.pos = 0
      <4>1. m.used = {}
        BY <3>1, <2>4, BucketIs
      <4>2. Contents(m) = {}
        BY <4>1, <2>4 DEF Contents
      <4>3. w = NoBucket
        BY <3>1, <2>5
      <4> QED
        BY <4>2, <4>3 DEF GoodBucket, Contents
    <3>2. CASE m.pos # 0 /\ Cardinality(Holes(m)) >= InitSize /\ ~oom
      <4>1. /\ Cardinality(m.used) \in Nat /\ Cardinality(Holes(m)) \in Nat
            /\ Cardinality(m.used) + Cardinality(Holes(m)) = m.pos
        BY <2>4, HolesCount
      <4>2. m.pos <= m.size /\ m.pos \in Nat /\ m.size \in Nat
        BY <2>4, BucketIs
      <4>3. Cardinality(m.used) <= m.size - InitSize
        BY <3>2, <4>1, <4>2, HashAssumption
      <4> QED
        BY <3>2, <4>3, <2>4, <2>5, ShrunkGood
    <3>3. CASE m.pos # 0 /\ ~(Cardinality(Holes(m)) >= InitSize /\ ~oom)
      BY <3>3, <2>4, <2>5
    <3> QED
      BY <3>1, <3>2, <3>3
  <2>7. PICK s : s = n.value[i]
    OBVIOUS
  <2>8. s \in Contents(n) /\ Contents(w) = Contents(n) \ {s}
    <3>1. Contents(n) = {n.value[j] : j \in n.used}
      BY <1>8 DEF Contents
    <3>2. \A j \in n.used \ {i} : n.value[j] # s
      BY <2>2, <2>7, <1>5, <1>8 DEF GoodBucket
    <3> QED
      BY <3>1, <3>2, <2>2, <2>4, <2>6, <2>7
  <2>9. Replaces(bucket', bucket, k, w)
    <3>1. bucket' = [bucket EXCEPT ![k] = w]
      BY <2>1, <2>3, <2>5
    <3> QED
      BY <3>1, <1>5 DEF Replaces
  <2>10. /\ Core(bucket', bits, elements - 1) /\ s \in Everything(bucket)
         /\ Everything(bucket') = Everything(bucket) \ {s}
    <3>1. PICK U : U = bucket'
      OBVIOUS
    <3>2. Core(U, bits, elements - 1) /\ Everything(U) = Everything(bucket) \ {s} /\ s \in Everything(bucket)
      BY <3>1, <1>2, <1>4, <1>5, <2>6, <2>8, <2>9, SlotGone
    <3> QED
      BY <3>1, <3>2
  <2>11. ret' = "ok" /\ op' = NoOp /\ wild' = wild /\ elements' = elements - 1
    BY <2>1 DEF Answer
  <2> QED
    BY <2>2, <2>7, <2>10, <2>11, <1>3 DEF DelDoes
<1> QED
  BY <1>3, <1>7, <1>8

\* One slot changes and keeps its element.
ChangesSlot(old, new) ==
  /\ Core(bucket', bits', elements')
  /\ old \in Everything(bucket) /\ new \in SlotType /\ new.elem = old.elem
  /\ Everything(bucket') = (Everything(bucket) \ {old}) \cup {new}
  /\ op' = op /\ ret' = ret /\ wild' = wild

LEMMA SlotChanges ==
  ASSUME HashInv, NEW k \in Keys, bucket[k] # NoBucket, NEW i \in Live(bucket[k]),
         NEW new \in SlotType, new.elem = bucket[k].value[i].elem,
         WithTimeout \/ new.timeout = "perm",
         bucket' = [bucket EXCEPT ![k].value[i] = new],
         UNCHANGED <<bits, elements, op, ret, wild>>
  PROVE  ChangesSlot(bucket[k].value[i], new)
<1>1. PICK n : n = bucket[k]
  OBVIOUS
<1>2. /\ Core(bucket, bits, elements) /\ GoodTable(bucket, bits)
      /\ k \in DOMAIN bucket /\ GoodBucket(n, k, bits) /\ n # NoBucket
  BY <1>1 DEF HashInv, Core, GoodTable, Keys
<1>3. BucketOK(n)
  BY <1>2 DEF GoodBucket
<1>4. /\ n = [size |-> n.size, pos |-> n.pos, used |-> n.used, value |-> n.value]
      /\ n.used \in SUBSET (0 .. n.pos - 1) /\ n.used \in SUBSET (0 .. n.size - 1)
      /\ n.pos \in Nat /\ Live(n) = n.used
      /\ n.value \in [0 .. n.size - 1 -> SlotType]
  BY <1>3, BucketIs
<1>5. i \in n.used /\ i \in 0 .. n.size - 1
  BY <1>1, <1>4
<1>6. i < n.pos /\ i <= n.pos
  <2>1. i \in 0 .. n.pos - 1
    BY <1>4, <1>5
  <2> QED
    BY <2>1, <1>4
<1>7. PICK old : old = n.value[i]
  OBVIOUS
<1>8. old \in SlotType /\ old \in Contents(n) /\ old.elem \in Domains /\ HKEY(old.elem, bits) = k
  BY <1>2, <1>4, <1>5, <1>7 DEF Contents, GoodBucket
<1>9. /\ \A j \in n.used \ {i} : n.value[j].elem # new.elem
      /\ new.elem = old.elem
  <2>1. new.elem = old.elem
    BY <1>1, <1>7
  <2> QED
    BY <2>1, <1>2, <1>5, <1>7 DEF GoodBucket
<1>10. Contents(bucket[k]) \ {old} = {n.value[j] : j \in n.used \ {i}}
  <2>1. \A j \in n.used \ {i} : n.value[j] # old
    BY <1>9
  <2>2. Contents(n) = {n.value[j] : j \in n.used}
    BY <1>2 DEF Contents
  <2> QED
    BY <2>1, <2>2, <1>1, <1>5, <1>7
<1>11. Takes(bucket, bits, k, n, i, new, {old})
  BY <1>1, <1>2, <1>3, <1>5, <1>6, <1>8, <1>9, <1>10 DEF Takes
<1>12. Replaces(bucket', bucket, k, WithSlot(n, i, new))
  <2>1. WithSlot(n, i, new) = [n EXCEPT !.value = [n.value EXCEPT ![i] = new]]
    <3>1. n.used \cup {i} = n.used
      BY <1>5
    <3>2. WithSlot(n, i, new) = [size |-> n.size, pos |-> n.pos, used |-> n.used,
                                 value |-> [n.value EXCEPT ![i] = new]]
      <4>1. PICK v : v = [n.value EXCEPT ![i] = new]
        OBVIOUS
      <4>2. WithSlot(n, i, new) =
              [n EXCEPT !.value = v, !.used = n.used \cup {i},
                        !.pos = IF i < n.pos THEN n.pos ELSE i + 1]
        BY <4>1 DEF WithSlot
      <4>3. (IF i < n.pos THEN n.pos ELSE i + 1) = n.pos
        BY <1>6
      <4>4. WithSlot(n, i, new) = [n EXCEPT !.value = v, !.used = n.used, !.pos = n.pos]
        BY <4>2, <4>3, <3>1
      <4> QED
        BY <1>4, <4>1, <4>4
    <3> QED
      BY <1>4, <3>2
  <2>2. bucket' = [bucket EXCEPT ![k] = [n EXCEPT !.value = [n.value EXCEPT ![i] = new]]]
    BY <1>1
  <2> QED
    BY <2>1, <2>2, <1>2 DEF Replaces
<1>13. PICK U : U = bucket'
  OBVIOUS
<1>14. PICK R : R = {old}
  OBVIOUS
<1>15. /\ Core(U, bits, IF R = {} THEN elements + 1 ELSE elements)
       /\ Everything(U) = (Everything(bucket) \ R) \cup {new}
       /\ R \in SUBSET Everything(bucket)
  <2>1. Takes(bucket, bits, k, n, i, new, R) /\ Replaces(U, bucket, k, WithSlot(n, i, new))
    BY <1>11, <1>12, <1>13, <1>14
  <2> QED
    BY <2>1, <1>2, StoredInto
<1> QED
  BY <1>1, <1>7, <1>9, <1>13, <1>14, <1>15 DEF ChangesSlot

\* A timeout passes.
LEMMA LapseStep ==
  ASSUME HashInv, NEW k \in Keys, NEW i, Lapse(k, i)
  PROVE  \E old, new : /\ ChangesSlot(old, new) /\ old.timeout = "live"
                       /\ new.timeout = "over" /\ new.packets = old.packets
<1>1. /\ bucket[k] # NoBucket /\ i \in Live(bucket[k])
      /\ bucket[k].value[i].timeout = "live"
      /\ bucket' = [bucket EXCEPT ![k].value[i].timeout = "over"]
      /\ UNCHANGED <<bits, elements, op, ret, wild>>
  BY DEF Lapse
<1>2. PICK old : old = bucket[k].value[i]
  OBVIOUS
<1>3. /\ GoodTable(bucket, bits) /\ k \in DOMAIN bucket /\ BucketOK(bucket[k])
  BY <1>1 DEF HashInv, Core, GoodTable, GoodBucket, Keys
<1>4. old \in Contents(bucket[k]) /\ old \in SlotType
  BY <1>1, <1>2, <1>3, BucketIs DEF Contents
<1>5. WithTimeout
  <2>1. old \in Everything(bucket)
    BY <1>3, <1>4 DEF Everything
  <2> QED
    BY <2>1, <1>1, <1>2 DEF HashInv, Core
<1>6. PICK new : new = [old EXCEPT !.timeout = "over"]
  OBVIOUS
<1>7. /\ new \in SlotType /\ new.elem = old.elem /\ new.timeout = "over"
      /\ new.packets = old.packets
  BY <1>4, <1>6 DEF SlotType
<1>8. bucket' = [bucket EXCEPT ![k].value[i] = new]
  BY <1>1, <1>2, <1>6
<1>9. ChangesSlot(bucket[k].value[i], new)
  BY <1>1, <1>2, <1>5, <1>7, <1>8, SlotChanges
<1> QED
  BY <1>1, <1>2, <1>7, <1>9

\* A packet is counted.
LEMMA CountStep ==
  ASSUME HashInv, NEW name, Count(name)
  PROVE  \E old, new : /\ ChangesSlot(old, new) /\ new.timeout = old.timeout
                       /\ old.packets \in Nat /\ new.packets = old.packets + 1
<1>1. PICK d \in Domains :
        /\ bucket[HKEY(d, bits)] # NoBucket
        /\ \E i \in Live(bucket[HKEY(d, bits)]) :
             /\ bucket[HKEY(d, bits)].value[i].packets < MaxPackets
             /\ bucket' = [bucket EXCEPT ![HKEY(d, bits)].value[i].packets = @ + 1]
  BY DEF Count
<1>2. PICK k : k = HKEY(d, bits)
  OBVIOUS
<1>3. PICK i \in Live(bucket[k]) :
        /\ bucket[k].value[i].packets < MaxPackets
        /\ bucket' = [bucket EXCEPT ![k].value[i].packets = @ + 1]
  BY <1>1, <1>2
<1>4. UNCHANGED <<bits, elements, op, ret, wild>> /\ bucket[k] # NoBucket
  BY <1>1, <1>2 DEF Count
<1>5. PICK old : old = bucket[k].value[i]
  OBVIOUS
<1>6. /\ GoodTable(bucket, bits) /\ k \in DOMAIN bucket /\ k \in Keys
  BY <1>2, KeyInTable DEF HashInv, Core, GoodTable, Keys
<1>7. BucketOK(bucket[k])
  BY <1>4, <1>6 DEF GoodTable, GoodBucket
<1>8. old \in Contents(bucket[k]) /\ old \in SlotType
  BY <1>3, <1>4, <1>5, <1>7, BucketIs DEF Contents
<1>9. WithTimeout \/ old.timeout = "perm"
  <2>1. old \in Everything(bucket)
    BY <1>6, <1>8 DEF Everything
  <2> QED
    BY <2>1 DEF HashInv, Core
<1>10. PICK new : new = [old EXCEPT !.packets = @ + 1]
  OBVIOUS
<1>11. /\ new \in SlotType /\ new.elem = old.elem /\ new.timeout = old.timeout
       /\ old.packets \in Nat /\ new.packets = old.packets + 1
  <2>1. old.packets \in 0 .. MaxPackets /\ old.packets + 1 \in 0 .. MaxPackets
    BY <1>3, <1>5, <1>8, HashAssumption DEF SlotType
  <2> QED
    BY <2>1, <1>8, <1>10 DEF SlotType
<1>12. bucket' = [bucket EXCEPT ![k].value[i] = new]
  BY <1>3, <1>5, <1>10
<1>13. ChangesSlot(bucket[k].value[i], new)
  <2>1. new.elem = bucket[k].value[i].elem /\ (WithTimeout \/ new.timeout = "perm")
    BY <1>5, <1>9, <1>11
  <2> QED
    BY <2>1, <1>3, <1>4, <1>6, <1>11, <1>12, SlotChanges
<1> QED
  BY <1>5, <1>11, <1>13

\* The garbage collector and the header take away what is over.
ExpireDoes ==
  /\ Core(bucket', bits', elements')
  /\ Everything(bucket') = {s \in Everything(bucket) : s.timeout # "over"}
  /\ op' = op /\ ret' = ret /\ wild' = wild

LEMMA ExpireStep ==
  ASSUME HashInv, NEW ooms, Gc(ooms) \/ mtype_head(ooms)
  PROVE  ExpireDoes
<1>1. PICK S : S = AfterExpire(ooms)
  OBVIOUS
<1>2. /\ bucket' = S.bucket /\ elements' = S.elements
      /\ UNCHANGED <<bits, op, ret, wild>>
  BY <1>1 DEF Gc, mtype_head
<1>3. /\ GoodTable(S.bucket, bits)
      /\ Everything(S.bucket) = {s \in Everything(bucket) : s.timeout # "over"}
      /\ S.elements = Cardinality(Everything(S.bucket))
  BY <1>1, AfterExpireCounts DEF HashInv, Core
<1>4. Core(S.bucket, bits, S.elements)
  BY <1>3 DEF HashInv, Core
<1> QED
  BY <1>2, <1>3, <1>4 DEF ExpireDoes

\* domain_set_flush empties the set.
FlushDoes ==
  /\ Core(bucket', bits', elements') /\ Everything(bucket') = {}
  /\ op = NoOp /\ op' = op /\ ret' = "ok" /\ wild' = wild

LEMMA FlushStep ==
  ASSUME HashInv, Flush
  PROVE  FlushDoes
<1>1. PICK U : U = bucket'
  OBVIOUS
<1>2. DOMAIN U = 0 .. jhash_size(bits) - 1 /\ \A k \in DOMAIN U : U[k] = NoBucket
  BY <1>1 DEF Flush, mtype_flush, Keys
<1>3. GoodTable(U, bits)
  BY <1>2 DEF GoodTable, GoodBucket, HashInv, Core
<1>4. Everything(U) = {}
  BY <1>2 DEF Everything, Contents
<1>5. Core(U, bits, 0)
  BY <1>3, <1>4, FS_EmptySet DEF Core
<1> QED
  BY <1>1, <1>4, <1>5 DEF FlushDoes, Flush, mtype_flush, Idle

\* mtype_test.
LEMMA TestStep ==
  ASSUME HashInv, Test
  PROVE  /\ op.pc = "test" /\ op' = NoOp /\ UNCHANGED <<bits, bucket, elements, wild>>
         /\ ret' = IF Alive(Everything(bucket), op.elem) THEN "ok" ELSE "exist"
<1>1. op.elem \in Domains /\ GoodTable(bucket, bits)
  BY DEF Test, HashInv, OpInv, Core
<1>2. mtype_test(op.elem) <=> Alive(Everything(bucket), op.elem)
  BY <1>1, AliveMeans DEF mtype_test
<1> QED
  BY <1>2 DEF Test, Answer

\* A command begins.
LEMMA CallStep ==
  ASSUME HashInv, NEW o \in OpType, o.pc \in {"add", "del", "test"}, o.elem \in Domains, Call(o)
  PROVE  HashInv'
<1>1. Core(bucket', bits', elements')
  BY DEF HashInv, Call
<1>2. OpInv'
  BY DEF OpInv, Call
<1> QED
  BY <1>1, <1>2 DEF HashInv, Call

LEMMA UAddCalls ==
  ASSUME HashInv, NEW d \in Domains, NEW exist \in BOOLEAN, NEW t \in Timeouts,
         NEW p \in {-1, 0}, UAdd(d, exist, t, p)
  PROVE  HashInv'
<1>1. PICK o : o = [pc |-> "add", elem |-> d, exist |-> exist, timeout |-> t,
                    packets |-> p, bits |-> 0]
  OBVIOUS
<1>2. 0 \in 0 .. MaxBits
  BY HashAssumption
<1>3. o \in OpType /\ o.pc = "add" /\ o.elem = d
  BY <1>1, <1>2 DEF OpType
<1> QED
  BY <1>1, <1>3, CallStep DEF UAdd

LEMMA NoOpType ==
  NoOp \in OpType /\ NoOp.pc = "idle"
<1>1. 0 \in 0 .. MaxBits /\ "perm" \in Timeouts
  BY HashAssumption
<1> QED
  BY <1>1 DEF NoOp, OpType

LEMMA UDelCalls ==
  ASSUME HashInv, NEW d \in Domains, UDel(d) \/ UTest(d)
  PROVE  HashInv'
<1>1. PICK o : o \in {[NoOp EXCEPT !.pc = "del", !.elem = d], [NoOp EXCEPT !.pc = "test", !.elem = d]}
               /\ Call(o)
  BY DEF UDel, UTest
<1>2. 0 \in 0 .. MaxBits /\ "perm" \in Timeouts
  BY HashAssumption
<1>3. o \in OpType /\ o.pc \in {"del", "test"} /\ o.elem = d
  BY <1>1, <1>2 DEF NoOp, OpType
<1> QED
  BY <1>1, <1>3, CallStep

\* What keeps the invariant of the command.
LEMMA OpKept ==
  ASSUME OpInv, op' = NoOp \/ (op' = op /\ bits' = bits)
  PROVE  OpInv'
BY NoOpType DEF OpInv

-----------------------------------------------------------------------------
(* The invariant is inductive.                                             *)

LEMMA HashInvAdd ==
  ASSUME HashInv, NEW ooms, NEW oom \in Failures, Add(ooms, oom)
  PROVE  HashInv'
<1>1. PICK F : AddDoes(F)
  BY AddStep
<1>2. /\ Core(bucket', bits', elements') /\ bits' = bits /\ wild' \in BOOLEAN
      /\ AddStores(F) \/ AddRefuses(F) \/ AddGoesOn(F)
  BY <1>1 DEF AddDoes
<1>3. ret' \in {"none", "ok", "exist", "full", "nomem"}
  BY <1>2 DEF AddStores, AddRefuses, AddGoesOn, HashInv
<1>4. OpInv'
  <2>1. CASE op' = NoOp \/ op' = op
    BY <2>1, <1>2, OpKept DEF HashInv
  <2>2. CASE op' = [op EXCEPT !.pc = "resize", !.bits = bits] /\ (MayRunOut \/ bits < MaxBits)
    <3>1. op \in OpType /\ op.pc = "add" /\ op.elem \in Domains
      BY AddStep DEF HashInv, OpInv
    <3>2. bits \in 0 .. MaxBits /\ bits \in Nat
      BY HashAssumption DEF HashInv, Core, GoodTable
    <3>3. op' \in OpType /\ op'.pc = "resize" /\ op'.bits = bits /\ op'.elem = op.elem
      BY <2>2, <3>1, <3>2 DEF OpType
    <3> QED
      BY <2>2, <3>1, <3>2, <3>3, <1>2 DEF OpInv
  <2> QED
    BY <1>2, <2>1, <2>2 DEF AddStores, AddRefuses, AddGoesOn
<1> QED
  BY <1>2, <1>3, <1>4 DEF HashInv

LEMMA HashInvResize ==
  ASSUME HashInv, NEW oom \in Failures, Resize(oom)
  PROVE  HashInv'
<1>1. op.pc = "resize" /\ ResizeDoes
  BY ResizeStep
<1>2. OpInv'
  <2>1. CASE op' = NoOp
    BY <2>1, OpKept DEF HashInv
  <2>2. CASE op' # NoOp
    <3>1. op.elem \in Domains
      BY <1>1 DEF HashInv, OpInv
    <3> QED
      BY <2>2, <3>1, <1>1 DEF OpInv, ResizeDoes
  <2> QED
    BY <2>1, <2>2
<1> QED
  BY <1>1, <1>2 DEF ResizeDoes, HashInv

LEMMA HashInvNext == HashInv /\ [Next]_hashvars => HashInv'
<1> SUFFICES ASSUME HashInv, [Next]_hashvars PROVE HashInv'
  OBVIOUS
<1>1. ASSUME NEW d \in Domains, NEW exist \in BOOLEAN, NEW t \in Timeouts,
             NEW p \in IF WithCounter THEN {-1, 0} ELSE {-1}, UAdd(d, exist, t, p)
      PROVE  HashInv'
  <2>1. p \in {-1, 0}
    OBVIOUS
  <2> QED
    BY <2>1, <1>1, UAddCalls
<1>2. ASSUME NEW ooms \in ExpireFailures, NEW oom \in Failures, Add(ooms, oom) PROVE HashInv'
  BY <1>2, HashInvAdd
<1>3. ASSUME NEW oom \in Failures, Resize(oom) PROVE HashInv'
  BY <1>3, HashInvResize
<1>4. ASSUME NEW d \in Domains, UDel(d) \/ UTest(d) PROVE HashInv'
  BY <1>4, UDelCalls
<1>5. ASSUME NEW d \in Domains, Count(d) PROVE HashInv'
  <2>1. PICK old, new : ChangesSlot(old, new)
    BY <1>5, CountStep
  <2>2. bits' = bits
    BY <1>5 DEF Count
  <2> QED
    BY <2>1, <2>2, OpKept DEF ChangesSlot, HashInv
<1>6. ASSUME NEW oom \in Failures, Del(oom) PROVE HashInv'
  <2>1. DelDoes
    BY <1>6, DelStep
  <2> QED
    BY <2>1, OpKept DEF DelDoes, HashInv
<1>7. ASSUME Test PROVE HashInv'
  <2>1. /\ op' = NoOp /\ UNCHANGED <<bits, bucket, elements, wild>>
        /\ ret' \in {"ok", "exist"}
    BY <1>7, TestStep
  <2> QED
    BY <2>1, OpKept DEF HashInv
<1>8. ASSUME Flush PROVE HashInv'
  <2>1. FlushDoes
    BY <1>8, FlushStep
  <2> QED
    BY <2>1, OpKept DEF FlushDoes, HashInv
<1>9. ASSUME NEW ooms \in ExpireFailures, Gc(ooms) \/ mtype_head(ooms) PROVE HashInv'
  <2>1. ExpireDoes
    BY <1>9, ExpireStep
  <2>2. bits' = bits
    BY <1>9 DEF Gc, mtype_head
  <2> QED
    BY <2>1, <2>2, OpKept DEF ExpireDoes, HashInv
<1>10. ASSUME NEW k \in Keys, NEW i, Lapse(k, i) PROVE HashInv'
  <2>1. PICK old, new : ChangesSlot(old, new)
    BY <1>10, LapseStep
  <2>2. bits' = bits
    BY <1>10 DEF Lapse
  <2> QED
    BY <2>1, <2>2, OpKept DEF ChangesSlot, HashInv
<1>11. CASE UNCHANGED hashvars
  BY <1>11, OpKept DEF HashInv, hashvars
<1> QED
  BY <1>1, <1>2, <1>3, <1>4, <1>5, <1>6, <1>7, <1>8, <1>9, <1>10, <1>11 DEF Next

LEMMA HashInvAlways == Spec => []HashInv
<1> QED
  BY HashInvInit, HashInvNext, PTL DEF Spec

\* Every variable keeps its type.
THEOREM HashTypeCorrect == Spec => []TypeOK
BY HashInvAlways, HashInvType, PTL

LEMMA InvariantExact == HashInv => ElementsExact
<1> SUFFICES ASSUME HashInv PROVE ElementsExact
  OBVIOUS
<1>1. GoodTable(bucket, bits) /\ elements = Cardinality(Everything(bucket))
  BY DEF HashInv, Core
<1>2. Stored = {x \in StoredIn(bucket) : SlotIn(bucket, x) \in Everything(bucket)}
  BY <1>1, StoredIs, PlacesOnce
<1>3. Cardinality({x \in StoredIn(bucket) : SlotIn(bucket, x) \in Everything(bucket)}) =
        Cardinality(Everything(bucket))
  BY <1>1, PlacesCount
<1> QED
  BY <1>1, <1>2, <1>3 DEF ElementsExact

LEMMA InvariantOnce == HashInv => StoredOnce
<1> SUFFICES ASSUME HashInv PROVE StoredOnce
  OBVIOUS
<1>1. GoodTable(bucket, bits)
  BY DEF HashInv, Core
<1> QED
  BY <1>1, StoredIs, PlacesOnce DEF StoredOnce

\* set->elements is the number of elements in the buckets, whichever way they
\* came or went: a new slot, the reuse of one, del, gc, the header, flush, a
\* resize, with or without memory for a smaller array.
THEOREM ElementsStayExact == Spec => []ElementsExact
BY HashInvAlways, InvariantExact, PTL

\* No element is in two slots, and each is in the bucket that mtype_test,
\* mtype_add and mtype_del look at, whatever table it was added to.
THEOREM StoredOnceAlways == Spec => []StoredOnce
BY HashInvAlways, InvariantOnce, PTL

-----------------------------------------------------------------------------
(* The map that a set of slots stands for.                                 *)

Once(E) == \A s, t \in E : s.elem = t.elem => s = t

MemberIn(E, d) ==
  IF Alive(E, d) THEN (CHOOSE s \in E : s.elem = d /\ s.timeout # "over").timeout ELSE "out"

MapOf(E) == [d \in Domains |-> MemberIn(E, d)]

LEMMA MemberIs ==
  ASSUME NEW E, Once(E), NEW s \in E, s.timeout # "over"
  PROVE  MemberIn(E, s.elem) = s.timeout /\ Alive(E, s.elem)
<1>1. Alive(E, s.elem)
  BY DEF Alive
<1>2. PICK c : c = CHOOSE t \in E : t.elem = s.elem /\ t.timeout # "over"
  OBVIOUS
<1>3. c \in E /\ c.elem = s.elem
  BY <1>2
<1>4. c = s
  BY <1>3 DEF Once
<1> QED
  BY <1>1, <1>2, <1>4 DEF MemberIn

LEMMA NoMember ==
  ASSUME NEW E, NEW d, ~Alive(E, d)
  PROVE  MemberIn(E, d) = "out"
BY DEF MemberIn

\* Two sets of slots agree on a domain.
LEMMA SameMember ==
  ASSUME NEW E, NEW F, Once(E), Once(F), NEW d,
         \A s \in E : s.elem = d /\ s.timeout # "over" =>
           \E t \in F : t.elem = d /\ t.timeout = s.timeout,
         \A t \in F : t.elem = d /\ t.timeout # "over" =>
           \E s \in E : s.elem = d /\ s.timeout = t.timeout
  PROVE  MemberIn(E, d) = MemberIn(F, d)
<1>1. CASE Alive(E, d)
  <2>1. PICK s \in E : s.elem = d /\ s.timeout # "over"
    BY <1>1 DEF Alive
  <2>2. PICK t \in F : t.elem = d /\ t.timeout = s.timeout
    BY <2>1
  <2>3. MemberIn(E, d) = s.timeout
    BY <2>1, MemberIs
  <2>4. MemberIn(F, d) = t.timeout
    BY <2>1, <2>2, MemberIs
  <2> QED
    BY <2>2, <2>3, <2>4
<1>2. CASE ~Alive(E, d)
  <2>1. ~Alive(F, d)
    BY <1>2 DEF Alive
  <2> QED
    BY <1>2, <2>1, NoMember
<1> QED
  BY <1>1, <1>2

\* The slots of a table.
LEMMA TableOnce ==
  ASSUME NEW T, NEW b, NEW n, Core(T, b, n)
  PROVE  /\ Once(Everything(T))
         /\ \A s \in Everything(T) : s \in SlotType /\ s.elem \in Domains
BY TableSlots DEF Once, Core

\* A member is in the set for good or for some time.
LEMMA MemberStates ==
  ASSUME NEW T, NEW b, NEW n, Core(T, b, n), NEW d
  PROVE  /\ Alive(Everything(T), d) <=> MemberIn(Everything(T), d) # "out"
         /\ Alive(Everything(T), d) =>
              \E s \in Everything(T) : /\ s.elem = d /\ s.timeout # "over"
                                       /\ MemberIn(Everything(T), d) = s.timeout
<1>1. PICK E : E = Everything(T)
  OBVIOUS
<1>2. Once(E) /\ \A s \in E : s \in SlotType
  BY <1>1, TableOnce
<1>3. CASE Alive(E, d)
  <2>1. PICK s \in E : s.elem = d /\ s.timeout # "over"
    BY <1>3 DEF Alive
  <2>2. MemberIn(E, d) = s.timeout
    BY <2>1, <1>2, MemberIs
  <2>3. s.timeout # "out"
    BY <1>2 DEF SlotType
  <2> QED
    BY <1>1, <1>3, <2>1, <2>2, <2>3
<1>4. CASE ~Alive(E, d)
  BY <1>1, <1>4, NoMember
<1> QED
  BY <1>1, <1>3, <1>4

\* When nothing is over, the map has as many members as the table has slots.
LEMMA MapSize ==
  ASSUME NEW T, NEW b, NEW n, Core(T, b, n), \A s \in Everything(T) : s.timeout # "over"
  PROVE  Cardinality({d \in Domains : MapOf(Everything(T))[d] # "out"}) = n
<1>1. PICK E : E = Everything(T)
  OBVIOUS
<1>2. PICK D : D = {d \in Domains : MapOf(E)[d] # "out"}
  OBVIOUS
<1>3. \A d : d \in D <=> d \in Domains /\ Alive(E, d)
  BY <1>1, <1>2, MemberStates DEF MapOf
<1>4. PICK f : f = [s \in E |-> s.elem]
  OBVIOUS
<1>5. \A s \in E : s.elem \in Domains /\ Alive(E, s.elem)
  BY <1>1, TableOnce DEF Alive
<1>6. f \in [E -> D]
  BY <1>3, <1>4, <1>5
<1>7. \A s, t \in E : f[s] = f[t] => s = t
  BY <1>1, <1>4, TableOnce DEF Once
<1>8. \A d \in D : \E s \in E : f[s] = d
  BY <1>3, <1>4 DEF Alive
<1>9. f \in Injection(E, D) /\ f \in Surjection(E, D)
  BY <1>6, <1>7, <1>8 DEF Injection, IsInjective, Surjection
<1>10. IsFiniteSet(D)
  BY <1>2, HashAssumption, FS_Subset
<1>11. Cardinality(E) = Cardinality(D)
  BY <1>9, <1>10, FS_Injection
<1> QED
  BY <1>1, <1>2, <1>11 DEF Core

\* MemberState is the map of the slots in the buckets.
MapIs == [d \in Domains |-> MemberState(d)] = MapOf(Everything(bucket))

LEMMA MemberStateIs == HashInv => MapIs
<1> SUFFICES ASSUME HashInv, NEW d \in Domains
             PROVE  MemberState(d) = MemberIn(Everything(bucket), d)
  BY DEF MapIs, MapOf
<1>1. Core(bucket, bits, elements) /\ GoodTable(bucket, bits)
  BY DEF HashInv, Core
<1>2. PICK E : E = Everything(bucket)
  OBVIOUS
<1>3. PICK X : X = {x \in Stored : SlotAt(x).elem = d /\ SlotAt(x).timeout # "over"}
  OBVIOUS
<1>4. MemberState(d) = IF X = {} THEN "out" ELSE SlotAt(CHOOSE x \in X : TRUE).timeout
  BY <1>3 DEF MemberState
<1>5. \A x \in Stored : SlotAt(x) \in E
  BY <1>1, <1>2, StoredIs, PlacesOnce
<1>6. CASE X = {}
  <2>1. ~Alive(E, d)
    <3> SUFFICES ASSUME NEW s \in E, s.elem = d, s.timeout # "over" PROVE FALSE
      BY DEF Alive
    <3>1. PICK k \in DOMAIN bucket : s \in Contents(bucket[k])
      BY <1>2 DEF Everything
    <3>2. bucket[k] # NoBucket
      BY <3>1 DEF Contents
    <3>3. PICK i \in bucket[k].used : s = bucket[k].value[i]
      BY <3>1, <3>2 DEF Contents
    <3>4. <<k, i>> \in Stored /\ SlotAt(<<k, i>>) = s
      BY <1>1, <3>2, <3>3, InTable, StoredIs DEF SlotAt
    <3> QED
      BY <3>4, <1>3, <1>6
  <2> QED
    BY <1>2, <1>4, <1>6, <2>1, NoMember
<1>7. CASE X # {}
  <2>1. PICK y : y = CHOOSE x \in X : TRUE
    OBVIOUS
  <2>2. y \in X
    BY <1>7, <2>1
  <2>3. SlotAt(y) \in E /\ SlotAt(y).elem = d /\ SlotAt(y).timeout # "over"
    BY <2>2, <1>3, <1>5
  <2>4. MemberIn(E, d) = SlotAt(y).timeout
    BY <1>1, <1>2, <2>3, TableOnce, MemberIs
  <2> QED
    BY <1>2, <1>4, <1>7, <2>1, <2>4
<1> QED
  BY <1>6, <1>7

LEMMA MemberStateNext == HashInv' => MapIs'
BY MemberStateIs, PTL

-----------------------------------------------------------------------------
(* The table implements the map of DsetSet.                                *)

CallOf(o) == [cmd |-> IF o.pc = "resize" THEN "add" ELSE o.pc,
              elem |-> o.elem, exist |-> o.exist, timeout |-> o.timeout]

\* What a step of the set does when M is the map before it and N after it.
Mapped(M, N) ==
  /\ M = MapOf(Everything(bucket)) /\ M = [d \in Domains |-> MemberState(d)]
  /\ N = MapOf(Everything(bucket')) /\ N = [d \in Domains |-> MemberState(d)']

LEMMA CallOfNoOp == CallOf(NoOp) = Abstract!NoCall
BY DEF CallOf, NoOp, Abstract!NoCall

\* G is E, perhaps without what is over, with new over the slots R.
Writes(E, G, new, R) ==
  /\ Once(E) /\ Once(G) /\ new.elem \in Domains /\ new.timeout # "over"
  /\ \A s \in R : s.elem = new.elem \/ s.timeout = "over"
  /\ \/ G = (E \ R) \cup {new}
     \/ G = ({s \in E : s.timeout # "over"} \ R) \cup {new}

\* The map after an element has been stored.
LEMMA StoredMap ==
  ASSUME NEW E, NEW G, NEW new, NEW R, Writes(E, G, new, R)
  PROVE  /\ MemberIn(G, new.elem) = new.timeout
         /\ \A d \in Domains \ {new.elem} : MemberIn(G, d) = MemberIn(E, d)
<1>1. MemberIn(G, new.elem) = new.timeout
  <2>1. Once(G) /\ new \in G /\ new.timeout # "over"
    BY DEF Writes
  <2> QED
    BY <2>1, MemberIs
<1>2. ASSUME NEW d \in Domains, d # new.elem PROVE MemberIn(G, d) = MemberIn(E, d)
  <2>1. \A s \in E : s.elem = d /\ s.timeout # "over" => s \in G
    BY <1>2 DEF Writes
  <2>2. \A t \in G : t.elem = d /\ t.timeout # "over" => t \in E
    BY <1>2 DEF Writes
  <2>3. Once(E) /\ Once(G)
    BY DEF Writes
  <2> QED
    BY <2>1, <2>2, <2>3, SameMember
<1> QED
  BY <1>1, <1>2

\* Slots whose time is over do not count.
LEMMA ExpiredMap ==
  ASSUME NEW E, Once(E)
  PROVE  MapOf({s \in E : s.timeout # "over"}) = MapOf(E)
<1>1. PICK F : F = {s \in E : s.timeout # "over"}
  OBVIOUS
<1>2. Once(F)
  BY <1>1 DEF Once
<1>3. ASSUME NEW d PROVE MemberIn(F, d) = MemberIn(E, d)
  BY <1>1, <1>2, SameMember
<1> QED
  BY <1>1, <1>3 DEF MapOf

LEMMA AddRefines ==
  ASSUME HashInv, HashInv', NEW M, NEW N, Mapped(M, N),
         NEW ooms, NEW oom \in Failures, Add(ooms, oom)
  PROVE  Abstract!AddAnswer \/ (N = M /\ CallOf(op') = CallOf(op) /\ ret' = ret)
<1>1. PICK E : E = Everything(bucket)
  OBVIOUS
<1>2. PICK G : G = Everything(bucket')
  OBVIOUS
<1>3. PICK F : (F = E \/ F = {s \in E : s.timeout # "over"}) /\ AddDoes(F) /\ op.pc = "add"
  BY <1>1, AddStep
<1>4. Once(E) /\ Once(G) /\ op.elem \in Domains /\ op.timeout \in Timeouts
  BY <1>1, <1>2, <1>3, TableOnce DEF HashInv, OpInv, OpType
<1>5. M = MapOf(E) /\ N = MapOf(G) /\ DOMAIN M = Domains
  BY <1>1, <1>2 DEF Mapped, MapOf
<1>6. Alive(E, op.elem) <=> M[op.elem] # "out"
  BY <1>1, <1>4, <1>5, MemberStates DEF HashInv, MapOf
<1>7. Alive(F, op.elem) <=> Alive(E, op.elem)
  BY <1>3 DEF Alive
<1>8. MapOf(F) = MapOf(E)
  BY <1>3, <1>4, ExpiredMap
<1>9. CASE AddStores(F)
  <2>1. PICK new \in SlotType, R \in SUBSET F :
          /\ new.elem = op.elem /\ new.timeout = op.timeout
          /\ G = (F \ R) \cup {new}
          /\ \A s \in R : s.elem = op.elem \/ s.timeout = "over"
          /\ op.exist \/ ~Alive(F, op.elem)
          /\ ret' = "ok" /\ op' = NoOp
    BY <1>2, <1>9 DEF AddStores
  <2>2. new.timeout # "over"
    BY <2>1, <1>4, HashAssumption
  <2>3. /\ MemberIn(G, new.elem) = new.timeout
        /\ \A d \in Domains \ {new.elem} : MemberIn(G, d) = MemberIn(E, d)
    <3>1. Writes(E, G, new, R)
      BY <2>1, <2>2, <1>3, <1>4 DEF Writes
    <3> QED
      BY <3>1, StoredMap
  <2>4. N = [M EXCEPT ![op.elem] = op.timeout]
    BY <2>1, <2>3, <1>5 DEF MapOf
  <2> QED
    BY <2>1, <2>4, <1>3, <1>6, <1>7, CallOfNoOp
       DEF Mapped, CallOf, Abstract!AddAnswer, Abstract!In
<1>10. CASE AddRefuses(F)
  <2>1. G = F /\ N = M /\ op' = NoOp
    BY <1>2, <1>5, <1>8, <1>10 DEF AddRefuses
  <2>2. CASE ret' = "exist" /\ Alive(F, op.elem) /\ ~op.exist
    BY <2>1, <2>2, <1>3, <1>6, <1>7, CallOfNoOp
       DEF Mapped, CallOf, Abstract!AddAnswer, Abstract!In
  <2>3. CASE /\ ret' = "full" /\ \A s \in F : s.elem # op.elem /\ s.timeout # "over"
             /\ Cardinality(F) >= MaxElem
    <3>1. M[op.elem] = "out"
      BY <2>3, <1>6, <1>7 DEF Alive
    <3>2. Cardinality({d \in Domains : MapOf(G)[d] # "out"}) = Cardinality(F)
      <4>1. PICK T, b, n : T = bucket' /\ b = bits' /\ n = elements'
        OBVIOUS
      <4>2. Core(T, b, n) /\ G = Everything(T)
        BY <4>1, <1>2 DEF HashInv
      <4>3. \A s \in Everything(T) : s.timeout # "over"
        BY <2>1, <2>3, <4>2
      <4>4. Cardinality({d \in Domains : MapOf(Everything(T))[d] # "out"}) = n
        BY <4>2, <4>3, MapSize
      <4> QED
        BY <4>2, <4>4, <2>1 DEF Core
    <3>3. Cardinality({d \in Domains : M[d] # "out"}) >= MaxElem
      BY <3>2, <2>1, <2>3, <1>5
    <3>4. Abstract!Size = Cardinality({d \in Domains : M[d] # "out"})
      <4>1. PICK D : D = {d \in Domains : M[d] # "out"}
        OBVIOUS
      <4>2. M = [d \in Domains |-> MemberState(d)]
        BY DEF Mapped
      <4>3. {e \in Domains : [d \in Domains |-> MemberState(d)][e] # "out"} = D
        BY <4>1, <4>2
      <4>4. Abstract!Size = Cardinality(D)
        BY <4>3, Zenon DEF Abstract!Size, Abstract!In, Abstract!Cardinality, Cardinality
      <4> QED
        BY <4>1, <4>4
    <3> QED
      BY <3>1, <3>3, <3>4, <2>1, <2>3, <1>3, CallOfNoOp
         DEF Mapped, CallOf, Abstract!AddAnswer, Abstract!In
  <2>4. CASE ret' = "nomem" /\ CanFail
    BY <2>1, <2>4, <1>3, CallOfNoOp
       DEF Mapped, CallOf, Abstract!AddAnswer, MayRunOut
  <2> QED
    BY <1>10, <2>2, <2>3, <2>4 DEF AddRefuses
<1>11. CASE AddGoesOn(F)
  <2>1. N = M /\ ret' = ret
    BY <1>2, <1>5, <1>8, <1>11 DEF AddGoesOn
  <2>2. CASE op' = op
    BY <2>1, <2>2
  <2>3. CASE op' = [op EXCEPT !.pc = "resize", !.bits = bits]
    <3>1. op \in OpType
      BY DEF HashInv, OpInv
    <3>2. /\ op'.pc = "resize" /\ op'.elem = op.elem /\ op'.exist = op.exist
          /\ op'.timeout = op.timeout
      BY <2>3, <3>1 DEF OpType
    <3> QED
      BY <2>1, <3>2, <1>3 DEF CallOf
  <2> QED
    BY <1>11, <2>2, <2>3 DEF AddGoesOn
<1> QED
  BY <1>3, <1>9, <1>10, <1>11 DEF AddDoes

LEMMA ResizeRefines ==
  ASSUME HashInv, NEW M, NEW N, Mapped(M, N), NEW oom \in Failures, Resize(oom)
  PROVE  Abstract!AddAnswer \/ (N = M /\ CallOf(op') = CallOf(op) /\ ret' = ret)
<1>1. op.pc = "resize" /\ ResizeDoes
  BY ResizeStep
<1>2. N = M
  BY <1>1 DEF Mapped, ResizeDoes
<1>3. CASE ret' = "nomem" /\ op' = NoOp /\ MayRunOut
  BY <1>1, <1>2, <1>3, CallOfNoOp DEF Mapped, CallOf, Abstract!AddAnswer
<1>4. CASE /\ ret' = ret
           /\ op'.pc \in {"add", "resize"} /\ op'.elem = op.elem
           /\ op'.exist = op.exist /\ op'.timeout = op.timeout
  BY <1>1, <1>2, <1>4 DEF CallOf
<1> QED
  BY <1>1, <1>3, <1>4 DEF ResizeDoes

LEMMA DelRefines ==
  ASSUME HashInv, NEW M, NEW N, Mapped(M, N), NEW oom, Del(oom)
  PROVE  Abstract!DelAnswer
<1>1. op.pc = "del" /\ DelDoes
  BY DelStep
<1>2. PICK E : E = Everything(bucket)
  OBVIOUS
<1>3. PICK G : G = Everything(bucket')
  OBVIOUS
<1>4. M = MapOf(E) /\ N = MapOf(G) /\ DOMAIN M = Domains /\ op.elem \in Domains
  BY <1>1, <1>2, <1>3 DEF Mapped, MapOf, HashInv, OpInv
<1>5. Alive(E, op.elem) <=> M[op.elem] # "out"
  BY <1>2, <1>4, MemberStates DEF HashInv, MapOf
<1>6. CASE ret' = "exist" /\ G = E /\ ~Alive(E, op.elem)
  BY <1>1, <1>4, <1>5, <1>6, CallOfNoOp
     DEF DelDoes, Mapped, CallOf, Abstract!DelAnswer, Abstract!In
<1>7. ASSUME ret' = "ok", NEW s \in E, s.elem = op.elem, s.timeout # "over", G = E \ {s}
      PROVE  Abstract!DelAnswer
  <2>1. Once(E)
    BY <1>2, TableOnce DEF HashInv
  <2>2. Once(G)
    BY <2>1, <1>7 DEF Once
  <2>3. MemberIn(G, op.elem) = "out"
    <3>1. ~Alive(G, op.elem)
      BY <2>1, <1>7 DEF Alive, Once
    <3> QED
      BY <3>1, NoMember
  <2>4. ASSUME NEW d \in Domains \ {op.elem} PROVE MemberIn(G, d) = MemberIn(E, d)
    <3>1. \A t \in E : t.elem = d => t \in G
      BY <1>7
    <3>2. \A t \in G : t \in E
      BY <1>7
    <3> QED
      BY <2>1, <2>2, <3>1, <3>2, SameMember
  <2>5. N = [M EXCEPT ![op.elem] = "out"]
    BY <2>3, <2>4, <1>4 DEF MapOf
  <2>6. M[op.elem] # "out"
    BY <1>5, <1>7 DEF Alive
  <2> QED
    BY <1>1, <1>7, <2>5, <2>6, CallOfNoOp
       DEF DelDoes, Mapped, CallOf, Abstract!DelAnswer, Abstract!In
<1> QED
  BY <1>1, <1>2, <1>3, <1>6, <1>7 DEF DelDoes

LEMMA TestRefines ==
  ASSUME HashInv, NEW M, NEW N, Mapped(M, N), Test
  PROVE  Abstract!TestAnswer
<1>1. /\ op.pc = "test" /\ op' = NoOp /\ bucket' = bucket
      /\ ret' = IF Alive(Everything(bucket), op.elem) THEN "ok" ELSE "exist"
  BY TestStep
<1>2. op.elem \in Domains
  BY <1>1 DEF HashInv, OpInv
<1>3. Alive(Everything(bucket), op.elem) <=> M[op.elem] # "out"
  BY <1>2, MemberStates DEF HashInv, Mapped, MapOf
<1>4. N = M
  BY <1>1 DEF Mapped
<1> QED
  BY <1>1, <1>3, <1>4, CallOfNoOp DEF Mapped, CallOf, Abstract!TestAnswer, Abstract!In

LEMMA FlushRefines ==
  ASSUME HashInv, NEW M, NEW N, Mapped(M, N), Flush
  PROVE  Abstract!FlushAnswer
<1>1. FlushDoes
  BY FlushStep
<1>2. N = [d \in Domains |-> "out"]
  <2>1. \A d \in Domains : MemberIn({}, d) = "out"
    BY DEF MemberIn, Alive
  <2> QED
    BY <1>1, <2>1 DEF FlushDoes, Mapped, MapOf
<1> QED
  BY <1>1, <1>2, CallOfNoOp DEF FlushDoes, Mapped, CallOf, Abstract!FlushAnswer

LEMMA ExpireRefines ==
  ASSUME HashInv, NEW M, NEW N, Mapped(M, N), NEW ooms, Gc(ooms) \/ mtype_head(ooms)
  PROVE  N = M /\ op' = op /\ ret' = ret
<1>1. ExpireDoes
  BY ExpireStep
<1>2. PICK E : E = Everything(bucket)
  OBVIOUS
<1>3. Once(E)
  BY <1>2, TableOnce DEF HashInv
<1>4. Everything(bucket') = {s \in E : s.timeout # "over"}
  BY <1>1, <1>2 DEF ExpireDoes
<1>5. MapOf({s \in E : s.timeout # "over"}) = MapOf(E)
  BY <1>3, ExpiredMap
<1> QED
  BY <1>1, <1>2, <1>4, <1>5 DEF ExpireDoes, Mapped

\* The map after one slot has changed.
LEMMA ChangedMap ==
  ASSUME HashInv, NEW M, NEW N, Mapped(M, N), NEW old, NEW new, ChangesSlot(old, new)
  PROVE  /\ DOMAIN M = Domains /\ DOMAIN N = Domains /\ old.elem \in Domains
         /\ M[old.elem] = IF old.timeout = "over" THEN "out" ELSE old.timeout
         /\ N[old.elem] = IF new.timeout = "over" THEN "out" ELSE new.timeout
         /\ \A d \in Domains \ {old.elem} : N[d] = M[d]
<1>1. PICK E : E = Everything(bucket)
  OBVIOUS
<1>2. PICK G : G = Everything(bucket')
  OBVIOUS
<1>3. /\ old \in E /\ new.elem = old.elem /\ G = (E \ {old}) \cup {new}
      /\ Once(E) /\ old.elem \in Domains
  BY <1>1, <1>2, TableOnce DEF ChangesSlot, HashInv
<1>4. Once(G)
  <2>1. \A s \in E \ {old} : s.elem # new.elem
    BY <1>3 DEF Once
  <2> QED
    BY <2>1, <1>3 DEF Once
<1>5. M = MapOf(E) /\ N = MapOf(G)
  BY <1>1, <1>2 DEF Mapped
<1>6. MemberIn(E, old.elem) = IF old.timeout = "over" THEN "out" ELSE old.timeout
  <2>1. CASE old.timeout = "over"
    <3>1. ~Alive(E, old.elem)
      BY <2>1, <1>3 DEF Alive, Once
    <3> QED
      BY <2>1, <3>1, NoMember
  <2>2. CASE old.timeout # "over"
    BY <2>2, <1>3, MemberIs
  <2> QED
    BY <2>1, <2>2
<1>7. MemberIn(G, old.elem) = IF new.timeout = "over" THEN "out" ELSE new.timeout
  <2>0. new \in G
    BY <1>3
  <2>1. CASE new.timeout = "over"
    <3>1. ~Alive(G, new.elem)
      BY <2>0, <2>1, <1>4 DEF Alive, Once
    <3> QED
      BY <2>1, <3>1, <1>3, NoMember
  <2>2. CASE new.timeout # "over"
    BY <2>0, <2>2, <1>3, <1>4, MemberIs
  <2> QED
    BY <2>1, <2>2
<1>8. ASSUME NEW d \in Domains \ {old.elem} PROVE MemberIn(G, d) = MemberIn(E, d)
  <2>1. \A t \in E : t.elem = d => t \in G
    BY <1>3
  <2>2. \A t \in G : t.elem = d => t \in E
    BY <1>3
  <2> QED
    BY <1>3, <1>4, <2>1, <2>2, SameMember
<1> QED
  BY <1>3, <1>5, <1>6, <1>7, <1>8 DEF MapOf

LEMMA LapseRefines ==
  ASSUME HashInv, NEW M, NEW N, Mapped(M, N), NEW k \in Keys, NEW i, Lapse(k, i)
  PROVE  \E d \in Domains : Abstract!TimeOut(d)
<1>1. PICK old, new : /\ ChangesSlot(old, new) /\ old.timeout = "live"
                      /\ new.timeout = "over"
  BY LapseStep
<1>2. PICK d : d = old.elem
  OBVIOUS
<1>3. /\ d \in Domains /\ M[d] = "live" /\ N[d] = "out"
      /\ DOMAIN M = Domains /\ DOMAIN N = Domains
      /\ \A e \in Domains \ {d} : N[e] = M[e]
  BY <1>1, <1>2, ChangedMap
<1>4. N = [M EXCEPT ![d] = "out"]
  <2>1. M = [e \in Domains |-> M[e]] /\ N = [e \in Domains |-> N[e]]
    BY DEF Mapped
  <2> QED
    BY <1>3, <2>1
<1>5. op' = op /\ ret' = ret
  BY <1>1 DEF ChangesSlot
<1>6. Abstract!TimeOut(d)
  BY <1>3, <1>4, <1>5 DEF Mapped, Abstract!TimeOut
<1> QED
  BY <1>3, <1>6

LEMMA CountRefines ==
  ASSUME HashInv, NEW M, NEW N, Mapped(M, N), NEW name, Count(name)
  PROVE  N = M /\ op' = op /\ ret' = ret
<1>1. PICK old, new : ChangesSlot(old, new) /\ new.timeout = old.timeout
  BY CountStep
<1>2. /\ DOMAIN M = Domains /\ DOMAIN N = Domains
      /\ \A d \in Domains : N[d] = M[d]
  BY <1>1, ChangedMap
<1>3. M = [e \in Domains |-> M[e]] /\ N = [e \in Domains |-> N[e]]
  BY DEF Mapped
<1> QED
  BY <1>1, <1>2, <1>3 DEF ChangesSlot

LEMMA CallsRefine ==
  ASSUME HashInv, NEW M, NEW N, Mapped(M, N), NEW d \in Domains
  PROVE  /\ \A exist \in BOOLEAN, t \in Timeouts : \A p :
              UAdd(d, exist, t, p) => Abstract!AddCall(d, exist, t)
         /\ UDel(d) => Abstract!DelCall(d)
         /\ UTest(d) => Abstract!TestCall(d)
<1>1. ASSUME NEW o, Call(o) PROVE Abstract!Call(CallOf(o))
  <2>1. op = NoOp /\ op' = o /\ ret' = "none" /\ N = M
    BY <1>1 DEF Call, Idle, Mapped
  <2> QED
    BY <2>1, CallOfNoOp DEF Mapped, CallOf, Abstract!Call
<1>2. ASSUME NEW exist \in BOOLEAN, NEW t \in Timeouts, NEW p, UAdd(d, exist, t, p)
      PROVE  Abstract!AddCall(d, exist, t)
  <2>1. PICK o : o = [pc |-> "add", elem |-> d, exist |-> exist, timeout |-> t,
                      packets |-> p, bits |-> 0]
    OBVIOUS
  <2>2. CallOf(o) = [cmd |-> "add", elem |-> d, exist |-> exist, timeout |-> t]
    BY <2>1 DEF CallOf
  <2> QED
    BY <1>1, <1>2, <2>1, <2>2 DEF UAdd, Abstract!AddCall
<1>3. ASSUME UDel(d) PROVE Abstract!DelCall(d)
  <2>1. PICK o : o = [NoOp EXCEPT !.pc = "del", !.elem = d]
    OBVIOUS
  <2>2. CallOf(o) = [Abstract!NoCall EXCEPT !.cmd = "del", !.elem = d]
    <3>1. PICK w : w = CallOf(o)
      OBVIOUS
    <3>2. PICK c : c = Abstract!NoCall
      OBVIOUS
    <3>3. PICK z : z = [c EXCEPT !.cmd = "del", !.elem = d]
      OBVIOUS
    <3>4. /\ c = [cmd |-> "idle", elem |-> NoElem, exist |-> FALSE, timeout |-> "perm"]
          /\ w = [cmd |-> "del", elem |-> d, exist |-> FALSE, timeout |-> "perm"]
      BY <2>1, <3>1, <3>2 DEF CallOf, NoOp, Abstract!NoCall
    <3>5. DOMAIN z = DOMAIN c /\ DOMAIN w = DOMAIN c
      BY <3>3, <3>4
    <3>6. z.cmd = w.cmd /\ z.elem = w.elem /\ z.exist = w.exist /\ z.timeout = w.timeout
      BY <3>3, <3>4
    <3>7. z = w
      BY <3>3, <3>4, <3>5, <3>6
    <3> QED
      BY <3>1, <3>2, <3>3, <3>7
  <2> QED
    BY <1>1, <1>3, <2>1, <2>2 DEF UDel, Abstract!DelCall
<1>4. ASSUME UTest(d) PROVE Abstract!TestCall(d)
  <2>1. PICK o : o = [NoOp EXCEPT !.pc = "test", !.elem = d]
    OBVIOUS
  <2>2. CallOf(o) = [Abstract!NoCall EXCEPT !.cmd = "test", !.elem = d]
    <3>1. PICK w : w = CallOf(o)
      OBVIOUS
    <3>2. PICK c : c = Abstract!NoCall
      OBVIOUS
    <3>3. PICK z : z = [c EXCEPT !.cmd = "test", !.elem = d]
      OBVIOUS
    <3>4. /\ c = [cmd |-> "idle", elem |-> NoElem, exist |-> FALSE, timeout |-> "perm"]
          /\ w = [cmd |-> "test", elem |-> d, exist |-> FALSE, timeout |-> "perm"]
      BY <2>1, <3>1, <3>2 DEF CallOf, NoOp, Abstract!NoCall
    <3>5. DOMAIN z = DOMAIN c /\ DOMAIN w = DOMAIN c
      BY <3>3, <3>4
    <3>6. z.cmd = w.cmd /\ z.elem = w.elem /\ z.exist = w.exist /\ z.timeout = w.timeout
      BY <3>3, <3>4
    <3>7. z = w
      BY <3>3, <3>4, <3>5, <3>6
    <3> QED
      BY <3>1, <3>2, <3>3, <3>7
  <2> QED
    BY <1>1, <1>4, <2>1, <2>2 DEF UTest, Abstract!TestCall
<1> QED
  BY <1>2, <1>3, <1>4

LEMMA RefinesInit == Init => Abstract!AbsInit
<1> SUFFICES ASSUME Init PROVE Abstract!AbsInit
  OBVIOUS
<1>1. HashInv
  BY HashInvInit
<1>2. PICK M : M = MapOf(Everything(bucket))
  OBVIOUS
<1>3. M = [d \in Domains |-> MemberState(d)]
  BY <1>1, <1>2, MemberStateIs DEF MapIs
<1>4. Everything(bucket) = {}
  BY DEF Init, Everything, Contents
<1>5. \A d \in Domains : MemberIn({}, d) = "out"
  BY DEF MemberIn, Alive
<1>6. M = [d \in Domains |-> "out"]
  BY <1>2, <1>4, <1>5 DEF MapOf
<1>7. CallOf(op) = Abstract!NoCall /\ ret = "ok"
  BY CallOfNoOp DEF Init
<1> QED
  BY <1>3, <1>6, <1>7 DEF CallOf, Abstract!AbsInit

LEMMA RefinesNext ==
  HashInv /\ HashInv' /\ [Next]_hashvars => [Abstract!AbsNext]_(Abstract!absvars)
<1> SUFFICES ASSUME HashInv, HashInv', [Next]_hashvars
             PROVE  [Abstract!AbsNext]_(Abstract!absvars)
  OBVIOUS
<1>0. PICK M, N : M = MapOf(Everything(bucket)) /\ N = MapOf(Everything(bucket'))
  OBVIOUS
<1>1. Mapped(M, N)
  BY <1>0, MemberStateIs, MemberStateNext DEF Mapped, MapIs
<1>2. ASSUME N = M, CallOf(op') = CallOf(op), ret' = ret
      PROVE  UNCHANGED Abstract!absvars
  BY <1>1, <1>2 DEF Mapped, CallOf, Abstract!absvars
<1>3. ASSUME NEW d \in Domains, NEW exist \in BOOLEAN, NEW t \in Timeouts,
             NEW p \in IF WithCounter THEN {-1, 0} ELSE {-1}, UAdd(d, exist, t, p)
      PROVE  Abstract!AbsNext
  <2>1. Abstract!AddCall(d, exist, t)
    BY <1>1, <1>3, CallsRefine
  <2> QED
    BY <2>1 DEF Abstract!AbsNext
<1>4. ASSUME NEW ooms \in ExpireFailures, NEW oom \in Failures, Add(ooms, oom)
      PROVE  [Abstract!AbsNext]_(Abstract!absvars)
  <2>1. Abstract!AddAnswer \/ (N = M /\ CallOf(op') = CallOf(op) /\ ret' = ret)
    BY <1>1, <1>4, AddRefines
  <2> QED
    BY <2>1, <1>2 DEF Abstract!AbsNext
<1>5. ASSUME NEW oom \in Failures, Resize(oom)
      PROVE  [Abstract!AbsNext]_(Abstract!absvars)
  <2>1. Abstract!AddAnswer \/ (N = M /\ CallOf(op') = CallOf(op) /\ ret' = ret)
    BY <1>1, <1>5, ResizeRefines
  <2> QED
    BY <2>1, <1>2 DEF Abstract!AbsNext
<1>6. ASSUME NEW d \in Domains, UDel(d) \/ UTest(d) PROVE Abstract!AbsNext
  <2>1. Abstract!DelCall(d) \/ Abstract!TestCall(d)
    BY <1>1, <1>6, CallsRefine
  <2> QED
    BY <2>1 DEF Abstract!AbsNext
<1>7. ASSUME NEW d \in Domains, Count(d) PROVE UNCHANGED Abstract!absvars
  BY <1>1, <1>2, <1>7, CountRefines
<1>8. ASSUME NEW oom \in Failures, Del(oom) PROVE Abstract!AbsNext
  BY <1>1, <1>8, DelRefines DEF Abstract!AbsNext
<1>9. ASSUME Test PROVE Abstract!AbsNext
  BY <1>1, <1>9, TestRefines DEF Abstract!AbsNext
<1>10. ASSUME Flush PROVE Abstract!AbsNext
  BY <1>1, <1>10, FlushRefines DEF Abstract!AbsNext
<1>11. ASSUME NEW ooms \in ExpireFailures, Gc(ooms) \/ mtype_head(ooms)
       PROVE  UNCHANGED Abstract!absvars
  BY <1>1, <1>2, <1>11, ExpireRefines
<1>12. ASSUME NEW k \in Keys, NEW i, Lapse(k, i) PROVE Abstract!AbsNext
  <2>1. PICK d \in Domains : Abstract!TimeOut(d)
    BY <1>1, <1>12, LapseRefines
  <2> QED
    BY <2>1 DEF Abstract!AbsNext
<1>13. CASE UNCHANGED hashvars
  <2>1. N = M /\ op' = op /\ ret' = ret
    BY <1>13, <1>0 DEF hashvars
  <2> QED
    BY <2>1, <1>2
<1> QED
  BY <1>3, <1>4, <1>5, <1>6, <1>7, <1>8, <1>9, <1>10, <1>11, <1>12, <1>13 DEF Next

\* The hash with its buckets, holes, resizing and garbage collection implements
\* the map: every answer is right for the contents, a set is only said to be
\* full when it is, and nothing but its timeout, del and flush removes an element.
THEOREM HashImplementsSet == Spec => ImplementsSet
<1>1. Init => Abstract!AbsInit
  BY RefinesInit
<1>2. HashInv /\ HashInv' /\ [Next]_hashvars => [Abstract!AbsNext]_(Abstract!absvars)
  BY RefinesNext
<1> QED
  BY <1>1, <1>2, HashInvAlways, PTL DEF Spec, ImplementsSet, Abstract!AbsSpec

-----------------------------------------------------------------------------
(* The counters.                                                           *)

\* SlotOf is the slot of the table with that element.
SlotsAre == \A s \in Everything(bucket) : SlotOf(s.elem) = s

LEMMA SlotOfIs == HashInv => SlotsAre
<1> SUFFICES ASSUME HashInv, NEW s \in Everything(bucket) PROVE SlotOf(s.elem) = s
  BY DEF SlotsAre
<1>1. GoodTable(bucket, bits)
  BY DEF HashInv, Core
<1>2. PICK k \in DOMAIN bucket : s \in Contents(bucket[k])
  BY DEF Everything
<1>3. bucket[k] # NoBucket
  BY <1>2 DEF Contents
<1>4. PICK i \in bucket[k].used : s = bucket[k].value[i]
  BY <1>2, <1>3 DEF Contents
<1>5. <<k, i>> \in Stored /\ SlotAt(<<k, i>>) = s
  BY <1>1, <1>3, <1>4, InTable, StoredIs DEF SlotAt
<1>6. PICK y : y = CHOOSE x \in Stored : SlotAt(x).elem = s.elem
  OBVIOUS
<1>7. y \in Stored /\ SlotAt(y).elem = s.elem
  BY <1>5, <1>6
<1>8. y = <<k, i>>
  BY <1>1, <1>5, <1>7, StoredIs, PlacesOnce
<1> QED
  BY <1>5, <1>6, <1>8 DEF SlotOf

LEMMA SlotOfNext == HashInv' => SlotsAre'
BY SlotOfIs, PTL

\* Every slot of d that is in the table after the step was there before, with
\* no more packets.
PacketsKept(d) ==
  \A t \in Everything(bucket') : t.elem = d =>
    \E s \in Everything(bucket) : s.elem = d /\ t.packets >= s.packets

LEMMA SubsetKeeps ==
  ASSUME HashInv, NEW d, \A t \in Everything(bucket') : t.elem = d => t \in Everything(bucket)
  PROVE  PacketsKept(d)
<1>1. \A t \in Everything(bucket) : t.packets \in Int
  BY TableOnce, HashAssumption DEF SlotType, HashInv
<1> QED
  BY <1>1 DEF PacketsKept

LEMMA PacketsKeptNext ==
  ASSUME HashInv, [Next]_hashvars, NEW e, ~(op.elem = e /\ op' = NoOp /\ op # NoOp)
  PROVE  PacketsKept(e)
<1>1. ASSUME UNCHANGED bucket PROVE PacketsKept(e)
  BY <1>1, SubsetKeeps
<1>2. ASSUME NEW d \in Domains, NEW exist \in BOOLEAN, NEW t \in Timeouts,
             NEW p \in IF WithCounter THEN {-1, 0} ELSE {-1}, UAdd(d, exist, t, p)
      PROVE  PacketsKept(e)
  BY <1>1, <1>2 DEF UAdd, Call
<1>3. ASSUME NEW ooms \in ExpireFailures, NEW oom \in Failures, Add(ooms, oom)
      PROVE  PacketsKept(e)
  <2>1. PICK F : /\ F = Everything(bucket) \/ F = {s \in Everything(bucket) : s.timeout # "over"}
                 /\ AddDoes(F) /\ op.pc = "add"
    BY <1>3, AddStep
  <2>2. op # NoOp
    BY <2>1, NoOpType
  <2>3. \A t \in Everything(bucket') : t.elem = e => t \in F
    <3>1. CASE AddStores(F)
      BY <3>1, <2>2 DEF AddStores
    <3>2. CASE AddRefuses(F) \/ AddGoesOn(F)
      BY <3>2 DEF AddRefuses, AddGoesOn
    <3> QED
      BY <2>1, <3>1, <3>2 DEF AddDoes
  <2> QED
    BY <2>1, <2>3, SubsetKeeps
<1>4. ASSUME NEW oom \in Failures, Resize(oom) PROVE PacketsKept(e)
  BY <1>4, ResizeStep, SubsetKeeps DEF ResizeDoes
<1>5. ASSUME NEW d \in Domains, UDel(d) \/ UTest(d) PROVE PacketsKept(e)
  BY <1>1, <1>5 DEF UDel, UTest, Call
<1>6. ASSUME NEW old, NEW new, ChangesSlot(old, new),
             old.packets \in Int, new.packets \in Int, new.packets >= old.packets
      PROVE  PacketsKept(e)
  <2>1. \A t \in Everything(bucket) : t.packets \in Int
    BY TableOnce, HashAssumption DEF SlotType, HashInv
  <2> QED
    BY <1>6, <2>1 DEF ChangesSlot, PacketsKept
<1>7. ASSUME NEW d \in Domains, Count(d) PROVE PacketsKept(e)
  <2>1. PICK old, new : /\ ChangesSlot(old, new) /\ old.packets \in Nat
                        /\ new.packets = old.packets + 1
    BY <1>7, CountStep
  <2> QED
    BY <2>1, <1>6
<1>8. ASSUME NEW oom \in Failures, Del(oom) PROVE PacketsKept(e)
  <2>1. DelDoes
    BY <1>8, DelStep
  <2> QED
    BY <2>1, SubsetKeeps DEF DelDoes
<1>9. ASSUME Test PROVE PacketsKept(e)
  BY <1>1, <1>9, TestStep
<1>10. ASSUME Flush PROVE PacketsKept(e)
  BY <1>10, FlushStep, SubsetKeeps DEF FlushDoes
<1>11. ASSUME NEW ooms \in ExpireFailures, Gc(ooms) \/ mtype_head(ooms)
       PROVE  PacketsKept(e)
  <2>1. ExpireDoes
    BY <1>11, ExpireStep
  <2> QED
    BY <2>1, SubsetKeeps DEF ExpireDoes
<1>12. ASSUME NEW k \in Keys, NEW i, Lapse(k, i) PROVE PacketsKept(e)
  <2>1. PICK old, new : ChangesSlot(old, new) /\ new.packets = old.packets
    BY <1>12, LapseStep
  <2>2. old.packets \in Int
    BY <2>1, TableOnce, HashAssumption DEF SlotType, HashInv, ChangesSlot
  <2> QED
    BY <2>1, <2>2, <1>6
<1>13. CASE UNCHANGED hashvars
  BY <1>1, <1>13 DEF hashvars
<1> QED
  BY <1>2, <1>3, <1>4, <1>5, <1>7, <1>8, <1>9, <1>10, <1>11, <1>12, <1>13 DEF Next

LEMMA CountersKeptStep ==
  ASSUME HashInv, HashInv', [Next]_hashvars, NEW d \in Domains,
         MemberState(d) # "out", MemberState(d)' # "out",
         ~(op.elem = d /\ op' = NoOp /\ op # NoOp)
  PROVE  SlotOf(d)'.packets >= SlotOf(d).packets
<1>1. PICK M : M = MapOf(Everything(bucket))
  OBVIOUS
<1>2. PICK N : N = MapOf(Everything(bucket'))
  OBVIOUS
<1>3. Mapped(M, N)
  BY <1>1, <1>2, MemberStateIs, MemberStateNext DEF Mapped, MapIs
<1>4. MemberIn(Everything(bucket'), d) # "out"
  BY <1>3 DEF Mapped, MapOf
<1>5. PICK t \in Everything(bucket') : t.elem = d
  BY <1>4, NoMember DEF Alive
<1>6. PICK s \in Everything(bucket) : s.elem = d /\ t.packets >= s.packets
  BY <1>5, PacketsKeptNext DEF PacketsKept
<1>7. SlotOf(d) = s
  BY <1>6, SlotOfIs DEF SlotsAre
<1>8. SlotOf(d)' = t
  BY <1>5, SlotOfNext DEF SlotsAre
<1> QED
  BY <1>6, <1>7, <1>8

\* Between two adds of an element no step loses packets that were counted for
\* it, wherever its slot is moved: resize, a shorter or a longer array, the reuse
\* of the slots beside it.
THEOREM HashCountersKept == Spec => CountersKept
<1>1. HashInv /\ HashInv' /\ [Next]_hashvars =>
        [\A d \in Domains :
           MemberState(d) # "out" /\ MemberState(d)' # "out"
             /\ ~(op.elem = d /\ op' = NoOp /\ op # NoOp)
             => SlotOf(d)'.packets >= SlotOf(d).packets]_hashvars
  BY CountersKeptStep
<1> QED
  BY <1>1, HashInvAlways, PTL DEF Spec, CountersKept

=============================================================================

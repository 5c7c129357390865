------------------------- MODULE DsetListingProofs -------------------------
(***************************************************************************)
(* Theorems about DsetListing, for any number of sets, elements, buckets   *)
(* and messages of any size: what a finished listing contains, that its    *)
(* output is well-formed, and when the program gives a listing up.         *)
(*                                                                         *)
(* The parts of the invariant are predicates of the values they are about, *)
(* so that the same lemma speaks of the values before and after a step.    *)
(***************************************************************************)
EXTENDS DsetListing, FiniteSetTheorems, SequenceTheorems, TLAPS

DumpType ==
  [pc : {"scan", "list", "cut"}, index : 0 .. MaxIndex, held : BOOLEAN,
   first : 0 .. jhash_size(MaxBits), arg0 : 0 .. jhash_size(MaxBits),
   bits : MinBits .. MaxBits, table : SUBSET Elems, elems : SUBSET Elems,
   moved : BOOLEAN]

SessionType ==
  [status : {"run", "done", "error"}, saved_setname : Names \cup {NoName},
   sort : BOOLEAN, sorted : Seq(Words)]

SectionType == [name : Names, elems : Seq(Words), closed : BOOLEAN]

WitnessType == [name : Names, always : SUBSET Elems, ever : SUBSET Elems]

-----------------------------------------------------------------------------
(* The invariant.                                                          *)

\* What the program has of the k-th set: kept to be sorted, or printed.
Heard(o, ss, k) ==
  IF k > Len(o) THEN <<>> ELSE IF k = Len(o) /\ ss.sort THEN ss.sorted ELSE o[k].elems

\* What is on its way to the program.
Coming(ms) == IF ms = NoMsg THEN <<>> ELSE ms.elems

\* What the kernel has listed of the n-th set, the last one.
Listed(o, ss, ms, n) == Heard(o, ss, n) \o Coming(ms)

\* The words that may be printed of a set.
May(p) == p.ever \cup {g \in {Garbled} : p.always # p.ever}

\* No member of A twice.
OnceIn(s, A) == \A i, j \in DOMAIN s : s[i] = s[j] /\ s[i] \in A => i = j

\* Only what may be printed, and nothing twice that was always in the set.
Sound(s, p) == Range(s) \subseteq May(p) /\ OnceIn(s, p.always)

\* And every element that was in the set all the time.
Whole(s, p) == Sound(s, p) /\ p.always \subseteq Range(s)

\* The listing holds a set exactly while it is within it; the set and the table
\* have what is always in the set, and only what was in it at some time.
DumpInv(d, st, p) ==
  /\ d.held =>
       /\ d.index < MaxIndex /\ p # <<>> /\ st[d.index] = p[Len(p)].name
       /\ p[Len(p)].always \subseteq d.table /\ d.table \subseteq p[Len(p)].ever
       /\ p[Len(p)].always \subseteq d.elems /\ d.elems \subseteq p[Len(p)].ever
       /\ ~d.moved => d.elems = d.table
       /\ d.arg0 <= jhash_size(d.bits)
  /\ d.pc = "list" => d.held /\ d.first <= d.arg0
  /\ d.pc = "scan" => (d.held <=> d.arg0 # 0)
  /\ d.pc = "cut" => ~d.held /\ d.index = MaxIndex

\* The program has a section for every set met, but for the one whose header
\* is on its way; names agree.
NameInv(d, o, ss, ms, p) ==
  /\ Len(p) = Len(o) + (IF ms # NoMsg /\ ms.header THEN 1 ELSE 0)
  /\ \A k \in 1 .. Len(o) : o[k].name = p[k].name
  /\ ss.saved_setname = IF o = <<>> THEN NoName ELSE o[Len(o)].name
  /\ ms # NoMsg => p # <<>> /\ ms.name = p[Len(p)].name
  /\ d.pc = "list" => ms # NoMsg

\* In order.
InOrder(s) == \A i, j \in DOMAIN s : i < j => s[i] <= s[j]

\* Elements are printed at once or kept to be sorted.
OutInv(o, ss) ==
  /\ \A k \in 1 .. Len(o) - 1 : o[k].closed
  /\ ss.sort => \A k \in 1 .. Len(o) : InOrder(o[k].elems)
  /\ ss.sort /\ o # <<>> => o[Len(o)].elems = <<>>
  /\ ~ss.sort \/ o = <<>> => ss.sorted = <<>>

\* The sets before the last one are listed.
BehindInv(o, ss, p) == \A k \in 1 .. Len(p) - 1 : Whole(Heard(o, ss, k), p[k])

\* The buckets of the last set up to the next one are listed.
Progress(s, p, d) ==
  /\ Sound(s, p)
  /\ d.held => \A e \in p.always : e \in Range(s) <=> Key(e, d.bits) < d.arg0
  /\ ~d.held /\ d.pc # "cut" => p.always \subseteq Range(s)

\* An array has no element in two slots, only elements of the bucket that were in
\* the set at some time, and all those of the bucket that are always in it.  As
\* long as it is in the table it has the elements of the bucket and no others.
ArrayInv(b, p, d) ==
  /\ \A j, k \in DOMAIN b.array : b.array[j] = b.array[k] /\ b.array[j] # Hole => j = k
  /\ \A j \in DOMAIN b.array : b.array[j] # Hole =>
       /\ b.array[j] \in p.ever /\ Key(b.array[j], d.bits) = d.arg0
       /\ b.current /\ ~d.moved => b.array[j] \in d.table
  /\ \A e \in p.always : Key(e, d.bits) = d.arg0 => \E j \in DOMAIN b.array : b.array[j] = e
  /\ b.current /\ ~d.moved =>
       \A e \in d.table : Key(e, d.bits) = d.arg0 => \E j \in DOMAIN b.array : b.array[j] = e

\* An element that is always in the set stays in its slot while others come and
\* go: it is in the message, as u, once the slot is behind the lister, and
\* when it is at the slot it is what the lister has found there.
SlotInv(b, u, p) ==
  /\ Sound(u, p)
  /\ \A e \in p.always :
       e \in Range(u) <=> \E k \in DOMAIN b.array : k < b.slot /\ b.array[k] = e
  /\ b.found # Hole =>
       /\ b.found \in May(p)
       /\ b.found \in p.always => b.slot \in DOMAIN b.array /\ b.array[b.slot] = b.found
       /\ b.slot \in DOMAIN b.array /\ b.array[b.slot] \in p.always =>
            b.found = b.array[b.slot]

\* Of the message m with the bucket b, v is what it had before the bucket and u
\* is of the bucket; what the program has is h.
Parts(m, v, u, h, b, p, d) ==
  /\ m = v \o u /\ Len(v) = b.trim
  /\ Progress(h \o v, p, d) /\ ArrayInv(b, p, d) /\ SlotInv(b, u, p)

Reading(m, h, b, p, d) == \E v, u \in Seq(Words) : Parts(m, v, u, h, b, p, d)

ProgressInv(d, b, o, ss, ms, p) ==
  /\ b = NoBucket /\ p # <<>> => Progress(Listed(o, ss, ms, Len(p)), p[Len(p)], d)
  /\ b # NoBucket =>
       /\ d.pc = "list" /\ d.arg0 < jhash_size(d.bits)
       /\ Reading(ms.elems, Heard(o, ss, Len(p)), b, p[Len(p)], d)

RunInv ==
  /\ DumpInv(dump, set, present)
  /\ NameInv(dump, out, session, msg, present)
  /\ OutInv(out, session)
  /\ BehindInv(out, session, present)
  /\ ProgressInv(dump, bucket, out, session, msg, present)

ListingInv ==
  /\ TypeOK
  /\ session.status = "run" => RunInv
  /\ session.status # "run" => OutputWellFormed
  /\ ListingExact /\ BrokenOnlyByRename

-----------------------------------------------------------------------------
(* Sequences.                                                              *)

\* R is a strict total order of S.
TotalOrder(S, R) ==
  /\ \A x \in S : <<x, x>> \notin R
  /\ \A x, y, z \in S : <<x, y>> \in R /\ <<y, z>> \in R => <<x, z>> \in R
  /\ \A x, y \in S : x = y \/ <<x, y>> \in R \/ <<y, x>> \in R

\* The number of members that come before each one.
RankIn(S, R) == [x \in S |-> Cardinality({y \in S : <<y, x>> \in R})]

\* In a finite set with a strict total order every rank below the number of
\* members belongs to exactly one member.
LEMMA Ranks ==
  ASSUME NEW S, IsFiniteSet(S), NEW R, TotalOrder(S, R)
  PROVE  /\ RankIn(S, R) \in [S -> 0 .. Cardinality(S) - 1]
         /\ \A x, y \in S : RankIn(S, R)[x] = RankIn(S, R)[y] => x = y
         /\ \A i \in 0 .. Cardinality(S) - 1 : \E x \in S : RankIn(S, R)[x] = i
<1>a. PICK f : f = RankIn(S, R)
  OBVIOUS
<1> USE <1>a DEF TotalOrder, RankIn
<1> DEFINE below(x) == {y \in S : <<y, x>> \in R}
<1>0. Cardinality(S) \in Nat
  BY FS_CardinalityType
<1>1. ASSUME NEW x \in S
      PROVE  IsFiniteSet(below(x)) /\ Cardinality(below(x)) \in 0 .. Cardinality(S) - 1
  <2>1. below(x) \in SUBSET S /\ x \notin below(x)
    OBVIOUS
  <2> HIDE DEF below
  <2>2. /\ IsFiniteSet(below(x)) /\ Cardinality(below(x)) <= Cardinality(S)
        /\ Cardinality(S) = Cardinality(below(x)) => S = below(x)
    BY <2>1, FS_Subset
  <2>3. Cardinality(below(x)) \in Nat
    BY <2>2, FS_CardinalityType
  <2> QED
    BY <1>0, <2>1, <2>2, <2>3
<1>2. f \in [S -> 0 .. Cardinality(S) - 1]
  BY <1>1
<1>3. ASSUME NEW x \in S, NEW y \in S, <<x, y>> \in R PROVE f[x] # f[y]
  <2>1. below(x) \in SUBSET below(y) /\ x \in below(y) /\ x \notin below(x)
    BY <1>3
  <2>2. f[x] = Cardinality(below(x)) /\ f[y] = Cardinality(below(y))
    OBVIOUS
  <2>3. IsFiniteSet(below(y))
    BY <1>1
  <2> HIDE DEF below
  <2>4. Cardinality(below(y)) = Cardinality(below(x)) => below(y) = below(x)
    BY <2>1, <2>3, FS_Subset
  <2> QED
    BY <2>1, <2>2, <2>4
<1>4. \A x, y \in S : f[x] = f[y] => x = y
  BY <1>3
<1>5. f \in Injection(S, 0 .. Cardinality(S) - 1)
  BY <1>2, <1>4 DEF Injection, IsInjective
<1>6. /\ IsFiniteSet(0 .. Cardinality(S) - 1)
      /\ Cardinality(0 .. Cardinality(S) - 1) = Cardinality(S)
  <2>1. 0 \in Int /\ Cardinality(S) - 1 \in Int
    BY <1>0
  <2>2. /\ IsFiniteSet(0 .. Cardinality(S) - 1)
        /\ Cardinality(0 .. Cardinality(S) - 1) =
             IF 0 > Cardinality(S) - 1 THEN 0 ELSE (Cardinality(S) - 1) - 0 + 1
    BY <2>1, FS_Interval
  <2> QED
    BY <1>0, <2>2
<1>7. f \in Surjection(S, 0 .. Cardinality(S) - 1)
  BY <1>5, <1>6, FS_Injection
<1>8. \A i \in 0 .. Cardinality(S) - 1 : \E x \in S : f[x] = i
  BY <1>7 DEF Surjection
<1> QED
  BY <1>a, <1>2, <1>4, <1>8, Zenon

\* Ranks follow the order.
LEMMA RanksInOrder ==
  ASSUME NEW S, IsFiniteSet(S), NEW R, TotalOrder(S, R),
         NEW x \in S, NEW y \in S, <<x, y>> \in R
  PROVE  RankIn(S, R)[x] < RankIn(S, R)[y]
<1> DEFINE below(z) == {w \in S : <<w, z>> \in R}
<1>1. below(x) \in SUBSET below(y) /\ x \in below(y) /\ x \notin below(x) /\ below(y) \in SUBSET S
  BY DEF TotalOrder
<1>2. RankIn(S, R)[x] = Cardinality(below(x)) /\ RankIn(S, R)[y] = Cardinality(below(y))
  BY DEF RankIn
<1> HIDE DEF below
<1>3. IsFiniteSet(below(y)) /\ IsFiniteSet(below(x))
  BY <1>1, FS_Subset
<1>4. /\ Cardinality(below(x)) <= Cardinality(below(y))
      /\ Cardinality(below(y)) = Cardinality(below(x)) => below(y) = below(x)
  BY <1>1, <1>3, FS_Subset
<1>5. Cardinality(below(x)) \in Nat /\ Cardinality(below(y)) \in Nat
  BY <1>3, FS_CardinalityType
<1> QED
  BY <1>1, <1>2, <1>4, <1>5

\* list_sort returns the elements of the list, in order.
LEMMA AscendingFacts ==
  ASSUME NEW s \in Seq(Words)
  PROVE  /\ Ascending(s) \in Seq(Words) /\ Len(Ascending(s)) = Len(s)
         /\ InOrder(Ascending(s)) /\ Range(Ascending(s)) = Range(s)
         /\ \A A : OnceIn(s, A) => OnceIn(Ascending(s), A)
<1> DEFINE D == 1 .. Len(s)
<1>0. Len(s) \in Nat /\ DOMAIN s = D /\ s \in [D -> Words] /\ Words \subseteq Nat
  BY LenProperties, ListingAssumption DEF Words
<1>d. IsFiniteSet(D) /\ Cardinality(D) = Len(s)
  <2>1. 1 \in Int /\ Len(s) \in Int
    BY <1>0
  <2>2. IsFiniteSet(D) /\ Cardinality(D) = IF 1 > Len(s) THEN 0 ELSE Len(s) - 1 + 1
    BY <2>1, FS_Interval
  <2> QED
    BY <1>0, <2>2
<1>e. IsFiniteSet(D)
  BY <1>d
<1>f. \A x \in D : s[x] \in Words
  BY <1>0
<1>g. \A x \in D : s[x] \in Nat /\ x \in Nat
  <2>1. \A x \in D : s[x] \in Nat
    BY <1>0, <1>f, Zenon
  <2>2. \A x \in D : x \in Nat
    OBVIOUS
  <2> QED
    BY <2>1, <2>2, Zenon
<1>1. PICK R : R = {q \in D \X D : s[q[1]] < s[q[2]] \/ (s[q[1]] = s[q[2]] /\ q[1] < q[2])}
  OBVIOUS
<1>2. \A x, y \in D : <<x, y>> \in R <=> s[x] < s[y] \/ (s[x] = s[y] /\ x < y)
  BY <1>1
<1>3. TotalOrder(D, R)
  BY <1>2, <1>g DEF TotalOrder
<1>4. PICK f : f = RankIn(D, R)
  OBVIOUS
<1>5. /\ f \in [D -> 0 .. Len(s) - 1]
      /\ \A x, y \in D : f[x] = f[y] => x = y
      /\ \A i \in 0 .. Len(s) - 1 : \E x \in D : f[x] = i
  <2>1. PICK E : E = D
    OBVIOUS
  <2>2. IsFiniteSet(E) /\ TotalOrder(E, R) /\ f = RankIn(E, R) /\ Cardinality(E) = Len(s)
    BY <1>d, <1>3, <1>4, <2>1
  <2>3. /\ RankIn(E, R) \in [E -> 0 .. Cardinality(E) - 1]
        /\ \A x, y \in E : RankIn(E, R)[x] = RankIn(E, R)[y] => x = y
        /\ \A i \in 0 .. Cardinality(E) - 1 : \E x \in E : RankIn(E, R)[x] = i
    BY <2>2, Ranks
  <2>4. /\ f \in [E -> 0 .. Cardinality(E) - 1]
        /\ \A x, y \in E : f[x] = f[y] => x = y
        /\ \A i \in 0 .. Cardinality(E) - 1 : \E x \in E : f[x] = i
    BY <2>2, <2>3, Zenon
  <2> HIDE DEF D
  <2> QED
    BY <2>1, <2>2, <2>4
<1>6. \A x, y \in D : <<x, y>> \in R => f[x] < f[y]
  BY <1>d, <1>3, <1>4, RanksInOrder, Zenon
<1> DEFINE p == [i \in D |-> CHOOSE x \in D : f[x] = i - 1]
           u == [i \in D |-> s[p[i]]]
<1>7. \A i \in D : p[i] \in D /\ f[p[i]] = i - 1
  <2> TAKE i \in D
  <2>1. i - 1 \in 0 .. Len(s) - 1
    BY <1>0
  <2>2. \E x \in D : f[x] = i - 1
    BY <1>5, <2>1
  <2> QED
    BY <2>2
<1>8. p \in Bijection(D, D)
  <2>1. p \in [D -> D]
    BY <1>7
  <2>2. \A i, j \in D : p[i] = p[j] => i = j
    <3> TAKE i, j \in D
    <3>1. f[p[i]] = i - 1 /\ f[p[j]] = j - 1 /\ i \in Nat /\ j \in Nat
      BY <1>0, <1>7
    <3> HIDE DEF p
    <3> QED
      BY <3>1
  <2>3. ASSUME NEW x \in D PROVE \E i \in D : p[i] = x
    <3>1. f[x] \in 0 .. Len(s) - 1
      BY <1>5
    <3>2. f[x] + 1 \in D /\ (f[x] + 1) - 1 = f[x]
      BY <1>0, <3>1
    <3>3. p[f[x] + 1] \in D /\ f[p[f[x] + 1]] = f[x]
      BY <1>7, <3>2
    <3>4. p[f[x] + 1] = x
      BY <1>5, <3>3
    <3> QED
      BY <3>2, <3>4
  <2> HIDE DEF p
  <2> QED
    BY <2>1, <2>2, <2>3 DEF Bijection, Injection, Surjection, IsInjective
<1>9. ASSUME NEW i \in D, NEW j \in D, i < j PROVE u[i] <= u[j]
  <2>1. p[i] \in D /\ p[j] \in D /\ f[p[i]] = i - 1 /\ f[p[j]] = j - 1 /\ i \in Nat /\ j \in Nat
    BY <1>0, <1>7
  <2> HIDE DEF p
  <2>2. ~(f[p[j]] < f[p[i]])
    BY <1>9, <2>1
  <2>3. <<p[j], p[i]>> \notin R
    BY <1>6, <2>1, <2>2
  <2>4. ~(s[p[j]] < s[p[i]]) /\ s[p[j]] \in Nat /\ s[p[i]] \in Nat
    BY <1>0, <1>2, <2>1, <2>3
  <2>5. s[p[i]] <= s[p[j]]
    BY <2>4
  <2> QED
    BY <2>5
<1>10. u \in {[i \in DOMAIN s |-> s[q[i]]] : q \in Bijection(DOMAIN s, DOMAIN s)}
       /\ \A i, j \in DOMAIN u : i < j => u[i] <= u[j]
  <2>1. DOMAIN u = D
    OBVIOUS
  <2> HIDE DEF p
  <2>2. u \in {[i \in D |-> s[q[i]]] : q \in Bijection(D, D)}
    BY <1>8
  <2> HIDE DEF u
  <2> QED
    BY <1>0, <1>9, <2>1, <2>2
<1>11. PICK t : t = Ascending(s)
  OBVIOUS
<1>12. t \in {[i \in D |-> s[q[i]]] : q \in Bijection(D, D)}
       /\ \A i, j \in DOMAIN t : i < j => t[i] <= t[j]
  <2> HIDE DEF u, p, D
  <2> QED
    BY <1>0, <1>10, <1>11, Zenon DEF Ascending
<1>13. PICK q \in Bijection(D, D) : t = [i \in D |-> s[q[i]]]
  BY <1>12
<1>14. /\ q \in [D -> D] /\ \A i, j \in D : q[i] = q[j] => i = j
       /\ \A x \in D : \E i \in D : q[i] = x
  BY <1>13 DEF Bijection, Injection, Surjection, IsInjective
<1>15. t \in [1 .. Len(s) -> Words] /\ DOMAIN t = D /\ \A i \in D : t[i] = s[q[i]]
  BY <1>0, <1>13, <1>14
<1>16. t \in Seq(Words) /\ Len(t) = Len(s)
  BY <1>0, <1>15
<1>17. Range(t) = Range(s)
  <2>1. Range(t) = {t[i] : i \in D} /\ Range(s) = {s[i] : i \in D}
    BY <1>0, <1>15 DEF Range
  <2>2. ASSUME NEW i \in D PROVE q[i] \in D /\ t[i] = s[q[i]]
    BY <1>14, <1>15
  <2>3. ASSUME NEW x \in D PROVE \E i \in D : t[i] = s[x]
    <3>1. PICK i \in D : q[i] = x
      BY <1>14
    <3>2. t[i] = s[x]
      BY <2>2, <3>1
    <3> QED
      BY <3>2
  <2> HIDE DEF D
  <2> QED
    BY <2>1, <2>2, <2>3
<1>18. ASSUME NEW A, OnceIn(s, A) PROVE OnceIn(t, A)
  <2>1. ASSUME NEW i \in D, NEW j \in D, t[i] = t[j], t[i] \in A PROVE i = j
    <3>1. q[i] \in D /\ q[j] \in D /\ s[q[i]] = s[q[j]] /\ s[q[i]] \in A
      BY <1>14, <1>15, <2>1
    <3>2. q[i] = q[j]
      BY <1>0, <1>18, <3>1, Zenon DEF OnceIn
    <3> QED
      BY <1>14, <3>2, Zenon
  <2> QED
    BY <1>15, <2>1, Zenon DEF OnceIn
<1> QED
  BY <1>11, <1>12, <1>16, <1>17, <1>18 DEF InOrder

\* Nothing is sorted into nothing.
LEMMA AscendingOfNone == Ascending(<<>>) = <<>>
<1>1. <<>> \in Seq(Words) /\ Len(<<>>) = 0
  BY EmptySeq
<1>2. Ascending(<<>>) \in Seq(Words) /\ Len(Ascending(<<>>)) = 0
  BY <1>1, AscendingFacts
<1> QED
  BY <1>2, EmptySeq

\* A listing of more words; of those in A none was there.
LEMMA Joined ==
  ASSUME NEW s \in Seq(Words), NEW u \in Seq(Words), NEW A, OnceIn(s, A), OnceIn(u, A),
         \A e \in A : e \in Range(u) => e \notin Range(s)
  PROVE  OnceIn(s \o u, A)
<1>1. /\ Len(s) \in Nat /\ Len(u) \in Nat
      /\ DOMAIN s = 1 .. Len(s) /\ DOMAIN u = 1 .. Len(u)
  BY LenProperties
<1>2. PICK w : w = s \o u
  OBVIOUS
<1>3. /\ w \in Seq(Words) /\ Len(w) = Len(s) + Len(u)
      /\ \A i \in 1 .. Len(s) + Len(u) : w[i] = IF i <= Len(s) THEN s[i] ELSE u[i - Len(s)]
  BY <1>2, ConcatProperties
<1>4. DOMAIN w = 1 .. Len(s) + Len(u)
  BY <1>3, LenProperties
<1>5. \A i \in 1 .. Len(s) + Len(u) :
        \/ i \in DOMAIN s /\ w[i] = s[i]
        \/ i - Len(s) \in DOMAIN u /\ w[i] = u[i - Len(s)]
  BY <1>1, <1>3
<1>6. \A i \in DOMAIN s : s[i] \in Range(s)
  BY DEF Range
<1>7. \A i \in DOMAIN u : u[i] \in Range(u)
  BY DEF Range
<1>8. ASSUME NEW i \in DOMAIN w, NEW j \in DOMAIN w, w[i] = w[j], w[i] \in A PROVE i = j
  <2>1. CASE i \in DOMAIN s /\ w[i] = s[i] /\ j \in DOMAIN s /\ w[j] = s[j]
    BY <2>1, <1>8 DEF OnceIn
  <2>2. CASE i \in DOMAIN s /\ w[i] = s[i] /\ j - Len(s) \in DOMAIN u /\ w[j] = u[j - Len(s)]
    BY <2>2, <1>8, <1>6, <1>7, Zenon
  <2>3. CASE i - Len(s) \in DOMAIN u /\ w[i] = u[i - Len(s)] /\ j \in DOMAIN s /\ w[j] = s[j]
    BY <2>3, <1>8, <1>6, <1>7, Zenon
  <2>4. CASE /\ i - Len(s) \in DOMAIN u /\ w[i] = u[i - Len(s)]
             /\ j - Len(s) \in DOMAIN u /\ w[j] = u[j - Len(s)]
    <3>1. i - Len(s) = j - Len(s)
      BY <2>4, <1>8, Zenon DEF OnceIn
    <3>2. i \in Int /\ j \in Int
      BY <1>4
    <3> QED
      BY <1>1, <3>1, <3>2
  <2> QED
    BY <1>4, <1>5, <2>1, <2>2, <2>3, <2>4, Zenon
<1> QED
  BY <1>2, <1>8, Zenon DEF OnceIn

\* How often an element is printed.
LEMMA TimesOnce ==
  ASSUME NEW s \in Seq(Words), NEW A, OnceIn(s, A), NEW e \in A
  PROVE  Times(s, e) <= 1 /\ (e \in Range(s) => Times(s, e) = 1)
<1> DEFINE T == {i \in DOMAIN s : s[i] = e}
<1>1. CASE T = {}
  <2>1. Times(s, e) = 0
    BY <1>1, FS_EmptySet DEF Times
  <2>2. e \notin Range(s)
    BY <1>1 DEF Range
  <2> QED
    BY <2>1, <2>2
<1>2. CASE T # {}
  <2>1. PICK x \in T : TRUE
    BY <1>2
  <2>2. T = {x}
    BY <2>1 DEF OnceIn
  <2>3. Times(s, e) = 1
    BY <2>2, FS_Singleton DEF Times
  <2> QED
    BY <2>3
<1> QED
  BY <1>1, <1>2

\* Each element belongs to one bucket of a table.
LEMMA KeyFacts ==
  ASSUME NEW b \in MinBits .. MaxBits
  PROVE  /\ jhash_size(b) \in Nat /\ 1 <= jhash_size(b) /\ jhash_size(b) <= jhash_size(MaxBits)
         /\ jhash_size(MaxBits) \in Nat
         /\ \A e \in Elems : Key(e, b) \in Nat /\ Key(e, b) < jhash_size(b)
<1>1. jhash_size(b) \in 1 .. jhash_size(MaxBits) /\ jhash_size(MaxBits) \in Nat
  BY ListingAssumption
<1>2. jhash_size(b) \in Nat /\ 1 <= jhash_size(b) /\ jhash_size(b) <= jhash_size(MaxBits)
  BY <1>1
<1>3. ASSUME NEW e \in Elems PROVE Key(e, b) \in Nat /\ Key(e, b) < jhash_size(b)
  <2>1. e \in Nat
    BY ListingAssumption
  <2>2. PICK n : n = jhash_size(b)
    OBVIOUS
  <2>3. n \in Nat /\ 1 <= n
    BY <1>2, <2>2
  <2>4. e % n \in Nat /\ e % n < n
    BY ONLY <2>1, <2>3
  <2> QED
    BY <2>2, <2>4 DEF Key
<1> QED
  BY <1>1, <1>2, <1>3

-----------------------------------------------------------------------------
(* Types.                                                                  *)

\* The types by name, and the fields of the records.
LEMMA TypeFacts ==
  ASSUME TypeOK
  PROVE  /\ set \in [Indices -> {NoSet} \cup Names]
         /\ dump \in DumpType /\ dump.index \in Nat /\ dump.arg0 \in Nat /\ dump.first \in Nat
         /\ dump.bits \in MinBits .. MaxBits
         /\ dump.table \in SUBSET Elems /\ dump.elems \in SUBSET Elems
         /\ dump.held \in BOOLEAN /\ dump.moved \in BOOLEAN /\ dump.index <= MaxIndex
         /\ dump.pc \in {"scan", "list", "cut"}
         /\ session \in SessionType /\ session.sorted \in Seq(Words) /\ session.sort \in BOOLEAN
         /\ session.status \in {"run", "done", "error"}
         /\ session.saved_setname \in Names \cup {NoName}
         /\ out \in Seq(SectionType) /\ Len(out) \in Nat
         /\ present \in Seq(WitnessType) /\ Len(present) \in Nat
         /\ msg # NoMsg => /\ msg \in MsgType /\ msg.name \in Names /\ msg.header \in BOOLEAN
                           /\ msg.elems \in Seq(Words)
                           /\ Len(msg.elems) <= IF msg.header THEN HeadMax ELSE MsgMax
         /\ bucket # NoBucket =>
              /\ bucket \in BucketType /\ bucket.array \in Seq(Elems \cup {Hole})
              /\ bucket.slot \in Nat /\ bucket.slot >= 1 /\ bucket.found \in Words \cup {Hole}
              /\ bucket.current \in BOOLEAN /\ bucket.trim \in Nat
         /\ MaxIndex \in Nat
<1>1. dump \in DumpType /\ session \in SessionType /\ out \in Seq(SectionType)
  BY DEF TypeOK, DumpType, SessionType, SectionType
<1>2. present \in Seq(WitnessType)
  BY DEF TypeOK, WitnessType
<1>3. MaxIndex \in Nat /\ jhash_size(MaxBits) \in Nat
  BY ListingAssumption
<1>4. /\ dump.index \in 0 .. MaxIndex
      /\ dump.arg0 \in 0 .. jhash_size(MaxBits) /\ dump.first \in 0 .. jhash_size(MaxBits)
      /\ dump.bits \in MinBits .. MaxBits
      /\ dump.table \in SUBSET Elems /\ dump.elems \in SUBSET Elems
      /\ dump.held \in BOOLEAN /\ dump.moved \in BOOLEAN /\ dump.pc \in {"scan", "list", "cut"}
  BY <1>1 DEF DumpType
<1>5. /\ session.sorted \in Seq(Words) /\ session.sort \in BOOLEAN
      /\ session.status \in {"run", "done", "error"}
      /\ session.saved_setname \in Names \cup {NoName}
  BY <1>1 DEF SessionType
<1>6. msg # NoMsg => /\ msg \in MsgType
                     /\ Len(msg.elems) <= IF msg.header THEN HeadMax ELSE MsgMax
                     /\ msg.name \in Names /\ msg.header \in BOOLEAN /\ msg.elems \in Seq(Words)
  BY DEF TypeOK, MsgType
<1>7. Len(out) \in Nat /\ Len(present) \in Nat
  BY <1>1, <1>2, LenProperties
<1>8. bucket # NoBucket =>
        /\ bucket \in BucketType /\ bucket.array \in Seq(Elems \cup {Hole})
        /\ bucket.slot \in Nat /\ bucket.slot >= 1 /\ bucket.found \in Words \cup {Hole}
        /\ bucket.current \in BOOLEAN /\ bucket.trim \in Nat
  BY DEF TypeOK, BucketType
<1> QED
  BY <1>1, <1>2, <1>3, <1>4, <1>5, <1>6, <1>7, <1>8 DEF TypeOK

\* The type of a section and of the history of a set.
LEMMA EntryTypes ==
  /\ \A o \in Seq(SectionType) : \A k \in 1 .. Len(o) :
       /\ o[k] \in SectionType /\ o[k].name \in Names /\ o[k].elems \in Seq(Words)
       /\ o[k].closed \in BOOLEAN
  /\ \A p \in Seq(WitnessType) : \A k \in 1 .. Len(p) :
       /\ p[k] \in WitnessType /\ p[k].name \in Names
       /\ p[k].always \in SUBSET Elems /\ p[k].ever \in SUBSET Elems
<1>1. ASSUME NEW o \in Seq(SectionType), NEW k \in 1 .. Len(o) PROVE o[k] \in SectionType
  BY ElementOfSeq
<1>2. ASSUME NEW p \in Seq(WitnessType), NEW k \in 1 .. Len(p) PROVE p[k] \in WitnessType
  BY ElementOfSeq
<1> QED
  BY <1>1, <1>2 DEF SectionType, WitnessType

\* A sequence with entries has a last one.
LEMMA LastEntry ==
  ASSUME NEW S, NEW s \in Seq(S), s # <<>>
  PROVE  Len(s) \in Nat /\ 1 <= Len(s) /\ Len(s) \in 1 .. Len(s) /\ s[Len(s)] \in S
<1>1. Len(s) \in Nat \ {0}
  BY EmptySeq
<1>2. Len(s) \in Nat /\ 1 <= Len(s) /\ Len(s) \in 1 .. Len(s)
  BY <1>1
<1> QED
  BY <1>2, ElementOfSeq

-----------------------------------------------------------------------------
(* What the program prints.                                                *)

\* A section with other elements.
LEMMA SectionWith ==
  ASSUME NEW x \in SectionType, NEW w \in Seq(Words)
  PROVE  /\ [x EXCEPT !.elems = w] = [name |-> x.name, elems |-> w, closed |-> x.closed]
         /\ [x EXCEPT !.elems = w] \in SectionType
<1>1. [x EXCEPT !.elems = w] = [name |-> x.name, elems |-> w, closed |-> x.closed]
  BY DEF SectionType
<1>2. x.name \in Names /\ x.closed \in BOOLEAN
  BY DEF SectionType
<1>3. [name |-> x.name, elems |-> w, closed |-> x.closed] \in SectionType
  BY <1>2 DEF SectionType
<1> QED
  BY <1>1, <1>3, Zenon

\* print_set_done changes the last section only, and closes it.
LEMMA PrintSetDoneFacts ==
  ASSUME NEW o \in Seq(SectionType), NEW s \in Seq(Words)
  PROVE  /\ PrintSetDone(o, s) \in Seq(SectionType) /\ Len(PrintSetDone(o, s)) = Len(o)
         /\ \A k \in 1 .. Len(o) : PrintSetDone(o, s)[k].name = o[k].name
         /\ \A k \in 1 .. Len(o) : k # Len(o) => PrintSetDone(o, s)[k] = o[k]
         /\ o # <<>> => /\ PrintSetDone(o, s)[Len(o)].elems = o[Len(o)].elems \o Ascending(s)
                        /\ PrintSetDone(o, s)[Len(o)].closed
<1>1. CASE o = <<>>
  <2>1. PrintSetDone(o, s) = o /\ Len(o) = 0
    BY <1>1, EmptySeq DEF PrintSetDone
  <2> QED
    BY <1>1, <2>1
<1>2. CASE o # <<>>
  <2> DEFINE L == Len(o)
             c == Closed(o[L], s)
  <2>1. L \in Nat /\ L \in 1 .. L /\ o[L] \in SectionType
    BY <1>2, LastEntry
  <2>2. Ascending(s) \in Seq(Words)
    BY AscendingFacts
  <2>3. o[L].name \in Names /\ o[L].elems \in Seq(Words)
    BY <2>1 DEF SectionType
  <2>4. o[L].elems \o Ascending(s) \in Seq(Words)
    BY <2>2, <2>3, ConcatProperties
  <2>5. c = [name |-> o[L].name, elems |-> o[L].elems \o Ascending(s), closed |-> TRUE]
    BY DEF Closed
  <2>6. PICK w : w = o[L].elems \o Ascending(s)
    OBVIOUS
  <2>7. c \in SectionType /\ c.name = o[L].name /\ c.elems = w /\ c.closed
    <3>1. c = [name |-> o[L].name, elems |-> w, closed |-> TRUE] /\ w \in Seq(Words)
      BY <2>4, <2>5, <2>6, Zenon
    <3> QED
      BY <2>3, <3>1 DEF SectionType
  <2>8. PrintSetDone(o, s) = [o EXCEPT ![L] = c]
    BY <1>2 DEF PrintSetDone
  <2> HIDE DEF L, c
  <2>9. /\ PrintSetDone(o, s) \in Seq(SectionType) /\ Len(PrintSetDone(o, s)) = Len(o)
        /\ \A j \in 1 .. Len(o) : PrintSetDone(o, s)[j] = IF j = L THEN c ELSE o[j]
    BY <2>1, <2>7, <2>8, ExceptSeq DEF L
  <2> QED
    BY <2>1, <2>6, <2>7, <2>9 DEF L
<1> QED
  BY <1>1, <1>2

\* The sections when another one begins.
NewSection(o, s, n) ==
  Append(PrintSetDone(o, s), [name |-> n, elems |-> <<>>, closed |-> FALSE])

\* list_create closes the section before and begins one.
LEMMA ListCreateFacts ==
  ASSUME NEW o \in Seq(SectionType), NEW s \in Seq(Words), NEW n \in Names
  PROVE  /\ NewSection(o, s, n) \in Seq(SectionType)
         /\ Len(NewSection(o, s, n)) = Len(o) + 1 /\ NewSection(o, s, n) # <<>>
         /\ \A k \in 1 .. Len(o) : NewSection(o, s, n)[k] = PrintSetDone(o, s)[k]
         /\ NewSection(o, s, n)[Len(o) + 1].name = n
         /\ NewSection(o, s, n)[Len(o) + 1].elems = <<>>
<1>1. PICK c : c = [name |-> n, elems |-> <<>>, closed |-> FALSE]
  OBVIOUS
<1>2. <<>> \in Seq(Words)
  BY EmptySeq
<1>3. c \in SectionType /\ c.name = n /\ c.elems = <<>>
  BY <1>1, <1>2 DEF SectionType
<1>4. PrintSetDone(o, s) \in Seq(SectionType) /\ Len(PrintSetDone(o, s)) = Len(o)
  BY PrintSetDoneFacts
<1>5. NewSection(o, s, n) = Append(PrintSetDone(o, s), c)
  BY <1>1 DEF NewSection
<1> QED
  BY <1>3, <1>4, <1>5, AppendProperties

\* The sections and the list after the elements of a message: o and ss become
\* o2 and ss2.
AdtEffect(o, s, ss, ms, o2, ss2) ==
  /\ o2 \in Seq(SectionType) /\ Len(o2) = Len(o) /\ o2 # <<>>
  /\ \A k \in 1 .. Len(o) : o2[k].name = o[k].name
  /\ \A k \in 1 .. Len(o) : k # Len(o) => o2[k] = o[k]
  /\ ss2 \in SessionType /\ ss2.status = ss.status /\ ss2.sort = ss.sort
  /\ ss2.saved_setname = ms.name
  /\ ss.sort => o2 = o /\ ss2.sorted = s \o ms.elems
  /\ ~ss.sort => /\ ss2.sorted = ss.sorted
                 /\ o2[Len(o)].elems = o[Len(o)].elems \o ms.elems

\* list_adt prints the elements of a message in the last section or keeps them.
LEMMA ListAdtFacts ==
  ASSUME TypeOK, msg # NoMsg, NEW o \in Seq(SectionType), o # <<>>, NEW s \in Seq(Words),
         ListAdt(o, s)
  PROVE  AdtEffect(o, s, session, msg, out', session')
<1>0. /\ session \in SessionType /\ msg.name \in Names /\ msg.elems \in Seq(Words)
      /\ session.sorted \in Seq(Words) /\ session.sort \in BOOLEAN
      /\ session.status \in {"run", "done", "error"}
  BY TypeFacts
<1>1. CASE session.sort
  <2>1. out' = o /\ session' = [session EXCEPT !.saved_setname = msg.name,
                                               !.sorted = s \o msg.elems]
    BY <1>1 DEF ListAdt
  <2>2. PICK w : w = s \o msg.elems
    OBVIOUS
  <2>3. w \in Seq(Words)
    BY <1>0, <2>2, ConcatProperties
  <2>4. session' = [status |-> session.status, saved_setname |-> msg.name,
                    sort |-> session.sort, sorted |-> w]
    BY <1>0, <2>1, <2>2 DEF SessionType
  <2>5. /\ session' \in SessionType /\ session'.status = session.status
        /\ session'.sort = session.sort /\ session'.saved_setname = msg.name
        /\ session'.sorted = w
    BY <1>0, <2>3, <2>4 DEF SessionType
  <2> QED
    BY <1>1, <2>1, <2>2, <2>5 DEF AdtEffect
<1>2. CASE ~session.sort
  <2> DEFINE L == Len(o)
             c == [o[L] EXCEPT !.elems = @ \o msg.elems]
  <2>1. /\ out' = [o EXCEPT ![L] = c]
        /\ session' = [session EXCEPT !.saved_setname = msg.name]
    BY <1>2 DEF ListAdt
  <2>2. session' = [status |-> session.status, saved_setname |-> msg.name,
                    sort |-> session.sort, sorted |-> session.sorted]
    BY <1>0, <2>1 DEF SessionType
  <2>3. /\ session' \in SessionType /\ session'.status = session.status
        /\ session'.sort = session.sort /\ session'.saved_setname = msg.name
        /\ session'.sorted = session.sorted
    BY <1>0, <2>2 DEF SessionType
  <2>4. L \in Nat /\ L \in 1 .. L /\ o[L] \in SectionType /\ 1 <= L
    BY LastEntry
  <2>5. o[L].name \in Names /\ o[L].elems \in Seq(Words) /\ o[L].closed \in BOOLEAN
    BY <2>4 DEF SectionType
  <2>6. PICK w : w = o[L].elems \o msg.elems
    OBVIOUS
  <2>7. w \in Seq(Words)
    BY <1>0, <2>5, <2>6, ConcatProperties
  <2>8. c = [name |-> o[L].name, elems |-> w, closed |-> o[L].closed]
    <3>1. c = [o[L] EXCEPT !.elems = w]
      BY <2>6, Zenon
    <3> QED
      BY <2>4, <2>7, <3>1, SectionWith, Zenon
  <2>9. c \in SectionType /\ c.name = o[L].name /\ c.elems = w
    BY <2>5, <2>7, <2>8 DEF SectionType
  <2> HIDE DEF L, c
  <2>10. /\ out' \in Seq(SectionType) /\ Len(out') = Len(o)
         /\ \A j \in 1 .. Len(o) : out'[j] = IF j = L THEN c ELSE o[j]
    BY <2>1, <2>4, <2>9, ExceptSeq DEF L
  <2>11. out' # <<>>
    BY <2>4, <2>10, EmptySeq DEF L
  <2> QED
    BY <1>2, <2>3, <2>4, <2>6, <2>9, <2>10, <2>11 DEF AdtEffect, L
<1> QED
  BY <1>0, <1>1, <1>2

\* The order and the elements of a sorted list.
LEMMA WholeSorted ==
  ASSUME NEW s \in Seq(Words), NEW p
  PROVE  /\ Sound(s, p) => Sound(Ascending(s), p)
         /\ Whole(s, p) => Whole(Ascending(s), p)
BY AscendingFacts DEF Sound, Whole

\* What the program has of each set is a list of elements.
LEMMA HeardIsList ==
  ASSUME NEW o \in Seq(SectionType), NEW ss \in SessionType, NEW k \in Nat, 1 <= k
  PROVE  Heard(o, ss, k) \in Seq(Words)
<1>0. Len(o) \in Nat
  BY LenProperties
<1>1. CASE k > Len(o)
  BY <1>1, EmptySeq DEF Heard
<1>2. CASE ~(k > Len(o)) /\ k = Len(o) /\ ss.sort
  BY <1>2 DEF Heard, SessionType
<1>3. CASE ~(k > Len(o)) /\ ~(k = Len(o) /\ ss.sort)
  <2>1. k \in 1 .. Len(o)
    BY <1>0, <1>3
  <2>2. Heard(o, ss, k) = o[k].elems
    BY <1>3 DEF Heard
  <2>3. o[k].elems \in Seq(Words)
    BY <2>1, EntryTypes
  <2> QED
    BY <2>2, <2>3
<1> QED
  BY <1>1, <1>2, <1>3

\* What is on its way is a list of elements.
LEMMA ComingIsList ==
  ASSUME TypeOK
  PROVE  Coming(msg) \in Seq(Words) /\ Coming(NoMsg) = <<>> /\ Coming(NoMsg) \in Seq(Words)
BY TypeFacts, EmptySeq DEF Coming

\* Closing the last section prints what was kept of it.
LEMMA DoneHeard ==
  ASSUME NEW o \in Seq(SectionType), NEW ss \in SessionType, OutInv(o, ss),
         NEW q, q = PrintSetDone(o, ss.sorted), NEW k \in 1 .. Len(o)
  PROVE  /\ q[k].closed
         /\ q[k].elems \in {Heard(o, ss, k), Ascending(Heard(o, ss, k))}
         /\ ss.sort => InOrder(q[k].elems)
<1> DEFINE L == Len(o)
<1>1. /\ ss.sorted \in Seq(Words) /\ ss.sort \in BOOLEAN /\ L \in Nat
      /\ k \in Nat /\ k <= L /\ ~(k > L) /\ o # <<>>
  <2>1. L \in Nat
    BY LenProperties
  <2>2. k \in Nat /\ k >= 1 /\ k <= L
    BY <2>1
  <2>3. o # <<>>
    BY <2>1, <2>2, EmptySeq
  <2>4. ss.sorted \in Seq(Words) /\ ss.sort \in BOOLEAN
    BY DEF SessionType
  <2> QED
    BY <2>1, <2>2, <2>3, <2>4
<1>2. /\ \A j \in 1 .. L : j # L => q[j] = o[j]
      /\ q[L].elems = o[L].elems \o Ascending(ss.sorted) /\ q[L].closed
  <2>1. PICK s : s = ss.sorted
    OBVIOUS
  <2>2. s \in Seq(Words) /\ q = PrintSetDone(o, s)
    BY <1>1, <2>1
  <2>3. /\ \A j \in 1 .. Len(o) : j # Len(o) => q[j] = o[j]
        /\ o # <<>> => q[Len(o)].elems = o[Len(o)].elems \o Ascending(s) /\ q[Len(o)].closed
    BY <2>2, PrintSetDoneFacts
  <2> QED
    BY <1>1, <2>1, <2>3, Zenon
<1>3. CASE k # L
  <2>1. k \in 1 .. L - 1
    BY <1>1, <1>3
  <2>2. o[k].closed /\ (ss.sort => InOrder(o[k].elems))
    BY <1>1, <2>1 DEF OutInv
  <2>3. Heard(o, ss, k) = o[k].elems
    BY <1>1, <1>3, Zenon DEF Heard
  <2>4. q[k] = o[k]
    BY <1>2, <1>3
  <2> QED
    BY <2>2, <2>3, <2>4
<1>4. CASE k = L /\ ss.sort
  <2>1. Heard(o, ss, k) = ss.sorted
    BY <1>1, <1>4, Zenon DEF Heard
  <2>2. o[k].elems = <<>>
    BY <1>1, <1>4 DEF OutInv
  <2>3. <<>> \o Ascending(ss.sorted) = Ascending(ss.sorted)
    BY <1>1, AscendingFacts, ConcatEmptySeq
  <2>4. q[k].elems = Ascending(ss.sorted)
    BY <1>2, <1>4, <2>2, <2>3
  <2>5. InOrder(Ascending(ss.sorted))
    BY <1>1, AscendingFacts
  <2> QED
    BY <1>2, <1>4, <2>1, <2>4, <2>5
<1>5. CASE k = L /\ ~ss.sort
  <2>1. Heard(o, ss, k) = o[k].elems
    BY <1>1, <1>5, Zenon DEF Heard
  <2>2. Ascending(ss.sorted) = <<>>
    BY <1>5, AscendingOfNone DEF OutInv
  <2>3. o[k].elems \o <<>> = o[k].elems
    BY EntryTypes, ConcatEmptySeq
  <2>4. q[k].elems = o[k].elems
    BY <1>2, <1>5, <2>2, <2>3
  <2> QED
    BY <1>2, <1>5, <2>1, <2>4
<1> QED
  BY <1>3, <1>4, <1>5

\* All of a new section has come with its header: what the other sections have
\* stays what it was, and so does what has been listed of the new set.
HeaderEffect(o, ss, ms, o2, ss2) ==
  /\ OutInv(o2, ss2) /\ Len(o2) = Len(o) + 1
  /\ \A k \in 1 .. Len(o) : o2[k].name = o[k].name
  /\ o2[Len(o) + 1].name = ms.name
  /\ Heard(o2, ss2, Len(o) + 1) = ms.elems
  /\ \A k \in 1 .. Len(o) :
       Heard(o2, ss2, k) \in {Heard(o, ss, k), Ascending(Heard(o, ss, k))}

LEMMA HeaderHeard ==
  ASSUME NEW o \in Seq(SectionType), NEW ss \in SessionType, NEW ms, ms # NoMsg,
         ms.elems \in Seq(Words), ms.name \in Names, OutInv(o, ss),
         NEW r, r = NewSection(o, ss.sorted, ms.name),
         NEW o2, NEW ss2, AdtEffect(r, <<>>, ss, ms, o2, ss2)
  PROVE  HeaderEffect(o, ss, ms, o2, ss2)
<1> DEFINE L == Len(o)
<1>1. ss.sorted \in Seq(Words) /\ ss.sort \in BOOLEAN /\ L \in Nat
  BY LenProperties DEF SessionType
<1>2. PICK q : q = PrintSetDone(o, ss.sorted)
  OBVIOUS
<1>3. /\ q \in Seq(SectionType) /\ Len(q) = L
      /\ \A k \in 1 .. L : q[k].name = o[k].name
      /\ \A k \in 1 .. L : k # L => q[k] = o[k]
      /\ o # <<>> => q[L].elems = o[L].elems \o Ascending(ss.sorted) /\ q[L].closed
  BY <1>1, <1>2, PrintSetDoneFacts
<1>4. /\ r \in Seq(SectionType) /\ Len(r) = L + 1
      /\ \A k \in 1 .. L : r[k] = q[k]
      /\ r[L + 1].name = ms.name /\ r[L + 1].elems = <<>>
  <2>1. /\ r \in Seq(SectionType) /\ Len(r) = Len(o) + 1
        /\ \A k \in 1 .. Len(o) : r[k] = PrintSetDone(o, ss.sorted)[k]
        /\ r[Len(o) + 1].name = ms.name /\ r[Len(o) + 1].elems = <<>>
    <3>1. PICK s : s = ss.sorted
      OBVIOUS
    <3>2. PICK n : n = ms.name
      OBVIOUS
    <3>3. s \in Seq(Words) /\ n \in Names /\ r = NewSection(o, s, n)
      BY <1>1, <3>1, <3>2
    <3> QED
      BY <3>1, <3>2, <3>3, ListCreateFacts
  <2> QED
    BY <1>2, <2>1, Zenon
<1>5. /\ Len(o2) = L + 1 /\ o2 # <<>>
      /\ \A k \in 1 .. L + 1 : o2[k].name = r[k].name
      /\ \A k \in 1 .. L : o2[k] = r[k]
      /\ ss2.sort = ss.sort
      /\ ss.sort => o2 = r /\ ss2.sorted = <<>> \o ms.elems
      /\ ~ss.sort => /\ ss2.sorted = ss.sorted
                     /\ o2[L + 1].elems = r[L + 1].elems \o ms.elems
  <2>1. /\ Len(o2) = Len(r) /\ o2 # <<>>
        /\ \A k \in 1 .. Len(r) : o2[k].name = r[k].name
        /\ \A k \in 1 .. Len(r) : k # Len(r) => o2[k] = r[k]
        /\ ss2.sort = ss.sort
        /\ ss.sort => o2 = r /\ ss2.sorted = <<>> \o ms.elems
        /\ ~ss.sort => /\ ss2.sorted = ss.sorted
                       /\ o2[Len(r)].elems = r[Len(r)].elems \o ms.elems
    BY Zenon DEF AdtEffect
  <2>2. Len(r) = L + 1
    BY <1>4
  <2>3. \A k \in 1 .. L : k \in 1 .. L + 1 /\ k # L + 1
    BY <1>1
  <2> HIDE DEF L
  <2>4. \A k \in 1 .. L : o2[k] = r[k]
    BY <2>1, <2>2, <2>3
  <2> QED
    BY <2>1, <2>2, <2>4
<1>6. <<>> \o ms.elems = ms.elems
  BY ConcatEmptySeq
<1>7. \A k \in 1 .. L : o2[k] = q[k] /\ o2[k].name = o[k].name
  BY <1>3, <1>4, <1>5
<1>8. \A k \in 1 .. L :
        /\ q[k].closed
        /\ q[k].elems \in {Heard(o, ss, k), Ascending(Heard(o, ss, k))}
        /\ ss.sort => InOrder(q[k].elems)
  BY <1>2, DoneHeard
<1>9. /\ L + 1 \in 1 .. L + 1 /\ o2[L + 1].name = ms.name
      /\ \A k \in 1 .. L : o2[k].name = o[k].name
  <2>1. L + 1 \in 1 .. L + 1
    BY <1>1
  <2> QED
    BY <1>4, <1>5, <1>7, <2>1
<1>10. Heard(o2, ss2, L + 1) = ms.elems
  <2>1. ~(L + 1 > Len(o2)) /\ L + 1 = Len(o2)
    BY <1>1, <1>5
  <2>2. Heard(o2, ss2, L + 1) = IF ss2.sort THEN ss2.sorted ELSE o2[L + 1].elems
    BY <2>1, Zenon DEF Heard
  <2>3. CASE ss.sort
    BY <1>5, <1>6, <2>2, <2>3, Zenon
  <2>4. CASE ~ss.sort
    BY <1>4, <1>5, <1>6, <2>2, <2>4, Zenon
  <2> QED
    BY <2>3, <2>4
<1>11. ASSUME NEW k \in 1 .. L
       PROVE  Heard(o2, ss2, k) \in {Heard(o, ss, k), Ascending(Heard(o, ss, k))}
  <2>1. ~(k > L + 1) /\ k # L + 1
    BY <1>1
  <2>2. Heard(o2, ss2, k) = o2[k].elems
    BY <1>5, <2>1 DEF Heard
  <2> QED
    BY <1>7, <1>8, <2>2
<1>12. OutInv(o2, ss2)
  <2>1. \A k \in 1 .. L : o2[k].closed
    BY <1>7, <1>8
  <2>2. ASSUME ss.sort, NEW k \in 1 .. L + 1 PROVE InOrder(o2[k].elems)
    <3>1. CASE k \in 1 .. L
      BY <1>7, <1>8, <2>2, <3>1
    <3>2. CASE k = L + 1
      <4>1. o2[k].elems = <<>>
        BY <1>4, <1>5, <2>2, <3>2
      <4> QED
        BY <4>1 DEF InOrder
    <3> QED
      BY <1>1, <3>1, <3>2
  <2>3. ss.sort => o2[Len(o2)].elems = <<>>
    BY <1>4, <1>5
  <2>4. ~ss.sort => ss2.sorted = <<>>
    BY <1>5 DEF OutInv
  <2>5. (L + 1) - 1 = L
    BY <1>1
  <2> QED
    BY <1>1, <1>5, <2>1, <2>2, <2>3, <2>4, <2>5 DEF OutInv
<1> QED
  BY <1>5, <1>9, <1>10, <1>11, <1>12 DEF HeaderEffect

\* More of the last section has come.
MoreEffect(o, ss, ms, o2, ss2) ==
  /\ OutInv(o2, ss2)
  /\ Heard(o2, ss2, Len(o)) = Heard(o, ss, Len(o)) \o ms.elems
  /\ \A k \in 1 .. Len(o) - 1 : Heard(o2, ss2, k) = Heard(o, ss, k)

LEMMA MoreHeard ==
  ASSUME NEW o \in Seq(SectionType), o # <<>>, NEW ss \in SessionType, NEW ms,
         OutInv(o, ss), NEW o2, NEW ss2, AdtEffect(o, ss.sorted, ss, ms, o2, ss2)
  PROVE  MoreEffect(o, ss, ms, o2, ss2)
<1> DEFINE L == Len(o)
<1>1. L \in Nat /\ 1 <= L /\ L \in 1 .. L
  BY LastEntry
<1>2. /\ Len(o2) = L /\ o2 # <<>>
      /\ \A k \in 1 .. L : k # L => o2[k] = o[k]
      /\ ss2.sort = ss.sort
      /\ ss.sort => o2 = o /\ ss2.sorted = ss.sorted \o ms.elems
      /\ ~ss.sort => ss2.sorted = ss.sorted /\ o2[L].elems = o[L].elems \o ms.elems
  BY Zenon DEF AdtEffect
<1>3. \A k \in 1 .. L - 1 : k \in 1 .. L /\ k # L /\ ~(k > L)
  BY <1>1
<1>4. ~(L > L)
  BY <1>1
<1>5. Heard(o2, ss2, L) = Heard(o, ss, L) \o ms.elems
  <2>1. Heard(o, ss, L) = IF ss.sort THEN ss.sorted ELSE o[L].elems
    BY <1>4, Zenon DEF Heard
  <2>2. Heard(o2, ss2, L) = IF ss2.sort THEN ss2.sorted ELSE o2[L].elems
    BY <1>2, <1>4, Zenon DEF Heard
  <2>3. CASE ss.sort
    BY <1>2, <2>1, <2>2, <2>3, Zenon
  <2>4. CASE ~ss.sort
    BY <1>2, <2>1, <2>2, <2>4, Zenon
  <2> QED
    BY <2>3, <2>4
<1>6. ASSUME NEW k \in 1 .. L - 1 PROVE Heard(o2, ss2, k) = Heard(o, ss, k)
  <2>1. Heard(o, ss, k) = o[k].elems
    BY <1>3, Zenon DEF Heard
  <2>2. Heard(o2, ss2, k) = o2[k].elems
    BY <1>2, <1>3, Zenon DEF Heard
  <2> QED
    BY <1>2, <1>3, <2>1, <2>2, Zenon
<1>7. OutInv(o2, ss2)
  <2>1. /\ \A k \in 1 .. L - 1 : o[k].closed
        /\ ss.sort => \A k \in 1 .. L : InOrder(o[k].elems)
        /\ ss.sort => o[L].elems = <<>>
        /\ ~ss.sort => ss.sorted = <<>>
    BY Zenon DEF OutInv
  <2>2. \A k \in 1 .. L - 1 : o2[k].closed
    BY <1>2, <1>3, <2>1
  <2> QED
    BY <1>2, <2>1, <2>2, Zenon DEF OutInv
<1> QED
  BY <1>5, <1>6, <1>7, Zenon DEF MoreEffect

-----------------------------------------------------------------------------
(* The steps of the program.                                               *)

\* What the program has of a set is as sound and whole as it was.
LEMMA StaysWhole ==
  ASSUME NEW h \in Seq(Words), NEW p, Whole(h, p), NEW h2, h2 \in {h, Ascending(h)}
  PROVE  Whole(h2, p)
BY WholeSorted

\* A message that is no message for the program any more.
LEMMA NoMsgTypes ==
  ASSUME TypeOK, UNCHANGED <<set, dump, bucket, present>>, msg' = NoMsg,
         session' \in SessionType, out' \in Seq(SectionType)
  PROVE  TypeOK'
BY DEF TypeOK, SessionType, SectionType

\* A message on its way has no bucket that is being read.
LEMMA NoBucketOnTheWay ==
  ASSUME RunInv, dump.pc # "list"
  PROVE  /\ bucket = NoBucket
         /\ present # <<>> =>
              Progress(Listed(out, session, msg, Len(present)), present[Len(present)], dump)
BY Zenon DEF RunInv, ProgressInv

\* callback_list with a header.
LEMMA CallbackHeaderStep ==
  ASSUME TypeOK, RunInv, session.status = "run", CallbackHeader
  PROVE  TypeOK' /\ RunInv' /\ session'.status = "run"
<1> DEFINE L == Len(out)
<1>1. /\ dump.pc # "list" /\ msg # NoMsg /\ msg.header /\ msg' = NoMsg
      /\ ListAdt(ListCreate(msg.name), <<>>) /\ UNCHANGED <<set, dump, bucket, present>>
  BY DEF CallbackHeader, Received
<1>2. /\ out \in Seq(SectionType) /\ L \in Nat /\ session \in SessionType
      /\ session.sorted \in Seq(Words) /\ msg.name \in Names /\ msg.elems \in Seq(Words)
      /\ present \in Seq(WitnessType)
  BY <1>1, TypeFacts
<1>3. /\ Len(present) = L + 1 /\ \A k \in 1 .. L : out[k].name = present[k].name
      /\ present # <<>> /\ msg.name = present[L + 1].name
  BY <1>1 DEF RunInv, NameInv
<1>4. PICK r : r = NewSection(out, session.sorted, msg.name)
  OBVIOUS
<1>5. ListCreate(msg.name) = r
  BY <1>4 DEF ListCreate, NewSection
<1>6. r \in Seq(SectionType) /\ r # <<>> /\ Len(r) = L + 1 /\ <<>> \in Seq(Words)
  BY <1>2, <1>4, ListCreateFacts, EmptySeq
<1>7. AdtEffect(r, <<>>, session, msg, out', session')
  BY <1>1, <1>5, <1>6, ListAdtFacts
<1>8. OutInv(out, session)
  BY DEF RunInv
<1>9. /\ OutInv(out', session') /\ Len(out') = Len(out) + 1
      /\ \A k \in 1 .. Len(out) : out'[k].name = out[k].name
      /\ out'[Len(out) + 1].name = msg.name
      /\ Heard(out', session', Len(out) + 1) = msg.elems
      /\ \A k \in 1 .. Len(out) :
           Heard(out', session', k) \in {Heard(out, session, k), Ascending(Heard(out, session, k))}
  <2>1. HeaderEffect(out, session, msg, out', session')
    BY <1>1, <1>2, <1>4, <1>7, <1>8, HeaderHeard
  <2> QED
    BY <2>1, Zenon DEF HeaderEffect
<1>10. /\ out' \in Seq(SectionType) /\ out' # <<>> /\ session' \in SessionType
       /\ session'.status = "run" /\ session'.saved_setname = msg.name
  BY <1>7 DEF AdtEffect
<1>11. TypeOK'
  BY <1>1, <1>10, NoMsgTypes
<1>12. NameInv(dump', out', session', msg', present')
  <2>1. Len(present') = Len(out') + 0 /\ Len(out') = L + 1
    BY <1>1, <1>2, <1>3, <1>9
  <2>2. \A k \in 1 .. L + 1 : k \in 1 .. L \/ k = L + 1
    BY <1>2
  <2>3. \A k \in 1 .. Len(out') : out'[k].name = present'[k].name
    BY <1>1, <1>3, <1>9, <2>1, <2>2
  <2>4. session'.saved_setname = out'[Len(out')].name
    BY <1>9, <1>10
  <2> QED
    BY <1>1, <1>10, <2>1, <2>3, <2>4 DEF NameInv
<1>13. BehindInv(out', session', present')
  <2>1. ASSUME NEW k \in 1 .. L PROVE Whole(Heard(out', session', k), present[k])
    <3>1. Whole(Heard(out, session, k), present[k])
      <4>1. (L + 1) - 1 = L
        BY <1>2
      <4> QED
        BY <1>3, <4>1 DEF RunInv, BehindInv
    <3>2. Heard(out, session, k) \in Seq(Words)
      BY <1>2, HeardIsList
    <3>3. Heard(out', session', k) \in {Heard(out, session, k), Ascending(Heard(out, session, k))}
      BY <1>9
    <3> QED
      BY <3>1, <3>2, <3>3, StaysWhole
  <2>2. Len(present) - 1 = L
    BY <1>2, <1>3
  <2> QED
    BY <1>1, <2>1, <2>2 DEF BehindInv
<1>14. ProgressInv(dump', bucket', out', session', msg', present')
  <2>1. Heard(out, session, L + 1) = <<>>
    <3>1. L + 1 > Len(out)
      BY <1>2
    <3> QED
      BY <3>1, Zenon DEF Heard
  <2>2. Listed(out, session, msg, L + 1) = msg.elems
    <3>1. Coming(msg) = msg.elems
      BY <1>1 DEF Coming
    <3>2. <<>> \o msg.elems = msg.elems
      BY <1>2, ConcatEmptySeq
    <3> QED
      BY <2>1, <3>1, <3>2 DEF Listed
  <2>3. Listed(out', session', msg', L + 1) = msg.elems
    <3>1. Coming(msg') = <<>>
      BY <1>1 DEF Coming
    <3>2. msg.elems \o <<>> = msg.elems
      BY <1>2, ConcatEmptySeq
    <3>3. Heard(out', session', L + 1) = msg.elems
      BY <1>9
    <3> QED
      BY <3>1, <3>2, <3>3, Zenon DEF Listed
  <2>4. bucket = NoBucket /\ Progress(Listed(out, session, msg, L + 1), present[L + 1], dump)
    BY <1>1, <1>3, NoBucketOnTheWay, Zenon
  <2> QED
    BY <1>1, <1>3, <2>2, <2>3, <2>4, Zenon DEF ProgressInv
<1>15. DumpInv(dump', set', present')
  BY <1>1, Zenon DEF RunInv
<1> QED
  BY <1>9, <1>10, <1>11, <1>12, <1>13, <1>14, <1>15 DEF RunInv

\* callback_list without a header.
LEMMA CallbackMoreStep ==
  ASSUME TypeOK, RunInv, session.status = "run", CallbackMore
  PROVE  TypeOK' /\ RunInv' /\ session'.status = "run"
<1> DEFINE L == Len(out)
<1>1. /\ dump.pc # "list" /\ msg # NoMsg /\ ~msg.header /\ msg' = NoMsg
      /\ ListAdt(out, session.sorted) /\ UNCHANGED <<set, dump, bucket, present>>
  BY DEF CallbackMore, Received
<1>2. /\ out \in Seq(SectionType) /\ L \in Nat /\ session \in SessionType
      /\ session.sorted \in Seq(Words) /\ msg.name \in Names /\ msg.elems \in Seq(Words)
      /\ present \in Seq(WitnessType)
  BY <1>1, TypeFacts
<1>3. /\ Len(present) = L /\ \A k \in 1 .. L : out[k].name = present[k].name
      /\ present # <<>> /\ msg.name = present[Len(present)].name
  BY <1>1, <1>2 DEF RunInv, NameInv
<1>4. out # <<>> /\ L \in 1 .. L /\ 1 <= L
  <2>1. Len(present) # 0
    BY <1>2, <1>3, EmptySeq
  <2> QED
    BY <1>2, <1>3, <2>1, EmptySeq
<1>5. AdtEffect(out, session.sorted, session, msg, out', session')
  BY <1>1, <1>2, <1>4, ListAdtFacts
<1>6. OutInv(out, session)
  BY DEF RunInv
<1>7. /\ OutInv(out', session')
      /\ Heard(out', session', L) = Heard(out, session, L) \o msg.elems
      /\ \A k \in 1 .. L - 1 : Heard(out', session', k) = Heard(out, session, k)
  <2>1. MoreEffect(out, session, msg, out', session')
    BY <1>2, <1>4, <1>5, <1>6, MoreHeard
  <2> QED
    BY <2>1, Zenon DEF MoreEffect
<1>8. /\ out' \in Seq(SectionType) /\ out' # <<>> /\ Len(out') = L
      /\ \A k \in 1 .. L : out'[k].name = out[k].name
      /\ session' \in SessionType /\ session'.status = "run"
      /\ session'.saved_setname = msg.name
  BY <1>5 DEF AdtEffect
<1>9. TypeOK'
  BY <1>1, <1>8, NoMsgTypes
<1>10. NameInv(dump', out', session', msg', present')
  <2>1. \A k \in 1 .. Len(out') : out'[k].name = present'[k].name
    BY <1>1, <1>3, <1>8
  <2>2. session'.saved_setname = out'[Len(out')].name
    BY <1>3, <1>4, <1>8
  <2>3. Len(present') = Len(out') + 0
    BY <1>1, <1>2, <1>3, <1>8
  <2> QED
    BY <1>1, <1>8, <2>1, <2>2, <2>3 DEF NameInv
<1>11. BehindInv(out', session', present')
  <2>1. \A k \in 1 .. L - 1 : Whole(Heard(out, session, k), present[k])
    BY <1>3, Zenon DEF RunInv, BehindInv
  <2> QED
    BY <1>1, <1>3, <1>7, <2>1 DEF BehindInv
<1>12. ProgressInv(dump', bucket', out', session', msg', present')
  <2>1. Heard(out, session, L) \in Seq(Words)
    BY <1>2, <1>4, HeardIsList
  <2>2. Listed(out, session, msg, L) = Heard(out, session, L) \o msg.elems
    BY <1>1, Zenon DEF Listed, Coming
  <2>3. Listed(out', session', msg', L) = Heard(out, session, L) \o msg.elems
    <3>1. Heard(out, session, L) \o msg.elems \in Seq(Words)
      BY <1>2, <2>1, ConcatProperties
    <3>2. (Heard(out, session, L) \o msg.elems) \o <<>> = Heard(out, session, L) \o msg.elems
      BY <3>1, ConcatEmptySeq
    <3> QED
      BY <1>1, <1>7, <3>2, Zenon DEF Listed, Coming
  <2>4. bucket = NoBucket /\ Progress(Listed(out, session, msg, L), present[L], dump)
    BY <1>1, <1>3, NoBucketOnTheWay, Zenon
  <2> QED
    BY <1>1, <1>3, <2>2, <2>3, <2>4, Zenon DEF ProgressInv
<1>13. DumpInv(dump', set', present')
  BY <1>1, Zenon DEF RunInv
<1> QED
  BY <1>7, <1>8, <1>9, <1>10, <1>11, <1>12, <1>13 DEF RunInv

\* While a listing runs, the sections before the last one are closed and in order.
LEMMA RunningIsWellFormed ==
  ASSUME TypeOK, session.status = "run", OutInv(out, session)
  PROVE  OutputWellFormed
<1>1. DOMAIN out = 1 .. Len(out) /\ Len(out) \in Nat
  BY TypeFacts, LenProperties
<1>2. ASSUME NEW k \in DOMAIN out, k < Len(out) PROVE out[k].closed
  <2>1. k \in 1 .. Len(out) - 1
    BY <1>1, <1>2
  <2> QED
    BY <2>1 DEF OutInv
<1>3. session.sort => \A k \in DOMAIN out : InOrder(out[k].elems)
  BY <1>1 DEF OutInv
<1> QED
  BY <1>2, <1>3 DEF OutputWellFormed, InOrder

\* callback_list gives the listing up only when two sets bore the same name.
LEMMA CallbackBrokenStep ==
  ASSUME TypeOK, RunInv, session.status = "run", CallbackBroken
  PROVE  ListingInv'
<1> DEFINE L == Len(out)
<1>1. /\ dump.pc # "list" /\ msg # NoMsg /\ msg' = NoMsg
      /\ msg.header = (msg.name = session.saved_setname)
      /\ session' = [session EXCEPT !.status = "error"]
      /\ UNCHANGED <<set, dump, bucket, out, present>>
  BY DEF CallbackBroken, Received
<1>2. /\ out \in Seq(SectionType) /\ L \in Nat /\ session \in SessionType
      /\ msg.name \in Names /\ msg.header \in BOOLEAN /\ present \in Seq(WitnessType)
      /\ Len(present) \in Nat
  BY <1>1, TypeFacts
<1>3. /\ Len(present) = L + (IF msg.header THEN 1 ELSE 0)
      /\ \A k \in 1 .. L : out[k].name = present[k].name
      /\ session.saved_setname = IF out = <<>> THEN NoName ELSE out[L].name
      /\ present # <<>> /\ msg.name = present[Len(present)].name
  BY <1>1, <1>2 DEF RunInv, NameInv
<1>4. Len(present) # 0
  BY <1>2, <1>3, EmptySeq
<1>5. msg.header
  <2>1. CASE ~msg.header
    <3>1. Len(present) = L /\ L \in 1 .. L
      BY <1>2, <1>3, <1>4, <2>1
    <3>2. out # <<>>
      BY <1>2, <1>4, <3>1, EmptySeq
    <3>3. msg.name = session.saved_setname
      BY <1>3, <3>1, <3>2
    <3> QED
      BY <1>1, <2>1, <3>3
  <2> QED
    BY <2>1
<1>6. msg.name = session.saved_setname
  BY <1>1, <1>5
<1>7. out # <<>> /\ msg.name = out[L].name
  <2>1. NoName \notin Names
    BY ListingAssumption
  <2> QED
    BY <1>2, <1>3, <1>6, <2>1
<1>8. L \in 1 .. L /\ Len(present) = L + 1 /\ L # L + 1 /\ L \in 1 .. L + 1 /\ L + 1 \in 1 .. L + 1
  <2>1. 1 <= L
    BY <1>2, <1>7, LastEntry
  <2>2. Len(present) = L + 1
    BY <1>3, <1>5
  <2> QED
    BY <1>2, <2>1, <2>2
<1>9. present[L].name = present[L + 1].name
  BY <1>3, <1>7, <1>8
<1>10. DOMAIN present = 1 .. L + 1
  BY <1>2, <1>8, LenProperties
<1>11. /\ session' \in SessionType /\ session'.status = "error"
       /\ session'.sort = session.sort
  <2>1. session' = [status |-> "error", saved_setname |-> session.saved_setname,
                    sort |-> session.sort, sorted |-> session.sorted]
    BY <1>1, <1>2 DEF SessionType
  <2>2. /\ session.saved_setname \in Names \cup {NoName} /\ session.sort \in BOOLEAN
        /\ session.sorted \in Seq(Words)
    BY TypeFacts
  <2> QED
    BY <2>1, <2>2 DEF SessionType
<1>12. TypeOK'
  BY <1>1, <1>2, <1>11, NoMsgTypes
<1>13. OutputWellFormed'
  <2>1. OutputWellFormed
    BY RunningIsWellFormed DEF RunInv
  <2> QED
    BY <1>1, <1>11, <2>1 DEF OutputWellFormed
<1>14. BrokenOnlyByRename'
  BY <1>1, <1>8, <1>9, <1>10 DEF BrokenOnlyByRename
<1>15. ListingExact'
  BY <1>11 DEF ListingExact
<1> QED
  BY <1>11, <1>12, <1>13, <1>14, <1>15 DEF ListingInv

\* What a finished listing has of a set.
Finished(s, p, complete) ==
  /\ \A e \in p.always : Times(s, e) <= 1
  /\ \A i \in DOMAIN s : s[i] \in p.ever \/ (s[i] = Garbled /\ p.always # p.ever)
  /\ complete => \A e \in p.always : Times(s, e) = 1

LEMMA FinishedFacts ==
  ASSUME NEW s \in Seq(Words), NEW p, Sound(s, p), NEW c, c => p.always \subseteq Range(s)
  PROVE  Finished(s, p, c)
<1>1. OnceIn(s, p.always) /\ Range(s) \subseteq May(p)
  BY DEF Sound
<1>2. \A e \in p.always : Times(s, e) <= 1 /\ (e \in Range(s) => Times(s, e) = 1)
  BY <1>1, TimesOnce
<1>3. \A i \in DOMAIN s : s[i] \in Range(s)
  BY DEF Range
<1>4. \A i \in DOMAIN s : s[i] \in p.ever \/ (s[i] = Garbled /\ p.always # p.ever)
  BY <1>1, <1>3 DEF May
<1> QED
  BY <1>2, <1>4 DEF Finished

\* callback_done: the listing is finished.
LEMMA CallbackDoneStep ==
  ASSUME TypeOK, RunInv, session.status = "run", CallbackDone
  PROVE  ListingInv'
<1> DEFINE L == Len(out)
<1>1. /\ dump.pc # "list" /\ msg = NoMsg /\ dump.index = MaxIndex
      /\ session' = [session EXCEPT !.status = "done", !.sorted = <<>>]
      /\ out' = PrintSetDone(out, session.sorted)
      /\ UNCHANGED <<set, dump, bucket, msg, present>>
  BY DEF CallbackDone
<1>2. /\ out \in Seq(SectionType) /\ L \in Nat /\ session \in SessionType
      /\ present \in Seq(WitnessType) /\ session.sorted \in Seq(Words) /\ session.sort \in BOOLEAN
      /\ session.saved_setname \in Names \cup {NoName} /\ MaxIndex \in Nat
      /\ dump.pc \in {"scan", "list", "cut"} /\ dump.held \in BOOLEAN
  BY TypeFacts
<1>3. Len(present) = L /\ \A k \in 1 .. L : out[k].name = present[k].name
  BY <1>1, <1>2 DEF RunInv, NameInv
<1>4. ~dump.held
  <2>1. dump.held => dump.index < MaxIndex
    BY Zenon DEF RunInv, DumpInv
  <2> QED
    BY <1>1, <1>2, <2>1
<1>5. OutInv(out, session)
  BY DEF RunInv
<1>6. /\ out' \in Seq(SectionType) /\ Len(out') = L
      /\ \A k \in 1 .. L : out'[k].name = out[k].name
  BY <1>1, <1>2, PrintSetDoneFacts
<1>7. \A k \in 1 .. L :
        /\ out'[k].closed
        /\ out'[k].elems \in {Heard(out, session, k), Ascending(Heard(out, session, k))}
        /\ session.sort => InOrder(out'[k].elems)
  <2>1. PICK q : q = out'
    OBVIOUS
  <2>2. \A k \in 1 .. L :
          /\ q[k].closed
          /\ q[k].elems \in {Heard(out, session, k), Ascending(Heard(out, session, k))}
          /\ session.sort => InOrder(q[k].elems)
    BY <1>1, <1>2, <1>5, <2>1, DoneHeard
  <2> QED
    BY <2>1, <2>2, Zenon
<1>8. /\ session' \in SessionType /\ session'.status = "done" /\ session'.sort = session.sort
  <2>1. session' = [status |-> "done", saved_setname |-> session.saved_setname,
                    sort |-> session.sort, sorted |-> <<>>]
    BY <1>1, <1>2 DEF SessionType
  <2>2. <<>> \in Seq(Words)
    BY EmptySeq
  <2> QED
    BY <1>2, <2>1, <2>2 DEF SessionType
<1>9. DOMAIN out' = 1 .. L /\ DOMAIN out = 1 .. L
  BY <1>2, <1>6, LenProperties
<1>10. ASSUME NEW k \in 1 .. L
       PROVE  Finished(out'[k].elems, present[k], k < L \/ dump.pc # "cut")
  <2>1. Heard(out, session, k) \in Seq(Words)
    BY <1>2, HeardIsList
  <2>2. PICK h : h = Heard(out, session, k)
    OBVIOUS
  <2>3. Sound(h, present[k]) /\ (k < L \/ dump.pc # "cut" => present[k].always \subseteq Range(h))
    <3>1. CASE k # L
      <4>1. k \in 1 .. Len(present) - 1
        BY <1>2, <1>3, <3>1
      <4>2. Whole(h, present[k])
        BY <2>2, <4>1 DEF RunInv, BehindInv
      <4> QED
        BY <4>2 DEF Whole
    <3>2. CASE k = L
      <4>1. present # <<>>
        BY <1>2, <1>3, <3>2, EmptySeq
      <4>2. Progress(Listed(out, session, msg, L), present[L], dump)
        BY <1>1, <1>3, <4>1, NoBucketOnTheWay, Zenon
      <4>3. Listed(out, session, msg, L) = h
        <5>1. h \o <<>> = h
          BY <2>1, <2>2, ConcatEmptySeq
        <5> QED
          BY <1>1, <2>2, <3>2, <5>1, Zenon DEF Listed, Coming
      <4>4. Sound(h, present[L]) /\ (dump.pc # "cut" => present[L].always \subseteq Range(h))
        BY <1>4, <4>2, <4>3, Zenon DEF Progress
      <4>5. ~(L < L)
        BY <1>2
      <4> QED
        BY <3>2, <4>4, <4>5
    <3> QED
      BY <3>1, <3>2
  <2>4. h \in Seq(Words) /\ out'[k].elems \in {h, Ascending(h)}
    BY <1>7, <2>1, <2>2, Zenon
  <2>5. PICK w : w = out'[k].elems
    OBVIOUS
  <2>6. /\ Ascending(h) \in Seq(Words) /\ Range(Ascending(h)) = Range(h)
        /\ Sound(h, present[k]) => Sound(Ascending(h), present[k])
    BY <2>4, AscendingFacts, WholeSorted
  <2>7. w \in Seq(Words) /\ Range(w) = Range(h) /\ Sound(w, present[k])
    BY <2>3, <2>4, <2>5, <2>6, Zenon
  <2>8. k < L \/ dump.pc # "cut" => present[k].always \subseteq Range(w)
    BY <2>3, <2>7, Zenon
  <2>9. Finished(w, present[k], k < L \/ dump.pc # "cut")
    BY <2>7, <2>8, FinishedFacts
  <2> QED
    BY <2>5, <2>9, Zenon
<1>11. ListingExact'
  <2>1. Len(out') = Len(present') /\ dump'.pc = dump.pc
    BY <1>1, <1>3, <1>6
  <2>2. ASSUME NEW k \in DOMAIN out'
        PROVE  /\ out'[k].name = present'[k].name
               /\ \A e \in present'[k].always : Times(out'[k].elems, e) <= 1
               /\ \A i \in DOMAIN out'[k].elems :
                    \/ out'[k].elems[i] \in present'[k].ever
                    \/ out'[k].elems[i] = Garbled /\ present'[k].always # present'[k].ever
               /\ k < Len(out') \/ dump'.pc # "cut" =>
                    \A e \in present'[k].always : Times(out'[k].elems, e) = 1
    <3>1. k \in 1 .. L /\ present'[k] = present[k] /\ Len(out') = L
      BY <1>1, <1>6, <1>9
    <3>2. out'[k].name = present'[k].name
      BY <1>3, <1>6, <3>1, Zenon
    <3>3. Finished(out'[k].elems, present[k], k < L \/ dump.pc # "cut")
      BY <1>10, <3>1, Zenon
    <3> QED
      BY <2>1, <3>1, <3>2, <3>3, Zenon DEF Finished
  <2> QED
    BY <2>1, <2>2, Zenon DEF ListingExact
<1>12. OutputWellFormed'
  BY <1>7, <1>8, <1>9 DEF OutputWellFormed, InOrder
<1>13. TypeOK'
  BY <1>1, <1>6, <1>8, NoMsgTypes
<1>14. BrokenOnlyByRename'
  BY <1>8 DEF BrokenOnlyByRename
<1> QED
  BY <1>8, <1>11, <1>12, <1>13, <1>14 DEF ListingInv

-----------------------------------------------------------------------------
(* The steps of the kernel.                                                *)

\* A netlink_callback by its parts.
IsDump(r, pc, index, held, first, arg0, bits, table, elems, moved) ==
  /\ r.pc = pc /\ r.index = index /\ r.held = held /\ r.first = first
  /\ r.arg0 = arg0 /\ r.bits = bits /\ r.table = table
  /\ r.elems = elems /\ r.moved = moved

\* The assignments of the steps to the netlink_callback.
LEMMA SetIndex ==
  ASSUME NEW d \in DumpType, NEW i \in 0 .. MaxIndex,
         NEW r, r = [d EXCEPT !.index = i]
  PROVE  /\ r \in DumpType
         /\ IsDump(r, d.pc, i, d.held, d.first, d.arg0, d.bits, d.table, d.elems, d.moved)
<1>1. r \in DumpType
  BY Zenon DEF DumpType
<1>2. IsDump(r, d.pc, i, d.held, d.first, d.arg0, d.bits, d.table, d.elems, d.moved)
  BY DEF DumpType, IsDump
<1> QED
  BY <1>1, <1>2

LEMMA SetArg0 ==
  ASSUME NEW d \in DumpType, NEW a \in 0 .. jhash_size(MaxBits),
         NEW r, r = [d EXCEPT !.arg0 = a]
  PROVE  /\ r \in DumpType
         /\ IsDump(r, d.pc, d.index, d.held, d.first, a, d.bits, d.table, d.elems, d.moved)
<1>1. r \in DumpType
  BY Zenon DEF DumpType
<1>2. IsDump(r, d.pc, d.index, d.held, d.first, a, d.bits, d.table, d.elems, d.moved)
  BY DEF DumpType, IsDump
<1> QED
  BY <1>1, <1>2

LEMMA SetPc ==
  ASSUME NEW d \in DumpType, NEW g \in {"scan", "list", "cut"},
         NEW r, r = [d EXCEPT !.pc = g]
  PROVE  /\ r \in DumpType
         /\ IsDump(r, g, d.index, d.held, d.first, d.arg0, d.bits, d.table, d.elems, d.moved)
<1>1. r \in DumpType
  BY Zenon DEF DumpType
<1>2. IsDump(r, g, d.index, d.held, d.first, d.arg0, d.bits, d.table, d.elems, d.moved)
  BY DEF DumpType, IsDump
<1> QED
  BY <1>1, <1>2

LEMMA SetPcFirst ==
  ASSUME NEW d \in DumpType, NEW g \in {"scan", "list", "cut"}, NEW f \in 0 .. jhash_size(MaxBits),
         NEW r, r = [d EXCEPT !.pc = g, !.first = f]
  PROVE  /\ r \in DumpType
         /\ IsDump(r, g, d.index, d.held, f, d.arg0, d.bits, d.table, d.elems, d.moved)
<1>1. r \in DumpType
  BY Zenon DEF DumpType
<1>2. IsDump(r, g, d.index, d.held, f, d.arg0, d.bits, d.table, d.elems, d.moved)
  BY DEF DumpType, IsDump
<1> QED
  BY <1>1, <1>2

LEMMA SetElems ==
  ASSUME NEW d \in DumpType, NEW S \in SUBSET Elems, NEW t \in SUBSET Elems,
         NEW r, r = [d EXCEPT !.elems = S, !.table = t]
  PROVE  /\ r \in DumpType
         /\ IsDump(r, d.pc, d.index, d.held, d.first, d.arg0, d.bits, t, S, d.moved)
<1>1. r \in DumpType
  BY Zenon DEF DumpType
<1>2. IsDump(r, d.pc, d.index, d.held, d.first, d.arg0, d.bits, t, S, d.moved)
  BY DEF DumpType, IsDump
<1> QED
  BY <1>1, <1>2

LEMMA SetMoved ==
  ASSUME NEW d \in DumpType, NEW m \in BOOLEAN,
         NEW r, r = [d EXCEPT !.moved = m]
  PROVE  /\ r \in DumpType
         /\ IsDump(r, d.pc, d.index, d.held, d.first, d.arg0, d.bits, d.table, d.elems, m)
<1>1. r \in DumpType
  BY Zenon DEF DumpType
<1>2. IsDump(r, d.pc, d.index, d.held, d.first, d.arg0, d.bits, d.table, d.elems, m)
  BY DEF DumpType, IsDump
<1> QED
  BY <1>1, <1>2

LEMMA SetHead ==
  ASSUME NEW d \in DumpType, NEW b \in MinBits .. MaxBits, NEW S \in SUBSET Elems,
         NEW r, r = [d EXCEPT !.pc = "list", !.held = TRUE, !.bits = b, !.table = S, !.elems = S]
  PROVE  /\ r \in DumpType
         /\ IsDump(r, "list", d.index, TRUE, d.first, d.arg0, b, S, S, d.moved)
<1>1. PICK g \in {"scan", "list", "cut"} : g = "list"
  OBVIOUS
<1>2. PICK h \in BOOLEAN : h = TRUE
  OBVIOUS
<1>3. r = [d EXCEPT !.pc = g, !.held = h, !.bits = b, !.table = S, !.elems = S]
  BY <1>1, <1>2, Zenon
<1>4. r \in DumpType
  BY <1>3, Zenon DEF DumpType
<1>5. IsDump(r, g, d.index, h, d.first, d.arg0, b, S, S, d.moved)
  BY <1>3 DEF DumpType, IsDump
<1> QED
  BY <1>1, <1>2, <1>4, <1>5, Zenon

LEMMA AtIndex ==
  ASSUME NEW i \in 0 .. MaxIndex
  PROVE  DumpAt(i) \in DumpType /\ IsDump(DumpAt(i), "scan", i, FALSE, 0, 0, MinBits, {}, {}, FALSE)
<1>1. /\ 0 \in 0 .. jhash_size(MaxBits) /\ MinBits \in MinBits .. MaxBits
      /\ {} \in SUBSET Elems
  BY ListingAssumption
<1>2. DumpAt(i) \in DumpType
  BY <1>1 DEF DumpAt, DumpType
<1> QED
  BY <1>2 DEF DumpAt, IsDump

\* A bucket by its parts.
IsBucket(r, a, j, f, c, t) ==
  /\ r.array = a /\ r.slot = j /\ r.found = f /\ r.current = c /\ r.trim = t

\* The assignments of the steps to the bucket.
LEMMA SetSlot ==
  ASSUME NEW b \in BucketType, NEW j \in Nat \ {0},
         NEW r, r = [b EXCEPT !.slot = j]
  PROVE  r \in BucketType /\ IsBucket(r, b.array, j, b.found, b.current, b.trim)
<1>1. r \in BucketType
  BY Zenon DEF BucketType
<1>2. IsBucket(r, b.array, j, b.found, b.current, b.trim)
  BY DEF BucketType, IsBucket
<1> QED
  BY <1>1, <1>2

LEMMA SetFound ==
  ASSUME NEW b \in BucketType, NEW f \in Words \cup {Hole},
         NEW r, r = [b EXCEPT !.found = f]
  PROVE  r \in BucketType /\ IsBucket(r, b.array, b.slot, f, b.current, b.trim)
<1>1. r \in BucketType
  BY Zenon DEF BucketType
<1>2. IsBucket(r, b.array, b.slot, f, b.current, b.trim)
  BY DEF BucketType, IsBucket
<1> QED
  BY <1>1, <1>2

LEMMA SetSlotFound ==
  ASSUME NEW b \in BucketType, NEW j \in Nat \ {0}, NEW f \in Words \cup {Hole},
         NEW r, r = [b EXCEPT !.slot = j, !.found = f]
  PROVE  r \in BucketType /\ IsBucket(r, b.array, j, f, b.current, b.trim)
<1>1. r \in BucketType
  BY Zenon DEF BucketType
<1>2. IsBucket(r, b.array, j, f, b.current, b.trim)
  BY DEF BucketType, IsBucket
<1> QED
  BY <1>1, <1>2

LEMMA SetArray ==
  ASSUME NEW b \in BucketType, NEW a \in Seq(Elems \cup {Hole}),
         NEW r, r = [b EXCEPT !.array = a]
  PROVE  r \in BucketType /\ IsBucket(r, a, b.slot, b.found, b.current, b.trim)
<1>1. r \in BucketType
  BY Zenon DEF BucketType
<1>2. IsBucket(r, a, b.slot, b.found, b.current, b.trim)
  BY DEF BucketType, IsBucket
<1> QED
  BY <1>1, <1>2

LEMMA SetArrayFound ==
  ASSUME NEW b \in BucketType, NEW a \in Seq(Elems \cup {Hole}), NEW f \in Words \cup {Hole},
         NEW r, r = [b EXCEPT !.array = a, !.found = f]
  PROVE  r \in BucketType /\ IsBucket(r, a, b.slot, f, b.current, b.trim)
<1>1. r \in BucketType
  BY Zenon DEF BucketType
<1>2. IsBucket(r, a, b.slot, f, b.current, b.trim)
  BY DEF BucketType, IsBucket
<1> QED
  BY <1>1, <1>2

LEMMA SetCurrent ==
  ASSUME NEW b \in BucketType, NEW c \in BOOLEAN,
         NEW r, r = [b EXCEPT !.current = c]
  PROVE  r \in BucketType /\ IsBucket(r, b.array, b.slot, b.found, c, b.trim)
<1>1. r \in BucketType
  BY Zenon DEF BucketType
<1>2. IsBucket(r, b.array, b.slot, b.found, c, b.trim)
  BY DEF BucketType, IsBucket
<1> QED
  BY <1>1, <1>2

LEMMA SetArrayCurrent ==
  ASSUME NEW b \in BucketType, NEW a \in Seq(Elems \cup {Hole}), NEW c \in BOOLEAN,
         NEW r, r = [b EXCEPT !.array = a, !.current = c]
  PROVE  r \in BucketType /\ IsBucket(r, a, b.slot, b.found, c, b.trim)
<1>1. r \in BucketType
  BY Zenon DEF BucketType
<1>2. IsBucket(r, a, b.slot, b.found, c, b.trim)
  BY DEF BucketType, IsBucket
<1> QED
  BY <1>1, <1>2

\* The arrays that hold the elements of a bucket.
LEMMA ArraysFacts ==
  ASSUME NEW S \in SUBSET Elems, NEW h \in 0 .. MaxHoles, NEW a \in Arrays(S, h)
  PROVE  /\ a \in Seq(Elems \cup {Hole})
         /\ \A j \in DOMAIN a : a[j] # Hole => a[j] \in S
         /\ \A e \in S : \E j \in DOMAIN a : a[j] = e
         /\ \A j, k \in DOMAIN a : a[j] = a[k] /\ a[j] # Hole => j = k
<1>1. a \in [1 .. Cardinality(S) + h -> S \cup {Hole}]
  BY Zenon DEF Arrays
<1>2. Cardinality(S) \in Nat /\ h \in Nat
  <2>1. IsFiniteSet(S)
    BY FS_Subset, ListingAssumption
  <2>2. Cardinality(S) \in Nat
    BY <2>1, FS_CardinalityType
  <2> QED
    BY <2>2, ListingAssumption
<1>3. a \in Seq(Elems \cup {Hole})
  <2>1. PICK n : n = Cardinality(S) + h
    OBVIOUS
  <2>2. n \in Nat /\ a \in [1 .. n -> S \cup {Hole}]
    BY <1>1, <1>2, <2>1
  <2> QED
    BY <2>2
<1>4. S \subseteq Range(a) /\ \A j, k \in DOMAIN a : a[j] = a[k] => j = k \/ a[j] = Hole
  BY DEF Arrays
<1>5. \A j \in DOMAIN a : a[j] # Hole => a[j] \in S
  BY <1>1
<1> QED
  BY <1>3, <1>4, <1>5 DEF Range

\* Hole is no word and Garbled no element.
LEMMA NoWord ==
  /\ Hole \notin Words /\ Garbled \in Words /\ Garbled \notin Elems
  /\ \A e \in Elems : e \in Words /\ e # Hole /\ e # Garbled
BY ListingAssumption DEF Words

\* A message with other elements.
LEMMA MsgWith ==
  ASSUME NEW m \in MsgType, NEW w \in Seq(Words), NEW r, r = [m EXCEPT !.elems = w]
  PROVE  /\ r \in MsgType /\ r # NoMsg /\ r.name = m.name /\ r.header = m.header /\ r.elems = w
<1>1. r = [name |-> m.name, header |-> m.header, elems |-> w]
  BY DEF MsgType
<1>2. m.name \in Names /\ m.header \in BOOLEAN
  BY DEF MsgType
<1>3. r \in MsgType
  BY <1>1, <1>2 DEF MsgType
<1> QED
  BY <1>1, <1>3, ListingAssumption

\* One word more in a list.
LEMMA Appended ==
  ASSUME NEW u \in Seq(Words), NEW e \in Words
  PROVE  /\ Append(u, e) \in Seq(Words) /\ Range(Append(u, e)) = Range(u) \cup {e}
         /\ \A A : OnceIn(u, A) /\ (e \in A => e \notin Range(u)) => OnceIn(Append(u, e), A)
         /\ \A v \in Seq(Words) : Append(v \o u, e) = v \o Append(u, e)
<1>1. PICK w : w = <<e>>
  OBVIOUS
<1>2. w \in Seq(Words) /\ Range(w) = {e} /\ \A A : OnceIn(w, A)
  BY <1>1 DEF Range, OnceIn
<1>3. Append(u, e) = u \o w
  BY <1>1, AppendIsConcat
<1>4. Range(u \o w) = Range(u) \cup {e}
  BY <1>2, RangeConcatenation
<1>5. ASSUME NEW A, OnceIn(u, A), e \in A => e \notin Range(u) PROVE OnceIn(u \o w, A)
  BY <1>2, <1>5, Joined
<1>6. ASSUME NEW v \in Seq(Words) PROVE Append(v \o u, e) = v \o Append(u, e)
  <2>1. v \o u \in Seq(Words)
    BY ConcatProperties
  <2>2. Append(v \o u, e) = (v \o u) \o w
    BY <1>1, <2>1, AppendIsConcat
  <2>3. (v \o u) \o w = v \o (u \o w)
    BY <1>2, ConcatAssociative
  <2> QED
    BY <1>3, <2>2, <2>3
<1>7. Append(u, e) \in Seq(Words)
  BY AppendProperties
<1> QED
  BY <1>3, <1>4, <1>5, <1>6, <1>7

\* The part of a list that was there before.
LEMMA Trimmed ==
  ASSUME NEW v \in Seq(Words), NEW u \in Seq(Words)
  PROVE  SubSeq(v \o u, 1, Len(v)) = v /\ Len(v) <= Len(v \o u)
<1>1. Len(v) \in Nat /\ Len(u) \in Nat /\ Len(v \o u) = Len(v) + Len(u) /\ v \o u \in Seq(Words)
  BY LenProperties, ConcatProperties
<1>2. CASE Len(v) = 0
  <2>1. v = <<>>
    BY <1>2, EmptySeq
  <2>2. SubSeq(v \o u, 1, 0) = <<>>
    <3>1. PICK w : w = v \o u
      OBVIOUS
    <3>2. w \in Seq(Words) /\ 1 \in Int /\ 0 \in Int
      BY <1>1, <3>1
    <3> QED
      BY <3>1, <3>2, SubSeqEmpty
  <2> QED
    BY <1>1, <1>2, <2>1, <2>2
<1>3. CASE Len(v) # 0
  <2>1. 1 \in 1 .. Len(v) /\ Len(v) \in 1 .. Len(v)
    BY <1>1, <1>3
  <2>2. SubSeq(v \o u, 1, Len(v)) = SubSeq(v, 1, Len(v))
    BY <2>1, SubSeqOfConcat1
  <2> QED
    BY <1>1, <2>2, SubSeqFull
<1> QED
  BY <1>2, <1>3

\* An array has just been read.
LEMMA BucketBegun ==
  ASSUME NEW d \in DumpType, NEW p \in WitnessType,
         p.always \subseteq d.table, d.table \subseteq p.ever,
         NEW h \in 0 .. MaxHoles, NEW a \in Arrays(Bucket(d.table, d.bits, d.arg0), h),
         NEW r, r.array = a, r.slot = 1, r.found = Hole
  PROVE  ArrayInv(r, p, d) /\ SlotInv(r, <<>>, p)
<1>1. PICK S : S = Bucket(d.table, d.bits, d.arg0)
  OBVIOUS
<1>2. /\ d.table \in SUBSET Elems /\ S \in SUBSET Elems
      /\ \A e : e \in S <=> e \in d.table /\ Key(e, d.bits) = d.arg0
  BY <1>1 DEF DumpType, Bucket
<1>3. /\ a \in Seq(Elems \cup {Hole})
      /\ \A j \in DOMAIN a : a[j] # Hole => a[j] \in S
      /\ \A e \in S : \E j \in DOMAIN a : a[j] = e
      /\ \A j, k \in DOMAIN a : a[j] = a[k] /\ a[j] # Hole => j = k
  BY <1>1, <1>2, ArraysFacts
<1>4. DOMAIN a = 1 .. Len(a) /\ Len(a) \in Nat
  BY <1>3, LenProperties
<1>5. ArrayInv(r, p, d)
  BY <1>2, <1>3 DEF ArrayInv
<1>6. \A k \in DOMAIN a : ~(k < 1)
  BY <1>4
<1>7. Range(<<>>) = {} /\ Sound(<<>>, p)
  BY DEF Range, Sound, OnceIn
<1>8. SlotInv(r, <<>>, p)
  BY <1>6, <1>7 DEF SlotInv
<1> QED
  BY <1>5, <1>8

\* A slot that is not in use is behind the lister.
LEMMA SlotSkipped ==
  ASSUME NEW b, NEW u, NEW p, SlotInv(b, u, p), b.array \in Seq(Elems \cup {Hole}),
         b.slot \in Nat, b.array[b.slot] = Hole, p.always \subseteq Elems,
         NEW r, r.array = b.array, r.slot = b.slot + 1, r.found = Hole
  PROVE  SlotInv(r, u, p)
<1>1. DOMAIN b.array = 1 .. Len(b.array) /\ Len(b.array) \in Nat
  BY LenProperties
<1>2. ASSUME NEW e \in p.always, NEW k \in DOMAIN b.array, b.array[k] = e
      PROVE  k < b.slot <=> k < b.slot + 1
  <2>1. k # b.slot
    BY <1>2, NoWord
  <2>2. k \in Nat
    BY <1>1
  <2> QED
    BY <2>1, <2>2
<1>3. \A e \in p.always :
        e \in Range(u) <=> \E k \in DOMAIN r.array : k < r.slot /\ r.array[k] = e
  BY <1>2 DEF SlotInv
<1> QED
  BY <1>3 DEF SlotInv

\* A slot is found in use.
LEMMA SlotFound ==
  ASSUME NEW b, NEW u, NEW p, NEW d, SlotInv(b, u, p), ArrayInv(b, p, d),
         b.slot \in DOMAIN b.array, b.array[b.slot] # Hole,
         NEW r, r.array = b.array, r.slot = b.slot, r.found = b.array[b.slot]
  PROVE  SlotInv(r, u, p)
<1>1. r.found \in May(p)
  BY DEF ArrayInv, May
<1>2. \A e \in p.always :
        e \in Range(u) <=> \E k \in DOMAIN r.array : k < r.slot /\ r.array[k] = e
  BY DEF SlotInv
<1>3. Sound(u, p)
  BY DEF SlotInv
<1> QED
  BY <1>1, <1>2, <1>3 DEF SlotInv

\* The first slot that is not in use.
LEMMA FreeSlotFacts ==
  ASSUME NEW a \in Seq(Elems \cup {Hole})
  PROVE  /\ FreeSlot(a) \in 1 .. Len(a) + 1
         /\ FreeSlot(a) = Len(a) + 1 \/ a[FreeSlot(a)] = Hole
<1> DEFINE Free(j) == j = Len(a) + 1 \/ a[j] = Hole
           First(j) == Free(j) /\ \A k \in 1 .. j - 1 : a[k] # Hole
<1>1. Len(a) \in Nat
  BY LenProperties
<1>2. \E j \in 1 .. Len(a) + 1 : First(j)
  <2>1. PICK n : n = Len(a) + 1
    OBVIOUS
  <2>2. n \in Nat /\ n \in 1 .. n /\ Free(n)
    BY <1>1, <2>1
  <2>3. PICK S : S = {j \in 1 .. n : Free(j)}
    OBVIOUS
  <2>4. PICK R : R = {q \in S \X S : q[1] < q[2]}
    OBVIOUS
  <2>5. IsFiniteSet(1 .. n)
    <3>1. 1 \in Int /\ n \in Int
      BY <2>2
    <3> QED
      BY <3>1, FS_Interval
  <2>6. S \subseteq 1 .. n /\ n \in S
    BY <2>2, <2>3
  <2>7. IsFiniteSet(S)
    BY <2>5, <2>6, FS_Subset
  <2>8. TotalOrder(S, R)
    BY <2>4, <2>6 DEF TotalOrder
  <2>9. Cardinality(S) \in Nat /\ Cardinality(S) # 0
    BY <2>6, <2>7, FS_CardinalityType, FS_EmptySet
  <2>10. PICK x \in S : RankIn(S, R)[x] = 0
    <3>1. 0 \in 0 .. Cardinality(S) - 1
      BY <2>9
    <3> QED
      BY <2>7, <2>8, <3>1, Ranks
  <2>11. PICK L : L = {y \in S : <<y, x>> \in R}
    OBVIOUS
  <2>12. L = {}
    <3>1. Cardinality(L) = 0
      BY <2>10, <2>11 DEF RankIn
    <3>2. L \subseteq S
      BY <2>11
    <3>3. IsFiniteSet(L)
      BY <2>7, <3>2, FS_Subset
    <3> QED
      BY <3>1, <3>3, FS_EmptySet
  <2>13. ASSUME NEW k \in 1 .. x - 1 PROVE a[k] # Hole
    <3>1. k \in 1 .. n /\ k < x
      BY <2>2, <2>6
    <3>2. k \notin S
      BY <2>4, <2>11, <2>12, <3>1
    <3> QED
      BY <2>3, <3>1, <3>2
  <2>14. Free(x) /\ x \in 1 .. Len(a) + 1
    BY <2>1, <2>3
  <2>15. First(x)
    BY <2>13, <2>14
  <2> HIDE DEF First
  <2> QED
    BY <2>14, <2>15
<1>3. FreeSlot(a) \in 1 .. Len(a) + 1 /\ First(FreeSlot(a))
  BY <1>2 DEF FreeSlot
<1> QED
  BY <1>3

\* What is found in a slot is copied into the message.
LEMMA SlotCopied ==
  ASSUME NEW b, NEW u \in Seq(Words), NEW p, NEW d, SlotInv(b, u, p), ArrayInv(b, p, d),
         b.array \in Seq(Elems \cup {Hole}), b.slot \in Nat,
         b.found # Hole, b.found \in Words, p.always \subseteq Elems,
         NEW e \in Words,
         e = b.found \/ (e = Garbled /\ FreeSlot(b.array) = b.slot),
         NEW r, r.array = b.array, r.slot = b.slot + 1, r.found = Hole
  PROVE  SlotInv(r, Append(u, e), p)
<1>1. DOMAIN b.array = 1 .. Len(b.array) /\ Len(b.array) \in Nat
  BY LenProperties
<1>2. /\ Sound(u, p)
      /\ \A x \in p.always :
           x \in Range(u) <=> \E k \in DOMAIN b.array : k < b.slot /\ b.array[k] = x
      /\ b.found \in May(p)
      /\ b.found \in p.always => b.slot \in DOMAIN b.array /\ b.array[b.slot] = b.found
      /\ b.slot \in DOMAIN b.array /\ b.array[b.slot] \in p.always => b.found = b.array[b.slot]
  BY DEF SlotInv
<1>3. e # b.found => ~(b.slot \in DOMAIN b.array /\ b.array[b.slot] \in p.always)
  <2>1. ASSUME e # b.found PROVE b.slot = Len(b.array) + 1 \/ b.array[b.slot] = Hole
    BY <2>1, FreeSlotFacts
  <2>2. Len(b.array) + 1 \notin DOMAIN b.array
    BY <1>1
  <2> QED
    BY <2>1, <2>2, NoWord
<1>4. e \in May(p)
  <2>1. CASE e = b.found
    BY <1>2, <2>1
  <2>2. CASE e # b.found
    <3>1. b.found \notin p.always
      BY <1>2, <1>3, <2>2
    <3> QED
      BY <1>2, <2>2, <3>1 DEF May
  <2> QED
    BY <2>1, <2>2
<1>5. e \in p.always <=> b.slot \in DOMAIN b.array /\ b.array[b.slot] \in p.always
  BY <1>2, <1>3, NoWord
<1>6. e \in p.always => b.slot \in DOMAIN b.array /\ b.array[b.slot] = e
  BY <1>2, <1>3, NoWord
<1>7. e \in p.always => e \notin Range(u)
  <2> SUFFICES ASSUME e \in p.always, e \in Range(u) PROVE FALSE
    OBVIOUS
  <2>1. PICK k \in DOMAIN b.array : k < b.slot /\ b.array[k] = e
    BY <1>2
  <2>2. k = b.slot
    BY <1>6, <2>1, NoWord DEF ArrayInv
  <2> QED
    BY <2>1, <2>2
<1>8. PICK w : w = Append(u, e)
  OBVIOUS
<1>9. /\ Range(w) = Range(u) \cup {e}
      /\ OnceIn(w, p.always)
  <2>1. OnceIn(u, p.always)
    BY <1>2 DEF Sound
  <2> QED
    BY <1>7, <1>8, <2>1, Appended
<1>10. Sound(w, p)
  BY <1>2, <1>4, <1>9 DEF Sound
<1>11. ASSUME NEW x \in p.always
       PROVE  x \in Range(w) <=> \E k \in DOMAIN b.array : k < b.slot + 1 /\ b.array[k] = x
  <2>1. ASSUME x \in Range(u)
        PROVE  \E k \in DOMAIN b.array : k < b.slot + 1 /\ b.array[k] = x
    <3>1. PICK k \in DOMAIN b.array : k < b.slot /\ b.array[k] = x
      BY <1>2, <2>1
    <3>2. k < b.slot + 1
      BY <1>1, <3>1
    <3> QED
      BY <3>1, <3>2
  <2>2. ASSUME x = e
        PROVE  \E k \in DOMAIN b.array : k < b.slot + 1 /\ b.array[k] = x
    <3>1. b.slot \in DOMAIN b.array /\ b.array[b.slot] = x
      BY <1>6, <2>2
    <3>2. b.slot < b.slot + 1
      OBVIOUS
    <3> QED
      BY <3>1, <3>2
  <2>3. ASSUME NEW k \in DOMAIN b.array, k < b.slot + 1, b.array[k] = x
        PROVE  x \in Range(w)
    <3>1. k < b.slot \/ k = b.slot
      BY <1>1, <2>3
    <3>2. CASE k < b.slot
      BY <1>2, <1>9, <2>3, <3>2
    <3>3. CASE k = b.slot
      <4>1. b.found = x
        BY <1>2, <2>3, <3>3
      <4>2. e = x
        BY <1>3, <2>3, <3>3, <4>1
      <4> QED
        BY <1>9, <4>2
    <3> QED
      BY <3>1, <3>2, <3>3
  <2> QED
    BY <1>9, <2>1, <2>2, <2>3
<1> QED
  BY <1>8, <1>10, <1>11 DEF SlotInv

\* A bucket more is listed: what is always in it is in the message.
LEMMA BucketListed ==
  ASSUME NEW s \in Seq(Words), NEW u \in Seq(Words), NEW p \in WitnessType, NEW d \in DumpType,
         NEW b, d.held, Progress(s, p, d), ArrayInv(b, p, d), SlotInv(b, u, p),
         b.array \in Seq(Elems \cup {Hole}), b.slot \in Nat, b.slot > Len(b.array),
         NEW r, r.held, r.bits = d.bits, r.arg0 = d.arg0 + 1
  PROVE  Progress(s \o u, p, r)
<1>1. /\ d.arg0 \in Nat /\ d.bits \in MinBits .. MaxBits /\ p.always \in SUBSET Elems
  <2>1. d.arg0 \in 0 .. jhash_size(MaxBits) /\ jhash_size(MaxBits) \in Nat
    BY ListingAssumption DEF DumpType
  <2> QED
    BY <2>1 DEF DumpType, WitnessType
<1>2. /\ Sound(s, p) /\ Sound(u, p)
      /\ \A e \in p.always : e \in Range(s) <=> Key(e, d.bits) < d.arg0
  BY DEF Progress, SlotInv
<1>3. \A e \in p.always : Key(e, d.bits) \in Nat /\ e # Hole
  BY <1>1, KeyFacts, NoWord
<1>4. ASSUME NEW e \in p.always PROVE e \in Range(u) <=> Key(e, d.bits) = d.arg0
  <2>1. DOMAIN b.array = 1 .. Len(b.array) /\ Len(b.array) \in Nat
    BY LenProperties
  <2>2. \A k \in DOMAIN b.array : k < b.slot
    BY <2>1
  <2>3. e \in Range(u) <=> \E k \in DOMAIN b.array : b.array[k] = e
    BY <2>2 DEF SlotInv
  <2>4. Key(e, d.bits) = d.arg0 => \E k \in DOMAIN b.array : b.array[k] = e
    BY DEF ArrayInv
  <2>5. ASSUME NEW k \in DOMAIN b.array, b.array[k] = e PROVE Key(e, d.bits) = d.arg0
    BY <1>3, <2>5 DEF ArrayInv
  <2> QED
    BY <2>3, <2>4, <2>5
<1>5. \A e \in p.always : e \in Range(u) => e \notin Range(s)
  BY <1>1, <1>2, <1>3, <1>4
<1>6. PICK w : w = s \o u
  OBVIOUS
<1>7. Range(w) = Range(s) \cup Range(u)
  BY <1>6, RangeConcatenation
<1>8. Sound(w, p)
  <2>1. OnceIn(w, p.always)
    BY <1>2, <1>5, <1>6, Joined DEF Sound
  <2> QED
    BY <1>2, <1>7, <2>1 DEF Sound
<1>9. ASSUME NEW e \in p.always PROVE e \in Range(w) <=> Key(e, d.bits) < d.arg0 + 1
  <2>1. PICK k : k = Key(e, d.bits)
    OBVIOUS
  <2>2. k \in Nat /\ (e \in Range(w) <=> k < d.arg0 \/ k = d.arg0)
    BY <1>2, <1>3, <1>4, <1>7, <2>1
  <2> QED
    BY <1>1, <2>1, <2>2
<1> QED
  BY <1>6, <1>8, <1>9 DEF Progress

-----------------------------------------------------------------------------
(* The steps of domain_set_dump_start and mtype_list.                      *)

\* Steps of the kernel that leave to the program what it has.
LEMMA KernelStep ==
  ASSUME TypeOK, RunInv, session.status = "run",
         UNCHANGED <<set, session, out, present>>,
         dump' \in DumpType, DumpInv(dump', set, present),
         bucket' # NoBucket => bucket' \in BucketType,
         \/ msg' = msg
         \/ /\ msg # NoMsg /\ msg' # NoMsg /\ msg' \in MsgType
            /\ Len(msg'.elems) <= IF msg'.header THEN HeadMax ELSE MsgMax
            /\ msg'.name = msg.name /\ msg'.header = msg.header,
         dump'.pc = "list" => msg' # NoMsg,
         ProgressInv(dump', bucket', out, session, msg', present)
  PROVE  TypeOK' /\ RunInv' /\ session'.status = "run"
<1>1. msg' # NoMsg => msg' \in MsgType /\ Len(msg'.elems) <= IF msg'.header THEN HeadMax ELSE MsgMax
  BY TypeFacts
<1>2. TypeOK'
  BY <1>1 DEF TypeOK, DumpType
<1>3. /\ msg' = NoMsg <=> msg = NoMsg
      /\ msg' # NoMsg => msg'.name = msg.name /\ msg'.header = msg.header
  OBVIOUS
<1>4. NameInv(dump', out', session', msg', present')
  BY <1>3, Zenon DEF RunInv, NameInv
<1>5. OutInv(out', session') /\ BehindInv(out', session', present')
  BY Zenon DEF RunInv
<1>6. ProgressInv(dump', bucket', out', session', msg', present')
  BY Zenon
<1>7. DumpInv(dump', set', present')
  BY Zenon
<1> QED
  BY <1>2, <1>4, <1>5, <1>6, <1>7 DEF RunInv

\* While a set is listed.
LEMMA AtSet ==
  ASSUME TypeOK, RunInv, dump.pc = "list"
  PROVE  /\ dump.held /\ dump.first <= dump.arg0 /\ dump.arg0 <= jhash_size(dump.bits)
         /\ dump.index < MaxIndex /\ msg # NoMsg /\ present # <<>>
         /\ Len(present) \in Nat /\ Len(present) \in 1 .. Len(present)
         /\ present[Len(present)] \in WitnessType
         /\ present[Len(present)].always \in SUBSET Elems
         /\ present[Len(present)].always \subseteq dump.table
         /\ dump.table \subseteq present[Len(present)].ever
         /\ Heard(out, session, Len(present)) \in Seq(Words)
<1>1. /\ dump.held /\ dump.first <= dump.arg0 /\ present # <<>> /\ dump.index < MaxIndex
      /\ present[Len(present)].always \subseteq dump.table
      /\ dump.table \subseteq present[Len(present)].ever
      /\ dump.arg0 <= jhash_size(dump.bits)
  BY Zenon DEF RunInv, DumpInv
<1>2. msg # NoMsg
  BY Zenon DEF RunInv, NameInv
<1>3. /\ present \in Seq(WitnessType) /\ out \in Seq(SectionType) /\ session \in SessionType
  BY TypeFacts
<1>4. /\ Len(present) \in Nat /\ 1 <= Len(present) /\ Len(present) \in 1 .. Len(present)
      /\ present[Len(present)] \in WitnessType
  BY <1>1, <1>3, LastEntry
<1>5. Heard(out, session, Len(present)) \in Seq(Words)
  BY <1>3, <1>4, HeardIsList
<1>6. present[Len(present)].always \in SUBSET Elems
  BY <1>4 DEF WitnessType
<1> QED
  BY <1>1, <1>2, <1>4, <1>5, <1>6

\* While a bucket is read.
LEMMA AtBucket ==
  ASSUME TypeOK, RunInv, bucket # NoBucket
  PROVE  /\ dump.pc = "list" /\ dump.arg0 < jhash_size(dump.bits)
         /\ \E v, u \in Seq(Words) :
              Parts(msg.elems, v, u, Heard(out, session, Len(present)), bucket,
                    present[Len(present)], dump)
BY Zenon DEF RunInv, ProgressInv, Reading

\* Between two buckets.
LEMMA BetweenBuckets ==
  ASSUME TypeOK, RunInv, bucket = NoBucket, dump.pc = "list"
  PROVE  Progress(Heard(out, session, Len(present)) \o msg.elems, present[Len(present)], dump)
<1>1. msg # NoMsg /\ present # <<>>
  BY AtSet
<1> QED
  BY <1>1, Zenon DEF RunInv, ProgressInv, Listed, Coming

\* domain_set_dump_start at an index without a set.
LEMMA DumpSkipStep ==
  ASSUME TypeOK, RunInv, session.status = "run", DumpSkip
  PROVE  TypeOK' /\ RunInv' /\ session'.status = "run"
<1>1. /\ dump.pc = "scan" /\ dump.index < MaxIndex /\ set[dump.index] = NoSet
      /\ dump' = [dump EXCEPT !.index = dump.index + 1]
      /\ UNCHANGED <<set, bucket, msg, session, out, present>>
  BY DEF DumpSkip
<1>2. dump \in DumpType /\ dump.index + 1 \in 0 .. MaxIndex
  BY <1>1, TypeFacts
<1>3. /\ dump' \in DumpType
      /\ IsDump(dump', dump.pc, dump.index + 1, dump.held, dump.first, dump.arg0, dump.bits,
                dump.table, dump.elems, dump.moved)
  BY <1>1, <1>2, SetIndex
<1>4. ~dump.held
  <2>1. DumpInv(dump, set, present)
    BY DEF RunInv
  <2>2. CASE dump.held
    <3>1. present # <<>> /\ set[dump.index] = present[Len(present)].name
      BY <2>1, <2>2, Zenon DEF DumpInv
    <3>2. present \in Seq(WitnessType)
      BY TypeFacts
    <3>3. present[Len(present)].name \in Names
      BY <3>1, <3>2, LastEntry, EntryTypes
    <3> QED
      BY <1>1, <3>1, <3>3, ListingAssumption
  <2> QED
    BY <2>2
<1>5. DumpInv(dump', set, present)
  <2>1. dump.pc = "scan" => (dump.held <=> dump.arg0 # 0)
    BY Zenon DEF RunInv, DumpInv
  <2> QED
    BY <1>1, <1>3, <1>4, <2>1 DEF DumpInv, IsDump
<1>6. bucket = NoBucket /\ (present # <<>> =>
        Progress(Listed(out, session, msg, Len(present)), present[Len(present)], dump))
  BY <1>1, NoBucketOnTheWay
<1>7. present # <<>> =>
        Progress(Listed(out, session, msg, Len(present)), present[Len(present)], dump')
  BY <1>3, <1>4, <1>6, Zenon DEF Progress, IsDump
<1>8. ProgressInv(dump', bucket', out, session, msg', present)
  BY <1>1, <1>6, <1>7, Zenon DEF ProgressInv
<1> QED
  BY <1>1, <1>3, <1>5, <1>6, <1>8, KernelStep DEF IsDump

\* The whole set is listed.
LEMMA SetListedStep ==
  ASSUME TypeOK, RunInv, session.status = "run", SetListed
  PROVE  TypeOK' /\ RunInv' /\ session'.status = "run"
<1>1. /\ dump.pc = "list" /\ bucket = NoBucket /\ dump.arg0 = jhash_size(dump.bits)
      /\ dump' = DumpAt(dump.index + 1)
      /\ UNCHANGED <<set, bucket, msg, session, out, present>>
  BY DEF SetListed
<1>2. /\ dump.held /\ dump.index < MaxIndex /\ msg # NoMsg
      /\ present[Len(present)].always \in SUBSET Elems
  BY <1>1, AtSet
<1>3. /\ dump.index + 1 \in 0 .. MaxIndex /\ dump.bits \in MinBits .. MaxBits
  BY <1>2, TypeFacts
<1>4. /\ dump' \in DumpType
      /\ IsDump(dump', "scan", dump.index + 1, FALSE, 0, 0, MinBits, {}, {}, FALSE)
  BY <1>1, <1>3, AtIndex
<1>5. DumpInv(dump', set, present)
  BY <1>4 DEF DumpInv, IsDump
<1>6. Progress(Listed(out, session, msg, Len(present)), present[Len(present)], dump')
  <2>1. PICK s : s = Listed(out, session, msg, Len(present))
    OBVIOUS
  <2>2. PICK p : p = present[Len(present)]
    OBVIOUS
  <2>3. Progress(s, p, dump)
    BY <1>1, <1>2, <2>1, <2>2, BetweenBuckets, Zenon DEF Listed, Coming
  <2>4. \A e \in p.always : Key(e, dump.bits) < dump.arg0
    BY <1>1, <1>2, <1>3, <2>2, KeyFacts
  <2>5. p.always \subseteq Range(s)
    BY <1>2, <2>3, <2>4 DEF Progress
  <2>6. Progress(s, p, dump')
    BY <1>4, <2>3, <2>5 DEF Progress, IsDump
  <2> QED
    BY <2>1, <2>2, <2>6
<1>7. ProgressInv(dump', bucket', out, session, msg', present)
  BY <1>1, <1>6, Zenon DEF ProgressInv
<1> QED
  BY <1>1, <1>2, <1>4, <1>5, <1>7, KernelStep DEF IsDump

\* The parts of a message, with other parts of the bucket.
LEMMA StillReading ==
  ASSUME TypeOK, RunInv, session.status = "run", bucket # NoBucket,
         UNCHANGED <<set, dump, session, out, present>>,
         bucket' # NoBucket, bucket' \in BucketType,
         NEW v \in Seq(Words), NEW u \in Seq(Words),
         Parts(msg'.elems, v, u, Heard(out, session, Len(present)), bucket',
               present[Len(present)], dump),
         \/ msg' = msg
         \/ /\ msg # NoMsg /\ msg' # NoMsg /\ msg' \in MsgType
            /\ Len(msg'.elems) <= IF msg'.header THEN HeadMax ELSE MsgMax
            /\ msg'.name = msg.name /\ msg'.header = msg.header
  PROVE  TypeOK' /\ RunInv' /\ session'.status = "run"
<1>1. dump.pc = "list" /\ dump.arg0 < jhash_size(dump.bits)
  BY AtBucket
<1>2. msg # NoMsg
  BY <1>1, AtSet
<1>3. dump \in DumpType /\ DumpInv(dump, set, present)
  BY TypeFacts DEF RunInv
<1>4. Reading(msg'.elems, Heard(out, session, Len(present)), bucket', present[Len(present)], dump)
  BY Zenon DEF Reading
<1>5. ProgressInv(dump', bucket', out, session, msg', present)
  BY <1>1, <1>4, Zenon DEF ProgressInv
<1>6. dump' \in DumpType /\ DumpInv(dump', set, present)
  BY <1>3, Zenon
<1>7. msg' # NoMsg
  BY <1>2
<1> QED
  BY <1>5, <1>6, <1>7, KernelStep

\* mtype_list reads a bucket of the table.
LEMMA ReadBucketStep ==
  ASSUME TypeOK, RunInv, session.status = "run", ReadBucket
  PROVE  TypeOK' /\ RunInv' /\ session'.status = "run"
<1>1. /\ dump.pc = "list" /\ bucket = NoBucket /\ dump.arg0 < jhash_size(dump.bits)
      /\ UNCHANGED <<set, dump, msg, session, out, present>>
  BY DEF ReadBucket
<1>2. PICK h \in 0 .. MaxHoles : \E a \in Arrays(NextBucket, h) :
        bucket' = [array |-> a, slot |-> 1, found |-> Hole, current |-> TRUE,
                   trim |-> Len(msg.elems)]
  BY DEF ReadBucket
<1>3. PICK a \in Arrays(NextBucket, h) :
        bucket' = [array |-> a, slot |-> 1, found |-> Hole, current |-> TRUE,
                   trim |-> Len(msg.elems)]
  BY <1>2
<1>4. /\ msg # NoMsg /\ dump \in DumpType /\ dump.table \in SUBSET Elems
      /\ msg.elems \in Seq(Words) /\ Len(msg.elems) \in Nat
  <2>1. msg # NoMsg
    BY <1>1, AtSet
  <2>2. /\ dump \in DumpType /\ dump.table \in SUBSET Elems /\ msg.elems \in Seq(Words)
    BY <2>1, TypeFacts
  <2> QED
    BY <2>1, <2>2, LenProperties
<1>5. /\ bucket'.array = a /\ bucket'.slot = 1 /\ bucket'.found = Hole /\ bucket'.trim = Len(msg.elems)
  BY <1>3
<1>6. a \in Seq(Elems \cup {Hole})
  <2>1. NextBucket \in SUBSET Elems
    BY <1>4 DEF NextBucket, Bucket
  <2> QED
    BY <1>2, <2>1, ArraysFacts
<1>7. bucket' \in BucketType /\ bucket' # NoBucket
  <2>1. 1 \in Nat \ {0} /\ TRUE \in BOOLEAN /\ Hole \in Words \cup {Hole}
    OBVIOUS
  <2>2. bucket' \in BucketType
    BY <1>3, <1>4, <1>6, <2>1 DEF BucketType
  <2> QED
    BY <2>2, ListingAssumption
<1>8. PICK p : p = present[Len(present)]
  OBVIOUS
<1>9. p \in WitnessType /\ p.always \subseteq dump.table /\ dump.table \subseteq p.ever
  BY <1>1, <1>8, AtSet
<1>10. PICK b : b = bucket'
  OBVIOUS
<1>11. ArrayInv(b, p, dump) /\ SlotInv(b, <<>>, p)
  <2>1. b.array = a /\ b.slot = 1 /\ b.found = Hole
    BY <1>5, <1>10
  <2>2. a \in Arrays(Bucket(dump.table, dump.bits, dump.arg0), h)
    BY DEF NextBucket
  <2> QED
    BY <1>2, <1>4, <1>9, <2>1, <2>2, BucketBegun
<1>12. PICK s : s = Heard(out, session, Len(present))
  OBVIOUS
<1>13. PICK v : v = msg.elems
  OBVIOUS
<1>14. v \in Seq(Words) /\ v = v \o <<>> /\ <<>> \in Seq(Words)
  BY <1>4, <1>13, ConcatEmptySeq, EmptySeq
<1>15. Progress(s \o v, p, dump)
  BY <1>1, <1>8, <1>12, <1>13, BetweenBuckets
<1>16. Parts(v, v, <<>>, s, b, p, dump)
  BY <1>5, <1>10, <1>11, <1>13, <1>14, <1>15 DEF Parts
<1>17. Reading(msg.elems, Heard(out, session, Len(present)), bucket', present[Len(present)], dump)
  BY <1>8, <1>10, <1>12, <1>13, <1>14, <1>16, Zenon DEF Reading
<1>18. ProgressInv(dump', bucket', out, session, msg', present)
  BY <1>1, <1>7, <1>17, Zenon DEF ProgressInv
<1>19. dump' \in DumpType /\ DumpInv(dump', set, present)
  BY <1>1, <1>4, Zenon DEF RunInv
<1> QED
  BY <1>1, <1>4, <1>7, <1>18, <1>19, KernelStep

\* test_bit on a slot.
LEMMA TestSlotStep ==
  ASSUME TypeOK, RunInv, session.status = "run", TestSlot
  PROVE  TypeOK' /\ RunInv' /\ session'.status = "run"
<1>1. /\ bucket # NoBucket /\ bucket.found = Hole /\ bucket.slot <= Len(bucket.array)
      /\ bucket' = IF bucket.array[bucket.slot] = Hole
                   THEN [bucket EXCEPT !.slot = bucket.slot + 1]
                   ELSE [bucket EXCEPT !.found = bucket.array[bucket.slot]]
      /\ UNCHANGED <<set, dump, msg, session, out, present>>
  BY DEF TestSlot
<1>2. PICK b : b = bucket
  OBVIOUS
<1>3. /\ b \in BucketType /\ b.array \in Seq(Elems \cup {Hole}) /\ b.slot \in Nat /\ b.slot >= 1
  BY <1>1, <1>2, TypeFacts
<1>4. b.slot \in DOMAIN b.array /\ b.array[b.slot] \in Elems \cup {Hole}
  <2>1. DOMAIN b.array = 1 .. Len(b.array) /\ Len(b.array) \in Nat
    BY <1>3, LenProperties
  <2>2. b.slot \in 1 .. Len(b.array)
    BY <1>1, <1>2, <1>3, <2>1
  <2> QED
    BY <1>3, <2>1, <2>2, ElementOfSeq
<1>5. PICK p : p = present[Len(present)]
  OBVIOUS
<1>6. p.always \subseteq Elems
  BY <1>1, <1>5, AtBucket, AtSet
<1>7. PICK s : s = Heard(out, session, Len(present))
  OBVIOUS
<1>8. PICK v \in Seq(Words), u \in Seq(Words) : Parts(msg.elems, v, u, s, b, p, dump)
  BY <1>1, <1>2, <1>5, <1>7, AtBucket
<1>9. /\ msg.elems = v \o u /\ Len(v) = b.trim /\ Progress(s \o v, p, dump)
      /\ ArrayInv(b, p, dump) /\ SlotInv(b, u, p)
  BY <1>8 DEF Parts
<1>10. PICK r : r = bucket'
  OBVIOUS
<1>11. r \in BucketType /\ r.array = b.array /\ r.current = b.current /\ r.trim = b.trim
       /\ SlotInv(r, u, p)
  <2>1. CASE b.array[b.slot] = Hole
    <3>0. b.slot + 1 \in Nat \ {0}
      BY <1>3
    <3>1. r = [b EXCEPT !.slot = b.slot + 1] /\ b.slot + 1 \in Nat \ {0}
      BY <1>1, <1>2, <1>10, <2>1, <3>0, Zenon
    <3>2. r \in BucketType /\ IsBucket(r, b.array, b.slot + 1, b.found, b.current, b.trim)
      BY <1>3, <3>1, SetSlot
    <3>3. r.found = Hole
      BY <1>1, <1>2, <3>2 DEF IsBucket
    <3>4. SlotInv(r, u, p)
      BY <1>3, <1>6, <1>9, <2>1, <3>2, <3>3, SlotSkipped DEF IsBucket
    <3> QED
      BY <3>2, <3>4 DEF IsBucket
  <2>2. CASE b.array[b.slot] # Hole
    <3>1. /\ r = [b EXCEPT !.found = b.array[b.slot]]
          /\ b.array[b.slot] \in Words \cup {Hole}
      BY <1>1, <1>2, <1>4, <1>10, <2>2 DEF Words
    <3>2. /\ r \in BucketType
          /\ IsBucket(r, b.array, b.slot, b.array[b.slot], b.current, b.trim)
      BY <1>3, <3>1, SetFound
    <3>3. SlotInv(r, u, p)
      BY <1>4, <1>9, <2>2, <3>2, SlotFound DEF IsBucket
    <3> QED
      BY <3>2, <3>3 DEF IsBucket
  <2> QED
    BY <2>1, <2>2
<1>12. ArrayInv(r, p, dump)
  BY <1>9, <1>11 DEF ArrayInv
<1>13. Parts(msg.elems, v, u, s, r, p, dump)
  BY <1>9, <1>11, <1>12 DEF Parts
<1>14. bucket' \in BucketType /\ bucket' # NoBucket
  BY <1>10, <1>11, ListingAssumption
<1>15. Parts(msg'.elems, v, u, Heard(out, session, Len(present)), bucket',
             present[Len(present)], dump)
  BY <1>1, <1>5, <1>7, <1>10, <1>13, Zenon
<1> QED
  BY <1>1, <1>14, <1>15, StillReading

\* An element goes into the message.
LEMMA CopySlotStep ==
  ASSUME TypeOK, RunInv, session.status = "run", CopySlot
  PROVE  TypeOK' /\ RunInv' /\ session'.status = "run"
<1>1. /\ bucket # NoBucket /\ bucket.found # Hole /\ Fits
      /\ bucket' = [bucket EXCEPT !.slot = bucket.slot + 1, !.found = Hole]
      /\ UNCHANGED <<set, dump, session, out, present>>
  BY DEF CopySlot
<1>2. PICK e \in Copied : msg' = [msg EXCEPT !.elems = Append(msg.elems, e)]
  BY DEF CopySlot
<1>3. PICK b : b = bucket
  OBVIOUS
<1>4. /\ b \in BucketType /\ b.array \in Seq(Elems \cup {Hole}) /\ b.slot \in Nat
      /\ b.found \in Words
  <2>1. b \in BucketType /\ b.array \in Seq(Elems \cup {Hole}) /\ b.slot \in Nat
        /\ b.found \in Words \cup {Hole}
    BY <1>1, <1>3, TypeFacts
  <2> QED
    BY <1>1, <1>3, <2>1
<1>5. /\ e \in Words
      /\ e = b.found \/ (e = Garbled /\ FreeSlot(b.array) = b.slot)
  BY <1>3, <1>4, NoWord DEF Copied
<1>6. msg # NoMsg
  BY <1>1, AtBucket, AtSet
<1>7. /\ msg \in MsgType /\ msg.elems \in Seq(Words) /\ Len(msg.elems) \in Nat
  BY <1>6, TypeFacts, LenProperties
<1>8. PICK p : p = present[Len(present)]
  OBVIOUS
<1>9. p.always \subseteq Elems
  BY <1>1, <1>8, AtBucket, AtSet
<1>10. PICK s : s = Heard(out, session, Len(present))
  OBVIOUS
<1>11. PICK v \in Seq(Words), u \in Seq(Words) : Parts(msg.elems, v, u, s, b, p, dump)
  BY <1>1, <1>3, <1>8, <1>10, AtBucket
<1>12. /\ msg.elems = v \o u /\ Len(v) = b.trim /\ Progress(s \o v, p, dump)
       /\ ArrayInv(b, p, dump) /\ SlotInv(b, u, p)
  BY <1>11 DEF Parts
<1>13. PICK w : w = Append(u, e)
  OBVIOUS
<1>14. w \in Seq(Words) /\ Append(msg.elems, e) = v \o w
  BY <1>5, <1>12, <1>13, Appended
<1>15. PICK x : x = Append(msg.elems, e)
  OBVIOUS
<1>16. x \in Seq(Words) /\ Len(x) = Len(msg.elems) + 1
  BY <1>5, <1>7, <1>15, AppendProperties
<1>17. /\ msg' \in MsgType /\ msg' # NoMsg /\ msg'.name = msg.name /\ msg'.header = msg.header
       /\ msg'.elems = x
  <2>1. msg' = [msg EXCEPT !.elems = x]
    BY <1>2, <1>15
  <2> QED
    BY <1>7, <1>16, <2>1, MsgWith
<1>18. Len(msg'.elems) <= IF msg'.header THEN HeadMax ELSE MsgMax
  <2>1. HeadMax \in Nat /\ MsgMax \in Nat
    BY ListingAssumption
  <2> QED
    BY <1>1, <1>7, <1>16, <1>17, <2>1 DEF Fits
<1>19. PICK r : r = bucket'
  OBVIOUS
<1>20. r \in BucketType /\ IsBucket(r, b.array, b.slot + 1, Hole, b.current, b.trim)
  <2>1. r = [b EXCEPT !.slot = b.slot + 1, !.found = Hole]
    BY <1>1, <1>3, <1>19
  <2>2. b.slot + 1 \in Nat \ {0} /\ Hole \in Words \cup {Hole}
    BY <1>4
  <2> QED
    BY <1>4, <2>1, <2>2, SetSlotFound, Zenon
<1>21. SlotInv(r, w, p)
  <2>1. b.found # Hole /\ r.array = b.array /\ r.slot = b.slot + 1 /\ r.found = Hole
    BY <1>1, <1>3, <1>20 DEF IsBucket
  <2>2. SlotInv(r, Append(u, e), p)
    BY <1>4, <1>5, <1>9, <1>12, <2>1, SlotCopied
  <2> QED
    BY <1>13, <2>2
<1>22. ArrayInv(r, p, dump)
  BY <1>12, <1>20 DEF ArrayInv, IsBucket
<1>23. Parts(x, v, w, s, r, p, dump)
  BY <1>12, <1>14, <1>15, <1>20, <1>21, <1>22 DEF Parts, IsBucket
<1>24. bucket' \in BucketType /\ bucket' # NoBucket
  BY <1>19, <1>20, ListingAssumption
<1>25. Parts(msg'.elems, v, w, Heard(out, session, Len(present)), bucket',
             present[Len(present)], dump)
  BY <1>8, <1>10, <1>17, <1>19, <1>23, Zenon
<1> QED
  BY <1>1, <1>6, <1>14, <1>17, <1>18, <1>24, <1>25, StillReading

\* The end of a bucket.
LEMMA EndBucketStep ==
  ASSUME TypeOK, RunInv, session.status = "run", EndBucket
  PROVE  TypeOK' /\ RunInv' /\ session'.status = "run"
<1>1. /\ bucket # NoBucket /\ bucket.slot > Len(bucket.array)
      /\ dump' = [dump EXCEPT !.arg0 = dump.arg0 + 1]
      /\ bucket' = NoBucket
      /\ UNCHANGED <<set, msg, session, out, present>>
  BY DEF EndBucket
<1>2. /\ bucket.array \in Seq(Elems \cup {Hole}) /\ bucket.slot \in Nat
      /\ dump \in DumpType /\ dump.arg0 \in Nat /\ dump.first \in Nat
      /\ dump.bits \in MinBits .. MaxBits
  BY <1>1, TypeFacts
<1>3. dump.pc = "list" /\ dump.arg0 < jhash_size(dump.bits)
  BY <1>1, AtBucket
<1>4. /\ dump.held /\ dump.first <= dump.arg0 /\ msg # NoMsg /\ present # <<>>
      /\ present[Len(present)] \in WitnessType
      /\ Heard(out, session, Len(present)) \in Seq(Words)
  BY <1>3, AtSet
<1>5. /\ dump.arg0 + 1 <= jhash_size(dump.bits)
      /\ dump.arg0 + 1 \in 0 .. jhash_size(MaxBits)
  <2>1. /\ jhash_size(dump.bits) \in Nat /\ jhash_size(dump.bits) <= jhash_size(MaxBits)
        /\ jhash_size(MaxBits) \in Nat
    BY <1>2, KeyFacts
  <2>2. dump.arg0 \in Nat /\ dump.arg0 < jhash_size(dump.bits)
    BY <1>2, <1>3
  <2> QED
    BY ONLY <2>1, <2>2
<1>6. /\ dump' \in DumpType
      /\ IsDump(dump', dump.pc, dump.index, dump.held, dump.first, dump.arg0 + 1, dump.bits,
                dump.table, dump.elems, dump.moved)
  BY <1>1, <1>2, <1>5, SetArg0
<1>7. DumpInv(dump', set, present)
  <2>1. dump.first <= dump.arg0 + 1
    BY <1>2, <1>4
  <2>2. DumpInv(dump, set, present)
    BY DEF RunInv
  <2> QED
    BY <1>3, <1>4, <1>5, <1>6, <2>1, <2>2 DEF DumpInv, IsDump
<1>8. PICK p : p = present[Len(present)]
  OBVIOUS
<1>9. PICK h : h = Heard(out, session, Len(present))
  OBVIOUS
<1>10. PICK v \in Seq(Words), u \in Seq(Words) : Parts(msg.elems, v, u, h, bucket, p, dump)
  BY <1>1, <1>8, <1>9, AtBucket
<1>11. /\ msg.elems = v \o u /\ Progress(h \o v, p, dump)
       /\ ArrayInv(bucket, p, dump) /\ SlotInv(bucket, u, p)
  BY <1>10 DEF Parts
<1>12. PICK s : s = h \o v
  OBVIOUS
<1>13. s \in Seq(Words) /\ s \o u = h \o msg.elems
  <2>1. h \in Seq(Words)
    BY <1>4, <1>9
  <2>2. s \in Seq(Words) /\ (h \o v) \o u = h \o (v \o u)
    BY <1>12, <2>1, ConcatProperties, ConcatAssociative
  <2> QED
    BY <1>11, <1>12, <2>2, Zenon
<1>14. PICK r : r = dump'
  OBVIOUS
<1>15. r.held /\ r.bits = dump.bits /\ r.arg0 = dump.arg0 + 1
  BY <1>4, <1>6, <1>14 DEF IsDump
<1>16. p \in WitnessType /\ Progress(s, p, dump)
  BY <1>4, <1>8, <1>11, <1>12
<1>17. Progress(s \o u, p, r)
  BY <1>1, <1>2, <1>4, <1>11, <1>13, <1>15, <1>16, BucketListed
<1>18. Progress(Listed(out, session, msg, Len(present)), present[Len(present)], dump')
  BY <1>4, <1>8, <1>9, <1>13, <1>14, <1>17, Zenon DEF Listed, Coming
<1>19. ProgressInv(dump', bucket', out, session, msg', present)
  BY <1>1, <1>18, Zenon DEF ProgressInv
<1> QED
  BY <1>1, <1>4, <1>6, <1>7, <1>19, KernelStep

\* nlmsg_trim: the message has what was in it before the bucket.
LEMMA TrimFacts ==
  ASSUME TypeOK, RunInv, session.status = "run", Trim
  PROVE  /\ dump.pc = "list" /\ msg # NoMsg /\ msg' # NoMsg /\ msg' \in MsgType
         /\ Len(msg'.elems) <= IF msg'.header THEN HeadMax ELSE MsgMax
         /\ msg'.name = msg.name /\ msg'.header = msg.header
         /\ UNCHANGED <<set, session, out, present>> /\ bucket' = NoBucket /\ present # <<>>
         /\ Progress(Listed(out, session, msg', Len(present)), present[Len(present)], dump)
<1>1. /\ bucket # NoBucket /\ bucket' = NoBucket
      /\ msg' = [msg EXCEPT !.elems = SubSeq(msg.elems, 1, bucket.trim)]
      /\ UNCHANGED <<set, session, out, present>>
  BY DEF Trim
<1>2. dump.pc = "list" /\ msg # NoMsg /\ present # <<>>
  BY <1>1, AtBucket, AtSet
<1>3. /\ msg \in MsgType /\ msg.elems \in Seq(Words)
      /\ Len(msg.elems) <= IF msg.header THEN HeadMax ELSE MsgMax
  BY <1>2, TypeFacts
<1>4. PICK p : p = present[Len(present)]
  OBVIOUS
<1>5. PICK h : h = Heard(out, session, Len(present))
  OBVIOUS
<1>6. PICK v \in Seq(Words), u \in Seq(Words) : Parts(msg.elems, v, u, h, bucket, p, dump)
  BY <1>1, <1>4, <1>5, AtBucket
<1>7. msg.elems = v \o u /\ Len(v) = bucket.trim /\ Progress(h \o v, p, dump)
  BY <1>6 DEF Parts
<1>8. SubSeq(msg.elems, 1, bucket.trim) = v /\ Len(v) <= Len(msg.elems)
  BY <1>7, Trimmed
<1>9. /\ msg' \in MsgType /\ msg' # NoMsg /\ msg'.name = msg.name /\ msg'.header = msg.header
      /\ msg'.elems = v
  <2>1. msg' = [msg EXCEPT !.elems = v]
    BY <1>1, <1>8
  <2> QED
    BY <1>3, <2>1, MsgWith
<1>10. Len(msg'.elems) <= IF msg'.header THEN HeadMax ELSE MsgMax
  <2>1. HeadMax \in Nat /\ MsgMax \in Nat /\ Len(v) \in Nat /\ Len(msg.elems) \in Nat
    BY <1>3, ListingAssumption, LenProperties
  <2> QED
    BY <1>3, <1>8, <1>9, <2>1
<1>11. Progress(Listed(out, session, msg', Len(present)), present[Len(present)], dump)
  BY <1>4, <1>5, <1>7, <1>9, Zenon DEF Listed, Coming
<1> QED
  BY <1>1, <1>2, <1>9, <1>10, <1>11

\* A message is full.
LEMMA MsgFullStep ==
  ASSUME TypeOK, RunInv, session.status = "run", MsgFull
  PROVE  TypeOK' /\ RunInv' /\ session'.status = "run"
<1>1. /\ Trim /\ dump.arg0 # dump.first
      /\ dump' = [dump EXCEPT !.pc = "scan", !.first = 0]
  BY DEF MsgFull
<1>2. /\ dump.pc = "list" /\ msg # NoMsg /\ msg' # NoMsg /\ msg' \in MsgType
      /\ Len(msg'.elems) <= IF msg'.header THEN HeadMax ELSE MsgMax
      /\ msg'.name = msg.name /\ msg'.header = msg.header
      /\ UNCHANGED <<set, session, out, present>> /\ bucket' = NoBucket
      /\ Progress(Listed(out, session, msg', Len(present)), present[Len(present)], dump)
  BY <1>1, TrimFacts
<1>3. /\ dump \in DumpType /\ 0 \in 0 .. jhash_size(MaxBits) /\ "scan" \in {"scan", "list", "cut"}
      /\ dump.arg0 \in Nat /\ dump.first \in Nat
  BY TypeFacts, ListingAssumption
<1>4. /\ dump' \in DumpType
      /\ IsDump(dump', "scan", dump.index, dump.held, 0, dump.arg0, dump.bits,
                dump.table, dump.elems, dump.moved)
  BY <1>1, <1>3, SetPcFirst, Zenon
<1>5. dump.held /\ dump.first <= dump.arg0
  BY <1>2, AtSet
<1>6. dump.arg0 # 0
  BY <1>1, <1>3, <1>5
<1>7. DumpInv(dump', set, present)
  <2>1. DumpInv(dump, set, present)
    BY DEF RunInv
  <2> QED
    BY <1>4, <1>5, <1>6, <2>1 DEF DumpInv, IsDump
<1>8. Progress(Listed(out, session, msg', Len(present)), present[Len(present)], dump')
  BY <1>2, <1>4, <1>5, Zenon DEF Progress, IsDump
<1>9. ProgressInv(dump', bucket', out, session, msg', present)
  BY <1>2, <1>8, Zenon DEF ProgressInv
<1> QED
  BY <1>2, <1>4, <1>7, <1>9, KernelStep

\* No message is large enough.
LEMMA MsgTooSmallStep ==
  ASSUME TypeOK, RunInv, session.status = "run", MsgTooSmall
  PROVE  TypeOK' /\ RunInv' /\ session'.status = "run"
<1>1. Trim /\ dump' = [DumpAt(MaxIndex) EXCEPT !.pc = "cut"]
  BY DEF MsgTooSmall
<1>2. /\ dump.pc = "list" /\ msg # NoMsg /\ msg' # NoMsg /\ msg' \in MsgType
      /\ Len(msg'.elems) <= IF msg'.header THEN HeadMax ELSE MsgMax
      /\ msg'.name = msg.name /\ msg'.header = msg.header
      /\ UNCHANGED <<set, session, out, present>> /\ bucket' = NoBucket
      /\ Progress(Listed(out, session, msg', Len(present)), present[Len(present)], dump)
  BY <1>1, TrimFacts
<1>3. MaxIndex \in 0 .. MaxIndex
  BY ListingAssumption
<1>4. /\ DumpAt(MaxIndex) \in DumpType
      /\ IsDump(DumpAt(MaxIndex), "scan", MaxIndex, FALSE, 0, 0, MinBits, {}, {}, FALSE)
  BY <1>3, AtIndex
<1>5. dump' \in DumpType /\ dump'.pc = "cut" /\ dump'.index = MaxIndex /\ dump'.held = FALSE
  <2>1. PICK d : d = DumpAt(MaxIndex)
    OBVIOUS
  <2>2. PICK r : r = dump'
    OBVIOUS
  <2>3. r = [d EXCEPT !.pc = "cut"] /\ "cut" \in {"scan", "list", "cut"} /\ d \in DumpType
    BY <1>1, <1>4, <2>1, <2>2
  <2>4. /\ r \in DumpType
        /\ IsDump(r, "cut", d.index, d.held, d.first, d.arg0, d.bits, d.table, d.elems, d.moved)
    BY <2>3, SetPc
  <2>5. d.index = MaxIndex /\ d.held = FALSE
    BY <1>4, <2>1 DEF IsDump
  <2> QED
    BY <2>2, <2>4, <2>5 DEF IsDump
<1>6. DumpInv(dump', set, present)
  BY <1>5 DEF DumpInv
<1>7. Progress(Listed(out, session, msg', Len(present)), present[Len(present)], dump')
  BY <1>2, <1>5 DEF Progress
<1>8. ProgressInv(dump', bucket', out, session, msg', present)
  BY <1>2, <1>7, Zenon DEF ProgressInv
<1> QED
  BY <1>2, <1>5, <1>6, <1>8, KernelStep

\* The set behind an index.
LEMMA SetFacts ==
  ASSUME TypeOK, NEW i \in Indices, set[i] # NoSet
  PROVE  set[i] \in Names
BY TypeFacts

\* A message with nothing in it yet.
LEMMA StartedMsg ==
  ASSUME NEW n \in Names, NEW h \in BOOLEAN, NEW m, m = [name |-> n, header |-> h, elems |-> <<>>]
  PROVE  /\ m # NoMsg /\ m \in MsgType /\ Len(m.elems) <= IF m.header THEN HeadMax ELSE MsgMax
         /\ m.name = n /\ m.header = h /\ m.elems = <<>>
<1>1. <<>> \in Seq(Words) /\ Len(<<>>) = 0 /\ MsgMax \in Nat /\ HeadMax \in Nat
  BY EmptySeq, ListingAssumption
<1>2. m \in MsgType
  BY <1>1 DEF MsgType
<1>3. m # NoMsg
  BY <1>2, ListingAssumption
<1> QED
  BY <1>1, <1>2, <1>3

\* Nothing has been listed of a set that the program does not know.
LEMMA NothingHeard ==
  ASSUME NEW o \in Seq(SectionType), NEW ss, NEW ms, ms # NoMsg, ms.elems = <<>>
  PROVE  Listed(o, ss, ms, Len(o) + 1) = <<>>
<1>1. Len(o) + 1 > Len(o)
  BY LenProperties
<1>2. Heard(o, ss, Len(o) + 1) = <<>>
  BY <1>1, Zenon DEF Heard
<1>3. <<>> \o <<>> = <<>>
  BY EmptySeq, ConcatEmptySeq
<1> QED
  BY <1>2, <1>3, Zenon DEF Listed, Coming

\* The first message of a set.
LEMMA FirstHeadStep ==
  ASSUME TypeOK, RunInv, session.status = "run",
         dump.pc = "scan", msg = NoMsg, dump.index < MaxIndex, set[dump.index] # NoSet,
         msg' = StartMsg(set[dump.index]), UNCHANGED <<set, bucket, session, out>>,
         NEW S \in SUBSET Elems, NEW b \in MinBits .. MaxBits, dump.arg0 = 0,
         dump' = [DumpAt(dump.index) EXCEPT !.pc = "list", !.held = TRUE,
                    !.bits = b, !.table = S, !.elems = S],
         present' = Append(present, [name |-> set[dump.index], always |-> S, ever |-> S])
  PROVE  TypeOK' /\ RunInv' /\ session'.status = "run"
<1> DEFINE n == Len(present)
<1>1. PICK s : s = set[dump.index]
  OBVIOUS
<1>2. /\ out \in Seq(SectionType) /\ Len(out) \in Nat /\ session \in SessionType
      /\ present \in Seq(WitnessType) /\ n \in Nat /\ dump.index \in Indices
      /\ dump.held \in BOOLEAN /\ dump.index \in 0 .. MaxIndex
  <2>1. dump.index \in Nat /\ MaxIndex \in Nat
    BY TypeFacts
  <2>2. dump.index \in Indices /\ dump.index \in 0 .. MaxIndex
    BY <2>1 DEF Indices
  <2> QED
    BY <2>2, TypeFacts
<1>3. s \in Names
  BY <1>1, <1>2, SetFacts
<1>4. /\ dump' \in DumpType
      /\ IsDump(dump', "list", dump.index, TRUE, 0, 0, b, S, S, FALSE)
  <2>1. PICK d : d = DumpAt(dump.index)
    OBVIOUS
  <2>2. d \in DumpType /\ IsDump(d, "scan", dump.index, FALSE, 0, 0, MinBits, {}, {}, FALSE)
    BY <1>2, <2>1, AtIndex
  <2>3. dump' = [d EXCEPT !.pc = "list", !.held = TRUE, !.bits = b, !.table = S, !.elems = S]
    BY <2>1, Zenon
  <2>4. /\ dump' \in DumpType
        /\ IsDump(dump', "list", d.index, TRUE, d.first, d.arg0, b, S, S, d.moved)
    BY <2>2, <2>3, SetHead, Zenon
  <2> QED
    BY <2>2, <2>4, Zenon DEF IsDump
<1>5. PICK w : w = [name |-> s, always |-> S, ever |-> S]
  OBVIOUS
<1>6. w \in WitnessType /\ w.name = s /\ w.always = S /\ w.ever = S
  BY <1>3, <1>5 DEF WitnessType
<1>7. present' = Append(present, w)
  BY <1>1, <1>5, Zenon
<1>8. /\ present' \in Seq(WitnessType) /\ present' # <<>> /\ Len(present') = n + 1
      /\ \A k \in 1 .. n : present'[k] = present[k]
      /\ present'[n + 1] = w
  BY <1>2, <1>6, <1>7, AppendProperties
<1>9. /\ msg' # NoMsg /\ msg' \in MsgType
      /\ Len(msg'.elems) <= IF msg'.header THEN HeadMax ELSE MsgMax
      /\ msg'.name = s /\ msg'.header = TRUE /\ msg'.elems = <<>>
  <2>1. PICK h \in BOOLEAN : h = TRUE /\ h = (dump.arg0 = 0)
    OBVIOUS
  <2>2. msg' = [name |-> s, header |-> h, elems |-> <<>>]
    BY <1>1, <2>1, Zenon DEF StartMsg
  <2>3. PICK m : m = msg'
    OBVIOUS
  <2>4. /\ m # NoMsg /\ m \in MsgType /\ Len(m.elems) <= IF m.header THEN HeadMax ELSE MsgMax
        /\ m.name = s /\ m.header = h /\ m.elems = <<>>
    BY <1>3, <2>2, <2>3, StartedMsg
  <2> QED
    BY <2>1, <2>3, <2>4, Zenon
<1>10. n = Len(out) /\ \A k \in 1 .. Len(out) : out[k].name = present[k].name
  <2>1. NameInv(dump, out, session, msg, present)
    BY DEF RunInv
  <2>2. n = Len(out) + 0
    BY <2>1 DEF NameInv
  <2> QED
    BY <1>2, <2>1, <2>2 DEF NameInv
<1>11. ~dump.held
  <2>1. dump.pc = "scan" => (dump.held <=> dump.arg0 # 0)
    BY Zenon DEF RunInv, DumpInv
  <2> QED
    BY <2>1
<1>12. bucket = NoBucket /\ (present # <<>> => Progress(Listed(out, session, msg, n), present[n], dump))
  BY NoBucketOnTheWay
<1>13. TypeOK'
  BY <1>4, <1>8, <1>9, <1>12 DEF TypeOK, DumpType, WitnessType
<1>14. DumpInv(dump', set', present')
  <2>1. dump'.arg0 <= jhash_size(dump'.bits) /\ dump'.first <= dump'.arg0
    BY <1>4, KeyFacts DEF IsDump
  <2>2. /\ dump'.held /\ dump'.index < MaxIndex /\ set'[dump'.index] = s
        /\ dump'.table = S /\ dump'.elems = S /\ dump'.pc = "list"
    BY <1>1, <1>4 DEF IsDump
  <2>3. present'[Len(present')] = w
    BY <1>8
  <2> QED
    BY <1>6, <1>8, <2>1, <2>2, <2>3 DEF DumpInv
<1>15. NameInv(dump', out', session', msg', present')
  <2>1. NameInv(dump, out, session, msg, present)
    BY DEF RunInv
  <2>2. Len(present') = Len(out') + 1
    BY <1>8, <1>10
  <2>3. \A k \in 1 .. Len(out') : out'[k].name = present'[k].name
    BY <1>8, <1>10
  <2>4. msg'.name = present'[Len(present')].name
    BY <1>6, <1>8, <1>9
  <2>5. session'.saved_setname = IF out' = <<>> THEN NoName ELSE out'[Len(out')].name
    BY <2>1 DEF NameInv
  <2> QED
    BY <1>8, <1>9, <2>2, <2>3, <2>4, <2>5 DEF NameInv
<1>16. BehindInv(out', session', present')
  <2>1. ASSUME NEW k \in 1 .. n PROVE Whole(Heard(out, session, k), present[k])
    <3>1. CASE k # n
      <4>1. k \in 1 .. n - 1
        BY <1>2, <3>1
      <4> QED
        BY <4>1 DEF RunInv, BehindInv
    <3>2. CASE k = n
      <4>1. present # <<>>
        BY <1>2, <3>2, EmptySeq
      <4>2. Progress(Listed(out, session, msg, n), present[n], dump)
        BY <1>12, <4>1
      <4>3. Heard(out, session, n) \in Seq(Words)
        BY <1>2, <3>2, HeardIsList
      <4>4. Heard(out, session, n) \o <<>> = Heard(out, session, n)
        BY <4>3, ConcatEmptySeq
      <4>5. Listed(out, session, msg, n) = Heard(out, session, n)
        BY <4>4, Zenon DEF Listed, Coming
      <4>6. Progress(Heard(out, session, n), present[n], dump)
        BY <4>2, <4>5, Zenon
      <4>7. dump.pc # "cut"
        OBVIOUS
      <4>8. Whole(Heard(out, session, n), present[n])
        BY <1>11, <4>6, <4>7, Zenon DEF Progress, Whole
      <4> QED
        BY <3>2, <4>8
    <3> QED
      BY <3>1, <3>2
  <2>2. (n + 1) - 1 = n
    BY <1>2
  <2> QED
    BY <1>8, <2>1, <2>2 DEF BehindInv
<1>17. ProgressInv(dump', bucket', out', session', msg', present')
  <2>1. Listed(out, session, msg', n + 1) = <<>>
    BY <1>2, <1>9, <1>10, NothingHeard
  <2>2. Sound(<<>>, w) /\ Range(<<>>) = {}
    BY DEF Sound, OnceIn, Range
  <2>3. \A e \in w.always : ~(Key(e, b) < 0)
    <3>1. \A e \in w.always : e \in Elems
      BY <1>6
    <3> QED
      BY <3>1, KeyFacts
  <2>4. Progress(<<>>, w, dump')
    <3>1. dump'.held /\ dump'.bits = b /\ dump'.arg0 = 0
      BY <1>4 DEF IsDump
    <3> QED
      BY <2>2, <2>3, <3>1 DEF Progress
  <2> QED
    BY <1>8, <1>12, <2>1, <2>4, Zenon DEF ProgressInv
<1>18. OutInv(out', session')
  BY Zenon DEF RunInv
<1> QED
  BY <1>13, <1>14, <1>15, <1>16, <1>17, <1>18, Zenon DEF RunInv

\* A further message of a set.
LEMMA NextHeadStep ==
  ASSUME TypeOK, RunInv, session.status = "run",
         dump.pc = "scan", msg = NoMsg, dump.index < MaxIndex, set[dump.index] # NoSet,
         msg' = StartMsg(set[dump.index]), UNCHANGED <<set, bucket, session, out>>,
         dump.arg0 # 0, dump' = [dump EXCEPT !.pc = "list", !.first = dump.arg0],
         UNCHANGED present
  PROVE  TypeOK' /\ RunInv' /\ session'.status = "run"
<1> DEFINE n == Len(present)
<1>1. PICK s : s = set[dump.index]
  OBVIOUS
<1>2. /\ dump \in DumpType /\ out \in Seq(SectionType) /\ Len(out) \in Nat /\ session \in SessionType
      /\ present \in Seq(WitnessType) /\ n \in Nat /\ dump.index \in Indices
      /\ dump.arg0 \in 0 .. jhash_size(MaxBits) /\ dump.arg0 \in Nat
  <2>1. dump.index \in Nat /\ MaxIndex \in Nat
    BY TypeFacts
  <2>2. dump.index \in Indices
    BY <2>1 DEF Indices
  <2>3. dump.arg0 \in 0 .. jhash_size(MaxBits)
    BY TypeFacts DEF DumpType
  <2> QED
    BY <2>2, <2>3, TypeFacts
<1>3. s \in Names
  BY <1>1, <1>2, SetFacts
<1>4. /\ dump' \in DumpType
      /\ IsDump(dump', "list", dump.index, dump.held, dump.arg0, dump.arg0, dump.bits,
                dump.table, dump.elems, dump.moved)
  <2>1. "list" \in {"scan", "list", "cut"}
    OBVIOUS
  <2> QED
    BY <1>2, <2>1, SetPcFirst, Zenon
<1>5. DumpInv(dump, set, present)
  BY DEF RunInv
<1>6. dump.held /\ present # <<>> /\ s = present[n].name
  BY <1>1, <1>5 DEF DumpInv
<1>7. /\ msg' # NoMsg /\ msg' \in MsgType
      /\ Len(msg'.elems) <= IF msg'.header THEN HeadMax ELSE MsgMax
      /\ msg'.name = s /\ msg'.header = FALSE /\ msg'.elems = <<>>
  <2>1. PICK h \in BOOLEAN : h = FALSE /\ h = (dump.arg0 = 0)
    OBVIOUS
  <2>2. msg' = [name |-> s, header |-> h, elems |-> <<>>]
    BY <1>1, <2>1, Zenon DEF StartMsg
  <2>3. PICK m : m = msg'
    OBVIOUS
  <2>4. /\ m # NoMsg /\ m \in MsgType /\ Len(m.elems) <= IF m.header THEN HeadMax ELSE MsgMax
        /\ m.name = s /\ m.header = h /\ m.elems = <<>>
    BY <1>3, <2>2, <2>3, StartedMsg
  <2> QED
    BY <2>1, <2>3, <2>4, Zenon
<1>8. NameInv(dump, out, session, msg, present)
  BY DEF RunInv
<1>9. bucket = NoBucket /\ Progress(Listed(out, session, msg, n), present[n], dump)
  BY <1>6, NoBucketOnTheWay
<1>10. TypeOK'
  BY <1>4, <1>7, <1>9 DEF TypeOK, DumpType
<1>11. DumpInv(dump', set', present')
  BY <1>2, <1>4, <1>5, <1>6 DEF DumpInv, IsDump
<1>12. NameInv(dump', out', session', msg', present')
  <2>1. Len(present') = Len(out') + 0
    BY <1>8 DEF NameInv
  <2>2. \A k \in 1 .. Len(out') : out'[k].name = present'[k].name
    BY <1>8 DEF NameInv
  <2>3. session'.saved_setname = IF out' = <<>> THEN NoName ELSE out'[Len(out')].name
    BY <1>8 DEF NameInv
  <2> QED
    BY <1>6, <1>7, <2>1, <2>2, <2>3 DEF NameInv
<1>13. BehindInv(out', session', present') /\ OutInv(out', session')
  BY Zenon DEF RunInv
<1>14. ProgressInv(dump', bucket', out', session', msg', present')
  <2>1. Listed(out, session, msg', n) = Listed(out, session, msg, n)
    BY <1>7, Zenon DEF Listed, Coming
  <2>2. Progress(Listed(out, session, msg', n), present[n], dump')
    BY <1>4, <1>6, <1>9, <2>1, Zenon DEF Progress, IsDump
  <2> QED
    BY <1>9, <2>2, Zenon DEF ProgressInv
<1> QED
  BY <1>10, <1>11, <1>12, <1>13, <1>14, Zenon DEF RunInv

\* domain_set_dump_start at a set.
LEMMA DumpHeadStep ==
  ASSUME TypeOK, RunInv, session.status = "run", DumpHead
  PROVE  TypeOK' /\ RunInv' /\ session'.status = "run"
<1>1. /\ dump.pc = "scan" /\ msg = NoMsg /\ dump.index < MaxIndex /\ set[dump.index] # NoSet
      /\ msg' = StartMsg(set[dump.index]) /\ UNCHANGED <<set, bucket, session, out>>
  BY DEF DumpHead
<1>2. ASSUME NEW S \in SUBSET Elems, NEW b \in MinBits .. MaxBits, dump.arg0 = 0,
             dump' = [DumpAt(dump.index) EXCEPT !.pc = "list", !.held = TRUE,
                        !.bits = b, !.table = S, !.elems = S],
             present' = Append(present, [name |-> set[dump.index], always |-> S, ever |-> S])
      PROVE  TypeOK' /\ RunInv' /\ session'.status = "run"
  BY <1>1, <1>2, FirstHeadStep, Zenon
<1>3. ASSUME dump.arg0 # 0, dump' = [dump EXCEPT !.pc = "list", !.first = dump.arg0],
             UNCHANGED present
      PROVE  TypeOK' /\ RunInv' /\ session'.status = "run"
  BY <1>1, <1>3, NextHeadStep, Zenon
<1> QED
  BY <1>2, <1>3, Zenon DEF DumpHead
-----------------------------------------------------------------------------
(* What other programs and the kernel do meanwhile.                        *)

\* The elements of the set being listed become S: its history goes from p to q,
\* and the listing from d to r.
IsChange(p, q, d, r, S) ==
  /\ q.always = p.always \cap S /\ q.ever = p.ever \cup S
  /\ r.bits = d.bits /\ r.arg0 = d.arg0 /\ r.moved = d.moved
  /\ r.table = IF d.moved THEN d.table ELSE S
  /\ p.always \subseteq d.elems /\ d.elems \subseteq p.ever /\ d.elems \subseteq Elems
  /\ ~d.moved => d.elems = d.table

\* A change leaves the bucket as one that is being read.
BucketKept(b, c, p, q, d, r) ==
  /\ c.trim = b.trim
  /\ \A u \in Seq(Words) : ArrayInv(b, p, d) /\ SlotInv(b, u, p) =>
                             ArrayInv(c, q, r) /\ SlotInv(c, u, q)

\* What may be printed may still be printed.
LEMMA SoundOfMore ==
  ASSUME NEW p, NEW q, NEW d, NEW r, NEW S, IsChange(p, q, d, r, S)
  PROVE  /\ q.always \subseteq p.always /\ May(p) \subseteq May(q)
         /\ \A u : Sound(u, p) => Sound(u, q)
<1>1. /\ q.always \subseteq p.always /\ p.ever \subseteq q.ever /\ p.always \subseteq p.ever
  BY DEF IsChange
<1>2. p.always # p.ever => q.always # q.ever
  <2>1. ASSUME p.always # p.ever PROVE \E x : x \in p.ever /\ x \notin p.always
    BY <1>1, <2>1
  <2> QED
    BY <1>1, <2>1
<1>3. May(p) \subseteq May(q)
  BY <1>1, <1>2 DEF May
<1>4. ASSUME NEW u, Sound(u, p) PROVE Sound(u, q)
  BY <1>1, <1>3, <1>4 DEF Sound, OnceIn
<1> QED
  BY <1>1, <1>3, <1>4

\* The array stays as it is, and the change is not in it as long as it is in
\* the table.
LEMMA SameArray ==
  ASSUME NEW p, NEW q, NEW d, NEW r, NEW S, IsChange(p, q, d, r, S), NEW b, NEW c,
         c.array = b.array, c.slot = b.slot, c.found = b.found, c.trim = b.trim,
         c.current => b.current,
         \A x : Key(x, d.bits) = d.arg0 /\ c.current /\ ~d.moved => (x \in d.elems <=> x \in S)
  PROVE  BucketKept(b, c, p, q, d, r)
<1> SUFFICES ASSUME NEW u \in Seq(Words), ArrayInv(b, p, d), SlotInv(b, u, p)
             PROVE  ArrayInv(c, q, r) /\ SlotInv(c, u, q)
  BY DEF BucketKept
<1>1. q.always \subseteq p.always /\ May(p) \subseteq May(q) /\ Sound(u, q)
  BY SoundOfMore DEF SlotInv
<1>2. ArrayInv(c, q, r)
  <2>1. ASSUME NEW j \in DOMAIN c.array, c.array[j] # Hole
        PROVE  /\ c.array[j] \in q.ever /\ Key(c.array[j], r.bits) = r.arg0
               /\ c.current /\ ~r.moved => c.array[j] \in r.table
    BY <2>1 DEF ArrayInv, IsChange
  <2>2. \A e \in q.always : Key(e, r.bits) = r.arg0 => \E j \in DOMAIN c.array : c.array[j] = e
    BY <1>1 DEF ArrayInv, IsChange
  <2>3. ASSUME c.current, ~r.moved, NEW e \in r.table, Key(e, r.bits) = r.arg0
        PROVE  \E j \in DOMAIN c.array : c.array[j] = e
    <3>1. e \in d.table
      BY <2>3 DEF IsChange
    <3> QED
      BY <2>3, <3>1 DEF ArrayInv, IsChange
  <2>4. \A j, k \in DOMAIN c.array : c.array[j] = c.array[k] /\ c.array[j] # Hole => j = k
    BY DEF ArrayInv
  <2> QED
    BY <2>1, <2>2, <2>3, <2>4 DEF ArrayInv
<1>3. SlotInv(c, u, q)
  BY <1>1 DEF SlotInv
<1> QED
  BY <1>2, <1>3

\* An array with one element more.
LEMMA PutFacts ==
  ASSUME NEW a \in Seq(Elems \cup {Hole}), NEW e \in Elems, NEW j, j = FreeSlot(a),
         NEW w, w = Put(a, j, e)
  PROVE  /\ w \in Seq(Elems \cup {Hole}) /\ j \in DOMAIN w /\ w[j] = e
         /\ \A k : k \in DOMAIN w /\ k # j <=> k \in DOMAIN a /\ k # j
         /\ \A k \in DOMAIN a : k # j => w[k] = a[k]
         /\ j \in DOMAIN a => a[j] = Hole
<1>1. DOMAIN a = 1 .. Len(a) /\ Len(a) \in Nat
  BY LenProperties
<1>2. j \in 1 .. Len(a) + 1 /\ (j = Len(a) + 1 \/ a[j] = Hole)
  BY FreeSlotFacts
<1>3. CASE j = Len(a) + 1
  <2>1. w = Append(a, e)
    BY <1>3 DEF Put
  <2>2. /\ w \in Seq(Elems \cup {Hole}) /\ Len(w) = Len(a) + 1
        /\ \A k \in 1 .. Len(a) : w[k] = a[k]
        /\ w[Len(a) + 1] = e
    BY <2>1, AppendProperties
  <2>3. DOMAIN w = 1 .. Len(a) + 1
    BY <2>2, LenProperties
  <2> QED
    BY <1>1, <1>3, <2>2, <2>3
<1>4. CASE j # Len(a) + 1
  <2>1. j \in DOMAIN a /\ a[j] = Hole
    BY <1>1, <1>2, <1>4
  <2>2. w = [a EXCEPT ![j] = e]
    BY <1>4 DEF Put
  <2>3. w \in Seq(Elems \cup {Hole}) /\ Len(w) = Len(a)
    BY <1>1, <2>1, <2>2, ExceptSeq
  <2>4. DOMAIN w = DOMAIN a /\ w[j] = e /\ \A k \in DOMAIN a : k # j => w[k] = a[k]
    BY <2>1, <2>2
  <2> QED
    BY <2>1, <2>3, <2>4
<1> QED
  BY <1>3, <1>4

\* mtype_add writes the array being read.
LEMMA ElementAdded ==
  ASSUME NEW p, NEW q, NEW d, NEW r, NEW e \in Elems, IsChange(p, q, d, r, d.elems \cup {e}),
         e \notin d.elems, Key(e, d.bits) = d.arg0, ~d.moved,
         NEW b, NEW c, b.current, b.array \in Seq(Elems \cup {Hole}),
         c.array = Put(b.array, FreeSlot(b.array), e), c.slot = b.slot, c.trim = b.trim,
         c.found = IF b.found # Hole /\ FreeSlot(b.array) = b.slot THEN Garbled ELSE b.found
  PROVE  BucketKept(b, c, p, q, d, r)
<1> SUFFICES ASSUME NEW u \in Seq(Words), ArrayInv(b, p, d), SlotInv(b, u, p)
             PROVE  ArrayInv(c, q, r) /\ SlotInv(c, u, q)
  BY DEF BucketKept
<1>1. /\ q.always = p.always /\ May(p) \subseteq May(q) /\ Sound(u, q)
      /\ q.always \subseteq Elems /\ e \notin q.always
      /\ q.ever = p.ever \cup (d.elems \cup {e})
  <2>1. /\ q.always = p.always /\ q.always \subseteq Elems /\ e \notin q.always
        /\ q.ever = p.ever \cup (d.elems \cup {e})
    BY DEF IsChange
  <2>2. May(p) \subseteq May(q) /\ (Sound(u, p) => Sound(u, q))
    <3>1. PICK S : S = d.elems \cup {e}
      OBVIOUS
    <3> QED
      BY <3>1, SoundOfMore
  <2>3. Sound(u, p)
    BY DEF SlotInv
  <2> QED
    BY <2>1, <2>2, <2>3
<1>2. PICK j : j = FreeSlot(b.array)
  OBVIOUS
<1>3. PICK a : a = b.array
  OBVIOUS
<1>4. PICK w : w = c.array
  OBVIOUS
<1>5. /\ j \in DOMAIN w /\ w[j] = e
      /\ \A k : k \in DOMAIN w /\ k # j <=> k \in DOMAIN a /\ k # j
      /\ \A k \in DOMAIN a : k # j => w[k] = a[k]
      /\ j \in DOMAIN a => a[j] = Hole
  BY <1>2, <1>3, <1>4, PutFacts
<1>6. /\ r.table = d.elems \cup {e} /\ d.table = d.elems
      /\ r.bits = d.bits /\ r.arg0 = d.arg0 /\ r.moved = d.moved
  BY DEF IsChange
<1>7. /\ \A k, l \in DOMAIN a : a[k] = a[l] /\ a[k] # Hole => k = l
      /\ \A k \in DOMAIN a : a[k] # Hole =>
           a[k] \in p.ever /\ Key(a[k], d.bits) = d.arg0 /\ a[k] \in d.elems
      /\ \A x \in d.elems : Key(x, d.bits) = d.arg0 => \E k \in DOMAIN a : a[k] = x
  BY <1>3, <1>6 DEF ArrayInv
<1>8. e # Hole /\ \A x \in q.always : x # Hole /\ x # Garbled /\ x # e
  BY <1>1, NoWord
<1>9. \A k \in DOMAIN a : a[k] # e
  BY <1>7, <1>8
<1>10. \A x : x # Hole /\ x # e =>
         \A k : k \in DOMAIN w /\ w[k] = x <=> k \in DOMAIN a /\ a[k] = x
  BY <1>5
<1>11. ArrayInv(c, q, r)
  <2>1. \A k, l \in DOMAIN w : w[k] = w[l] /\ w[k] # Hole => k = l
    BY <1>5, <1>7, <1>9
  <2>2. ASSUME NEW k \in DOMAIN w, w[k] # Hole
        PROVE  /\ w[k] \in q.ever /\ Key(w[k], r.bits) = r.arg0
               /\ w[k] \in r.table
    BY <1>1, <1>5, <1>6, <1>7, <2>2
  <2>3. ASSUME NEW x \in r.table, x # Hole, Key(x, r.bits) = r.arg0
        PROVE  \E k \in DOMAIN w : w[k] = x
    <3>1. CASE x = e
      BY <1>5, <3>1
    <3>2. CASE x # e
      <4>1. x \in d.elems /\ Key(x, d.bits) = d.arg0
        BY <1>6, <2>3, <3>2
      <4>2. PICK k \in DOMAIN a : a[k] = x
        BY <1>7, <4>1
      <4>3. k \in DOMAIN w /\ w[k] = x
        BY <1>10, <2>3, <3>2, <4>2
      <4> QED
        BY <4>3
    <3> QED
      BY <3>1, <3>2
  <2>4. \A x \in q.always : x \in r.table
    BY <1>1, <1>6 DEF IsChange
  <2>5. \A x \in q.always : Key(x, r.bits) = r.arg0 => \E k \in DOMAIN w : w[k] = x
    BY <1>8, <2>3, <2>4
  <2>6. \A x \in r.table : x # Hole
    <3>1. d.elems \subseteq Elems
      BY DEF IsChange
    <3> QED
      BY <1>6, <1>8, <3>1, NoWord
  <2> QED
    BY <1>4, <2>1, <2>2, <2>3, <2>5, <2>6 DEF ArrayInv
<1>12. SlotInv(c, u, q)
  <2>1. /\ \A x \in p.always :
             x \in Range(u) <=> \E k \in DOMAIN a : k < b.slot /\ a[k] = x
        /\ b.found # Hole =>
             /\ b.found \in May(p)
             /\ b.found \in p.always => b.slot \in DOMAIN a /\ a[b.slot] = b.found
             /\ b.slot \in DOMAIN a /\ a[b.slot] \in p.always => b.found = a[b.slot]
    BY <1>3 DEF SlotInv
  <2>2. \A x \in q.always :
          x \in Range(u) <=> \E k \in DOMAIN w : k < b.slot /\ w[k] = x
    BY <1>1, <1>8, <1>10, <2>1
  <2>3. c.found # Hole =>
          /\ c.found \in May(q)
          /\ c.found \in q.always => b.slot \in DOMAIN w /\ w[b.slot] = c.found
          /\ b.slot \in DOMAIN w /\ w[b.slot] \in q.always => c.found = w[b.slot]
    <3>1. CASE b.found # Hole /\ j = b.slot
      <4>1. c.found = Garbled /\ w[b.slot] = e
        BY <1>2, <1>5, <3>1
      <4>2. Garbled \in May(q)
        <5>1. e \in q.ever
          BY <1>1
        <5>2. q.always # q.ever
          BY <1>1, <5>1
        <5> QED
          BY <5>2 DEF May
      <4> QED
        BY <1>1, <1>8, <4>1, <4>2
    <3>2. CASE b.found # Hole /\ j # b.slot
      <4>1. c.found = b.found
        BY <1>2, <3>2
      <4>2. /\ b.found \in May(q)
            /\ b.found \in q.always => b.slot \in DOMAIN a /\ a[b.slot] = b.found
            /\ b.slot \in DOMAIN a /\ a[b.slot] \in q.always => b.found = a[b.slot]
        BY <1>1, <2>1, <3>2
      <4>3. b.found \in q.always => b.slot \in DOMAIN w /\ w[b.slot] = b.found
        BY <1>8, <1>10, <4>2
      <4>4. b.slot \in DOMAIN w /\ w[b.slot] \in q.always => b.found = w[b.slot]
        BY <1>5, <3>2, <4>2
      <4> QED
        BY <4>1, <4>2, <4>3, <4>4
    <3>3. CASE b.found = Hole
      BY <3>3
    <3> QED
      BY <3>1, <3>2, <3>3
  <2> QED
    BY <1>1, <1>4, <2>2, <2>3 DEF SlotInv
<1> QED
  BY <1>11, <1>12

\* An array without one of its elements.
LEMMA ClearedFacts ==
  ASSUME NEW a \in Seq(Elems \cup {Hole}), NEW e, NEW j \in DOMAIN a, a[j] = e,
         \A k \in DOMAIN a : a[k] = e => k = j, e # Hole,
         NEW w, w = Cleared(a, e)
  PROVE  /\ w \in Seq(Elems \cup {Hole})
         /\ \A k \in DOMAIN w : w[k] # e /\ (w[k] # Hole => k \in DOMAIN a /\ w[k] = a[k])
         /\ \A k \in DOMAIN a : a[k] # e /\ a[k] # Hole => k \in DOMAIN w /\ w[k] = a[k]
<1>1. DOMAIN a = 1 .. Len(a) /\ Len(a) \in Nat /\ j \in 1 .. Len(a)
  BY LenProperties
<1>2. PICK g : g = CHOOSE k \in DOMAIN a : a[k] = e
  OBVIOUS
<1>3. w = IF j = Len(a) THEN SubSeq(a, 1, j - 1) ELSE [a EXCEPT ![j] = Hole]
  <2>1. g = j
    BY <1>2
  <2>2. w = IF g = Len(a) THEN SubSeq(a, 1, g - 1) ELSE [a EXCEPT ![g] = Hole]
    BY <1>2 DEF Cleared
  <2> QED
    BY <2>1, <2>2
<1>4. CASE j = Len(a)
  <2>1. PICK n : n = j - 1
    OBVIOUS
  <2>2. n \in Nat /\ n < Len(a) /\ j = n + 1
    BY <1>1, <2>1
  <2>3. w = SubSeq(a, 1, n)
    BY <1>3, <1>4, <2>1, Zenon
  <2>4. \A i \in 1 .. n : a[i] \in Elems \cup {Hole}
    BY <1>1, <2>2, ElementOfSeq
  <2>5. w \in Seq(Elems \cup {Hole}) /\ Len(w) = n /\ \A i \in 1 .. n : w[i] = a[i]
    BY <2>2, <2>3, <2>4, SubSeqProperties
  <2>6. DOMAIN w = 1 .. n
    BY <2>5, LenProperties
  <2>7. \A k \in DOMAIN w : k \in DOMAIN a /\ k # j /\ w[k] = a[k]
    BY <1>1, <2>2, <2>5, <2>6
  <2>8. \A k \in DOMAIN a : k # j => k \in DOMAIN w
    BY <1>1, <1>4, <2>2, <2>6
  <2> QED
    BY <2>5, <2>7, <2>8
<1>5. CASE j # Len(a)
  <2>1. w = [a EXCEPT ![j] = Hole]
    BY <1>3, <1>5, Zenon
  <2>2. w \in Seq(Elems \cup {Hole})
    BY <1>1, <2>1, ExceptSeq
  <2>3. DOMAIN w = DOMAIN a /\ w[j] = Hole /\ \A k \in DOMAIN a : k # j => w[k] = a[k]
    BY <2>1
  <2> QED
    BY <2>2, <2>3
<1> QED
  BY <1>4, <1>5

\* mtype_del clears a slot of the array being read.
LEMMA ElementDeleted ==
  ASSUME NEW p, NEW q, NEW d, NEW r, NEW e, IsChange(p, q, d, r, d.elems \ {e}),
         e \in d.elems, Key(e, d.bits) = d.arg0, ~d.moved,
         NEW b, NEW c, b.current, b.array \in Seq(Elems \cup {Hole}),
         c.array = Cleared(b.array, e), c.slot = b.slot, c.found = b.found, c.trim = b.trim
  PROVE  BucketKept(b, c, p, q, d, r)
<1> SUFFICES ASSUME NEW u \in Seq(Words), ArrayInv(b, p, d), SlotInv(b, u, p)
             PROVE  ArrayInv(c, q, r) /\ SlotInv(c, u, q)
  BY DEF BucketKept
<1>1. /\ q.always = p.always \cap (d.elems \ {e}) /\ q.ever = p.ever \cup (d.elems \ {e})
      /\ d.elems \subseteq Elems /\ p.always \subseteq d.elems
      /\ r.table = d.elems \ {e} /\ d.table = d.elems
      /\ r.bits = d.bits /\ r.arg0 = d.arg0 /\ r.moved = d.moved
  BY DEF IsChange
<1>2. May(p) \subseteq May(q) /\ Sound(u, q)
  <2>1. PICK S : S = d.elems \ {e}
    OBVIOUS
  <2>2. May(p) \subseteq May(q) /\ (Sound(u, p) => Sound(u, q))
    BY <2>1, SoundOfMore
  <2> QED
    BY <2>2 DEF SlotInv
<1>3. PICK a : a = b.array
  OBVIOUS
<1>4. PICK w : w = c.array
  OBVIOUS
<1>5. /\ \A k, l \in DOMAIN a : a[k] = a[l] /\ a[k] # Hole => k = l
      /\ \A k \in DOMAIN a : a[k] # Hole =>
           a[k] \in p.ever /\ Key(a[k], d.bits) = d.arg0 /\ a[k] \in d.elems
      /\ \A x \in d.elems : Key(x, d.bits) = d.arg0 => \E k \in DOMAIN a : a[k] = x
  BY <1>1, <1>3 DEF ArrayInv
<1>6. e # Hole /\ \A x \in d.elems : x # Hole
  BY <1>1, NoWord
<1>7. PICK j \in DOMAIN a : a[j] = e
  BY <1>5
<1>8. \A k \in DOMAIN a : a[k] = e => k = j
  BY <1>5, <1>6, <1>7
<1>9. /\ \A k \in DOMAIN w : w[k] # e /\ (w[k] # Hole => k \in DOMAIN a /\ w[k] = a[k])
      /\ \A k \in DOMAIN a : a[k] # e /\ a[k] # Hole => k \in DOMAIN w /\ w[k] = a[k]
  BY <1>3, <1>4, <1>6, <1>7, <1>8, ClearedFacts
<1>10. \A x : x # Hole /\ x # e =>
         \A k : k \in DOMAIN w /\ w[k] = x <=> k \in DOMAIN a /\ a[k] = x
  BY <1>9
<1>11. \A x \in q.always : x \in p.always /\ x \in d.elems /\ x # e /\ x # Hole
  BY <1>1, <1>6
<1>12. ArrayInv(c, q, r)
  <2>1. \A k, l \in DOMAIN w : w[k] = w[l] /\ w[k] # Hole => k = l
    BY <1>5, <1>9
  <2>2. \A k \in DOMAIN w : w[k] # Hole =>
          w[k] \in q.ever /\ Key(w[k], r.bits) = r.arg0 /\ w[k] \in r.table
    BY <1>1, <1>5, <1>9
  <2>3. ASSUME NEW x \in r.table, Key(x, r.bits) = r.arg0 PROVE \E k \in DOMAIN w : w[k] = x
    <3>1. x \in d.elems /\ x # e /\ Key(x, d.bits) = d.arg0
      BY <1>1, <2>3
    <3>2. PICK k \in DOMAIN a : a[k] = x
      BY <1>5, <3>1
    <3>3. k \in DOMAIN w /\ w[k] = x
      BY <1>6, <1>9, <3>1, <3>2
    <3> QED
      BY <3>3
  <2>4. \A x \in q.always : x \in r.table
    BY <1>1
  <2> QED
    BY <1>4, <2>1, <2>2, <2>3, <2>4 DEF ArrayInv
<1>13. SlotInv(c, u, q)
  <2>1. /\ \A x \in p.always :
             x \in Range(u) <=> \E k \in DOMAIN a : k < b.slot /\ a[k] = x
        /\ b.found # Hole =>
             /\ b.found \in May(p)
             /\ b.found \in p.always => b.slot \in DOMAIN a /\ a[b.slot] = b.found
             /\ b.slot \in DOMAIN a /\ a[b.slot] \in p.always => b.found = a[b.slot]
    BY <1>3 DEF SlotInv
  <2>2. \A x \in q.always :
          x \in Range(u) <=> \E k \in DOMAIN w : k < b.slot /\ w[k] = x
    BY <1>10, <1>11, <2>1
  <2>3. b.found # Hole =>
          /\ b.found \in May(q)
          /\ b.found \in q.always => b.slot \in DOMAIN w /\ w[b.slot] = b.found
          /\ b.slot \in DOMAIN w /\ w[b.slot] \in q.always => b.found = w[b.slot]
    BY <1>2, <1>9, <1>11, <2>1
  <2> QED
    BY <1>2, <1>4, <2>2, <2>3 DEF SlotInv
<1> QED
  BY <1>12, <1>13

\* The set at index i becomes v, and the listing is not within it.
LEMMA OtherSet ==
  ASSUME TypeOK, RunInv, session.status = "run", NEW i \in Indices, ~Held(i),
         NEW v \in {NoSet} \cup Names, set' = [set EXCEPT ![i] = v],
         UNCHANGED <<dump, bucket, msg, session, out, present>>
  PROVE  TypeOK' /\ RunInv' /\ session'.status = "run"
<1>1. /\ set' \in [Indices -> {NoSet} \cup Names]
      /\ \A j \in Indices : j # i => set'[j] = set[j]
  BY TypeFacts, Zenon
<1>2. TypeOK'
  BY <1>1 DEF TypeOK
<1>3. DumpInv(dump', set', present')
  <2>1. DumpInv(dump, set, present)
    BY DEF RunInv
  <2>2. dump.held => set'[dump.index] = set[dump.index]
    <3>1. ASSUME dump.held PROVE dump.index \in Indices /\ dump.index # i
      <4>1. dump.index < MaxIndex
        BY <2>1, <3>1 DEF DumpInv
      <4>2. dump.index \in Indices
        BY <4>1, TypeFacts DEF Indices
      <4> QED
        BY <3>1, <4>2 DEF Held
    <3> QED
      BY <1>1, <3>1
  <2>3. DumpInv(dump, set', present)
    BY <2>1, <2>2, Zenon DEF DumpInv
  <2> QED
    BY <2>3, Zenon
<1>4. /\ NameInv(dump', out', session', msg', present')
      /\ OutInv(out', session') /\ BehindInv(out', session', present')
      /\ ProgressInv(dump', bucket', out', session', msg', present')
  BY Zenon DEF RunInv
<1> QED
  BY <1>2, <1>3, <1>4, Zenon DEF RunInv

\* domain_set_create.
LEMMA CreateStep ==
  ASSUME TypeOK, RunInv, session.status = "run", NEW i \in Indices, NEW n \in Names, Create(i, n)
  PROVE  TypeOK' /\ RunInv' /\ session'.status = "run"
<1>1. ~Held(i)
  <2> SUFFICES ASSUME Held(i) PROVE FALSE
    OBVIOUS
  <2>1. dump.held /\ dump.index = i /\ set[i] = NoSet
    BY DEF Held, Create
  <2>2. present # <<>> /\ set[i] = present[Len(present)].name
    BY <2>1, Zenon DEF RunInv, DumpInv
  <2>3. present \in Seq(WitnessType)
    BY TypeFacts
  <2>4. present[Len(present)].name \in Names
    BY <2>2, <2>3, LastEntry, EntryTypes
  <2> QED
    BY <2>1, <2>2, <2>4, ListingAssumption
<1> QED
  BY <1>1, OtherSet DEF Create

\* domain_set_destroy.
LEMMA DestroyStep ==
  ASSUME TypeOK, RunInv, session.status = "run", NEW i \in Indices, Destroy(i)
  PROVE  TypeOK' /\ RunInv' /\ session'.status = "run"
BY OtherSet DEF Destroy

\* domain_set_rename.
LEMMA RenameStep ==
  ASSUME TypeOK, RunInv, session.status = "run", NEW i \in Indices, NEW n \in Names, Rename(i, n)
  PROVE  TypeOK' /\ RunInv' /\ session'.status = "run"
BY OtherSet DEF Rename

\* mtype_resize: the table of the listing is that of the set no more.
LEMMA ResizeStep ==
  ASSUME TypeOK, RunInv, session.status = "run", Resize
  PROVE  TypeOK' /\ RunInv' /\ session'.status = "run"
<1>1. /\ dump' = [dump EXCEPT !.moved = TRUE]
      /\ UNCHANGED <<set, bucket, msg, session, out, present>>
  BY DEF Resize
<1>2. /\ dump' \in DumpType
      /\ IsDump(dump', dump.pc, dump.index, dump.held, dump.first, dump.arg0, dump.bits,
                dump.table, dump.elems, TRUE)
  <2>1. PICK m \in BOOLEAN : m = TRUE
    OBVIOUS
  <2>2. dump' = [dump EXCEPT !.moved = m] /\ dump \in DumpType
    BY <1>1, <2>1, TypeFacts
  <2>3. /\ dump' \in DumpType
        /\ IsDump(dump', dump.pc, dump.index, dump.held, dump.first, dump.arg0, dump.bits,
                  dump.table, dump.elems, m)
    BY <2>2, SetMoved
  <2> QED
    BY <2>1, <2>3, Zenon
<1>3. DumpInv(dump', set, present)
  BY <1>2 DEF RunInv, DumpInv, IsDump
<1>4. PICK d : d = dump'
  OBVIOUS
<1>5. /\ d.pc = dump.pc /\ d.held = dump.held /\ d.bits = dump.bits /\ d.arg0 = dump.arg0
      /\ d.moved = TRUE
  BY <1>2, <1>4 DEF IsDump
<1>6. \A s, p : Progress(s, p, dump) => Progress(s, p, d)
  BY <1>5, Zenon DEF Progress
<1>7. \A p : ArrayInv(bucket, p, dump) => ArrayInv(bucket, p, d)
  BY <1>5 DEF ArrayInv
<1>8. \A m, v, u, h, p : Parts(m, v, u, h, bucket, p, dump) => Parts(m, v, u, h, bucket, p, d)
  BY <1>6, <1>7, Zenon DEF Parts
<1>9. \A m, h, p : Reading(m, h, bucket, p, dump) => Reading(m, h, bucket, p, d)
  BY <1>8, Zenon DEF Reading
<1>10. ProgressInv(d, bucket, out, session, msg, present)
  <2>1. ProgressInv(dump, bucket, out, session, msg, present)
    BY DEF RunInv
  <2> QED
    BY <1>5, <1>6, <1>9, <2>1, Zenon DEF ProgressInv
<1>11. ProgressInv(dump', bucket', out, session, msg', present)
  BY <1>1, <1>4, <1>10, Zenon
<1>12. dump'.pc = "list" => msg' # NoMsg
  BY <1>1, <1>2, AtSet DEF IsDump
<1> QED
  BY <1>1, <1>2, <1>3, <1>11, <1>12, TypeFacts, KernelStep

\* The history of the last set is replaced.
LEMMA LastReplaced ==
  ASSUME NEW p \in Seq(WitnessType), p # <<>>, NEW q \in WitnessType,
         NEW r, r = [p EXCEPT ![Len(p)] = q]
  PROVE  /\ r \in Seq(WitnessType) /\ Len(r) = Len(p) /\ r # <<>> /\ r[Len(p)] = q
         /\ \A k \in 1 .. Len(p) - 1 : r[k] = p[k]
<1>1. Len(p) \in 1 .. Len(p) /\ DOMAIN p = 1 .. Len(p) /\ Len(p) \in Nat
  BY LastEntry, LenProperties
<1>2. r \in Seq(WitnessType) /\ Len(r) = Len(p)
  BY <1>1, ExceptSeq
<1>3. r[Len(p)] = q /\ \A k \in 1 .. Len(p) - 1 : r[k] = p[k]
  <2>1. PICK n : n = Len(p)
    OBVIOUS
  <2>2. n \in DOMAIN p /\ \A k \in 1 .. n - 1 : k \in DOMAIN p /\ k # n
    <3>1. n \in Nat /\ 1 <= n /\ DOMAIN p = 1 .. n
      BY <1>1, <2>1, LastEntry
    <3>2. \A k \in 1 .. n - 1 : k \in 1 .. n /\ k # n
      BY ONLY <3>1
    <3>3. n \in 1 .. n
      BY ONLY <3>1
    <3> QED
      BY <3>1, <3>2, <3>3, Zenon
  <2>3. r = [p EXCEPT ![n] = q]
    BY <2>1
  <2>4. r[n] = q
    BY <2>2, <2>3, Zenon
  <2>5. \A k \in DOMAIN p : k # n => r[k] = p[k]
    BY <2>3, Zenon
  <2> QED
    BY <2>1, <2>2, <2>4, <2>5, Zenon
<1>4. r # <<>>
  BY <1>1, <1>2, EmptySeq
<1> QED
  BY <1>2, <1>3, <1>4, Zenon

\* What is always in the set is listed as far as before.
LEMMA ProgressOfMore ==
  ASSUME NEW s, NEW p, NEW d, NEW q, NEW r, NEW S, Progress(s, p, d),
         IsChange(p, q, d, r, S), r.held = d.held, r.pc = d.pc
  PROVE  Progress(s, q, r)
<1>1. q.always \subseteq p.always /\ Sound(s, q)
  BY SoundOfMore DEF Progress
<1>2. r.bits = d.bits /\ r.arg0 = d.arg0
  BY DEF IsChange
<1> QED
  BY <1>1, <1>2 DEF Progress

\* The elements of the set being listed change.
LEMMA HeldChange ==
  ASSUME TypeOK, RunInv, session.status = "run", NEW S \in SUBSET Elems, Change(S),
         NEW q, q = With(present[Len(present)], S),
         \/ bucket = NoBucket /\ bucket' = NoBucket
         \/ /\ bucket # NoBucket /\ bucket' # NoBucket /\ bucket' \in BucketType
            /\ IsChange(present[Len(present)], q, dump, dump', S) =>
                 BucketKept(bucket, bucket', present[Len(present)], q, dump, dump')
  PROVE  TypeOK' /\ RunInv' /\ session'.status = "run"
<1> DEFINE n == Len(present)
<1>1. /\ dump.held
      /\ dump' = [dump EXCEPT !.elems = S, !.table = IF dump.moved THEN dump.table ELSE S]
      /\ present' = [present EXCEPT ![n] = q] /\ UNCHANGED <<set, msg, session, out>>
  BY DEF Change
<1>2. DumpInv(dump, set, present) /\ NameInv(dump, out, session, msg, present)
  BY DEF RunInv
<1>3. present # <<>>
  BY <1>1, <1>2 DEF DumpInv
<1>4. /\ dump \in DumpType /\ out \in Seq(SectionType) /\ Len(out) \in Nat
      /\ present \in Seq(WitnessType) /\ dump.table \in SUBSET Elems /\ dump.elems \in SUBSET Elems
      /\ dump.moved \in BOOLEAN
  BY TypeFacts
<1>5. n \in Nat /\ 1 <= n /\ n \in 1 .. n
  BY <1>3, <1>4, LastEntry
<1>6. PICK p : p = present[n]
  OBVIOUS
<1>7. p \in WitnessType /\ p.name \in Names /\ p.always \in SUBSET Elems /\ p.ever \in SUBSET Elems
  BY <1>4, <1>5, <1>6, EntryTypes
<1>8. /\ q \in WitnessType /\ q.name = p.name
      /\ q.always = p.always \cap S /\ q.ever = p.ever \cup S
  BY <1>6, <1>7 DEF With, WitnessType
<1>9. PICK r : r = present'
  OBVIOUS
<1>10. /\ r \in Seq(WitnessType) /\ Len(r) = n /\ r # <<>> /\ r[n] = q
       /\ \A k \in 1 .. n - 1 : r[k] = present[k]
  BY <1>1, <1>3, <1>4, <1>8, <1>9, LastReplaced
<1>11. /\ p.always \subseteq dump.table /\ dump.table \subseteq p.ever
       /\ p.always \subseteq dump.elems /\ dump.elems \subseteq p.ever
       /\ ~dump.moved => dump.elems = dump.table
       /\ set[dump.index] = p.name
  BY <1>1, <1>2, <1>6, Zenon DEF DumpInv
<1>12. PICK t \in SUBSET Elems : t = IF dump.moved THEN dump.table ELSE S
  BY <1>4
<1>13. PICK d : d = dump'
  OBVIOUS
<1>14. /\ d \in DumpType
       /\ IsDump(d, dump.pc, dump.index, dump.held, dump.first, dump.arg0,
                 dump.bits, t, S, dump.moved)
  <2>1. d = [dump EXCEPT !.elems = S, !.table = t]
    BY <1>1, <1>12, <1>13, Zenon
  <2> QED
    BY <1>4, <2>1, SetElems, Zenon
<1>15. IsChange(p, q, dump, d, S)
  BY <1>4, <1>8, <1>11, <1>12, <1>14 DEF IsChange, IsDump
<1>16. TypeOK'
  <2>1. bucket' # NoBucket => bucket' \in BucketType
    OBVIOUS
  <2> QED
    BY <1>1, <1>9, <1>10, <1>13, <1>14, <2>1 DEF TypeOK, DumpType, WitnessType
<1>17. DumpInv(d, set, r)
  <2>1. /\ q.always \subseteq t /\ t \subseteq q.ever
        /\ q.always \subseteq S /\ S \subseteq q.ever
        /\ ~dump.moved => S = t
    BY <1>8, <1>11, <1>12
  <2> QED
    BY <1>2, <1>8, <1>10, <1>11, <1>14, <2>1 DEF DumpInv, IsDump
<1>18. NameInv(d, out, session, msg, r)
  <2>1. \A k \in 1 .. n : r[k].name = present[k].name
    <3>1. ASSUME NEW k \in 1 .. n PROVE r[k].name = present[k].name
      <4>1. CASE k = n
        BY <1>6, <1>8, <1>10, <4>1
      <4>2. CASE k # n
        BY <1>5, <1>10, <4>2
      <4> QED
        BY <4>1, <4>2
    <3> QED
      BY <3>1
  <2>2. Len(r) = Len(out) + (IF msg # NoMsg /\ msg.header THEN 1 ELSE 0)
    BY <1>2, <1>10 DEF NameInv
  <2>3. \A k \in 1 .. Len(out) : k \in 1 .. n
    BY <1>4, <1>5, <1>10, <2>2
  <2>4. \A k \in 1 .. Len(out) : out[k].name = r[k].name
    BY <1>2, <2>1, <2>3 DEF NameInv
  <2>5. msg # NoMsg => r # <<>> /\ msg.name = r[Len(r)].name
    BY <1>2, <1>6, <1>8, <1>10 DEF NameInv
  <2>6. d.pc = "list" => msg # NoMsg
    BY <1>2, <1>14 DEF NameInv, IsDump
  <2>7. session.saved_setname = IF out = <<>> THEN NoName ELSE out[Len(out)].name
    BY <1>2 DEF NameInv
  <2> QED
    BY <2>2, <2>4, <2>5, <2>6, <2>7, Zenon DEF NameInv
<1>19. OutInv(out, session) /\ BehindInv(out, session, r)
  BY <1>10 DEF RunInv, BehindInv
<1>20. \A s : Progress(s, p, dump) => Progress(s, q, d)
  <2>1. d.held = dump.held /\ d.pc = dump.pc
    BY <1>14 DEF IsDump
  <2> QED
    BY <1>15, <2>1, ProgressOfMore
<1>21. ProgressInv(dump, bucket, out, session, msg, present)
  BY DEF RunInv
<1>22. ASSUME bucket = NoBucket, bucket' = NoBucket
       PROVE  ProgressInv(d, bucket', out, session, msg, r)
  <2>1. Progress(Listed(out, session, msg, n), p, dump)
    BY <1>3, <1>6, <1>21, <1>22, Zenon DEF ProgressInv
  <2>2. Progress(Listed(out, session, msg, Len(r)), r[Len(r)], d)
    BY <1>10, <1>20, <2>1, Zenon
  <2> QED
    BY <1>22, <2>2, Zenon DEF ProgressInv
<1>23. ASSUME bucket # NoBucket, bucket' # NoBucket
       PROVE  ProgressInv(d, bucket', out, session, msg, r)
  <2>1. BucketKept(bucket, bucket', p, q, dump, d)
    BY <1>6, <1>13, <1>15, <1>23, Zenon
  <2>2. PICK h : h = Heard(out, session, n)
    OBVIOUS
  <2>3. PICK v \in Seq(Words), u \in Seq(Words) : Parts(msg.elems, v, u, h, bucket, p, dump)
    BY <1>6, <1>23, <2>2, AtBucket
  <2>4. Parts(msg.elems, v, u, h, bucket', q, d)
    BY <1>20, <2>1, <2>3, Zenon DEF Parts, BucketKept
  <2>5. Reading(msg.elems, Heard(out, session, Len(r)), bucket', r[Len(r)], d)
    BY <1>10, <2>2, <2>4, Zenon DEF Reading
  <2>6. dump.pc = "list" /\ dump.arg0 < jhash_size(dump.bits)
    BY <1>23, AtBucket
  <2>7. d.pc = "list" /\ d.arg0 < jhash_size(d.bits)
    BY <1>14, <2>6, Zenon DEF IsDump
  <2> QED
    BY <1>23, <2>5, <2>7, Zenon DEF ProgressInv
<1>24. ProgressInv(d, bucket', out, session, msg, r)
  <2>1. \/ bucket = NoBucket /\ bucket' = NoBucket
        \/ bucket # NoBucket /\ bucket' # NoBucket
    OBVIOUS
  <2> QED
    BY <1>22, <1>23, <2>1
<1>25. RunInv'
  BY <1>1, <1>9, <1>13, <1>17, <1>18, <1>19, <1>24, Zenon DEF RunInv
<1> QED
  BY <1>1, <1>16, <1>25

\* The array being read stays as it is, in the table or not.
LEMMA SameArrayStep ==
  ASSUME TypeOK, RunInv, session.status = "run", NEW S \in SUBSET Elems, Change(S),
         bucket' = bucket \/ (bucket # NoBucket /\ bucket' = [bucket EXCEPT !.current = FALSE]),
         bucket # NoBucket /\ bucket'.current /\ ~dump.moved =>
           \A x : Key(x, dump.bits) = dump.arg0 => (x \in dump.elems <=> x \in S)
  PROVE  TypeOK' /\ RunInv' /\ session'.status = "run"
<1>1. PICK q : q = With(present[Len(present)], S)
  OBVIOUS
<1>2. CASE bucket = NoBucket
  BY <1>1, <1>2, HeldChange
<1>3. CASE bucket # NoBucket
  <2>1. bucket \in BucketType
    BY <1>3, TypeFacts
  <2>2. /\ bucket' \in BucketType /\ bucket'.array = bucket.array /\ bucket'.slot = bucket.slot
        /\ bucket'.found = bucket.found /\ bucket'.trim = bucket.trim
        /\ bucket'.current => bucket.current
    <3>1. ASSUME bucket' = [bucket EXCEPT !.current = FALSE]
          PROVE  /\ bucket' \in BucketType
                 /\ IsBucket(bucket', bucket.array, bucket.slot, bucket.found, FALSE, bucket.trim)
      <4>1. PICK c \in BOOLEAN : c = FALSE
        OBVIOUS
      <4>2. bucket' = [bucket EXCEPT !.current = c]
        BY <3>1, <4>1, Zenon
      <4>3. /\ bucket' \in BucketType
            /\ IsBucket(bucket', bucket.array, bucket.slot, bucket.found, c, bucket.trim)
        BY <2>1, <4>2, SetCurrent
      <4> QED
        BY <4>1, <4>3, Zenon
    <3>2. CASE bucket' = bucket
      BY <2>1, <3>2
    <3>3. CASE bucket' = [bucket EXCEPT !.current = FALSE]
      BY <3>1, <3>3 DEF IsBucket
    <3> QED
      BY <3>2, <3>3
  <2>3. bucket' # NoBucket
    BY <2>2, ListingAssumption
  <2>4. PICK b : b = bucket
    OBVIOUS
  <2>5. PICK c : c = bucket'
    OBVIOUS
  <2>6. PICK d : d = dump'
    OBVIOUS
  <2>7. PICK p : p = present[Len(present)]
    OBVIOUS
  <2>8. ASSUME IsChange(p, q, dump, d, S) PROVE BucketKept(b, c, p, q, dump, d)
    <3>1. /\ c.array = b.array /\ c.slot = b.slot /\ c.found = b.found /\ c.trim = b.trim
          /\ c.current => b.current
      BY <2>2, <2>4, <2>5
    <3>2. \A x : Key(x, dump.bits) = dump.arg0 /\ c.current /\ ~dump.moved =>
                   (x \in dump.elems <=> x \in S)
      BY <1>3, <2>5
    <3> QED
      BY <2>8, <3>1, <3>2, SameArray
  <2>9. IsChange(present[Len(present)], q, dump, dump', S) =>
          BucketKept(bucket, bucket', present[Len(present)], q, dump, dump')
    BY <2>4, <2>5, <2>6, <2>7, <2>8, Zenon
  <2> QED
    BY <1>1, <1>3, <2>2, <2>3, <2>9, HeldChange
<1> QED
  BY <1>2, <1>3

\* mtype_add.
LEMMA AddStep ==
  ASSUME TypeOK, RunInv, session.status = "run", NEW e \in Elems, Add(e)
  PROVE  TypeOK' /\ RunInv' /\ session'.status = "run"
<1>1. PICK S : S = dump.elems \cup {e}
  OBVIOUS
<1>2. Change(S) /\ e \notin dump.elems
  BY <1>1 DEF Add
<1>3. S \in SUBSET Elems
  BY <1>1, TypeFacts
<1>4. CASE ~Touches(Key(e, dump.bits)) /\ UNCHANGED bucket
  <2>1. bucket # NoBucket /\ bucket'.current /\ ~dump.moved =>
          \A x : Key(x, dump.bits) = dump.arg0 => (x \in dump.elems <=> x \in S)
    BY <1>1, <1>4 DEF Touches
  <2> QED
    BY <1>2, <1>3, <1>4, <2>1, SameArrayStep
<1>5. ASSUME Touches(Key(e, dump.bits)), bucket' = [bucket EXCEPT !.current = FALSE]
      PROVE  TypeOK' /\ RunInv' /\ session'.status = "run"
  <2>1. bucket # NoBucket
    BY <1>5 DEF Touches
  <2>2. bucket'.current = FALSE
    <3>1. bucket \in BucketType
      BY <2>1, TypeFacts
    <3> QED
      BY <1>5, <3>1 DEF BucketType
  <2> QED
    BY <1>2, <1>3, <1>5, <2>1, <2>2, SameArrayStep
<1>6. ASSUME Touches(Key(e, dump.bits)), AddInPlace(e)
      PROVE  TypeOK' /\ RunInv' /\ session'.status = "run"
  <2>1. /\ bucket # NoBucket /\ ~dump.moved /\ bucket.current /\ Key(e, dump.bits) = dump.arg0
    BY <1>6 DEF Touches
  <2>2. PICK b : b = bucket
    OBVIOUS
  <2>3. b \in BucketType /\ b.array \in Seq(Elems \cup {Hole}) /\ b.found \in Words \cup {Hole}
    BY <2>1, <2>2, TypeFacts
  <2>4. PICK a : a = Put(b.array, FreeSlot(b.array), e)
    OBVIOUS
  <2>5. PICK f : f = IF b.found # Hole /\ FreeSlot(b.array) = b.slot THEN Garbled ELSE b.found
    OBVIOUS
  <2>6. a \in Seq(Elems \cup {Hole})
    BY <2>3, <2>4, PutFacts
  <2>7. f \in Words \cup {Hole}
    BY <2>3, <2>5, NoWord
  <2>8. PICK c : c = bucket'
    OBVIOUS
  <2>9. c = [b EXCEPT !.array = a, !.found = f]
    BY <1>6, <2>2, <2>4, <2>5, <2>8 DEF AddInPlace
  <2>10. c \in BucketType /\ IsBucket(c, a, b.slot, f, b.current, b.trim)
    BY <2>3, <2>6, <2>7, <2>9, SetArrayFound, Zenon
  <2>11. PICK q : q = With(present[Len(present)], S)
    OBVIOUS
  <2>12. PICK d : d = dump'
    OBVIOUS
  <2>13. PICK p : p = present[Len(present)]
    OBVIOUS
  <2>14. ASSUME IsChange(p, q, dump, d, S) PROVE BucketKept(b, c, p, q, dump, d)
    <3>1. /\ c.array = Put(b.array, FreeSlot(b.array), e) /\ c.slot = b.slot /\ c.trim = b.trim
          /\ c.found = IF b.found # Hole /\ FreeSlot(b.array) = b.slot THEN Garbled ELSE b.found
      BY <2>4, <2>5, <2>10 DEF IsBucket
    <3>2. IsChange(p, q, dump, d, dump.elems \cup {e}) /\ b.current
      BY <1>1, <2>1, <2>2, <2>14
    <3> QED
      BY <1>2, <2>1, <2>3, <3>1, <3>2, ElementAdded
  <2>15. IsChange(present[Len(present)], q, dump, dump', S) =>
           BucketKept(bucket, bucket', present[Len(present)], q, dump, dump')
    BY <2>2, <2>8, <2>12, <2>13, <2>14, Zenon
  <2>16. bucket' \in BucketType /\ bucket' # NoBucket
    BY <2>8, <2>10, ListingAssumption
  <2> QED
    BY <1>2, <1>3, <2>1, <2>11, <2>15, <2>16, HeldChange
<1> QED
  BY <1>4, <1>5, <1>6, Zenon DEF Add

\* mtype_del.
LEMMA DelStep ==
  ASSUME TypeOK, RunInv, session.status = "run", NEW e \in Elems, Del(e)
  PROVE  TypeOK' /\ RunInv' /\ session'.status = "run"
<1>1. PICK S : S = dump.elems \ {e}
  OBVIOUS
<1>2. Change(S) /\ e \in dump.elems
  BY <1>1 DEF Del
<1>3. S \in SUBSET Elems
  BY <1>1, TypeFacts
<1>4. CASE ~Touches(Key(e, dump.bits)) /\ UNCHANGED bucket
  <2>1. bucket # NoBucket /\ bucket'.current /\ ~dump.moved =>
          \A x : Key(x, dump.bits) = dump.arg0 => (x \in dump.elems <=> x \in S)
    BY <1>1, <1>4 DEF Touches
  <2> QED
    BY <1>2, <1>3, <1>4, <2>1, SameArrayStep
<1>5. ASSUME Touches(Key(e, dump.bits)),
             \/ bucket' = [bucket EXCEPT !.array = Cleared(bucket.array, e)]
             \/ bucket' = [bucket EXCEPT !.array = Cleared(bucket.array, e), !.current = FALSE]
      PROVE  TypeOK' /\ RunInv' /\ session'.status = "run"
  <2>1. /\ bucket # NoBucket /\ ~dump.moved /\ bucket.current /\ Key(e, dump.bits) = dump.arg0
    BY <1>5 DEF Touches
  <2>2. PICK b : b = bucket
    OBVIOUS
  <2>3. b \in BucketType /\ b.array \in Seq(Elems \cup {Hole})
    BY <2>1, <2>2, TypeFacts
  <2>4. PICK a : a = Cleared(b.array, e)
    OBVIOUS
  <2>5. PICK c : c = bucket'
    OBVIOUS
  <2>6. PICK q : q = With(present[Len(present)], S)
    OBVIOUS
  <2>7. PICK d : d = dump'
    OBVIOUS
  <2>8. PICK p : p = present[Len(present)]
    OBVIOUS
  <2>9. a \in Seq(Elems \cup {Hole})
    <3>1. PICK h : h = Heard(out, session, Len(present))
      OBVIOUS
    <3>2. PICK v \in Seq(Words), u \in Seq(Words) : Parts(msg.elems, v, u, h, b, p, dump)
      BY <2>1, <2>2, <2>8, <3>1, AtBucket
    <3>3. ArrayInv(b, p, dump)
      BY <3>2 DEF Parts
    <3>4. e \in dump.table /\ e # Hole
      <4>1. dump.elems = dump.table
        BY <1>2, <2>1, Zenon DEF RunInv, DumpInv, Change
      <4> QED
        BY <1>2, <4>1, NoWord
    <3>5. b.current
      BY <2>1, <2>2
    <3>6. PICK j \in DOMAIN b.array : b.array[j] = e
      BY <2>1, <3>3, <3>4, <3>5 DEF ArrayInv
    <3>7. \A k \in DOMAIN b.array : b.array[k] = e => k = j
      BY <3>3, <3>4, <3>6 DEF ArrayInv
    <3> QED
      BY <2>3, <2>4, <3>4, <3>6, <3>7, ClearedFacts
  <2>10. /\ c \in BucketType /\ c.array = a /\ c.slot = b.slot /\ c.found = b.found
         /\ c.trim = b.trim
    <3>1. CASE c = [b EXCEPT !.array = a]
      <4>1. c \in BucketType /\ IsBucket(c, a, b.slot, b.found, b.current, b.trim)
        BY <2>3, <2>9, <3>1, SetArray
      <4> QED
        BY <4>1 DEF IsBucket
    <3>2. CASE c = [b EXCEPT !.array = a, !.current = FALSE]
      <4>1. PICK g \in BOOLEAN : g = FALSE
        OBVIOUS
      <4>2. c = [b EXCEPT !.array = a, !.current = g]
        BY <3>2, <4>1, Zenon
      <4>3. c \in BucketType /\ IsBucket(c, a, b.slot, b.found, g, b.trim)
        BY <2>3, <2>9, <4>2, SetArrayCurrent, Zenon
      <4> QED
        BY <4>3 DEF IsBucket
    <3>3. \/ c = [b EXCEPT !.array = a]
          \/ c = [b EXCEPT !.array = a, !.current = FALSE]
      BY <1>5, <2>2, <2>4, <2>5, Zenon
    <3> QED
      BY <3>1, <3>2, <3>3
  <2>11. ASSUME IsChange(p, q, dump, d, S) PROVE BucketKept(b, c, p, q, dump, d)
    <3>1. IsChange(p, q, dump, d, dump.elems \ {e}) /\ b.current
      BY <1>1, <2>1, <2>2, <2>11
    <3>2. /\ c.array = Cleared(b.array, e) /\ c.slot = b.slot /\ c.found = b.found
          /\ c.trim = b.trim
      BY <2>4, <2>10
    <3> QED
      BY <1>2, <2>1, <2>3, <3>1, <3>2, ElementDeleted
  <2>12. IsChange(present[Len(present)], q, dump, dump', S) =>
           BucketKept(bucket, bucket', present[Len(present)], q, dump, dump')
    BY <2>2, <2>5, <2>7, <2>8, <2>11, Zenon
  <2>13. bucket' \in BucketType /\ bucket' # NoBucket
    BY <2>5, <2>10, ListingAssumption
  <2> QED
    BY <1>2, <1>3, <2>1, <2>6, <2>12, <2>13, HeldChange
<1> QED
  BY <1>4, <1>5, Zenon DEF Del

\* mtype_flush.
LEMMA FlushStep ==
  ASSUME TypeOK, RunInv, session.status = "run", NEW k, Flush(k)
  PROVE  TypeOK' /\ RunInv' /\ session'.status = "run"
<1>1. PICK S : S = dump.elems \ Bucket(dump.elems, dump.bits, k)
  OBVIOUS
<1>2. Change(S) /\ \A x : x \in S <=> x \in dump.elems /\ Key(x, dump.bits) # k
  BY <1>1 DEF Flush, Bucket
<1>3. S \in SUBSET Elems
  BY <1>2, TypeFacts
<1>4. CASE ~Touches(k) /\ UNCHANGED bucket
  <2>1. bucket # NoBucket /\ bucket'.current /\ ~dump.moved =>
          \A x : Key(x, dump.bits) = dump.arg0 => (x \in dump.elems <=> x \in S)
    BY <1>2, <1>4 DEF Touches
  <2> QED
    BY <1>2, <1>3, <1>4, <2>1, SameArrayStep
<1>5. ASSUME Touches(k), bucket' = [bucket EXCEPT !.current = FALSE]
      PROVE  TypeOK' /\ RunInv' /\ session'.status = "run"
  <2>1. bucket # NoBucket
    BY <1>5 DEF Touches
  <2>2. bucket'.current = FALSE
    <3>1. bucket \in BucketType
      BY <2>1, TypeFacts
    <3> QED
      BY <1>5, <3>1 DEF BucketType
  <2> QED
    BY <1>2, <1>3, <1>5, <2>1, <2>2, SameArrayStep
<1> QED
  BY <1>4, <1>5, Zenon DEF Flush
-----------------------------------------------------------------------------
(* The invariant holds.                                                    *)

\* A listing has not begun.
LEMMA ListingInvInit == Init => ListingInv
<1> SUFFICES ASSUME Init PROVE ListingInv
  OBVIOUS
<1>1. PICK b \in BOOLEAN : session = [status |-> "run", saved_setname |-> NoName,
                                      sort |-> b, sorted |-> <<>>]
  BY DEF Init
<1>2. dump = DumpAt(0) /\ bucket = NoBucket /\ msg = NoMsg /\ out = <<>> /\ present = <<>>
  BY DEF Init
<1>3. <<>> \in Seq(Words) /\ <<>> \in Seq(SectionType) /\ <<>> \in Seq(WitnessType)
      /\ Len(out) = 0 /\ Len(present) = 0
  BY <1>2, EmptySeq
<1>4. /\ session \in SessionType /\ session.status = "run" /\ session.saved_setname = NoName
      /\ session.sorted = <<>>
  BY <1>1, <1>3 DEF SessionType
<1>5. /\ dump \in DumpType
      /\ IsDump(dump, "scan", 0, FALSE, 0, 0, MinBits, {}, {}, FALSE)
  <2>1. 0 \in 0 .. MaxIndex
    BY ListingAssumption
  <2> QED
    BY <1>2, <2>1, AtIndex
<1>6. set \in [Indices -> {NoSet} \cup Names]
  <2>1. set \in [Indices -> Names]
    BY DEF Init
  <2> QED
    BY <2>1
<1>7. TypeOK
  BY <1>2, <1>3, <1>4, <1>5, <1>6 DEF TypeOK, DumpType, SessionType, SectionType, WitnessType
<1>8. DumpInv(dump, set, present)
  BY <1>5 DEF DumpInv, IsDump
<1>9. NameInv(dump, out, session, msg, present)
  BY <1>2, <1>3, <1>4, <1>5 DEF NameInv, IsDump
<1>10. OutInv(out, session)
  BY <1>2, <1>3, <1>4 DEF OutInv
<1>11. BehindInv(out, session, present)
  BY <1>3 DEF BehindInv
<1>12. ProgressInv(dump, bucket, out, session, msg, present)
  BY <1>2 DEF ProgressInv
<1>13. ListingExact /\ BrokenOnlyByRename
  BY <1>4 DEF ListingExact, BrokenOnlyByRename
<1> QED
  BY <1>4, <1>7, <1>8, <1>9, <1>10, <1>11, <1>12, <1>13 DEF ListingInv, RunInv

\* The others keep the invariant of a running listing.
LEMMA OthersStep ==
  ASSUME TypeOK, RunInv, session.status = "run", Others
  PROVE  TypeOK' /\ RunInv' /\ session'.status = "run"
BY AddStep, DelStep, FlushStep, ResizeStep, DestroyStep, CreateStep, RenameStep DEF Others

\* Every step keeps the invariant.
LEMMA ListingInvNext == ListingInv /\ [Next]_vars => ListingInv'
<1> SUFFICES ASSUME ListingInv, [Next]_vars PROVE ListingInv'
  OBVIOUS
<1>1. ASSUME TypeOK', RunInv', session'.status = "run" PROVE ListingInv'
  BY <1>1, Zenon DEF ListingInv, ListingExact, BrokenOnlyByRename
<1>2. ASSUME Next PROVE ListingInv'
  <2>1. session.status = "run"
    BY <1>2 DEF Next, Listing
  <2>2. TypeOK /\ RunInv
    BY <2>1 DEF ListingInv
  <2>3. CASE DumpSkip
    BY <1>1, <2>1, <2>2, <2>3, DumpSkipStep
  <2>4. CASE DumpHead
    BY <1>1, <2>1, <2>2, <2>4, DumpHeadStep
  <2>5. CASE ReadBucket
    BY <1>1, <2>1, <2>2, <2>5, ReadBucketStep
  <2>6. CASE TestSlot
    BY <1>1, <2>1, <2>2, <2>6, TestSlotStep
  <2>7. CASE CopySlot
    BY <1>1, <2>1, <2>2, <2>7, CopySlotStep
  <2>8. CASE EndBucket
    BY <1>1, <2>1, <2>2, <2>8, EndBucketStep
  <2>9. CASE MsgFull
    BY <1>1, <2>1, <2>2, <2>9, MsgFullStep
  <2>10. CASE MsgTooSmall
    BY <1>1, <2>1, <2>2, <2>10, MsgTooSmallStep
  <2>11. CASE SetListed
    BY <1>1, <2>1, <2>2, <2>11, SetListedStep
  <2>12. CASE CallbackHeader
    BY <1>1, <2>1, <2>2, <2>12, CallbackHeaderStep
  <2>13. CASE CallbackMore
    BY <1>1, <2>1, <2>2, <2>13, CallbackMoreStep
  <2>14. CASE CallbackBroken
    BY <2>1, <2>2, <2>14, CallbackBrokenStep
  <2>15. CASE CallbackDone
    BY <2>1, <2>2, <2>15, CallbackDoneStep
  <2>16. CASE Others
    BY <1>1, <2>1, <2>2, <2>16, OthersStep
  <2> QED
    BY <1>2, <2>3, <2>4, <2>5, <2>6, <2>7, <2>8, <2>9, <2>10, <2>11, <2>12, <2>13, <2>14,
       <2>15, <2>16
    DEF Next, Listing
<1>3. ASSUME UNCHANGED vars PROVE ListingInv'
  <2>1. TypeOK'
    BY <1>3 DEF ListingInv, TypeOK, vars
  <2>2. session'.status = "run" => RunInv'
    BY <1>3, Zenon DEF ListingInv, RunInv, vars
  <2>3. session'.status # "run" => OutputWellFormed'
    BY <1>3, Zenon DEF ListingInv, OutputWellFormed, vars
  <2>4. ListingExact' /\ BrokenOnlyByRename'
    BY <1>3, Zenon DEF ListingInv, ListingExact, BrokenOnlyByRename, vars
  <2> QED
    BY <2>1, <2>2, <2>3, <2>4 DEF ListingInv
<1> QED
  BY <1>2, <1>3

\* The invariant holds in every state.
LEMMA ListingInvAlways == Spec => []ListingInv
BY ListingInvInit, ListingInvNext, PTL DEF Spec

-----------------------------------------------------------------------------
(* The theorems.                                                           *)

\* Sets, message, session and output have their types whatever happens; no message
\* of domain_set_dump_start is longer than its page, and the table a listing holds
\* has no more bits than any table.
THEOREM ListingTypeCorrect == Spec => []TypeOK
<1>1. ListingInv => TypeOK
  BY DEF ListingInv
<1> QED
  BY <1>1, ListingInvAlways, PTL

\* What callback_done leaves behind is exact: a section for each set that
\* domain_set_dump_start met, every element that stayed in the set printed once
\* although mtype_list reads slot by slot while mtype_add and mtype_del edit the
\* same array, the table is flushed or resized, and sets are created, destroyed and
\* renamed; no word that never was in the set unless the set changed meanwhile.
THEOREM ListingIsExact == Spec => []ListingExact
<1>1. ListingInv => ListingExact
  BY DEF ListingInv
<1> QED
  BY <1>1, ListingInvAlways, PTL

\* print_set_done closes every section before list_create opens the next one and
\* when the listing ends, and what it prints of a sorted listing is in order.
THEOREM ListingWellFormed == Spec => []OutputWellFormed
<1>1. ListingInv => OutputWellFormed
  <2> SUFFICES ASSUME ListingInv PROVE OutputWellFormed
    OBVIOUS
  <2>1. CASE session.status = "run"
    <3>1. TypeOK /\ OutInv(out, session)
      BY <2>1 DEF ListingInv, RunInv
    <3> QED
      BY <2>1, <3>1, RunningIsWellFormed
  <2> QED
    BY <2>1 DEF ListingInv
<1> QED
  BY <1>1, ListingInvAlways, PTL

\* callback_list finds extra or missing data only after two sets of the listing
\* bore the same name.
THEOREM ListingBrokenOnlyByRename == Spec => []BrokenOnlyByRename
<1>1. ListingInv => BrokenOnlyByRename
  BY DEF ListingInv
<1> QED
  BY <1>1, ListingInvAlways, PTL
=============================================================================

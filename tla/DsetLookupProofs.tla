-------------------------- MODULE DsetLookupProofs --------------------------
(***************************************************************************)
(* Theorems about DsetLookup, for any domains, sizes and timeouts and any  *)
(* number of writers that follow each other during a lookup: what the      *)
(* lookup may miss and what it may match.                                  *)
(*                                                                         *)
(* The parts of the invariant are predicates of the values they are about, *)
(* so that the same lemma speaks of the values before and after a step.    *)
(***************************************************************************)
EXTENDS DsetLookup, FiniteSetTheorems, WellFoundedInduction, NaturalsInduction, TLAPS

(* Numbers, sizes and ranks.                                               *)

\* A set of natural numbers that is not empty has a least member, and Min
\* chooses it.
LEMMA LeastIsMember ==
  ASSUME NEW T \in SUBSET Nat, T # {}
  PROVE  Min(T) \in T /\ \A y \in T : Min(T) <= y
<1> DEFINE R == OpToRel(<, Nat)
<1>1. PICK x \in T : \A y \in T : ~(<<y, x>> \in R)
  <2>1. IsWellFoundedOn(R, Nat)
    BY NatLessThanWellFounded
  <2> HIDE DEF R
  <2> QED
    BY <2>1, WFMin
<1>2. ASSUME NEW y \in T PROVE x <= y
  <2>1. y < x => <<y, x>> \in R
    BY DEF OpToRel
  <2>2. x \in Nat /\ y \in Nat
    OBVIOUS
  <2> HIDE DEF R
  <2> QED
    BY <1>1, <2>1, <2>2
<1>3. \E z \in T : \A y \in T : z <= y
  BY <1>2
<1> QED
  BY <1>3 DEF Min

\* R is a strict total order of S.
TotalOrder(S, R) ==
  /\ \A x \in S : <<x, x>> \notin R
  /\ \A x, y, z \in S : <<x, y>> \in R /\ <<y, z>> \in R => <<x, z>> \in R
  /\ \A x, y \in S : x = y \/ <<x, y>> \in R \/ <<y, x>> \in R

\* The number of members that come before each one.
RankIn(S, R) == [x \in S |-> Cardinality({y \in S : <<y, x>> \in R})]

\* In a finite set with a strict total order every rank below the number of
\* members belongs to exactly one member.
LEMMA Ranks ==
  ASSUME NEW S, IsFiniteSet(S), NEW R, TotalOrder(S, R)
  PROVE  /\ RankIn(S, R) \in [S -> 0 .. Cardinality(S) - 1]
         /\ \A x, y \in S : RankIn(S, R)[x] = RankIn(S, R)[y] => x = y
         /\ \A i \in 0 .. Cardinality(S) - 1 : \E x \in S : RankIn(S, R)[x] = i
<1>a. PICK f : f = RankIn(S, R)
  OBVIOUS
<1> USE <1>a DEF TotalOrder, RankIn
<1> DEFINE below(x) == {y \in S : <<y, x>> \in R}
<1>0. Cardinality(S) \in Nat
  BY FS_CardinalityType
<1>1. ASSUME NEW x \in S
      PROVE  IsFiniteSet(below(x)) /\ Cardinality(below(x)) \in 0 .. Cardinality(S) - 1
  <2>1. below(x) \in SUBSET S /\ x \notin below(x)
    OBVIOUS
  <2> HIDE DEF below
  <2>2. /\ IsFiniteSet(below(x)) /\ Cardinality(below(x)) <= Cardinality(S)
        /\ Cardinality(S) = Cardinality(below(x)) => S = below(x)
    BY <2>1, FS_Subset
  <2>3. Cardinality(below(x)) \in Nat
    BY <2>2, FS_CardinalityType
  <2> QED
    BY <1>0, <2>1, <2>2, <2>3
<1>2. f \in [S -> 0 .. Cardinality(S) - 1]
  BY <1>1
<1>3. ASSUME NEW x \in S, NEW y \in S, <<x, y>> \in R PROVE f[x] # f[y]
  <2>1. below(x) \in SUBSET below(y) /\ x \in below(y) /\ x \notin below(x)
    BY <1>3
  <2>2. f[x] = Cardinality(below(x)) /\ f[y] = Cardinality(below(y))
    OBVIOUS
  <2>3. IsFiniteSet(below(y))
    BY <1>1
  <2> HIDE DEF below
  <2>4. Cardinality(below(y)) = Cardinality(below(x)) => below(y) = below(x)
    BY <2>1, <2>3, FS_Subset
  <2> QED
    BY <2>1, <2>2, <2>4
<1>4. \A x, y \in S : f[x] = f[y] => x = y
  BY <1>3
<1>5. f \in Injection(S, 0 .. Cardinality(S) - 1)
  BY <1>2, <1>4 DEF Injection, IsInjective
<1>6. /\ IsFiniteSet(0 .. Cardinality(S) - 1)
      /\ Cardinality(0 .. Cardinality(S) - 1) = Cardinality(S)
  <2>1. 0 \in Int /\ Cardinality(S) - 1 \in Int
    BY <1>0
  <2>2. /\ IsFiniteSet(0 .. Cardinality(S) - 1)
        /\ Cardinality(0 .. Cardinality(S) - 1) =
             IF 0 > Cardinality(S) - 1 THEN 0 ELSE (Cardinality(S) - 1) - 0 + 1
    BY <2>1, FS_Interval
  <2> QED
    BY <1>0, <2>2
<1>7. f \in Surjection(S, 0 .. Cardinality(S) - 1)
  BY <1>5, <1>6, FS_Injection
<1>8. \A i \in 0 .. Cardinality(S) - 1 : \E x \in S : f[x] = i
  BY <1>7 DEF Surjection
<1> QED
  BY <1>a, <1>2, <1>4, <1>8, Zenon

\* Nth numbers the members of a finite set of numbers from 0.
LEMMA NthNumbers ==
  ASSUME NEW S \in SUBSET Int, IsFiniteSet(S)
  PROVE  /\ \A i \in 0 .. Cardinality(S) - 1 : Nth(S, i) \in S
         /\ \A i, j \in 0 .. Cardinality(S) - 1 : Nth(S, i) = Nth(S, j) => i = j
         /\ \A x \in S : \E i \in 0 .. Cardinality(S) - 1 : Nth(S, i) = x
<1>1. PICK R : R = {p \in S \X S : p[1] < p[2]}
  OBVIOUS
<1>2. \A x, y \in S : <<x, y>> \in R <=> x < y
  BY <1>1
<1>3. PICK f : f = RankIn(S, R)
  OBVIOUS
<1>4. \A x \in S : f[x] = Cardinality({y \in S : y < x})
  <2>1. \A x \in S : {y \in S : <<y, x>> \in R} = {y \in S : y < x}
    BY <1>2
  <2> QED
    BY <2>1, <1>3 DEF RankIn
<1>5. TotalOrder(S, R)
  BY <1>2 DEF TotalOrder
<1>6. /\ f \in [S -> 0 .. Cardinality(S) - 1]
      /\ \A x, y \in S : f[x] = f[y] => x = y
      /\ \A i \in 0 .. Cardinality(S) - 1 : \E x \in S : f[x] = i
  <2>1. /\ RankIn(S, R) \in [S -> 0 .. Cardinality(S) - 1]
        /\ \A x, y \in S : RankIn(S, R)[x] = RankIn(S, R)[y] => x = y
        /\ \A i \in 0 .. Cardinality(S) - 1 : \E x \in S : RankIn(S, R)[x] = i
    BY <1>5, Ranks, Zenon
  <2> QED
    BY <2>1, <1>3, Zenon
<1>7. ASSUME NEW i \in 0 .. Cardinality(S) - 1 PROVE Nth(S, i) \in S /\ f[Nth(S, i)] = i
  <2>1. \E x \in S : Cardinality({y \in S : y < x}) = i
    BY <1>4, <1>6, Zenon
  <2>2. Nth(S, i) \in S /\ Cardinality({y \in S : y < Nth(S, i)}) = i
    BY <2>1, Zenon DEF Nth
  <2> QED
    BY <2>2, <1>4
<1>8. \A x \in S : \E i \in 0 .. Cardinality(S) - 1 : Nth(S, i) = x
  <2> TAKE x \in S
  <2>1. f[x] \in 0 .. Cardinality(S) - 1
    BY <1>6
  <2>2. Nth(S, f[x]) \in S /\ f[Nth(S, f[x])] = f[x]
    BY <2>1, <1>7
  <2> QED
    BY <2>1, <2>2, <1>6
<1> QED
  BY <1>6, <1>7, <1>8

\* The sizes: multiples of InitSize up to MaxSize.
LEMMA Multiples ==
  ASSUME NEW a \in Nat, a % InitSize = 0
  PROVE  \E q \in Nat : a = InitSize * q
<1>1. InitSize \in Nat \ {0}
  BY LookupAssumption
<1>2. a = InitSize * (a \div InitSize) + (a % InitSize) /\ a \div InitSize \in Nat
  BY <1>1
<1> QED
  BY <1>1, <1>2

LEMMA SizesGrow ==
  ASSUME NEW s \in Sizes
  PROVE  /\ s \in Nat
         /\ s < MaxSize => s + InitSize \in Sizes
         /\ s >= InitSize => s - InitSize \in Sizes
<1>0. InitSize \in Nat \ {0} /\ MaxSize \in Nat \ {0} /\ MaxSize % InitSize = 0
  BY LookupAssumption
<1> USE <1>0
<1>1. PICK q \in Nat : s = InitSize * q
  BY Multiples DEF Sizes
<1>2. PICK m \in Nat : MaxSize = InitSize * m
  BY Multiples
<1>3. s \in 0 .. MaxSize
  BY DEF Sizes
<1>4. ASSUME s < MaxSize PROVE s + InitSize \in Sizes
  <2>1. s + InitSize = InitSize * (q + 1)
    BY <1>1, <1>3
  <2>2. (s + InitSize) % InitSize = 0
    <3> DEFINE r == q + 1
    <3>1. r \in Nat
      OBVIOUS
    <3> HIDE DEF r
    <3>2. (InitSize * r) % InitSize = 0
      BY <3>1
    <3> QED
      BY <3>2, <2>1 DEF r
  <2>3. s + InitSize <= MaxSize
    <3>1. q * InitSize < m * InitSize
      BY <1>1, <1>2, <1>4
    <3>2. q * InitSize + InitSize <= m * InitSize
      BY <3>1
    <3> QED
      BY <3>2, <1>1, <1>2
  <2> QED
    BY <2>2, <2>3, <1>3 DEF Sizes
<1>5. ASSUME s >= InitSize PROVE s - InitSize \in Sizes
  <2>1. q # 0
    BY <1>1, <1>5
  <2> DEFINE r == q - 1
  <2>2. r \in Nat /\ s - InitSize = InitSize * r
    BY <2>1, <1>1
  <2> HIDE DEF r
  <2>3. (InitSize * r) % InitSize = 0
    BY <2>2
  <2> QED
    BY <2>2, <2>3, <1>3, <1>5 DEF Sizes
<1> QED
  BY <1>3, <1>4, <1>5

\* The size that c slots need, rounded up.
LEMMA SizesRound ==
  ASSUME NEW c \in 0 .. MaxSize,
         NEW s, s = InitSize * ((c + InitSize - 1) \div InitSize)
  PROVE  s \in Sizes /\ c <= s
<1>0. InitSize \in Nat \ {0} /\ MaxSize \in Nat \ {0} /\ MaxSize % InitSize = 0
  BY LookupAssumption
<1> USE <1>0
<1> DEFINE a == c + InitSize - 1
           q == a \div InitSize
<1>1. a \in Nat
  OBVIOUS
<1>2. a = InitSize * q + (a % InitSize) /\ q \in Nat /\ a % InitSize \in 0 .. InitSize - 1
  <2> HIDE DEF a
  <2> QED
    BY <1>1
<1>3. s = InitSize * q
  OBVIOUS
<1> HIDE DEF q
<1>4. s % InitSize = 0
  BY <1>2, <1>3
<1>5. s \in Nat /\ s <= c + InitSize - 1 /\ c <= s
  <2>1. s \in Int
    BY <1>2, <1>3
  <2>2. c + InitSize - 1 = s + (a % InitSize)
    BY <1>2, <1>3
  <2> DEFINE r == a % InitSize
  <2>3. r \in 0 .. InitSize - 1
    BY <1>2
  <2> HIDE DEF r, a
  <2> QED
    BY <2>1, <2>2, <2>3 DEF r
<1>6. PICK m \in Nat : MaxSize = InitSize * m
  BY Multiples
<1>7. s <= MaxSize
  <2>1. q * InitSize > m * InitSize => q * InitSize >= m * InitSize + InitSize
    BY <1>2
  <2> QED
    BY <2>1, <1>2, <1>3, <1>5, <1>6
<1> QED
  BY <1>4, <1>5, <1>7 DEF Sizes

-----------------------------------------------------------------------------
(* The invariant.                                                          *)

\* The time at which t is over.
Late(t, time) == t # PERMANENT /\ t < time

\* A timeout of s is over no earlier than one of t.
Covers(s, t) == s = PERMANENT \/ (t # PERMANENT /\ s >= t)

\* The slots of an array in which something is.
Slots(n) == IF n = NoArray THEN {} ELSE n.used

ArrayOK(n) ==
  n # NoArray => n.size \in Sizes /\ n \in ArrayType(n.size) /\ n.used \subseteq 0 .. n.pos - 1

\* A writer at work on a slot.
Busy(w) == w.pc \in {"copy", "time", "bit"}

\* The slots nobody is writing.
SettledIn(n, w) == {i \in Slots(n) : ~(Busy(w) /\ i = w.slot)}

\* The domains of the history that are in the set.
InSet(m, time) == {d \in Domains : m[d] # Never /\ ~Late(m[d], time)}

\* The array and the history agree: a slot that nobody is writing has a domain of
\* its own with the deadline of the history, and a domain that is in the set
\* is found, and as long as it should.
Agree(n, w, m, time) ==
  /\ \A i \in SettledIn(n, w) :
       /\ n.slot[i].half \in Domains
       /\ m[n.slot[i].half] = n.slot[i].timeout
       /\ Busy(w) => n.slot[i].half # w.domain
  /\ \A i, j \in SettledIn(n, w) : n.slot[i].half = n.slot[j].half => i = j
  /\ \A d \in InSet(m, time) :
       \E i \in Slots(n) : n.slot[i].half = d /\ Covers(n.slot[i].timeout, m[d])

\* What a writer in the middle of its operation knows about its slot.
WriterAt(n, w, m, time) ==
  /\ w.pc = "idle" => w = NoWriter
  /\ w.pc # "idle" => n # NoArray
  /\ ~Busy(w) => w.domain = NoDomain
  /\ w.pc = "trim" => w.slot \notin n.used /\ w.slot < n.pos
  /\ Busy(w) =>
       /\ w.domain \in Domains /\ w.slot < n.pos
       /\ w.domain \in InSet(m, time) => Covers(w.value, m[w.domain])
  /\ w.pc = "copy" =>
       /\ w.slot \in n.used => Late(n.slot[w.slot].timeout, time)
       /\ \A h \in Halves \ w.todo : n.slot[w.slot].half[h] = w.domain[h]
  /\ w.pc \in {"time", "bit"} => n.slot[w.slot].half = w.domain
  /\ w.pc = "bit" => n.slot[w.slot].timeout = w.value

ReadingAt(l) == l.pc \in {"slot", "first", "second", "time"}

Comparing(l) == l.pc \in {"first", "second", "time"}

HeldOf(n, o) == IF o = NoArray THEN n ELSE o

TestedBy(l) == l.packet.suffix[l.tested]

\* The state of the lookup fits its place in the code.
LookAt(n, o, l, du, so, ra) ==
  /\ IF l.pc = "off" THEN l.tested = 0
     ELSE l.packet \in Packets /\ l.tested \in 1 .. Len(l.packet.suffix) /\ ~l.matched
  /\ l.pc = "test" => l.slot = 0
  /\ IF ReadingAt(l) THEN HeldOf(n, o) # NoArray /\ l.slot <= HeldOf(n, o).size
     ELSE o = NoArray /\ du = Never /\ so = FALSE /\ ra = FALSE
  /\ Comparing(l) => l.slot < HeldOf(n, o).size

\* What justifies a match: a slot with the tested domain whose time is not
\* over shows that the domain was in the set during the test.
Justified(n, o, w, l, m, so, ra, time) ==
  /\ ReadingAt(l) /\ TestedBy(l) \in InSet(m, time) \cup {w.domain} => so
  /\ \A i \in Slots(o) :
       o.slot[i].half = TestedBy(l) /\ ~Late(o.slot[i].timeout, time) => so
  /\ Comparing(l) /\ ~ra =>
       LET s == HeldOf(n, o).slot[l.slot] IN
       /\ l.pc \in {"second", "time"} => s.half[1] = TestedBy(l)[1]
       /\ l.pc = "time" => s.half[2] = TestedBy(l)[2]
       /\ s.half = TestedBy(l) /\ ~Late(s.timeout, time) => so

\* What excludes a miss: the tested domain, if it was in the set all the time,
\* is in a slot that the lookup has not passed.
Ahead(n, o, l, m, du, time) ==
  du # Never =>
    /\ ReadingAt(l) /\ TestedBy(l) \in InSet(m, time) /\ Covers(m[TestedBy(l)], du)
    /\ ~Late(du, time) =>
         \E i \in Slots(HeldOf(n, o)) :
           /\ i >= l.slot
           /\ HeldOf(n, o).slot[i].half = TestedBy(l)
           /\ Covers(HeldOf(n, o).slot[i].timeout, du)

LookupInv ==
  /\ TypeOK
  /\ Agree(bucket, writer, member, now)
  /\ WriterAt(bucket, writer, member, now)
  /\ LookAt(bucket, old, look, due, sometime, raced)
  /\ Justified(bucket, old, writer, look, member, sometime, raced, now)
  /\ Ahead(bucket, old, look, member, due, now)

-----------------------------------------------------------------------------
(* Deadlines.                                                              *)

LEMMA CoversTransitive ==
  ASSUME NEW r \in Nat, NEW s \in Nat, NEW t \in Nat, Covers(r, s), Covers(s, t)
  PROVE  Covers(r, t)
BY DEF Covers, PERMANENT

\* What is covered is over when that which covers it is.
LEMMA CoversLate ==
  ASSUME NEW s \in Nat, NEW t \in Nat, NEW time \in Nat, Covers(s, t), Late(s, time)
  PROVE  Late(t, time)
BY DEF Covers, Late, PERMANENT

\* What is over stays so.
LEMMA LateStays ==
  ASSUME NEW t \in Nat, NEW time \in Nat, NEW next \in Nat, time <= next, Late(t, time)
  PROVE  Late(t, next)
BY DEF Late, PERMANENT

\* The sooner of two deadlines is one of them, and both cover it.
LEMMA SoonerIs ==
  ASSUME NEW s \in Nat, NEW t \in Nat
  PROVE  Sooner(s, t) \in Nat /\ Covers(s, Sooner(s, t)) /\ Covers(t, Sooner(s, t))
<1>1. {s, t} \in SUBSET Nat /\ {s, t} # {}
  OBVIOUS
<1>2. Min({s, t}) \in {s, t} /\ \A y \in {s, t} : Min({s, t}) <= y
  BY <1>1, LeastIsMember
<1>3. Max({s, t}) \in {s, t} /\ \A y \in {s, t} : Max({s, t}) >= y
  <2>1. \E x \in {s, t} : \A y \in {s, t} : x >= y
    <3>1. CASE s >= t
      BY <3>1
    <3>2. CASE ~(s >= t)
      BY <3>2
    <3> QED
      BY <3>1, <3>2
  <2> QED
    BY <2>1 DEF Max
<1>4. CASE PERMANENT \in {s, t}
  BY <1>3, <1>4 DEF Sooner, Covers, PERMANENT
<1>5. CASE PERMANENT \notin {s, t}
  BY <1>2, <1>5 DEF Sooner, Covers, PERMANENT
<1> QED
  BY <1>4, <1>5

\* The operators of the model, which read the clock.
LEMMA AtThisTime ==
  /\ \A t : Lapsed(t) <=> Late(t, now)
  /\ Members = InSet(member, now)
  /\ Members' = InSet(member', now')
  /\ Reading <=> ReadingAt(look)
  /\ Held = HeldOf(bucket, old)
  /\ Tested = TestedBy(look)
BY DEF Lapsed, Late, Members, InSet, Reading, ReadingAt, Held, HeldOf, Tested, TestedBy

-----------------------------------------------------------------------------
(* Arrays.                                                                 *)

\* What it means to be an array.
LEMMA ArrayIs ==
  ASSUME NEW n, n # NoArray, ArrayOK(n)
  PROVE  /\ n = [size |-> n.size, pos |-> n.pos, used |-> n.used, slot |-> n.slot]
         /\ n.size \in Sizes /\ n.size \in 0 .. MaxSize
         /\ n.pos \in 0 .. n.size
         /\ n.used \in SUBSET (0 .. n.pos - 1) /\ n.used \in SUBSET Nat
         /\ n.used \in SUBSET (0 .. n.size - 1)
         /\ n.slot \in [0 .. n.size - 1 -> SlotType]
         /\ Live(n) = n.used /\ Slots(n) = n.used
         /\ IsFiniteSet(n.used)
<1>0. MaxSize \in Nat
  BY LookupAssumption
<1>1. /\ n.size \in Sizes /\ n.size \in 0 .. MaxSize /\ n.size \in Nat
      /\ n \in ArrayType(n.size) /\ n.used \in SUBSET (0 .. n.pos - 1)
  BY <1>0 DEF ArrayOK, Sizes
<1>2. /\ n = [size |-> n.size, pos |-> n.pos, used |-> n.used, slot |-> n.slot]
      /\ n.pos \in 0 .. n.size /\ n.slot \in [0 .. n.size - 1 -> SlotType]
      /\ n.used \in SUBSET (0 .. n.size - 1)
  BY <1>1 DEF ArrayType
<1>3. n.used \in SUBSET Nat /\ Live(n) = n.used /\ Slots(n) = n.used
  BY <1>1, <1>2 DEF Live, Slots
<1>4. IsFiniteSet(n.used)
  <2>1. 0 \in Int /\ n.pos - 1 \in Int
    BY <1>1, <1>2
  <2>2. IsFiniteSet(0 .. n.pos - 1)
    BY <2>1, FS_Interval
  <2> QED
    BY <2>2, <1>1, FS_Subset
<1> QED
  BY <1>1, <1>2, <1>3, <1>4

\* How to see that a record is an array.
LEMMA MakeArray ==
  ASSUME NEW size \in Sizes, NEW p \in 0 .. size, NEW u \in SUBSET (0 .. p - 1),
         NEW v \in [0 .. size - 1 -> SlotType],
         NEW n, n = [size |-> size, pos |-> p, used |-> u, slot |-> v]
  PROVE  ArrayOK(n) /\ n # NoArray
<1>0. MaxSize \in Nat /\ \A x \in Sizes : NoArray \notin ArrayType(x)
  BY LookupAssumption
<1>1. size \in Nat
  BY <1>0 DEF Sizes
<1>2. n.size = size /\ n.pos = p /\ n.used = u /\ n.slot = v
  OBVIOUS
<1>3. u \in SUBSET (0 .. size - 1)
  BY <1>1
<1>4. n \in ArrayType(size)
  BY <1>1, <1>3 DEF ArrayType
<1> QED
  BY <1>0, <1>2, <1>4 DEF ArrayOK

\* A slot has the halves of an element and a timeout.
LEMMA SlotIs ==
  ASSUME NEW s \in SlotType
  PROVE  s.timeout \in Nat /\ s.half = [h \in Halves |-> s.half[h]]
BY DEF SlotType

LEMMA ZeroSlotType == ZeroSlot \in SlotType
BY DEF ZeroSlot, SlotType, PERMANENT

\* A domain with a deadline fits into a slot.
LEMMA DomainInSlot ==
  ASSUME NEW d \in Domains, NEW t \in Nat
  PROVE  [half |-> d, timeout |-> t] \in SlotType
<1>1. d = [h \in Halves |-> d[h]]
  BY LookupAssumption
<1>2. [h \in Halves |-> d[h]] \in [Halves -> {NoDomain} \cup {e[h] : e \in Domains, h \in Halves}]
  OBVIOUS
<1> QED
  BY <1>1, <1>2 DEF SlotType

\* Used slots and holes make up the slots below pos.
LEMMA HolesCount ==
  ASSUME NEW n, n # NoArray, ArrayOK(n)
  PROVE  /\ Cardinality(n.used) \in Nat /\ Cardinality(Holes(n)) \in Nat
         /\ Cardinality(n.used) + Cardinality(Holes(n)) = n.pos
<1>1. /\ n.pos \in Nat /\ n.used \in SUBSET (0 .. n.pos - 1) /\ IsFiniteSet(n.used)
  BY ArrayIs
<1>2. IsFiniteSet(0 .. n.pos - 1) /\ Cardinality(0 .. n.pos - 1) = n.pos
  <2>1. 0 \in Int /\ n.pos - 1 \in Int
    BY <1>1
  <2>2. /\ IsFiniteSet(0 .. n.pos - 1)
        /\ Cardinality(0 .. n.pos - 1) = IF 0 > n.pos - 1 THEN 0 ELSE (n.pos - 1) - 0 + 1
    BY <2>1, FS_Interval
  <2> QED
    BY <1>1, <2>2
<1>3. Holes(n) = (0 .. n.pos - 1) \ n.used /\ (0 .. n.pos - 1) \cap n.used = n.used
  BY <1>1 DEF Holes
<1>4. /\ IsFiniteSet(Holes(n))
      /\ Cardinality(Holes(n)) = Cardinality(0 .. n.pos - 1) - Cardinality(n.used)
  <2>1. /\ IsFiniteSet((0 .. n.pos - 1) \ n.used)
        /\ Cardinality((0 .. n.pos - 1) \ n.used) =
             Cardinality(0 .. n.pos - 1) - Cardinality((0 .. n.pos - 1) \cap n.used)
    BY <1>2, FS_Difference, Zenon
  <2> QED
    BY <1>3, <2>1, Zenon
<1>5. Cardinality(n.used) \in Nat
  BY <1>1, FS_CardinalityType
<1>6. Cardinality(Holes(n)) \in Nat
  BY <1>4, FS_CardinalityType
<1> QED
  BY <1>1, <1>2, <1>4, <1>5, <1>6

\* The slots of n are those of k, perhaps in other places.
Moved(n, k) ==
  \E g \in [Slots(k) -> Slots(n)] :
    /\ \A i, j \in Slots(k) : g[i] = g[j] => i = j
    /\ \A x \in Slots(n) : \E i \in Slots(k) : g[i] = x
    /\ \A i \in Slots(k) : k.slot[i] = n.slot[g[i]]

\* Nothing moves.
LEMMA MovedNot ==
  ASSUME NEW n, NEW k, Slots(k) = Slots(n), \A i \in Slots(k) : k.slot[i] = n.slot[i]
  PROVE  Moved(n, k)
<1> DEFINE g == [i \in Slots(k) |-> i]
<1>1. g \in [Slots(k) -> Slots(n)] /\ \A i \in Slots(k) : g[i] = i
  OBVIOUS
<1> HIDE DEF g
<1> QED
  BY <1>1 DEF Moved

\* An array whose slots are moved together has all of them.
LEMMA CompactDoes ==
  ASSUME NEW n, n # NoArray, ArrayOK(n), NEW size \in Sizes, Cardinality(n.used) <= size
  PROVE  /\ ArrayOK(Compact(n, size)) /\ Compact(n, size) # NoArray
         /\ Moved(n, Compact(n, size))
<1>1. PICK c : c = Cardinality(n.used)
  OBVIOUS
<1>2. c \in Nat /\ c <= size
  BY <1>1, HolesCount
<1>3. n.used \in SUBSET Int /\ IsFiniteSet(n.used) /\ Live(n) = n.used
      /\ \A i \in n.used : n.slot[i] \in SlotType
  BY ArrayIs
<1>4. /\ \A i \in 0 .. c - 1 : Nth(n.used, i) \in n.used
      /\ \A i, j \in 0 .. c - 1 : Nth(n.used, i) = Nth(n.used, j) => i = j
      /\ \A x \in n.used : \E i \in 0 .. c - 1 : Nth(n.used, i) = x
  BY <1>1, <1>3, NthNumbers
<1>5. PICK v : v = [i \in 0 .. size - 1 |-> IF i < c THEN n.slot[Nth(n.used, i)] ELSE ZeroSlot]
  OBVIOUS
<1>6. PICK k : k = [size |-> size, pos |-> c, used |-> 0 .. c - 1, slot |-> v]
  OBVIOUS
<1>7. k = Compact(n, size)
  BY <1>1, <1>3, <1>5, <1>6, Zenon DEF Compact
<1>8. size \in Nat
  BY LookupAssumption DEF Sizes
<1>9. v \in [0 .. size - 1 -> SlotType]
  <2>1. ASSUME NEW i \in 0 .. size - 1
        PROVE  (IF i < c THEN n.slot[Nth(n.used, i)] ELSE ZeroSlot) \in SlotType
    <3>1. CASE i < c
      <4>1. i \in 0 .. c - 1
        BY <3>1, <1>2, <1>8
      <4> QED
        BY <3>1, <4>1, <1>3, <1>4
    <3>2. CASE ~(i < c)
      BY <3>2, ZeroSlotType
    <3> QED
      BY <3>1, <3>2
  <2> QED
    BY <2>1, <1>5
<1>10. ArrayOK(k) /\ k # NoArray
  <2>1. c \in 0 .. size /\ (0 .. c - 1) \in SUBSET (0 .. c - 1)
    BY <1>2, <1>8
  <2> QED
    BY <2>1, <1>6, <1>9, MakeArray
<1>11. Slots(k) = 0 .. c - 1 /\ Slots(n) = n.used
  BY <1>6, <1>10 DEF Slots
<1>12. Moved(n, k)
  <2> DEFINE g == [i \in 0 .. c - 1 |-> Nth(n.used, i)]
  <2>1. g \in [0 .. c - 1 -> n.used] /\ \A i \in 0 .. c - 1 : g[i] = Nth(n.used, i)
    BY <1>4
  <2> HIDE DEF g
  <2>2. \A i \in 0 .. c - 1 : k.slot[i] = n.slot[g[i]]
    <3> TAKE i \in 0 .. c - 1
    <3>1. k.slot = v /\ i \in 0 .. size - 1 /\ i < c
      BY <1>2, <1>6, <1>8
    <3>2. v[i] = n.slot[Nth(n.used, i)]
      BY <3>1, <1>5
    <3> QED
      BY <3>1, <3>2, <2>1
  <2>3. /\ \A i, j \in 0 .. c - 1 : g[i] = g[j] => i = j
        /\ \A x \in n.used : \E i \in 0 .. c - 1 : g[i] = x
    BY <2>1, <1>4
  <2>4. g \in [Slots(k) -> Slots(n)]
    BY <2>1, <1>11, Zenon
  <2>5. /\ \A i, j \in Slots(k) : g[i] = g[j] => i = j
        /\ \A x \in Slots(n) : \E i \in Slots(k) : g[i] = x
        /\ \A i \in Slots(k) : k.slot[i] = n.slot[g[i]]
    BY <2>2, <2>3, <1>11
  <2> QED
    BY <2>4, <2>5, Zenon DEF Moved
<1> QED
  BY <1>7, <1>10, <1>12

\* An array with one more slot at the end.
LEMMA AppendedDoes ==
  ASSUME NEW n, n # NoArray, ArrayOK(n), n.pos < n.size \/ n.size < MaxSize,
         NEW d \in Domains, NEW t \in Nat
  PROVE  LET k == Appended(n, d, t) IN
         /\ ArrayOK(k) /\ k # NoArray
         /\ Slots(k) = Slots(n) \cup {n.pos} /\ n.pos \notin Slots(n)
         /\ \A i \in Slots(n) : k.slot[i] = n.slot[i]
         /\ k.slot[n.pos] = [half |-> d, timeout |-> t]
<1>1. PICK size : size = IF n.pos < n.size THEN n.size ELSE n.size + InitSize
  OBVIOUS
<1>2. PICK s : s = [half |-> d, timeout |-> t]
  OBVIOUS
<1>3. PICK v : v = [i \in 0 .. size - 1 |->
                      IF i = n.pos THEN s ELSE IF i < n.size THEN n.slot[i] ELSE ZeroSlot]
  OBVIOUS
<1>4. PICK k : k = [size |-> size, pos |-> n.pos + 1, used |-> n.used \cup {n.pos}, slot |-> v]
  OBVIOUS
<1>5. k = Appended(n, d, t)
  BY <1>1, <1>2, <1>3, <1>4, Zenon DEF Appended
<1>6. /\ n.size \in Sizes /\ n.size \in Nat /\ n.pos \in 0 .. n.size
      /\ n.used \in SUBSET (0 .. n.pos - 1) /\ n.slot \in [0 .. n.size - 1 -> SlotType]
      /\ Slots(n) = n.used
  BY ArrayIs
<1>7. InitSize \in Nat \ {0} /\ size \in Sizes /\ size \in Nat /\ n.pos < size /\ n.size <= size
  <2>1. InitSize \in Nat \ {0} /\ n.size < MaxSize => n.size + InitSize \in Sizes
    BY <1>6, SizesGrow, LookupAssumption
  <2> QED
    BY <2>1, <1>1, <1>6, LookupAssumption
<1>8. v \in [0 .. size - 1 -> SlotType]
  <2>1. ASSUME NEW i \in 0 .. size - 1
        PROVE  (IF i = n.pos THEN s ELSE IF i < n.size THEN n.slot[i] ELSE ZeroSlot) \in SlotType
    <3>1. i < n.size => n.slot[i] \in SlotType
      BY <1>6, <1>7
    <3> QED
      BY <3>1, <1>2, ZeroSlotType, DomainInSlot
  <2> QED
    BY <2>1, <1>3
<1>9. ArrayOK(k) /\ k # NoArray
  <2>1. n.pos + 1 \in 0 .. size /\ n.used \cup {n.pos} \in SUBSET (0 .. (n.pos + 1) - 1)
    BY <1>6, <1>7
  <2> QED
    BY <2>1, <1>4, <1>7, <1>8, MakeArray
<1>10. k.used = n.used \cup {n.pos} /\ k.slot = v
  BY <1>4
<1>11. Slots(k) = n.used \cup {n.pos} /\ n.pos \notin n.used
  BY <1>6, <1>9, <1>10 DEF Slots
<1>12. v[n.pos] = s /\ \A i \in n.used : v[i] = n.slot[i]
  BY <1>3, <1>6, <1>7
<1> QED
  BY <1>2, <1>5, <1>6, <1>9, <1>10, <1>11, <1>12

LEMMA NewArrayIs ==
  /\ ArrayOK(NewArray(InitSize)) /\ NewArray(InitSize) # NoArray
  /\ NewArray(InitSize).pos = 0 /\ NewArray(InitSize).size = InitSize
  /\ Slots(NewArray(InitSize)) = {}
<1>1. PICK v : v = [i \in 0 .. InitSize - 1 |-> ZeroSlot]
  OBVIOUS
<1>2. PICK n : n = [size |-> InitSize, pos |-> 0, used |-> {}, slot |-> v]
  OBVIOUS
<1>3. n = NewArray(InitSize)
  BY <1>1, <1>2, Zenon DEF NewArray
<1>4. InitSize \in Sizes /\ InitSize \in Nat
  <2>1. 0 \in Sizes /\ InitSize \in Nat \ {0} /\ MaxSize \in Nat \ {0}
    BY LookupAssumption DEF Sizes
  <2> QED
    BY <2>1, SizesGrow
<1>5. v \in [0 .. InitSize - 1 -> SlotType]
  BY <1>1, ZeroSlotType
<1>6. 0 \in 0 .. InitSize /\ {} \in SUBSET (0 .. 0 - 1)
  BY <1>4
<1>7. ArrayOK(n) /\ n # NoArray
  BY <1>2, <1>4, <1>5, <1>6, MakeArray
<1> QED
  BY <1>2, <1>3, <1>7 DEF Slots

-----------------------------------------------------------------------------
(* The array agrees with the history.                                      *)

MemberType == [Domains -> {Never} \cup Nat]

\* Without a writer at work all slots are settled.
LEMMA AllSettled ==
  ASSUME NEW n, NEW w, NEW m, NEW time, ~Busy(w), Agree(n, w, m, time)
  PROVE  /\ SettledIn(n, w) = Slots(n)
         /\ \A i \in Slots(n) : /\ n.slot[i].half \in Domains
                                /\ m[n.slot[i].half] = n.slot[i].timeout
         /\ \A i, j \in Slots(n) : n.slot[i].half = n.slot[j].half => i = j
BY DEF SettledIn, Agree

\* The slots move.
LEMMA AgreeMoved ==
  ASSUME NEW n, NEW k, Moved(n, k), NEW w, ~Busy(w), NEW x, ~Busy(x), NEW m, NEW time,
         Agree(n, w, m, time)
  PROVE  Agree(k, x, m, time)
<1>1. PICK g \in [Slots(k) -> Slots(n)] :
        /\ \A i, j \in Slots(k) : g[i] = g[j] => i = j
        /\ \A y \in Slots(n) : \E i \in Slots(k) : g[i] = y
        /\ \A i \in Slots(k) : k.slot[i] = n.slot[g[i]]
  BY Zenon DEF Moved
<1>2. /\ \A i \in Slots(n) : /\ n.slot[i].half \in Domains
                             /\ m[n.slot[i].half] = n.slot[i].timeout
      /\ \A i, j \in Slots(n) : n.slot[i].half = n.slot[j].half => i = j
  BY AllSettled
<1>3. SettledIn(k, x) = Slots(k)
  BY DEF SettledIn
<1>4. \A i \in SettledIn(k, x) : /\ k.slot[i].half \in Domains
                                 /\ m[k.slot[i].half] = k.slot[i].timeout
                                 /\ Busy(x) => k.slot[i].half # x.domain
  BY <1>1, <1>2, <1>3
<1>5. \A i, j \in SettledIn(k, x) : k.slot[i].half = k.slot[j].half => i = j
  BY <1>1, <1>2, <1>3
<1>6. \A d \in InSet(m, time) :
        \E i \in Slots(k) : k.slot[i].half = d /\ Covers(k.slot[i].timeout, m[d])
  <2> TAKE d \in InSet(m, time)
  <2>1. PICK y \in Slots(n) : n.slot[y].half = d /\ Covers(n.slot[y].timeout, m[d])
    BY DEF Agree
  <2>2. PICK i \in Slots(k) : g[i] = y
    BY <1>1
  <2> QED
    BY <1>1, <2>1, <2>2
<1> QED
  BY <1>4, <1>5, <1>6 DEF Agree

\* A slot that nobody had settled becomes that of d.
LEMMA AgreePut ==
  ASSUME NEW n, NEW k, NEW w, NEW x, ~Busy(x), NEW m \in MemberType, NEW time,
         Agree(n, w, m, time), NEW d \in Domains, NEW t \in Nat, NEW j,
         Slots(k) = Slots(n) \cup {j}, SettledIn(n, w) = Slots(n) \ {j},
         \A i \in SettledIn(n, w) : k.slot[i] = n.slot[i] /\ n.slot[i].half # d,
         j \in Slots(n) => n.slot[j].half = d,
         k.slot[j].half = d, k.slot[j].timeout = t
  PROVE  Agree(k, x, [m EXCEPT ![d] = t], time)
<1>1. PICK mm : mm = [m EXCEPT ![d] = t]
  OBVIOUS
<1>2. mm[d] = t /\ \A e \in Domains : e # d => mm[e] = m[e]
  BY <1>1 DEF MemberType
<1>3. SettledIn(k, x) = Slots(k) /\ Slots(k) = SettledIn(n, w) \cup {j} /\ j \notin SettledIn(n, w)
  BY DEF SettledIn
<1>4. /\ \A i \in SettledIn(n, w) : /\ k.slot[i].half \in Domains /\ k.slot[i].half # d
                                    /\ m[k.slot[i].half] = k.slot[i].timeout
      /\ \A i, l \in SettledIn(n, w) : k.slot[i].half = k.slot[l].half => i = l
  BY DEF Agree
<1>5. /\ \A i \in SettledIn(k, x) : /\ k.slot[i].half \in Domains
                                    /\ mm[k.slot[i].half] = k.slot[i].timeout
                                    /\ Busy(x) => k.slot[i].half # x.domain
  BY <1>2, <1>3, <1>4
<1>6. \A i, l \in SettledIn(k, x) : k.slot[i].half = k.slot[l].half => i = l
  BY <1>3, <1>4
<1>7. \A e \in InSet(mm, time) :
        \E i \in Slots(k) : k.slot[i].half = e /\ Covers(k.slot[i].timeout, mm[e])
  <2> TAKE e \in InSet(mm, time)
  <2>1. CASE e = d
    BY <2>1, <1>2 DEF Covers
  <2>2. CASE e # d
    <3>1. e \in InSet(m, time) /\ mm[e] = m[e]
      BY <2>2, <1>2 DEF InSet
    <3>2. PICK i \in Slots(n) : n.slot[i].half = e /\ Covers(n.slot[i].timeout, m[e])
      BY <3>1 DEF Agree
    <3>3. i # j
      BY <3>2, <2>2
    <3> QED
      BY <3>1, <3>2, <3>3
  <2> QED
    BY <2>1, <2>2
<1> QED
  BY <1>1, <1>5, <1>6, <1>7 DEF Agree

\* Slots are given up; their domains are gone or their time was over.
LEMMA AgreeTake ==
  ASSUME NEW n, NEW k, NEW w, ~Busy(w), NEW x, ~Busy(x), NEW m, NEW mm, NEW time,
         Agree(n, w, m, time), \A i \in Slots(k) : i \in Slots(n),
         \A i \in Slots(k) : k.slot[i] = n.slot[i] /\ mm[n.slot[i].half] = m[n.slot[i].half],
         InSet(mm, time) \subseteq InSet(m, time),
         \A d \in InSet(mm, time) : mm[d] = m[d],
         \A i \in Slots(n) : i \notin Slots(k) => n.slot[i].half \notin InSet(mm, time)
  PROVE  Agree(k, x, mm, time)
<1>1. /\ \A i \in Slots(n) : /\ n.slot[i].half \in Domains
                             /\ m[n.slot[i].half] = n.slot[i].timeout
      /\ \A i, j \in Slots(n) : n.slot[i].half = n.slot[j].half => i = j
  BY AllSettled
<1>2. SettledIn(k, x) = Slots(k) /\ Slots(k) \subseteq Slots(n)
  BY DEF SettledIn
<1>3. \A i \in SettledIn(k, x) : /\ k.slot[i].half \in Domains
                                 /\ mm[k.slot[i].half] = k.slot[i].timeout
                                 /\ Busy(x) => k.slot[i].half # x.domain
  BY <1>1, <1>2
<1>4. \A i, j \in SettledIn(k, x) : k.slot[i].half = k.slot[j].half => i = j
  BY <1>1, <1>2
<1>5. \A d \in InSet(mm, time) :
        \E i \in Slots(k) : k.slot[i].half = d /\ Covers(k.slot[i].timeout, mm[d])
  <2> TAKE d \in InSet(mm, time)
  <2>1. PICK i \in Slots(n) : n.slot[i].half = d /\ Covers(n.slot[i].timeout, m[d])
    BY DEF Agree
  <2>2. i \in Slots(k)
    BY <2>1
  <2> QED
    BY <2>1, <2>2
<1> QED
  BY <1>3, <1>4, <1>5 DEF Agree

\* A writer is at work on slot j for its domain: what it does there is
\* not settled yet.
LEMMA AgreeWrite ==
  ASSUME NEW n, NEW k, NEW w, NEW x, Busy(x), NEW m, NEW mm, NEW time, NEW next,
         Agree(n, w, m, time), NEW d, x.domain = d, NEW j, x.slot = j,
         Slots(k) = Slots(n), SettledIn(n, w) \ {j} = Slots(n) \ {j},
         \A i \in Slots(n) \ {j} : k.slot[i] = n.slot[i] /\ n.slot[i].half # d,
         \A e \in Domains : e # d => mm[e] = m[e],
         InSet(mm, next) \subseteq InSet(m, time),
         d \in InSet(mm, next) /\ j \in Slots(n) /\ n.slot[j].half = d =>
           k.slot[j].half = d /\ Covers(k.slot[j].timeout, mm[d]),
         \A e \in InSet(mm, next) \ {d} : ~(/\ j \in Slots(n) /\ n.slot[j].half = e
                                            /\ Covers(n.slot[j].timeout, m[e]))
  PROVE  Agree(k, x, mm, next)
<1>1. SettledIn(k, x) = Slots(n) \ {j}
  BY DEF SettledIn
<1>2. /\ \A i \in Slots(n) \ {j} : /\ n.slot[i].half \in Domains
                                   /\ m[n.slot[i].half] = n.slot[i].timeout
      /\ \A i, l \in Slots(n) \ {j} : n.slot[i].half = n.slot[l].half => i = l
  BY DEF Agree
<1>3. \A i \in SettledIn(k, x) : /\ k.slot[i].half \in Domains
                                 /\ mm[k.slot[i].half] = k.slot[i].timeout
                                 /\ Busy(x) => k.slot[i].half # x.domain
  BY <1>1, <1>2
<1>4. \A i, l \in SettledIn(k, x) : k.slot[i].half = k.slot[l].half => i = l
  BY <1>1, <1>2
<1>5. \A e \in InSet(mm, next) :
        \E i \in Slots(k) : k.slot[i].half = e /\ Covers(k.slot[i].timeout, mm[e])
  <2> TAKE e \in InSet(mm, next)
  <2>1. PICK i \in Slots(n) : n.slot[i].half = e /\ Covers(n.slot[i].timeout, m[e])
    BY DEF Agree
  <2>2. CASE e = d
    BY <2>1, <2>2
  <2>3. CASE e # d
    <3>1. i # j /\ e \in Domains
      BY <2>1, <2>3 DEF InSet
    <3> QED
      BY <2>1, <2>3, <3>1
  <2> QED
    BY <2>2, <2>3
<1> QED
  BY <1>3, <1>4, <1>5 DEF Agree

\* Time passes.
LEMMA AgreeLater ==
  ASSUME NEW n, NEW w, NEW m, NEW time, NEW next, Agree(n, w, m, time),
         InSet(m, next) \subseteq InSet(m, time)
  PROVE  Agree(n, w, m, next)
BY DEF Agree

\* The domains in the set are fewer as time passes.
LEMMA InSetLater ==
  ASSUME NEW m \in MemberType, NEW time \in Nat, NEW next \in Nat, time <= next
  PROVE  InSet(m, next) \subseteq InSet(m, time)
BY DEF InSet, Late, MemberType, PERMANENT, Never

-----------------------------------------------------------------------------
(* The lookup while the set changes.                                       *)

\* What is tested is a domain.
LEMMA TestedIs ==
  ASSUME NEW l, l.packet \in Packets, l.tested \in 1 .. Len(l.packet.suffix)
  PROVE  TestedBy(l) \in Domains /\ l.packet.suffix \in Seq(Domains)
<1>1. l.packet.suffix \in Seq(Domains)
  BY LookupAssumption
<1> QED
  BY <1>1 DEF TestedBy

\* The tested domain stays ahead: its slot is kept, with a timeout that is no
\* earlier than the earliest deadline so far.
LEMMA AheadKept ==
  ASSUME NEW n, NEW o, NEW nn, NEW oo, NEW l, NEW m, NEW mm \in MemberType,
         NEW time \in Nat, NEW next \in Nat, time <= next,
         NEW du \in {Never} \cup Nat, NEW dd,
         Ahead(n, o, l, m, du, time), TestedBy(l) \in Domains,
         dd = IF du # Never /\ TestedBy(l) \in InSet(mm, next)
              THEN Sooner(du, mm[TestedBy(l)]) ELSE Never,
         NEW H, H = HeldOf(n, o), NEW HH, HH = HeldOf(nn, oo),
         \A i \in Slots(H) : H.slot[i].timeout \in Nat,
         \A i \in Slots(HH) : HH.slot[i].timeout \in Nat,
         \A i \in Slots(H) :
           /\ H.slot[i].half = TestedBy(l) /\ TestedBy(l) \in InSet(mm, next)
           /\ du # Never /\ Covers(H.slot[i].timeout, du) /\ ~Late(du, time)
           => i \in Slots(HH) /\ HH.slot[i].half = TestedBy(l) /\ Covers(HH.slot[i].timeout, du)
  PROVE  dd \in {Never} \cup Nat /\ Ahead(nn, oo, l, mm, dd, next)
<1>1. CASE ~(du # Never /\ TestedBy(l) \in InSet(mm, next))
  BY <1>1 DEF Ahead
<1>2. CASE du # Never /\ TestedBy(l) \in InSet(mm, next)
  <2>1. du \in Nat /\ mm[TestedBy(l)] \in Nat
    BY <1>2 DEF InSet, MemberType
  <2>2. dd \in Nat /\ Covers(du, dd) /\ Covers(mm[TestedBy(l)], dd)
    BY <1>2, <2>1, SoonerIs
  <2>3. ReadingAt(l)
    BY <1>2 DEF Ahead
  <2>4. ASSUME ~Late(dd, next)
        PROVE  \E i \in Slots(HH) : /\ i >= l.slot
                                    /\ HH.slot[i].half = TestedBy(l)
                                    /\ Covers(HH.slot[i].timeout, dd)
    <3>1. ~Late(du, time)
      BY <2>1, <2>2, <2>4, CoversLate, LateStays
    <3>2. PICK i \in Slots(H) : /\ i >= l.slot /\ H.slot[i].half = TestedBy(l)
                                /\ Covers(H.slot[i].timeout, du)
      BY <1>2, <3>1 DEF Ahead
    <3>3. /\ i \in Slots(HH) /\ HH.slot[i].half = TestedBy(l)
          /\ Covers(HH.slot[i].timeout, du)
      BY <1>2, <3>1, <3>2
    <3>4. Covers(HH.slot[i].timeout, dd)
      BY <2>1, <2>2, <3>3, CoversTransitive
    <3> QED
      BY <3>2, <3>3, <3>4
  <2> QED
    BY <1>2, <2>2, <2>3, <2>4 DEF Ahead
<1> QED
  BY <1>1, <1>2

\* A step of a writer or the clock after which a match is as justified as before:
\* the slot under examination is kept, or the history says it was not.
LeavesJustified(n, o, nn, oo, w, ww, l, m, mm, time, next, so, ss, ra, rr) ==
  /\ m \in MemberType /\ time \in Nat /\ next \in Nat /\ time <= next
  /\ TestedBy(l) \in Domains /\ ReadingAt(l)
  /\ (so => ss) /\ (TestedBy(l) \in InSet(mm, next) \cup {ww.domain} => ss)
  /\ \A i \in Slots(HeldOf(n, o)) : HeldOf(n, o).slot[i].timeout \in Nat
  /\ Comparing(l) => HeldOf(n, o).slot[l.slot].timeout \in Nat
  /\ oo = o \/ (o = NoArray /\ oo = n /\ ~Busy(w) /\ Agree(n, w, m, time))
  /\ ra => rr
  /\ Comparing(l) /\ ~rr => HeldOf(nn, oo).slot[l.slot] = HeldOf(n, o).slot[l.slot]

LEMMA JustifiedKept ==
  ASSUME NEW n, NEW o, NEW nn, NEW oo, NEW w, NEW ww, NEW l, NEW m, NEW mm,
         NEW time, NEW next, NEW so, NEW ss, NEW ra, NEW rr,
         Justified(n, o, w, l, m, so, ra, time),
         LeavesJustified(n, o, nn, oo, w, ww, l, m, mm, time, next, so, ss, ra, rr)
  PROVE  Justified(nn, oo, ww, l, mm, ss, rr, next)
<1> DEFINE H == HeldOf(n, o)
           HH == HeldOf(nn, oo)
<1> USE DEF LeavesJustified
<1>1. ReadingAt(l) /\ TestedBy(l) \in InSet(mm, next) \cup {ww.domain} => ss
  OBVIOUS
<1>2. ASSUME NEW i \in Slots(oo), oo.slot[i].half = TestedBy(l), ~Late(oo.slot[i].timeout, next)
      PROVE  ss
  <2>1. CASE oo = o
    <3>1. o # NoArray
      BY <2>1, <1>2 DEF Slots
    <3>2. o.slot[i].timeout \in Nat
      BY <2>1, <1>2, <3>1 DEF HeldOf
    <3>3. ~Late(o.slot[i].timeout, time)
      BY <2>1, <1>2, <3>2, LateStays
    <3> QED
      BY <2>1, <1>2, <3>3 DEF Justified
  <2>2. CASE o = NoArray /\ oo = n /\ ~Busy(w) /\ Agree(n, w, m, time)
    <3>1. m[TestedBy(l)] = n.slot[i].timeout /\ n.slot[i].timeout \in Nat
      BY <2>2, <1>2, AllSettled DEF HeldOf
    <3>2. ~Late(m[TestedBy(l)], time)
      BY <2>2, <1>2, <3>1, LateStays
    <3>3. TestedBy(l) \in InSet(m, time)
      BY <3>1, <3>2 DEF InSet, Never
    <3> QED
      BY <3>3 DEF Justified
  <2> QED
    BY <2>1, <2>2
<1>3. ASSUME Comparing(l), ~rr
      PROVE  LET s == HH.slot[l.slot] IN
             /\ l.pc \in {"second", "time"} => s.half[1] = TestedBy(l)[1]
             /\ l.pc = "time" => s.half[2] = TestedBy(l)[2]
             /\ s.half = TestedBy(l) /\ ~Late(s.timeout, next) => ss
  <2>1. PICK s : s = H.slot[l.slot]
    OBVIOUS
  <2>2. HH.slot[l.slot] = s /\ s.timeout \in Nat
    BY <1>3, <2>1
  <2>3. /\ l.pc \in {"second", "time"} => s.half[1] = TestedBy(l)[1]
        /\ l.pc = "time" => s.half[2] = TestedBy(l)[2]
        /\ s.half = TestedBy(l) /\ ~Late(s.timeout, time) => so
    BY <1>3, <2>1 DEF Justified
  <2>4. ~Late(s.timeout, next) => ~Late(s.timeout, time)
    BY <2>2, LateStays
  <2> QED
    BY <2>2, <2>3, <2>4
<1> QED
  BY <1>1, <1>2, <1>3 DEF Justified

\* The types of the variables that are not of the lookup alone.
LEMMA TypesAre ==
  ASSUME LookupInv
  PROVE  /\ ArrayOK(bucket) /\ ArrayOK(old)
         /\ now \in Nat /\ member \in MemberType
         /\ due \in {Never} \cup Nat /\ sometime \in BOOLEAN /\ raced \in BOOLEAN
         /\ look.slot \in Nat /\ writer.value \in Nat /\ writer.slot \in Nat
         /\ \A i \in Slots(bucket) : bucket.slot[i] \in SlotType /\ bucket.slot[i].timeout \in Nat
         /\ \A i \in Slots(old) : old.slot[i] \in SlotType /\ old.slot[i].timeout \in Nat
<1>1. TypeOK
  BY DEF LookupInv
<1>2. ArrayOK(bucket) /\ ArrayOK(old)
  BY <1>1 DEF TypeOK, ArrayOK
<1>3. /\ now \in Nat /\ member \in MemberType
      /\ due \in {Never} \cup Nat /\ sometime \in BOOLEAN /\ raced \in BOOLEAN
      /\ look.slot \in Nat /\ writer.value \in Nat /\ writer.slot \in Nat
  <2>1. MaxNow \in Nat /\ MaxSize \in Nat
    BY LookupAssumption
  <2> QED
    BY <1>1, <2>1 DEF TypeOK, MemberType
<1>4. ASSUME NEW n, ArrayOK(n), NEW i \in Slots(n)
      PROVE  n.slot[i] \in SlotType /\ n.slot[i].timeout \in Nat
  <2>1. n # NoArray
    BY <1>4 DEF Slots
  <2>2. n.slot[i] \in SlotType
    BY <1>4, <2>1, ArrayIs
  <2> QED
    BY <2>2, SlotIs
<1> QED
  BY <1>2, <1>3, <1>4

\* A step writes to the array that is there: what it does to the slot under
\* examination is recorded, and it keeps what the lookup is to find.
InPlace ==
  /\ old' = old
  /\ bucket # NoArray => bucket' # NoArray /\ bucket'.size = bucket.size
  /\ raced' \in BOOLEAN /\ (raced => raced') /\ (~Reading => raced' = raced)
  /\ old = NoArray =>
       /\ Comparing(look) /\ ~raced' => bucket'.slot[look.slot] = bucket.slot[look.slot]
       /\ \A i \in Slots(bucket) :
            /\ bucket.slot[i].half = TestedBy(look) /\ TestedBy(look) \in InSet(member', now')
            /\ due # Never /\ Covers(bucket.slot[i].timeout, due) /\ ~Late(due, now)
            => /\ i \in Slots(bucket') /\ bucket'.slot[i].half = TestedBy(look)
               /\ Covers(bucket'.slot[i].timeout, due)

\* A step replaces the array.
Replaced == ~Busy(writer) /\ raced' = raced /\ Publish(bucket')

LookFits ==
  /\ LookAt(bucket, old, look, due, sometime, raced)
  /\ Justified(bucket, old, writer, look, member, sometime, raced, now)
  /\ Ahead(bucket, old, look, member, due, now)
  /\ ArrayOK(old) /\ due \in {Never} \cup Nat /\ sometime \in BOOLEAN /\ raced \in BOOLEAN

\* The lookup goes on as if nothing had happened, whatever the writers do.
LEMMA LookKept ==
  ASSUME LookupInv, Witness, look' = look, now' \in Nat, now <= now',
         member' \in MemberType, ArrayOK(bucket'), InPlace \/ Replaced
  PROVE  LookFits'
<1> USE AtThisTime, TypesAre
<1>1. /\ LookAt(bucket, old, look, due, sometime, raced)
      /\ Justified(bucket, old, writer, look, member, sometime, raced, now)
      /\ Ahead(bucket, old, look, member, due, now)
      /\ Agree(bucket, writer, member, now)
  BY DEF LookupInv
<1>2. /\ due' = IF due # Never /\ TestedBy(look) \in InSet(member', now')
                THEN Sooner(due, member'[TestedBy(look)]) ELSE Never
      /\ sometime' = (sometime \/ (ReadingAt(look) /\ TestedBy(look) \in InSet(member', now')
                                                                        \cup {writer'.domain}))
  BY DEF Witness
<1>3. CASE ~ReadingAt(look)
  <2>1. old = NoArray /\ due = Never /\ sometime = FALSE /\ raced = FALSE
    BY <1>1, <1>3 DEF LookAt
  <2>2. old' = NoArray /\ due' = Never /\ sometime' = FALSE /\ raced' = FALSE
    BY <1>2, <1>3, <2>1 DEF InPlace, Replaced, Publish
  <2>3. ~Comparing(look)
    BY <1>3 DEF ReadingAt, Comparing
  <2>4. LookAt(bucket', old', look', due', sometime', raced')
    BY <1>1, <1>3, <2>2, <2>3 DEF LookAt
  <2>5. Justified(bucket', old', writer', look', member', sometime', raced', now')
    BY <1>3, <2>2, <2>3 DEF Justified, Slots
  <2>6. Ahead(bucket', old', look', member', due', now')
    BY <2>2 DEF Ahead
  <2> QED
    BY <2>2, <2>4, <2>5, <2>6 DEF LookFits, ArrayOK
<1>4. CASE ReadingAt(look)
  <2> DEFINE H == HeldOf(bucket, old)
             HH == HeldOf(bucket', old')
             T == TestedBy(look)
             Kept(A, B) ==
               \A i \in Slots(A) :
                 /\ A.slot[i].half = T /\ T \in InSet(member', now')
                 /\ due # Never /\ Covers(A.slot[i].timeout, due) /\ ~Late(due, now)
                 => i \in Slots(B) /\ B.slot[i].half = T /\ Covers(B.slot[i].timeout, due)
  <2>1. H # NoArray /\ (old = NoArray => bucket # NoArray) /\ T \in Domains
    <3>1. H # NoArray /\ (old = NoArray => bucket # NoArray)
      BY <1>1, <1>4 DEF LookAt, HeldOf
    <3>2. look.pc # "off"
      BY <1>4 DEF ReadingAt
    <3> QED
      BY <3>1, <3>2, <1>1, TestedIs DEF LookAt
  <2>2. /\ HH # NoArray /\ HH.size = H.size /\ Kept(H, HH) /\ raced' \in BOOLEAN /\ (raced => raced')
        /\ Comparing(look) /\ ~raced' => HH.slot[look.slot] = H.slot[look.slot]
        /\ \/ old' = old
           \/ /\ old = NoArray /\ old' = bucket /\ ~Busy(writer)
              /\ Agree(bucket, writer, member, now)
    <3>1. CASE InPlace /\ old = NoArray
      <4>1. H = bucket /\ HH = bucket'
        BY <3>1 DEF HeldOf, InPlace
      <4> HIDE DEF H, HH
      <4> QED
        BY <3>1, <4>1, <2>1 DEF InPlace
    <3>2. CASE InPlace /\ old # NoArray
      <4>1. HH = H
        BY <3>2 DEF HeldOf, InPlace
      <4> HIDE DEF H, HH
      <4> QED
        BY <3>2, <4>1, <2>1 DEF InPlace
    <3>3. CASE Replaced
      <4>1. HH = H
        BY <3>3, <2>1, <1>4 DEF HeldOf, Replaced, Publish
      <4> HIDE DEF H, HH
      <4> QED
        BY <3>3, <4>1, <2>1, <1>1, <1>4 DEF Replaced, Publish
    <3> QED
      BY <3>1, <3>2, <3>3
  <2>3. ArrayOK(old') /\ ArrayOK(HH) /\ ArrayOK(H)
    BY <2>2 DEF HeldOf
  <2>4. \A n : ArrayOK(n) => \A i \in Slots(n) : n.slot[i].timeout \in Nat
    <3> SUFFICES ASSUME NEW n, ArrayOK(n), NEW i \in Slots(n) PROVE n.slot[i].timeout \in Nat
      OBVIOUS
    <3>1. n # NoArray
      BY DEF Slots
    <3>2. n.slot[i] \in SlotType
      BY <3>1, ArrayIs
    <3> QED
      BY <3>2, SlotIs
  <2>5. Comparing(look) => H.slot[look.slot].timeout \in Nat
    <3> HAVE Comparing(look)
    <3>1. look.slot < H.size
      BY <1>1 DEF LookAt
    <3>2. look.slot \in 0 .. H.size - 1 /\ H.slot \in [0 .. H.size - 1 -> SlotType]
      BY <3>1, <2>1, <2>3, ArrayIs
    <3>3. H.slot[look.slot] \in SlotType
      BY <3>2
    <3> QED
      BY <3>3, SlotIs
  <2> HIDE DEF H, HH, T
  <2>a. H = HeldOf(bucket, old) /\ HH = HeldOf(bucket', old') /\ T = TestedBy(look)
    BY DEF H, HH, T
  <2>6. due' \in {Never} \cup Nat /\ Ahead(bucket', old', look, member', due', now')
    BY <1>1, <1>2, <2>1, <2>2, <2>3, <2>4, <2>a, AheadKept
  <2>7. Justified(bucket', old', writer', look, member', sometime', raced', now')
    <3>1. now \in Nat /\ member \in MemberType /\ (sometime => sometime')
          /\ (TestedBy(look) \in InSet(member', now') \cup {writer'.domain} => sometime')
      BY <1>2, <1>4
    <3>2. \A i \in Slots(HeldOf(bucket, old)) : HeldOf(bucket, old).slot[i].timeout \in Nat
      BY <2>3, <2>4, <2>a
    <3>3. LeavesJustified(bucket, old, bucket', old', writer, writer', look, member, member',
                          now, now', sometime, sometime', raced, raced')
      BY <3>1, <3>2, <1>4, <2>1, <2>2, <2>5, <2>a DEF LeavesJustified
    <3>4. Justified(bucket, old, writer, look, member, sometime, raced, now)
      BY <1>1
    <3> QED
      BY <3>3, <3>4, JustifiedKept
  <2>8. LookAt(bucket', old', look, due', sometime', raced')
    BY <1>1, <1>4, <2>2, <2>a DEF LookAt
  <2>9. sometime' \in BOOLEAN
    BY <1>2
  <2> QED
    BY <2>2, <2>3, <2>6, <2>7, <2>8, <2>9 DEF LookFits
<1> QED
  BY <1>3, <1>4

-----------------------------------------------------------------------------
(* The steps of the writer.                                                *)

WriterType ==
  [pc : {"idle", "copy", "time", "bit", "trim", "expire"},
   domain : Domains \cup {NoDomain}, slot : 0 .. MaxSize, todo : SUBSET Halves, value : Nat]

\* What a step that is not of the lookup has to do for the invariant.
KeepsInv ==
  /\ Witness /\ look' = look
  /\ now' \in 1 .. MaxNow /\ now <= now' /\ ops' \in 0 .. MaxOps
  /\ member' \in MemberType /\ ArrayOK(bucket') /\ writer' \in WriterType
  /\ Agree(bucket', writer', member', now')
  /\ WriterAt(bucket', writer', member', now')
  /\ InPlace \/ Replaced

LEMMA StepKeepsInv ==
  ASSUME LookupInv, KeepsInv
  PROVE  LookupInv'
<1>0. MaxNow \in Nat
  BY LookupAssumption
<1>1. LookFits'
  BY <1>0, LookKept DEF KeepsInv
<1>2. TypeOK
  BY DEF LookupInv
<1>3. HeldOf(bucket', old') # NoArray <=> {bucket', old'} # {NoArray}
  BY DEF HeldOf
<1>4. TypeOK'
  <2>1. \A n \in {bucket', old'} \ {NoArray} :
          n.size \in Sizes /\ n \in ArrayType(n.size) /\ n.used \subseteq 0 .. n.pos - 1
    BY <1>1 DEF KeepsInv, LookFits, ArrayOK
  <2>2. Reading' => {bucket', old'} # {NoArray}
    BY <1>1, <1>3 DEF LookFits, LookAt, Reading, ReadingAt
  <2>3. look' \in [pc : {"off", "test", "slot", "first", "second", "time"},
                  packet : Packets \cup {NoPacket}, name : NameType, tested : Nat,
                  slot : 0 .. MaxSize, matched : BOOLEAN]
    BY <1>2 DEF TypeOK, KeepsInv
  <2>4. /\ writer' \in [pc : {"idle", "copy", "time", "bit", "trim", "expire"},
                       domain : Domains \cup {NoDomain}, slot : 0 .. MaxSize,
                       todo : SUBSET Halves, value : Nat]
        /\ now' \in 1 .. MaxNow /\ ops' \in 0 .. MaxOps
        /\ member' \in [Domains -> {Never} \cup Nat]
    BY DEF KeepsInv, WriterType, MemberType
  <2>5. due' \in {Never} \cup Nat /\ sometime' \in BOOLEAN /\ raced' \in BOOLEAN
    BY <1>1 DEF LookFits
  <2> QED
    BY <2>1, <2>2, <2>3, <2>4, <2>5 DEF TypeOK
<1> QED
  BY <1>1, <1>4 DEF LookupInv, KeepsInv, LookFits

\* Between two operations.
LEMMA IdleWriter ==
  /\ NoWriter \in WriterType /\ ~Busy(NoWriter)
  /\ \A n, m, time : WriterAt(n, NoWriter, m, time)
<1>1. MaxSize \in Nat
  BY LookupAssumption
<1>2. NoWriter.pc = "idle" /\ NoWriter.domain = NoDomain
  BY DEF NoWriter
<1> QED
  BY <1>1, <1>2 DEF NoWriter, WriterType, Busy, WriterAt

\* The beginning of an operation.
LEMMA Beginning ==
  ASSUME LookupInv, Begin
  PROVE  /\ writer = NoWriter /\ ~Busy(writer) /\ ops' \in 0 .. MaxOps
         /\ SettledIn(bucket, writer) = Slots(bucket)
         /\ \A i \in Slots(bucket) : /\ bucket.slot[i].half \in Domains
                                     /\ member[bucket.slot[i].half] = bucket.slot[i].timeout
         /\ \A i, j \in Slots(bucket) :
              bucket.slot[i].half = bucket.slot[j].half => i = j
         /\ \A d \in InSet(member, now) :
              \E i \in Slots(bucket) :
                bucket.slot[i].half = d /\ Covers(bucket.slot[i].timeout, member[d])
<1>1. writer = NoWriter
  BY DEF LookupInv, WriterAt, Begin
<1>2. ops' \in 0 .. MaxOps
  <2>1. MaxOps \in Nat /\ ops \in 0 .. MaxOps
    BY LookupAssumption DEF LookupInv, TypeOK
  <2> QED
    BY <2>1 DEF Begin
<1>3. ~Busy(writer) /\ Agree(bucket, writer, member, now)
  BY <1>1, IdleWriter DEF LookupInv
<1> QED
  BY <1>1, <1>2, <1>3, AllSettled DEF Agree

\* The types that a step leaves alone.
LEMMA TypesStay ==
  ASSUME LookupInv
  PROVE  /\ now \in 1 .. MaxNow /\ now <= now /\ ops \in 0 .. MaxOps
         /\ member \in MemberType /\ ArrayOK(bucket) /\ writer \in WriterType
<1>1. MaxNow \in Nat
  BY LookupAssumption
<1>2. now \in 1 .. MaxNow /\ now <= now
  BY <1>1 DEF LookupInv, TypeOK
<1> QED
  BY <1>2, TypesAre DEF LookupInv, TypeOK, WriterType

LEMMA DeadlineIs ==
  ASSUME LookupInv, NEW t \in Timeouts
  PROVE  Deadline(t) \in Nat
<1>1. now \in Nat /\ t \in Nat
  BY LookupAssumption, TypesAre
<1> QED
  BY <1>1 DEF Deadline, PERMANENT

\* A deadline for a domain.
LEMMA EnterType ==
  ASSUME LookupInv, NEW d \in Domains, NEW t \in {Never} \cup Nat, Enter(d, t)
  PROVE  /\ member' \in MemberType /\ member' = [member EXCEPT ![d] = t] /\ member'[d] = t
         /\ \A e \in Domains : e # d => member'[e] = member[e]
BY TypesAre DEF Enter, MemberType

\* Holding and Live, as the array has them.
LEMMA HoldingIs ==
  ASSUME LookupInv, bucket # NoArray
  PROVE  /\ Live(bucket) = bucket.used /\ Slots(bucket) = bucket.used
         /\ \A d : Holding(bucket, d) = {i \in Slots(bucket) : bucket.slot[i].half = d}
BY ArrayIs, TypesAre DEF Holding

LEMMA AddArrayStep ==
  ASSUME LookupInv, NEW d \in Domains, NEW t \in Timeouts, AddArray(d, t)
  PROVE  KeepsInv
<1>1. /\ Begin /\ Witness /\ look' = look /\ writer' = writer /\ now' = now /\ raced' = raced
      /\ Enter(d, Deadline(t))
  BY DEF AddArray
<1>2. Deadline(t) \in Nat
  BY DeadlineIs
<1>3. PICK B : /\ B # NoArray /\ ArrayOK(B) /\ (B.pos < B.size \/ B.size < MaxSize)
               /\ Publish(Appended(B, d, Deadline(t)))
               /\ Agree(B, writer, member, now)
               /\ \A i \in Slots(B) : B.slot[i].half # d
  <2>1. CASE bucket = NoArray /\ Publish(Appended(NewArray(InitSize), d, Deadline(t)))
    <3> DEFINE B == NewArray(InitSize)
    <3>1. /\ ArrayOK(B) /\ B # NoArray /\ B.pos = 0 /\ B.size = InitSize /\ Slots(B) = {}
      BY NewArrayIs
    <3>2. Slots(bucket) = {}
      BY <2>1 DEF Slots
    <3> HIDE DEF B
    <3>3. Moved(bucket, B)
      BY <3>1, <3>2, MovedNot
    <3>4. Agree(B, writer, member, now)
      BY <3>3, <1>1, Beginning, AgreeMoved DEF LookupInv
    <3>5. 0 < InitSize
      BY LookupAssumption
    <3> QED
      BY <2>1, <3>1, <3>4, <3>5 DEF B
  <2>2. CASE /\ bucket # NoArray /\ Holding(bucket, d) = {} /\ bucket.size < MaxSize
             /\ Publish(Appended(bucket, d, Deadline(t)))
    <3>1. \A i \in Slots(bucket) : bucket.slot[i].half # d
      BY <2>2, HoldingIs
    <3> QED
      BY <2>2, <3>1, TypesAre DEF LookupInv
  <2> QED
    BY <2>1, <2>2 DEF AddArray
<1>4. PICK k : k = Appended(B, d, Deadline(t))
  OBVIOUS
<1>5. /\ ArrayOK(k) /\ k # NoArray /\ Slots(k) = Slots(B) \cup {B.pos} /\ B.pos \notin Slots(B)
      /\ \A i \in Slots(B) : k.slot[i] = B.slot[i]
      /\ k.slot[B.pos] = [half |-> d, timeout |-> Deadline(t)]
  BY <1>2, <1>3, <1>4, AppendedDoes
<1>6. bucket' = k
  BY <1>3, <1>4 DEF Publish
<1>7. writer = NoWriter /\ ~Busy(writer) /\ ops' \in 0 .. MaxOps
  BY <1>1, Beginning
<1>8. SettledIn(B, writer) = Slots(B) \ {B.pos}
  BY <1>5, <1>7 DEF SettledIn
<1>9. Agree(k, writer, [member EXCEPT ![d] = Deadline(t)], now)
  <2>1. k.slot[B.pos].half = d /\ k.slot[B.pos].timeout = Deadline(t)
    BY <1>5
  <2>2. member \in MemberType
    BY TypesAre
  <2> QED
    BY <1>2, <1>3, <1>5, <1>7, <1>8, <2>1, <2>2, AgreePut
<1>10. member' \in MemberType /\ member' = [member EXCEPT ![d] = Deadline(t)]
  BY <1>1, <1>2, EnterType
<1>11. Replaced
  BY <1>1, <1>3, <1>4, <1>6, <1>7 DEF Replaced
<1> QED
  BY <1>1, <1>5, <1>6, <1>7, <1>9, <1>10, <1>11, TypesStay, IdleWriter DEF KeepsInv

\* A used slot that can be taken over is over.
LEMMA ReusableIs ==
  ASSUME LookupInv, bucket # NoArray, NEW j \in Reusable(bucket)
  PROVE  /\ j \in 0 .. bucket.pos - 1
         /\ j \in Slots(bucket) => Late(bucket.slot[j].timeout, now)
<1>1. /\ Live(bucket) = bucket.used /\ Slots(bucket) = bucket.used
      /\ bucket.used \in SUBSET (0 .. bucket.pos - 1)
  BY HoldingIs, ArrayIs, TypesAre
<1>2. CASE j \in Holes(bucket)
  BY <1>1, <1>2 DEF Holes
<1>3. CASE j \in Live(bucket) /\ Lapsed(bucket.slot[j].timeout)
  BY <1>1, <1>3, AtThisTime
<1> QED
  BY <1>2, <1>3 DEF Reusable

LEMMA AddSlotStep ==
  ASSUME LookupInv, NEW d \in Domains, NEW t \in Timeouts, AddSlot(d, t)
  PROVE  KeepsInv
<1>1. /\ Begin /\ Witness /\ look' = look /\ now' = now /\ raced' = raced /\ member' = member
      /\ old' = old /\ bucket # NoArray /\ Holding(bucket, d) = {}
  BY DEF AddSlot
<1>2. PICK j \in 0 .. MaxSize - 1 :
        /\ \/ j = Min(Reusable(bucket) \cup {MaxSize}) /\ UNCHANGED bucket
           \/ /\ Reusable(bucket) = {} /\ j = bucket.pos /\ bucket.pos < bucket.size
              /\ bucket' = [bucket EXCEPT !.pos = @ + 1]
        /\ writer' = [pc |-> "copy", domain |-> d, slot |-> j, todo |-> Halves,
                      value |-> Deadline(t)]
  BY DEF AddSlot
<1>3. PICK n : n = bucket
  OBVIOUS
<1>4. /\ n = [size |-> n.size, pos |-> n.pos, used |-> n.used, slot |-> n.slot]
      /\ n.size \in Sizes /\ n.size \in 0 .. MaxSize
      /\ n.pos \in 0 .. n.size
      /\ n.used \in SUBSET (0 .. n.pos - 1) /\ n.used \in SUBSET Nat
      /\ n.slot \in [0 .. n.size - 1 -> SlotType]
      /\ Slots(n) = n.used
  BY <1>1, <1>3, ArrayIs, TypesAre
<1>5. MaxSize \in Nat
  BY LookupAssumption
<1>6. /\ writer = NoWriter /\ ~Busy(writer) /\ ops' \in 0 .. MaxOps
      /\ SettledIn(n, writer) = Slots(n)
      /\ \A i \in Slots(n) : n.slot[i].half # d
  BY <1>1, <1>3, Beginning, HoldingIs
<1>7. /\ bucket' # NoArray /\ ArrayOK(bucket') /\ bucket'.size = n.size
      /\ bucket'.slot = n.slot /\ Slots(bucket') = Slots(n) /\ bucket'.used = n.used
      /\ j \in 0 .. bucket'.pos - 1
      /\ j \in Slots(n) => Late(n.slot[j].timeout, now)
  <2>1. CASE j = Min(Reusable(bucket) \cup {MaxSize}) /\ UNCHANGED bucket
    <3>1. Reusable(bucket) \cup {MaxSize} \in SUBSET Nat
      <4>1. \A x \in Reusable(bucket) : x \in 0 .. n.pos - 1
        BY <1>1, <1>3, ReusableIs
      <4> QED
        BY <4>1, <1>5
    <3>2. Min(Reusable(bucket) \cup {MaxSize}) \in Reusable(bucket) \cup {MaxSize}
      BY <3>1, LeastIsMember
    <3>3. j \in Reusable(bucket)
      BY <2>1, <3>2, <1>5
    <3> QED
      BY <2>1, <3>3, <1>1, <1>3, ReusableIs, TypesAre
  <2>2. CASE /\ j = bucket.pos /\ bucket.pos < bucket.size
             /\ bucket' = [bucket EXCEPT !.pos = @ + 1]
    <3>1. PICK k : k = [size |-> n.size, pos |-> n.pos + 1, used |-> n.used, slot |-> n.slot]
      OBVIOUS
    <3>2. bucket' = k
      BY <2>2, <3>1, <1>3, <1>4
    <3>3. n.pos + 1 \in 0 .. n.size /\ n.used \in SUBSET (0 .. (n.pos + 1) - 1)
      BY <2>2, <1>3, <1>4
    <3>4. ArrayOK(k) /\ k # NoArray
      BY <3>1, <3>3, <1>4, MakeArray
    <3>5. k.size = n.size /\ k.pos = n.pos + 1 /\ k.used = n.used /\ k.slot = n.slot
      BY <3>1
    <3>6. Slots(k) = n.used
      BY <3>4, <3>5 DEF Slots
    <3>7. j \notin n.used /\ j \in 0 .. k.pos - 1
      BY <2>2, <3>5, <1>3, <1>4
    <3> QED
      BY <3>2, <3>4, <3>5, <3>6, <3>7, <1>4
  <2> QED
    BY <2>1, <2>2, <1>2
<1>8. PICK x : x = [pc |-> "copy", domain |-> d, slot |-> j, todo |-> Halves, value |-> Deadline(t)]
  OBVIOUS
<1>9. /\ writer' = x /\ x.pc = "copy" /\ x.domain = d /\ x.slot = j /\ x.todo = Halves
      /\ x.value = Deadline(t)
  BY <1>2, <1>8
<1>10. x \in WriterType
  BY <1>5, <1>8, DeadlineIs DEF WriterType
<1>11. d \notin InSet(member, now)
  BY <1>1, <1>3, <1>6, Beginning
<1>12. WriterAt(bucket', x, member, now)
  <2>1. j \in bucket'.used => Late(bucket'.slot[j].timeout, now)
    BY <1>7, <1>4
  <2>2. j < bucket'.pos
    <3>1. bucket'.pos \in Nat
      BY <1>7, <1>4, <1>5, ArrayIs
    <3> QED
      BY <3>1, <1>7
  <2> QED
    BY <2>1, <2>2, <1>7, <1>9, <1>11 DEF WriterAt, Busy
<1>13. Agree(bucket', x, member, now)
  <2>1. Busy(x)
    BY <1>9 DEF Busy
  <2>2. \A e \in InSet(member, now) : ~(/\ j \in Slots(n) /\ n.slot[j].half = e
                                        /\ Covers(n.slot[j].timeout, member[e]))
    <3> SUFFICES ASSUME NEW e \in InSet(member, now), j \in Slots(n), n.slot[j].half = e,
                        Covers(n.slot[j].timeout, member[e])
                 PROVE  FALSE
      OBVIOUS
    <3>1. n.slot[j].timeout \in Nat /\ member[e] \in Nat /\ now \in Nat
      BY <1>3, TypesAre DEF InSet, MemberType
    <3>2. Late(member[e], now)
      BY <3>1, <1>7, CoversLate
    <3> QED
      BY <3>2 DEF InSet
  <2>3. \A i \in Slots(n) \ {j} : bucket'.slot[i] = n.slot[i] /\ n.slot[i].half # d
    BY <1>6, <1>7
  <2>4. Agree(n, writer, member, now)
    BY <1>3 DEF LookupInv
  <2>5. SettledIn(n, writer) \ {j} = Slots(n) \ {j} /\ Slots(bucket') = Slots(n)
    BY <1>6, <1>7
  <2> QED
    BY <2>1, <2>2, <2>3, <2>4, <2>5, <1>9, <1>11, AgreeWrite
<1>14. InPlace
  BY <1>1, <1>3, <1>7, TypesAre DEF InPlace
<1> QED
  BY <1>1, <1>6, <1>7, <1>9, <1>10, <1>12, <1>13, <1>14, TypesStay DEF KeepsInv

LEMMA AddAgainStep ==
  ASSUME LookupInv, NEW d \in Domains, NEW t \in Timeouts, NEW exist, AddAgain(d, t, exist)
  PROVE  KeepsInv
<1>1. /\ Begin /\ Witness /\ look' = look /\ now' = now /\ raced' = raced
      /\ old' = old /\ bucket' = bucket /\ bucket # NoArray
      /\ Enter(d, Sooner(member[d], Deadline(t)))
  BY DEF AddAgain
<1>2. PICK j \in Holding(bucket, d) :
        writer' = [pc |-> "time", domain |-> d, slot |-> j, todo |-> {}, value |-> Deadline(t)]
  BY DEF AddAgain
<1>3. PICK n : n = bucket
  OBVIOUS
<1>4. /\ n.size \in 0 .. MaxSize /\ n.pos \in 0 .. n.size
      /\ n.used \in SUBSET (0 .. n.pos - 1) /\ n.used \in SUBSET Nat /\ Slots(n) = n.used
      /\ \A i \in Slots(n) : n.slot[i].timeout \in Nat
  BY <1>1, <1>3, ArrayIs, TypesAre
<1>5. MaxSize \in Nat
  BY LookupAssumption
<1>6. /\ writer = NoWriter /\ ~Busy(writer) /\ ops' \in 0 .. MaxOps
      /\ SettledIn(n, writer) = Slots(n)
      /\ \A i \in Slots(n) : member[n.slot[i].half] = n.slot[i].timeout
      /\ \A i, l \in Slots(n) : n.slot[i].half = n.slot[l].half => i = l
  BY <1>1, <1>3, Beginning
<1>7. j \in Slots(n) /\ n.slot[j].half = d /\ member[d] = n.slot[j].timeout /\ member[d] \in Nat
  BY <1>1, <1>2, <1>3, <1>4, <1>6, HoldingIs
<1>8. PICK x : x = [pc |-> "time", domain |-> d, slot |-> j, todo |-> {}, value |-> Deadline(t)]
  OBVIOUS
<1>9. /\ writer' = x /\ x.pc = "time" /\ x.domain = d /\ x.slot = j /\ x.todo = {}
      /\ x.value = Deadline(t) /\ Deadline(t) \in Nat
  BY <1>2, <1>8, DeadlineIs
<1>10. x \in WriterType
  <2>1. j \in 0 .. MaxSize
    BY <1>4, <1>5, <1>7
  <2> QED
    BY <2>1, <1>8, <1>9 DEF WriterType
<1>11. PICK s : s = Sooner(member[d], Deadline(t))
  OBVIOUS
<1>12. s \in Nat /\ Covers(member[d], s) /\ Covers(Deadline(t), s)
  BY <1>7, <1>9, <1>11, SoonerIs
<1>13. /\ member' \in MemberType /\ member'[d] = s
       /\ \A e \in Domains : e # d => member'[e] = member[e]
  BY <1>1, <1>11, <1>12, EnterType
<1>14. InSet(member', now) \subseteq InSet(member, now)
  <2> SUFFICES ASSUME NEW e \in InSet(member', now) PROVE e \in InSet(member, now)
    OBVIOUS
  <2>1. CASE e # d
    BY <2>1, <1>13 DEF InSet
  <2>2. CASE e = d
    <3>1. now \in Nat /\ ~Late(s, now)
      BY <2>2, <1>13, TypesAre DEF InSet
    <3>2. ~Late(member[d], now)
      BY <3>1, <1>7, <1>12, CoversLate
    <3> QED
      BY <2>2, <3>2, <1>7 DEF InSet, Never
  <2> QED
    BY <2>1, <2>2
<1>15. WriterAt(n, x, member', now)
  <2>1. j < n.pos
    BY <1>4, <1>5, <1>7
  <2> QED
    BY <2>1, <1>1, <1>3, <1>7, <1>9, <1>12, <1>13 DEF WriterAt, Busy
<1>16. Agree(n, x, member', now)
  <2>1. Busy(x)
    BY <1>9 DEF Busy
  <2>2. \A i \in Slots(n) \ {j} : n.slot[i].half # d
    BY <1>6, <1>7
  <2>3. Covers(n.slot[j].timeout, member'[d])
    BY <1>7, <1>12, <1>13
  <2>4. Agree(n, writer, member, now)
    BY <1>3 DEF LookupInv
  <2>5. SettledIn(n, writer) \ {j} = Slots(n) \ {j}
    BY <1>6
  <2>6. \A e \in InSet(member', now) \ {d} : ~(/\ j \in Slots(n) /\ n.slot[j].half = e
                                               /\ Covers(n.slot[j].timeout, member[e]))
    BY <1>7
  <2>7. d \in InSet(member', now) /\ j \in Slots(n) /\ n.slot[j].half = d =>
          n.slot[j].half = d /\ Covers(n.slot[j].timeout, member'[d])
    BY <2>3
  <2> QED
    BY <2>1, <2>2, <2>3, <2>4, <2>5, <2>6, <2>7, <1>9, <1>13, <1>14, AgreeWrite
<1>17. InPlace
  BY <1>1, TypesAre DEF InPlace
<1> QED
  BY <1>1, <1>3, <1>6, <1>9, <1>10, <1>13, <1>15, <1>16, <1>17, TypesStay DEF KeepsInv

\* One slot is written.
LEMMA EditSlot ==
  ASSUME NEW n, n # NoArray, ArrayOK(n), NEW j \in 0 .. n.size - 1, NEW s \in SlotType,
         NEW k, k = [n EXCEPT !.slot[j] = s]
  PROVE  /\ ArrayOK(k) /\ k # NoArray /\ k.size = n.size /\ k.pos = n.pos /\ k.used = n.used
         /\ Slots(k) = Slots(n) /\ k.slot[j] = s
         /\ \A i \in 0 .. n.size - 1 : i # j => k.slot[i] = n.slot[i]
         /\ \A i \in Slots(n) : i # j => k.slot[i] = n.slot[i]
<1>1. /\ n = [size |-> n.size, pos |-> n.pos, used |-> n.used, slot |-> n.slot]
      /\ n.size \in Sizes /\ n.pos \in 0 .. n.size
      /\ n.used \in SUBSET (0 .. n.pos - 1) /\ n.used \in SUBSET (0 .. n.size - 1)
      /\ n.slot \in [0 .. n.size - 1 -> SlotType] /\ Slots(n) = n.used
  BY ArrayIs
<1>2. PICK v : v = [n.slot EXCEPT ![j] = s]
  OBVIOUS
<1>3. v \in [0 .. n.size - 1 -> SlotType] /\ v[j] = s
      /\ \A i \in 0 .. n.size - 1 : i # j => v[i] = n.slot[i]
  BY <1>1, <1>2
<1>4. PICK m : m = [size |-> n.size, pos |-> n.pos, used |-> n.used, slot |-> v]
  OBVIOUS
<1>5. k = m
  BY <1>1, <1>2, <1>4
<1>6. ArrayOK(m) /\ m # NoArray
  BY <1>1, <1>3, <1>4, MakeArray
<1>7. m.size = n.size /\ m.pos = n.pos /\ m.used = n.used /\ m.slot = v
  BY <1>4
<1>8. Slots(m) = n.used
  BY <1>6, <1>7 DEF Slots
<1> QED
  BY <1>1, <1>3, <1>5, <1>6, <1>7, <1>8

\* The writer and its slot.
LEMMA AtSlot ==
  ASSUME LookupInv, Busy(writer)
  PROVE  /\ bucket # NoArray /\ ArrayOK(bucket)
         /\ writer.slot \in 0 .. bucket.size - 1 /\ writer.slot \in 0 .. bucket.pos - 1
         /\ bucket.slot[writer.slot] \in SlotType
         /\ SettledIn(bucket, writer) = Slots(bucket) \ {writer.slot}
         /\ \A i \in SettledIn(bucket, writer) : bucket.slot[i].half # writer.domain
         /\ writer.domain \in Domains /\ writer.value \in Nat
         /\ writer.domain \in InSet(member, now) => Covers(writer.value, member[writer.domain])
         /\ writer = [pc |-> writer.pc, domain |-> writer.domain, slot |-> writer.slot,
                      todo |-> writer.todo, value |-> writer.value]
         /\ writer.todo \in SUBSET Halves
<1>1. bucket # NoArray /\ ArrayOK(bucket) /\ writer.slot \in Nat /\ writer.value \in Nat
  BY TypesAre DEF LookupInv, WriterAt, Busy
<1>2. writer.slot < bucket.pos
  BY DEF LookupInv, WriterAt
<1>3. /\ bucket.size \in Nat /\ bucket.pos \in 0 .. bucket.size
      /\ bucket.slot \in [0 .. bucket.size - 1 -> SlotType]
  <2>1. MaxSize \in Nat
    BY LookupAssumption
  <2> QED
    BY <1>1, <2>1, ArrayIs
<1>4. writer.slot \in 0 .. bucket.size - 1 /\ writer.slot \in 0 .. bucket.pos - 1
  BY <1>1, <1>2, <1>3
<1>5. SettledIn(bucket, writer) = Slots(bucket) \ {writer.slot}
  BY DEF SettledIn
<1>6. /\ writer = [pc |-> writer.pc, domain |-> writer.domain, slot |-> writer.slot,
                   todo |-> writer.todo, value |-> writer.value]
      /\ writer.todo \in SUBSET Halves
  <2>1. writer \in WriterType
    BY DEF LookupInv, TypeOK, WriterType
  <2> QED
    BY <2>1 DEF WriterType
<1>7. \A i \in SettledIn(bucket, writer) : bucket.slot[i].half # writer.domain
  BY DEF LookupInv, Agree
<1>8. /\ writer.domain \in Domains
      /\ writer.domain \in InSet(member, now) => Covers(writer.value, member[writer.domain])
  BY DEF LookupInv, WriterAt
<1> QED
  BY <1>1, <1>3, <1>4, <1>5, <1>6, <1>7, <1>8

\* What the lookup notices of a write to the slot of the writer.
LEMMA WriteInPlace ==
  ASSUME LookupInv, Busy(writer), Disturb(writer.slot), old' = old,
         bucket' # NoArray, bucket'.size = bucket.size, Slots(bucket') = Slots(bucket),
         \A i \in 0 .. bucket.size - 1 : i # writer.slot => bucket'.slot[i] = bucket.slot[i],
         \A i \in Slots(bucket) : i # writer.slot => bucket'.slot[i] = bucket.slot[i],
         writer.slot \in Slots(bucket) =>
           \/ Late(bucket.slot[writer.slot].timeout, now)
           \/ /\ bucket.slot[writer.slot].half = writer.domain
              /\ bucket'.slot[writer.slot].half = writer.domain
              /\ bucket'.slot[writer.slot].timeout = writer.value
  PROVE  InPlace
<1> DEFINE j == writer.slot
<1>1. raced' = (raced \/ (Comparing(look) /\ old = NoArray /\ look.slot = j)) /\ raced \in BOOLEAN
  BY TypesAre DEF Disturb, Comparing
<1>2. raced' \in BOOLEAN /\ (raced => raced') /\ (~Reading => raced' = raced)
  BY <1>1, AtThisTime DEF Comparing, ReadingAt
<1>3. ASSUME old = NoArray, Comparing(look), ~raced'
      PROVE  bucket'.slot[look.slot] = bucket.slot[look.slot]
  <2>1. look.slot # j
    BY <1>1, <1>3
  <2>2. look.slot < bucket.size /\ look.slot \in Nat /\ bucket.size \in Nat
    <3>1. look.slot < HeldOf(bucket, old).size
      BY <1>3 DEF LookupInv, LookAt
    <3>2. MaxSize \in Nat
      BY LookupAssumption
    <3> QED
      BY <1>3, <3>1, <3>2, TypesAre, AtSlot, ArrayIs DEF HeldOf
  <2> QED
    BY <2>1, <2>2
<1>4. ASSUME NEW i \in Slots(bucket), bucket.slot[i].half = TestedBy(look), due # Never,
             Covers(bucket.slot[i].timeout, due), ~Late(due, now)
      PROVE  /\ i \in Slots(bucket') /\ bucket'.slot[i].half = TestedBy(look)
             /\ Covers(bucket'.slot[i].timeout, due)
  <2>1. CASE i # j
    BY <2>1, <1>4
  <2>2. CASE i = j
    <3>1. due \in Nat /\ now \in Nat /\ bucket.slot[j].timeout \in Nat
      BY <1>4, <2>2, TypesAre
    <3>2. ~Late(bucket.slot[j].timeout, now)
      BY <3>1, <2>2, <1>4, CoversLate
    <3>3. TestedBy(look) = writer.domain
      BY <2>2, <3>2, <1>4
    <3>4. writer.domain \in InSet(member, now) /\ Covers(member[writer.domain], due)
      BY <3>3, <1>4 DEF LookupInv, Ahead
    <3>5. Covers(writer.value, member[writer.domain]) /\ writer.value \in Nat
      BY <3>4, AtSlot
    <3>6. member[writer.domain] \in Nat
      BY <3>4, TypesAre DEF InSet, MemberType
    <3>7. Covers(writer.value, due)
      BY <3>1, <3>4, <3>5, <3>6, CoversTransitive
    <3> QED
      BY <2>2, <3>2, <3>3, <3>7, <1>4
  <2> QED
    BY <2>1, <2>2
<1> QED
  BY <1>2, <1>3, <1>4 DEF InPlace

\* Both halves and the domain.
LEMMA HalvesMake ==
  ASSUME NEW s \in SlotType, NEW d \in Domains, \A h \in Halves : s.half[h] = d[h]
  PROVE  s.half = d
<1>1. s.half = [h \in Halves |-> s.half[h]] /\ d = [h \in Halves |-> d[h]]
  BY SlotIs, LookupAssumption
<1> QED
  BY <1>1

LEMMA CopyHalfStep ==
  ASSUME LookupInv, NEW h \in Halves, CopyHalf(h)
  PROVE  KeepsInv
<1>1. /\ writer.pc = "copy" /\ h \in writer.todo /\ Disturb(writer.slot) /\ Witness
      /\ old' = old /\ now' = now /\ look' = look /\ member' = member /\ ops' = ops
      /\ bucket' = [bucket EXCEPT !.slot[writer.slot].half[h] = writer.domain[h]]
      /\ writer' = [writer EXCEPT !.todo = @ \ {h},
                                  !.pc = IF writer.todo = {h} THEN "time" ELSE "copy"]
  BY DEF CopyHalf
<1>2. PICK j : j = writer.slot
  OBVIOUS
<1>3. PICK d : d = writer.domain
  OBVIOUS
<1>4. Busy(writer)
  BY <1>1 DEF Busy
<1>5. /\ bucket # NoArray /\ ArrayOK(bucket) /\ j \in 0 .. bucket.size - 1
      /\ j \in 0 .. bucket.pos - 1 /\ bucket.slot[j] \in SlotType /\ d \in Domains
  BY <1>2, <1>3, <1>4, AtSlot
<1>6. PICK s : s = [bucket.slot[j] EXCEPT !.half[h] = d[h]]
  OBVIOUS
<1>7. /\ s \in SlotType /\ s.timeout = bucket.slot[j].timeout /\ s.half[h] = d[h]
      /\ \A g \in Halves : g # h => s.half[g] = bucket.slot[j].half[g]
  BY <1>5, <1>6 DEF SlotType
<1>8. PICK k : k = [bucket EXCEPT !.slot[j] = s]
  OBVIOUS
<1>9. bucket' = k
  BY <1>1, <1>2, <1>3, <1>6, <1>8
<1>10. /\ ArrayOK(k) /\ k # NoArray /\ k.size = bucket.size /\ k.pos = bucket.pos
       /\ k.used = bucket.used /\ Slots(k) = Slots(bucket) /\ k.slot[j] = s
       /\ \A i \in 0 .. bucket.size - 1 : i # j => k.slot[i] = bucket.slot[i]
       /\ \A i \in Slots(bucket) : i # j => k.slot[i] = bucket.slot[i]
  BY <1>5, <1>7, <1>8, EditSlot
<1>11. /\ j \in bucket.used => Late(bucket.slot[j].timeout, now)
       /\ \A g \in Halves \ writer.todo : bucket.slot[j].half[g] = d[g]
  BY <1>1, <1>2, <1>3 DEF LookupInv, WriterAt
<1>12. Slots(bucket) = bucket.used
  BY <1>5 DEF Slots
<1>13. PICK x : x = writer'
  OBVIOUS
<1>14. /\ x.todo = writer.todo \ {h} /\ x.pc = IF writer.todo = {h} THEN "time" ELSE "copy"
       /\ x.domain = d /\ x.slot = j /\ x.value = writer.value /\ x \in WriterType
  <2>1. writer \in WriterType
    BY TypesStay
  <2> QED
    BY <2>1, <1>1, <1>2, <1>3, <1>13 DEF WriterType
<1>15. WriterAt(k, x, member, now)
  <2>1. j < k.pos
    <3>1. k.pos \in Nat
      BY <1>5, <1>10, ArrayIs, LookupAssumption
    <3> QED
      BY <3>1, <1>5, <1>10
  <2>2. \A g \in Halves \ x.todo : s.half[g] = d[g]
    BY <1>7, <1>11, <1>14
  <2>3. x.pc = "time" => s.half = d
    <3> HAVE x.pc = "time"
    <3>1. x.todo = {}
      BY <1>14
    <3> QED
      BY <2>2, <3>1, <1>5, <1>7, HalvesMake
  <2>4. d \in InSet(member, now) => Covers(x.value, member[d])
    BY <1>3, <1>4, <1>14, AtSlot
  <2>5. x.pc \in {"copy", "time"} /\ Busy(x)
    BY <1>14 DEF Busy
  <2> QED
    BY <2>1, <2>2, <2>3, <2>4, <2>5, <1>5, <1>7, <1>10, <1>11, <1>14 DEF WriterAt
<1>16. Agree(k, x, member, now)
  <2>1. Busy(x)
    BY <1>14 DEF Busy
  <2>2. Agree(bucket, writer, member, now)
    BY DEF LookupInv
  <2>3. /\ SettledIn(bucket, writer) \ {j} = Slots(bucket) \ {j}
        /\ \A i \in Slots(bucket) \ {j} : k.slot[i] = bucket.slot[i] /\ bucket.slot[i].half # d
    BY <1>2, <1>3, <1>4, <1>10, AtSlot
  <2>4. \A e \in InSet(member, now) : ~(/\ j \in Slots(bucket) /\ bucket.slot[j].half = e
                                        /\ Covers(bucket.slot[j].timeout, member[e]))
    <3> SUFFICES ASSUME NEW e \in InSet(member, now), j \in Slots(bucket),
                        Covers(bucket.slot[j].timeout, member[e])
                 PROVE  FALSE
      OBVIOUS
    <3>1. bucket.slot[j].timeout \in Nat /\ member[e] \in Nat /\ now \in Nat
      BY TypesAre DEF InSet, MemberType
    <3>2. Late(member[e], now)
      BY <3>1, <1>11, <1>12, CoversLate
    <3> QED
      BY <3>2 DEF InSet
  <2>5. d \in InSet(member, now) /\ j \in Slots(bucket) /\ bucket.slot[j].half = d =>
          k.slot[j].half = d /\ Covers(k.slot[j].timeout, member[d])
    <3> SUFFICES ASSUME d \in InSet(member, now) PROVE FALSE
      OBVIOUS
    <3>1. PICK i \in Slots(bucket) :
            bucket.slot[i].half = d /\ Covers(bucket.slot[i].timeout, member[d])
      BY <2>2 DEF Agree
    <3> QED
      BY <3>1, <2>3, <2>4
  <2> QED
    BY <2>1, <2>2, <2>3, <2>4, <2>5, <1>10, <1>14, AgreeWrite
<1>17. InPlace
  <2>1. writer.slot \in Slots(bucket) => Late(bucket.slot[writer.slot].timeout, now)
    BY <1>2, <1>11, <1>12
  <2> QED
    BY <2>1, <1>1, <1>2, <1>4, <1>9, <1>10, WriteInPlace
<1> QED
  BY <1>1, <1>9, <1>10, <1>13, <1>14, <1>15, <1>16, <1>17, TypesStay DEF KeepsInv

LEMMA SetTimeoutStep ==
  ASSUME LookupInv, SetTimeout
  PROVE  KeepsInv
<1>1. /\ writer.pc = "time" /\ Disturb(writer.slot) /\ Witness
      /\ old' = old /\ now' = now /\ look' = look /\ member' = member /\ ops' = ops
      /\ bucket' = [bucket EXCEPT !.slot[writer.slot].timeout = writer.value]
      /\ writer' = [writer EXCEPT !.pc = "bit"]
  BY DEF SetTimeout
<1>2. PICK j : j = writer.slot
  OBVIOUS
<1>3. PICK d : d = writer.domain
  OBVIOUS
<1>4. Busy(writer)
  BY <1>1 DEF Busy
<1>5. /\ bucket # NoArray /\ ArrayOK(bucket) /\ j \in 0 .. bucket.size - 1
      /\ j \in 0 .. bucket.pos - 1 /\ bucket.slot[j] \in SlotType /\ d \in Domains
      /\ writer.value \in Nat
  BY <1>2, <1>3, <1>4, AtSlot
<1>6. PICK s : s = [bucket.slot[j] EXCEPT !.timeout = writer.value]
  OBVIOUS
<1>7. s \in SlotType /\ s.timeout = writer.value /\ s.half = bucket.slot[j].half
  BY <1>5, <1>6 DEF SlotType
<1>8. PICK k : k = [bucket EXCEPT !.slot[j] = s]
  OBVIOUS
<1>9. bucket' = k
  BY <1>1, <1>2, <1>6, <1>8
<1>10. /\ ArrayOK(k) /\ k # NoArray /\ k.size = bucket.size /\ k.pos = bucket.pos
       /\ k.used = bucket.used /\ Slots(k) = Slots(bucket) /\ k.slot[j] = s
       /\ \A i \in 0 .. bucket.size - 1 : i # j => k.slot[i] = bucket.slot[i]
       /\ \A i \in Slots(bucket) : i # j => k.slot[i] = bucket.slot[i]
  BY <1>5, <1>7, <1>8, EditSlot
<1>11. bucket.slot[j].half = d
  BY <1>1, <1>2, <1>3 DEF LookupInv, WriterAt
<1>12. PICK x : x = writer'
  OBVIOUS
<1>13. /\ x.pc = "bit" /\ x.domain = d /\ x.slot = j /\ x.value = writer.value
       /\ x \in WriterType
  <2>1. writer \in WriterType
    BY TypesStay
  <2> QED
    BY <2>1, <1>1, <1>2, <1>3, <1>12 DEF WriterType
<1>14. d \in InSet(member, now) => Covers(writer.value, member[d])
  BY <1>3, <1>4, AtSlot
<1>15. WriterAt(k, x, member, now)
  <2>1. j < k.pos
    <3>1. k.pos \in Nat
      BY <1>5, <1>10, ArrayIs, LookupAssumption
    <3> QED
      BY <3>1, <1>5, <1>10
  <2> QED
    BY <2>1, <1>5, <1>7, <1>10, <1>11, <1>13, <1>14 DEF WriterAt, Busy
<1>16. Agree(k, x, member, now)
  <2>1. Busy(x)
    BY <1>13 DEF Busy
  <2>2. Agree(bucket, writer, member, now)
    BY DEF LookupInv
  <2>3. /\ SettledIn(bucket, writer) \ {j} = Slots(bucket) \ {j}
        /\ \A i \in Slots(bucket) \ {j} : k.slot[i] = bucket.slot[i] /\ bucket.slot[i].half # d
    BY <1>2, <1>3, <1>4, <1>10, AtSlot
  <2>4. k.slot[j].half = d /\ k.slot[j].timeout = writer.value
    BY <1>7, <1>10, <1>11
  <2> QED
    BY <2>1, <2>2, <2>3, <2>4, <1>10, <1>11, <1>13, <1>14, AgreeWrite
<1>17. InPlace
  <2>1. /\ bucket.slot[j].half = d /\ bucket'.slot[j].half = d
        /\ bucket'.slot[j].timeout = writer.value
    BY <1>7, <1>9, <1>10, <1>11
  <2> QED
    BY <2>1, <1>1, <1>2, <1>3, <1>4, <1>9, <1>10, WriteInPlace
<1> QED
  BY <1>1, <1>9, <1>10, <1>12, <1>13, <1>15, <1>16, <1>17, TypesStay DEF KeepsInv

\* The used bits of an array are others, and pos.
LEMMA EditUsed ==
  ASSUME NEW n, n # NoArray, ArrayOK(n), NEW p \in 0 .. n.size, NEW u \in SUBSET (0 .. p - 1),
         NEW k, k = [size |-> n.size, pos |-> p, used |-> u, slot |-> n.slot]
  PROVE  /\ ArrayOK(k) /\ k # NoArray /\ k.size = n.size /\ k.pos = p /\ k.used = u
         /\ Slots(k) = u /\ k.slot = n.slot
<1>1. n.size \in Sizes /\ n.slot \in [0 .. n.size - 1 -> SlotType]
  BY ArrayIs
<1>2. ArrayOK(k) /\ k # NoArray
  BY <1>1, MakeArray
<1>3. k.size = n.size /\ k.pos = p /\ k.used = u /\ k.slot = n.slot
  OBVIOUS
<1> QED
  BY <1>2, <1>3 DEF Slots

LEMMA SetUsedStep ==
  ASSUME LookupInv, SetUsed
  PROVE  KeepsInv
<1>1. /\ writer.pc = "bit" /\ Enter(writer.domain, writer.value) /\ Finish /\ Witness
      /\ old' = old /\ now' = now /\ look' = look /\ raced' = raced /\ ops' = ops
      /\ bucket' = [bucket EXCEPT !.used = @ \cup {writer.slot}]
  BY DEF SetUsed
<1>2. PICK j : j = writer.slot
  OBVIOUS
<1>3. PICK d : d = writer.domain
  OBVIOUS
<1>4. Busy(writer)
  BY <1>1 DEF Busy
<1>5. PICK n : n = bucket
  OBVIOUS
<1>6. /\ n # NoArray /\ ArrayOK(n) /\ j \in 0 .. n.pos - 1 /\ d \in Domains
      /\ writer.value \in Nat /\ SettledIn(n, writer) = Slots(n) \ {j}
      /\ \A i \in SettledIn(n, writer) : n.slot[i].half # d
  BY <1>2, <1>3, <1>4, <1>5, AtSlot
<1>7. /\ n = [size |-> n.size, pos |-> n.pos, used |-> n.used, slot |-> n.slot]
      /\ n.pos \in 0 .. n.size /\ n.used \in SUBSET (0 .. n.pos - 1) /\ Slots(n) = n.used
  BY <1>6, ArrayIs
<1>8. n.slot[j].half = d /\ n.slot[j].timeout = writer.value
  BY <1>1, <1>2, <1>3, <1>5 DEF LookupInv, WriterAt
<1>u. PICK u : u = n.used \cup {j}
  OBVIOUS
<1>9. PICK k : k = [size |-> n.size, pos |-> n.pos, used |-> u, slot |-> n.slot]
  OBVIOUS
<1>10. bucket' = k
  <2>1. bucket' = [n EXCEPT !.used = u]
    BY <1>1, <1>2, <1>5, <1>u, Zenon
  <2> QED
    BY <2>1, <1>7, <1>9
<1>11. /\ ArrayOK(k) /\ k # NoArray /\ k.size = n.size /\ Slots(k) = Slots(n) \cup {j}
       /\ k.slot = n.slot
  <2>1. u \in SUBSET (0 .. n.pos - 1)
    BY <1>6, <1>7, <1>u
  <2> QED
    BY <2>1, <1>6, <1>7, <1>9, <1>u, EditUsed
<1>12. writer' = NoWriter /\ NoWriter \in WriterType /\ ~Busy(NoWriter)
       /\ WriterAt(k, NoWriter, member', now)
  BY <1>1, IdleWriter DEF Finish
<1>13. member' \in MemberType /\ member' = [member EXCEPT ![d] = writer.value]
  BY <1>1, <1>3, <1>6, EnterType
<1>14. Agree(k, NoWriter, member', now)
  <2>1. /\ k.slot[j].half = d /\ k.slot[j].timeout = writer.value
        /\ j \in Slots(n) => n.slot[j].half = d
        /\ \A i \in SettledIn(n, writer) : k.slot[i] = n.slot[i] /\ n.slot[i].half # d
    BY <1>6, <1>8, <1>11
  <2>2. Agree(n, writer, member, now) /\ member \in MemberType
    BY <1>5, TypesAre DEF LookupInv
  <2>3. Agree(k, NoWriter, [member EXCEPT ![d] = writer.value], now)
    BY <2>1, <2>2, <1>6, <1>11, <1>12, AgreePut
  <2> QED
    BY <2>3, <1>13
<1>15. InPlace
  BY <1>1, <1>5, <1>10, <1>11, TypesAre DEF InPlace
<1> QED
  BY <1>1, <1>10, <1>11, <1>12, <1>13, <1>14, <1>15, TypesStay DEF KeepsInv

LEMMA DelStep ==
  ASSUME LookupInv, NEW d \in Domains, Del(d)
  PROVE  KeepsInv
<1>1. /\ Begin /\ Witness /\ look' = look /\ now' = now /\ raced' = raced /\ old' = old
      /\ bucket # NoArray /\ Enter(d, Never)
  BY DEF Del
<1>2. PICK n : n = bucket
  OBVIOUS
<1>3. PICK j \in Holding(n, d) :
        /\ bucket' = [n EXCEPT !.used = @ \ {j}]
        /\ writer' = [NoWriter EXCEPT !.pc = "trim", !.slot = j]
  BY <1>2 DEF Del
<1>4. /\ n = [size |-> n.size, pos |-> n.pos, used |-> n.used, slot |-> n.slot]
      /\ n.size \in 0 .. MaxSize /\ n.pos \in 0 .. n.size
      /\ n.used \in SUBSET (0 .. n.pos - 1) /\ Slots(n) = n.used /\ ArrayOK(n)
  BY <1>1, <1>2, ArrayIs, TypesAre
<1>5. /\ writer = NoWriter /\ ~Busy(writer) /\ ops' \in 0 .. MaxOps
      /\ SettledIn(n, writer) = Slots(n)
      /\ \A i, l \in Slots(n) : n.slot[i].half = n.slot[l].half => i = l
      /\ \A i \in Slots(n) : n.slot[i].half \in Domains
  BY <1>1, <1>2, Beginning
<1>6. j \in Slots(n) /\ n.slot[j].half = d
  BY <1>1, <1>2, <1>3, HoldingIs
<1>u. PICK u : u = n.used \ {j}
  OBVIOUS
<1>7. PICK k : k = [size |-> n.size, pos |-> n.pos, used |-> u, slot |-> n.slot]
  OBVIOUS
<1>8. bucket' = k
  <2>1. bucket' = [n EXCEPT !.used = u]
    BY <1>3, <1>u, Zenon
  <2> QED
    BY <2>1, <1>4, <1>7
<1>9. /\ ArrayOK(k) /\ k # NoArray /\ k.size = n.size /\ k.pos = n.pos
      /\ k.used = n.used \ {j} /\ Slots(k) = Slots(n) \ {j} /\ k.slot = n.slot
  <2>1. u \in SUBSET (0 .. n.pos - 1)
    BY <1>4, <1>u
  <2> QED
    <3>1. /\ ArrayOK(k) /\ k # NoArray /\ k.size = n.size /\ k.pos = n.pos
          /\ k.used = u /\ Slots(k) = u /\ k.slot = n.slot
      BY <2>1, <1>1, <1>2, <1>4, <1>7, EditUsed
    <3> QED
      BY ONLY <3>1, <1>4, <1>u, Zenon
<1>10. MaxSize \in Nat /\ j \in 0 .. MaxSize /\ j < n.pos
  BY <1>4, <1>6, LookupAssumption
<1>11. PICK x : x = writer'
  OBVIOUS
<1>12. x.pc = "trim" /\ x.slot = j /\ x.domain = NoDomain /\ x \in WriterType /\ ~Busy(x)
  BY <1>3, <1>10, <1>11 DEF NoWriter, WriterType, Busy
<1>13. /\ member' \in MemberType /\ member'[d] = Never
       /\ \A e \in Domains : e # d => member'[e] = member[e]
  BY <1>1, EnterType
<1>14. WriterAt(k, x, member', now)
  BY <1>9, <1>10, <1>12 DEF WriterAt, Busy
<1>15. d \notin InSet(member', now)
  BY <1>13 DEF InSet
<1>16. Agree(k, x, member', now)
  <2>1. InSet(member', now) \subseteq InSet(member, now)
        /\ \A e \in InSet(member', now) : member'[e] = member[e]
    BY <1>13 DEF InSet
  <2>2. \A i \in Slots(k) : k.slot[i] = n.slot[i] /\ member'[n.slot[i].half] = member[n.slot[i].half]
    BY <1>5, <1>6, <1>9, <1>13
  <2>3. /\ \A i \in Slots(k) : i \in Slots(n)
        /\ \A i \in Slots(n) : i \notin Slots(k) => n.slot[i].half \notin InSet(member', now)
    BY <1>6, <1>9, <1>15
  <2>4. Agree(n, writer, member, now)
    BY <1>2 DEF LookupInv
  <2> QED
    BY <2>1, <2>2, <2>3, <2>4, <1>5, <1>12, AgreeTake
<1>17. InPlace
  <2>1. \A i \in Slots(bucket) :
          bucket.slot[i].half = TestedBy(look) /\ TestedBy(look) \in InSet(member', now') =>
            i \in Slots(bucket') /\ bucket'.slot[i] = bucket.slot[i]
    BY <1>1, <1>2, <1>6, <1>8, <1>9, <1>15
  <2> QED
    BY <2>1, <1>1, <1>2, <1>8, <1>9, TypesAre DEF InPlace
<1> QED
  BY <1>1, <1>5, <1>8, <1>9, <1>11, <1>12, <1>13, <1>14, <1>16, <1>17, TypesStay DEF KeepsInv

\* Which slots there are counts, and what is in them.
LEMMA MovedSame ==
  ASSUME NEW a, NEW b, NEW k, Slots(a) = Slots(b), a.slot = b.slot, Moved(a, k)
  PROVE  Moved(b, k)
<1>1. PICK g \in [Slots(k) -> Slots(a)] :
        /\ \A i, j \in Slots(k) : g[i] = g[j] => i = j
        /\ \A x \in Slots(a) : \E i \in Slots(k) : g[i] = x
        /\ \A i \in Slots(k) : k.slot[i] = a.slot[g[i]]
  BY Zenon DEF Moved
<1>2. g \in [Slots(k) -> Slots(b)]
  BY Zenon
<1>3. /\ \A i, j \in Slots(k) : g[i] = g[j] => i = j
      /\ \A x \in Slots(b) : \E i \in Slots(k) : g[i] = x
      /\ \A i \in Slots(k) : k.slot[i] = b.slot[g[i]]
  BY <1>1
<1> QED
  BY <1>2, <1>3, Zenon DEF Moved

\* Nothing is left.
LEMMA MovedAway ==
  ASSUME NEW n, Slots(n) = {}
  PROVE  Moved(n, NoArray) /\ ArrayOK(NoArray)
<1>1. Slots(NoArray) = {}
  BY DEF Slots
<1> QED
  BY <1>1, MovedNot DEF ArrayOK

\* A shorter array for the slots in use, if there are enough holes.
LEMMA ShorterDoes ==
  ASSUME NEW n, n # NoArray, ArrayOK(n), Cardinality(Holes(n)) >= InitSize
  PROVE  /\ ArrayOK(Compact(n, n.size - InitSize)) /\ Compact(n, n.size - InitSize) # NoArray
         /\ Moved(n, Compact(n, n.size - InitSize))
<1>1. /\ Cardinality(n.used) \in Nat /\ Cardinality(Holes(n)) \in Nat
      /\ Cardinality(n.used) + Cardinality(Holes(n)) = n.pos
  BY HolesCount
<1>2. n.size \in Sizes /\ n.size \in Nat /\ n.pos \in 0 .. n.size /\ InitSize \in Nat
  BY ArrayIs, LookupAssumption
<1>3. n.size >= InitSize /\ Cardinality(n.used) <= n.size - InitSize
  BY <1>1, <1>2
<1>4. n.size - InitSize \in Sizes
  BY <1>2, <1>3, SizesGrow
<1> QED
  BY <1>3, <1>4, CompactDoes

\* A step that moves the slots.
LEMMA MovingKeeps ==
  ASSUME LookupInv, ~Busy(writer), Witness, look' = look, now' = now, member' = member,
         ops' \in 0 .. MaxOps, raced' = raced, ArrayOK(bucket'), Moved(bucket, bucket'),
         writer' \in WriterType, ~Busy(writer'), WriterAt(bucket', writer', member, now),
         InPlace \/ Publish(bucket')
  PROVE  KeepsInv
<1>1. Agree(bucket', writer', member, now)
  BY AgreeMoved DEF LookupInv
<1> QED
  BY <1>1, TypesStay DEF KeepsInv, Replaced

LEMMA DelTrimStep ==
  ASSUME LookupInv, DelTrim
  PROVE  KeepsInv
<1>1. /\ writer.pc = "trim" /\ Finish /\ Witness /\ now' = now /\ look' = look
      /\ member' = member /\ raced' = raced /\ ops' = ops
  BY DEF DelTrim
<1>2. PICK j : j = writer.slot
  OBVIOUS
<1>3. PICK n : n = bucket
  OBVIOUS
<1>4. ~Busy(writer) /\ n # NoArray /\ ArrayOK(n) /\ j \notin n.used /\ j < n.pos /\ j \in Nat
  BY <1>1, <1>2, <1>3, TypesAre DEF LookupInv, WriterAt, Busy
<1>5. /\ n = [size |-> n.size, pos |-> n.pos, used |-> n.used, slot |-> n.slot]
      /\ n.size \in 0 .. MaxSize /\ n.pos \in 0 .. n.size
      /\ n.used \in SUBSET (0 .. n.pos - 1) /\ Slots(n) = n.used
  BY <1>4, ArrayIs
<1>6. PICK p : p = IF j + 1 = n.pos THEN j ELSE n.pos
  OBVIOUS
<1>7. MaxSize \in Nat
  BY LookupAssumption
<1>8. p \in 0 .. n.size /\ n.used \in SUBSET (0 .. p - 1)
  BY <1>4, <1>5, <1>6, <1>7
<1>9. PICK k : k = [size |-> n.size, pos |-> p, used |-> n.used, slot |-> n.slot]
  OBVIOUS
<1>10. /\ ArrayOK(k) /\ k # NoArray /\ k.size = n.size /\ k.pos = p /\ k.used = n.used
       /\ Slots(k) = Slots(n) /\ k.slot = n.slot
  <2>1. /\ ArrayOK(k) /\ k # NoArray /\ k.size = n.size /\ k.pos = p /\ k.used = n.used
        /\ Slots(k) = n.used /\ k.slot = n.slot
    BY <1>4, <1>8, <1>9, EditUsed
  <2> QED
    BY <2>1, <1>5
<1>11. k = [bucket EXCEPT !.pos = IF writer.slot + 1 = @ THEN writer.slot ELSE @]
  BY <1>2, <1>3, <1>5, <1>6, <1>9
<1>12. \/ k.pos = 0 /\ Publish(NoArray)
       \/ /\ Cardinality(Holes(k)) >= InitSize /\ Publish(Compact(k, k.size - InitSize))
       \/ bucket' = k /\ UNCHANGED old
  BY <1>11, Zenon DEF DelTrim
<1>13. ArrayOK(bucket') /\ Moved(bucket, bucket') /\ (InPlace \/ Publish(bucket'))
  <2>1. CASE k.pos = 0 /\ Publish(NoArray)
    <3>1. bucket' = NoArray
      BY <2>1 DEF Publish
    <3>2. Slots(n) = {}
      BY <2>1, <1>5, <1>8, <1>10
    <3> QED
      BY <2>1, <3>1, <3>2, <1>3, MovedAway
  <2>2. CASE Cardinality(Holes(k)) >= InitSize /\ Publish(Compact(k, k.size - InitSize))
    <3>1. bucket' = Compact(k, k.size - InitSize)
      BY <2>2 DEF Publish
    <3>2. ArrayOK(bucket') /\ Moved(k, bucket')
      BY <2>2, <3>1, <1>10, ShorterDoes
    <3>3. Moved(n, bucket')
      BY <3>2, <1>10, MovedSame
    <3> QED
      BY <2>2, <3>1, <3>2, <3>3, <1>3
  <2>3. CASE bucket' = k /\ UNCHANGED old
    <3>1. Moved(n, k)
      BY <1>10, MovedNot
    <3>2. InPlace
      BY <2>3, <1>1, <1>3, <1>10, TypesAre DEF InPlace
    <3> QED
      BY <2>3, <3>1, <3>2, <1>3, <1>10
  <2> QED
    BY <1>12, <2>1, <2>2, <2>3
<1>14. writer' = NoWriter
  BY <1>1 DEF Finish
<1> QED
  BY <1>1, <1>4, <1>13, <1>14, IdleWriter, TypesStay, MovingKeeps

LEMMA ExpireStep ==
  ASSUME LookupInv, Expire
  PROVE  KeepsInv
<1>1. /\ Begin /\ Witness /\ now' = now /\ look' = look /\ bucket' = bucket /\ old' = old
      /\ member' = member /\ raced' = raced /\ bucket # NoArray
      /\ writer' = [NoWriter EXCEPT !.pc = "expire"]
  BY DEF Expire
<1>2. ~Busy(writer) /\ ops' \in 0 .. MaxOps
  BY <1>1, Beginning
<1>3. /\ writer'.pc = "expire" /\ writer'.domain = NoDomain /\ writer' \in WriterType
  BY <1>1, IdleWriter DEF NoWriter, WriterType
<1>4. ~Busy(writer') /\ WriterAt(bucket', writer', member, now)
  BY <1>1, <1>3 DEF Busy, WriterAt
<1>5. Moved(bucket, bucket') /\ ArrayOK(bucket')
  BY <1>1, MovedNot, TypesAre
<1>6. InPlace
  BY <1>1, TypesAre DEF InPlace
<1> QED
  BY <1>1, <1>2, <1>3, <1>4, <1>5, <1>6, MovingKeeps

LEMMA ExpireSlotStep ==
  ASSUME LookupInv, ExpireSlot
  PROVE  KeepsInv
<1>1. /\ writer.pc = "expire" /\ Witness /\ now' = now /\ look' = look /\ old' = old
      /\ member' = member /\ raced' = raced /\ ops' = ops /\ writer.slot < bucket.pos
      /\ writer' = [writer EXCEPT !.slot = writer.slot + 1]
  BY DEF ExpireSlot
<1>2. PICK j : j = writer.slot
  OBVIOUS
<1>3. PICK n : n = bucket
  OBVIOUS
<1>4. /\ ~Busy(writer) /\ n # NoArray /\ ArrayOK(n) /\ writer.domain = NoDomain
      /\ writer \in WriterType /\ j \in Nat
  BY <1>1, <1>2, <1>3, TypesAre, TypesStay DEF LookupInv, WriterAt, Busy
<1>5. /\ n = [size |-> n.size, pos |-> n.pos, used |-> n.used, slot |-> n.slot]
      /\ n.size \in 0 .. MaxSize /\ n.pos \in 0 .. n.size
      /\ n.used \in SUBSET (0 .. n.pos - 1) /\ Slots(n) = n.used
  BY <1>4, ArrayIs
<1>6. writer' \in WriterType /\ writer'.pc = "expire" /\ writer'.domain = NoDomain
  <2>1. MaxSize \in Nat /\ j + 1 \in 0 .. MaxSize
    BY <1>1, <1>2, <1>3, <1>4, <1>5, LookupAssumption
  <2> QED
    BY <2>1, <1>1, <1>2, <1>4 DEF WriterType
<1>7. CASE ~(j \in n.used /\ Late(n.slot[j].timeout, now))
  <2>1. bucket' = bucket
    BY <1>7, <1>2, <1>3, AtThisTime DEF ExpireSlot
  <2>2. Moved(bucket, bucket') /\ ArrayOK(bucket')
    BY <2>1, MovedNot, TypesAre
  <2>3. ~Busy(writer') /\ WriterAt(bucket', writer', member, now)
    BY <2>1, <1>3, <1>4, <1>6 DEF Busy, WriterAt
  <2>4. InPlace
    BY <2>1, <1>1, TypesAre DEF InPlace
  <2> QED
    BY <2>2, <2>3, <2>4, <1>1, <1>4, <1>6, MovingKeeps, TypesStay
<1>8. CASE j \in n.used /\ Late(n.slot[j].timeout, now)
  <2>1. PICK u : u = n.used \ {j}
    OBVIOUS
  <2>2. PICK k : k = [size |-> n.size, pos |-> n.pos, used |-> u, slot |-> n.slot]
    OBVIOUS
  <2>3. bucket' = k
    <3>1. bucket' = [n EXCEPT !.used = u]
      BY <1>8, <2>1, <1>2, <1>3, AtThisTime DEF ExpireSlot
    <3> QED
      BY <3>1, <2>2, <1>5
  <2>4. /\ ArrayOK(k) /\ k # NoArray /\ k.size = n.size /\ Slots(k) = u /\ k.slot = n.slot
    <3>1. u \in SUBSET (0 .. n.pos - 1)
      BY <2>1, <1>5
    <3> QED
      BY <3>1, <2>2, <1>4, <1>5, EditUsed
  <2>5. ~Busy(writer') /\ WriterAt(k, writer', member, now)
    BY <2>4, <1>6 DEF Busy, WriterAt
  <2>6. /\ \A i \in Slots(k) : i \in Slots(n) /\ k.slot[i] = n.slot[i]
        /\ \A i \in Slots(n) : i \notin Slots(k) => i = j
    BY <2>1, <2>4, <1>5
  <2>7. Agree(n, writer, member, now)
    BY <1>3 DEF LookupInv
  <2>8. n.slot[j].half \notin InSet(member, now)
    <3>1. member[n.slot[j].half] = n.slot[j].timeout
      BY <1>4, <1>5, <1>8, <2>7, AllSettled
    <3> QED
      BY <3>1, <1>8 DEF InSet
  <2>9. Agree(k, writer', member, now)
    BY <2>5, <2>6, <2>7, <2>8, <1>4, AgreeTake
  <2>10. InPlace
    <3>1. ASSUME NEW i \in Slots(n), due # Never, Covers(n.slot[i].timeout, due), ~Late(due, now)
          PROVE  i \in Slots(k)
      <4>1. due \in Nat /\ now \in Nat /\ n.slot[i].timeout \in Nat
        BY <3>1, <1>3, TypesAre
      <4>2. ~Late(n.slot[i].timeout, now)
        BY <4>1, <3>1, CoversLate
      <4> QED
        BY <4>2, <2>6, <1>8
    <3> QED
      BY <3>1, <2>3, <2>4, <1>1, <1>3, TypesAre DEF InPlace
  <2> QED
    BY <2>3, <2>4, <2>5, <2>9, <2>10, <1>1, <1>6, TypesStay DEF KeepsInv
<1> QED
  BY <1>7, <1>8

LEMMA ExpireEndStep ==
  ASSUME LookupInv, ExpireEnd
  PROVE  KeepsInv
<1>1. /\ writer.pc = "expire" /\ Finish /\ Witness /\ now' = now /\ look' = look
      /\ member' = member /\ raced' = raced /\ ops' = ops
      /\ \/ Cardinality(Holes(bucket)) >= bucket.size /\ Publish(NoArray)
         \/ /\ Cardinality(Holes(bucket)) >= InitSize
            /\ Publish(Compact(bucket, bucket.size - InitSize))
         \/ bucket' = bucket /\ old' = old
  BY DEF ExpireEnd
<1>2. ~Busy(writer) /\ bucket # NoArray /\ ArrayOK(bucket)
  BY <1>1, TypesAre DEF LookupInv, WriterAt, Busy
<1>3. ArrayOK(bucket') /\ Moved(bucket, bucket') /\ (InPlace \/ Publish(bucket'))
  <2>1. CASE Cardinality(Holes(bucket)) >= bucket.size /\ Publish(NoArray)
    <3>1. bucket' = NoArray
      BY <2>1 DEF Publish
    <3>2. Cardinality(bucket.used) = 0
      <4>1. /\ Cardinality(bucket.used) \in Nat /\ Cardinality(Holes(bucket)) \in Nat
            /\ Cardinality(bucket.used) + Cardinality(Holes(bucket)) = bucket.pos
        BY <1>2, HolesCount
      <4>2. bucket.size \in Nat /\ bucket.pos \in 0 .. bucket.size
        BY <1>2, ArrayIs, LookupAssumption
      <4> QED
        BY <4>1, <4>2, <2>1
    <3>3. Slots(bucket) = {}
      BY <3>2, <1>2, ArrayIs, FS_EmptySet
    <3> QED
      BY <2>1, <3>1, <3>3, MovedAway
  <2>2. CASE /\ Cardinality(Holes(bucket)) >= InitSize
             /\ Publish(Compact(bucket, bucket.size - InitSize))
    <3>1. bucket' = Compact(bucket, bucket.size - InitSize)
      BY <2>2 DEF Publish
    <3> QED
      BY <2>2, <3>1, <1>2, ShorterDoes
  <2>3. CASE bucket' = bucket /\ old' = old
    <3>1. Moved(bucket, bucket')
      BY <2>3, MovedNot
    <3>2. InPlace
      BY <2>3, <1>1, TypesAre DEF InPlace
    <3> QED
      BY <2>3, <3>1, <3>2, <1>2
  <2> QED
    BY <1>1, <2>1, <2>2, <2>3
<1>4. writer' = NoWriter
  BY <1>1 DEF Finish
<1> QED
  BY <1>1, <1>2, <1>3, <1>4, IdleWriter, TypesStay, MovingKeeps

LEMMA FlushStep ==
  ASSUME LookupInv, Flush
  PROVE  KeepsInv
<1>1. /\ Begin /\ Witness /\ now' = now /\ look' = look /\ writer' = writer /\ raced' = raced
      /\ Publish(NoArray) /\ member' = [d \in Domains |-> Never]
  BY DEF Flush
<1>2. writer = NoWriter /\ ~Busy(writer) /\ ops' \in 0 .. MaxOps
  BY <1>1, Beginning
<1>3. bucket' = NoArray /\ ArrayOK(NoArray) /\ Slots(NoArray) = {}
  BY <1>1 DEF Publish, ArrayOK, Slots
<1>4. member' \in MemberType /\ InSet(member', now) = {}
  BY <1>1 DEF MemberType, InSet
<1>5. Agree(bucket', writer', member', now)
  BY <1>3, <1>4 DEF Agree, SettledIn
<1>6. Replaced
  BY <1>1, <1>2, <1>3 DEF Replaced
<1> QED
  BY <1>1, <1>2, <1>3, <1>4, <1>5, <1>6, IdleWriter, TypesStay DEF KeepsInv

LEMMA ResizeStep ==
  ASSUME LookupInv, Resize
  PROVE  KeepsInv
<1>1. PICK c : c = Cardinality(Live(bucket))
  OBVIOUS
<1>2. /\ Begin /\ Witness /\ now' = now /\ look' = look /\ writer' = writer /\ raced' = raced
      /\ member' = member /\ bucket # NoArray
      /\ Publish(IF c = 0 THEN NoArray ELSE Compact(bucket, Rounded(c)))
  BY <1>1, Zenon DEF Resize
<1>3. writer = NoWriter /\ ~Busy(writer) /\ ops' \in 0 .. MaxOps
  BY <1>2, Beginning
<1>4. /\ ArrayOK(bucket) /\ bucket.size \in 0 .. MaxSize /\ bucket.pos \in 0 .. bucket.size
      /\ Live(bucket) = bucket.used /\ Slots(bucket) = bucket.used /\ IsFiniteSet(bucket.used)
  BY <1>2, TypesAre, ArrayIs
<1>5. ArrayOK(bucket') /\ Moved(bucket, bucket') /\ Publish(bucket')
  <2>1. CASE c = 0
    <3>1. bucket' = NoArray /\ Publish(NoArray)
      BY <2>1, <1>2 DEF Publish
    <3>2. Slots(bucket) = {}
      BY <2>1, <1>1, <1>4, FS_EmptySet
    <3> QED
      BY <3>1, <3>2, MovedAway
  <2>2. CASE c # 0
    <3>1. bucket' = Compact(bucket, Rounded(c)) /\ Publish(Compact(bucket, Rounded(c)))
      BY <2>2, <1>2 DEF Publish
    <3>2. c \in 0 .. MaxSize
      <4>1. /\ Cardinality(bucket.used) \in Nat /\ Cardinality(Holes(bucket)) \in Nat
            /\ Cardinality(bucket.used) + Cardinality(Holes(bucket)) = bucket.pos
        BY <1>2, <1>4, HolesCount
      <4>2. MaxSize \in Nat
        BY LookupAssumption
      <4> QED
        BY <4>1, <4>2, <1>1, <1>4
    <3>3. Rounded(c) \in Sizes /\ c <= Rounded(c)
      BY <3>2, SizesRound DEF Rounded
    <3> QED
      BY <3>1, <3>3, <1>1, <1>2, <1>4, CompactDoes
  <2> QED
    BY <2>1, <2>2
<1> QED
  BY <1>2, <1>3, <1>5, IdleWriter, MovingKeeps

LEMMA TickStep ==
  ASSUME LookupInv, Tick
  PROVE  KeepsInv
<1>1. /\ now < MaxNow /\ now' = now + 1 /\ Witness /\ look' = look /\ bucket' = bucket
      /\ old' = old /\ writer' = writer /\ member' = member /\ raced' = raced /\ ops' = ops
  BY DEF Tick
<1>2. now' \in 1 .. MaxNow /\ now \in Nat /\ now' \in Nat /\ now <= now'
  BY <1>1, TypesStay, TypesAre, LookupAssumption
<1>3. InSet(member, now') \subseteq InSet(member, now)
  BY <1>2, InSetLater, TypesAre
<1>4. Agree(bucket, writer, member, now')
  BY <1>3, AgreeLater DEF LookupInv
<1>5. WriterAt(bucket, writer, member, now')
  <2>1. WriterAt(bucket, writer, member, now)
    BY DEF LookupInv
  <2>2. ASSUME writer.pc = "copy", writer.slot \in bucket.used
        PROVE  Late(bucket.slot[writer.slot].timeout, now')
    <3>1. bucket # NoArray /\ Slots(bucket) = bucket.used
      BY <2>1, <2>2 DEF WriterAt, Slots
    <3>2. bucket.slot[writer.slot].timeout \in Nat
      BY <3>1, <2>2, TypesAre
    <3>3. Late(bucket.slot[writer.slot].timeout, now)
      BY <2>1, <2>2 DEF WriterAt
    <3> QED
      BY <3>2, <3>3, <1>2, LateStays
  <2> QED
    BY <2>1, <2>2, <1>3 DEF WriterAt
<1>6. InPlace
  BY <1>1, TypesAre DEF InPlace
<1> QED
  BY <1>1, <1>2, <1>4, <1>5, <1>6, TypesStay DEF KeepsInv

-----------------------------------------------------------------------------
(* The name of a packet.                                                   *)

\* What Total counts.
Letters(len, k) == UNION {{i} \X (0 .. len[i]) : i \in 1 .. k}

LEMMA LettersNone ==
  ASSUME NEW len
  PROVE  IsFiniteSet(Letters(len, 0)) /\ Total(len, 0) = 0
<1>1. Letters(len, 0) = {}
  BY DEF Letters
<1> QED
  BY <1>1, FS_EmptySet DEF Total, Letters

\* One more label, with its dot.
LEMMA LettersMore ==
  ASSUME NEW len \in Seq(Int), NEW k \in Nat, k < Len(len), IsFiniteSet(Letters(len, k)),
         len[k + 1] \in Nat
  PROVE  /\ IsFiniteSet(Letters(len, k + 1))
         /\ Total(len, k + 1) = Total(len, k) + len[k + 1] + 1
<1>1. PICK A : A = Letters(len, k)
  OBVIOUS
<1>2. PICK c : c = len[k + 1]
  OBVIOUS
<1>3. c \in Nat
  BY <1>2
<1>4. PICK B : B = {k + 1} \X (0 .. c)
  OBVIOUS
<1>5. IsFiniteSet(B) /\ Cardinality(B) = c + 1
  <2>1. IsFiniteSet(0 .. c) /\ Cardinality(0 .. c) = c + 1
    <3>1. 0 \in Int /\ c \in Int
      BY <1>3
    <3>2. IsFiniteSet(0 .. c) /\ Cardinality(0 .. c) = IF 0 > c THEN 0 ELSE c - 0 + 1
      BY <3>1, FS_Interval
    <3> QED
      BY <3>2, <1>3
  <2>2. IsFiniteSet({k + 1}) /\ Cardinality({k + 1}) = 1
    BY FS_Singleton
  <2>3. IsFiniteSet(B) /\ Cardinality(B) = Cardinality({k + 1}) * Cardinality(0 .. c)
    BY <2>1, <2>2, <1>4, FS_Product, Zenon
  <2> QED
    BY <2>1, <2>2, <2>3, <1>3
<1>6. Letters(len, k + 1) = A \cup B
  <2>1. \A i : i \in 1 .. k + 1 <=> i \in 1 .. k \/ i = k + 1
    OBVIOUS
  <2>2. \A x : x \in Letters(len, k + 1) <=> x \in A \/ x \in B
    BY <2>1, <1>1, <1>2, <1>4, Zenon DEF Letters
  <2> QED
    BY <2>2, Zenon
<1>7. A \cap B = {}
  <2> SUFFICES ASSUME NEW x \in A, x \in B PROVE FALSE
    BY Zenon
  <2>1. PICK i \in 1 .. k : x \in {i} \X (0 .. len[i])
    BY <1>1 DEF Letters
  <2>2. x[1] = i /\ x[1] = k + 1
    BY <2>1, <1>4
  <2> QED
    BY <2>1, <2>2
<1>8. /\ IsFiniteSet(A \cup B)
      /\ Cardinality(A \cup B) = Cardinality(A) + Cardinality(B) - Cardinality(A \cap B)
  BY <1>1, <1>5, FS_Union, Zenon
<1>9. Cardinality(A \cap B) = 0 /\ Cardinality(A) \in Nat
  BY <1>1, <1>7, FS_EmptySet, FS_CardinalityType
<1>10. Total(len, k + 1) = Cardinality(A \cup B) /\ Total(len, k) = Cardinality(A)
  BY <1>1, <1>6, Zenon DEF Total, Letters
<1>11. Total(len, k + 1) = Total(len, k) + (c + 1)
  <2>1. Total(len, k + 1) = Total(len, k) + (c + 1) - 0
    BY <1>5, <1>8, <1>9, <1>10, Zenon
  <2>2. Total(len, k) \in Nat
    BY <1>9, <1>10
  <2> QED
    BY <2>1, <2>2, <1>3
<1>12. Total(len, k) \in Nat /\ IsFiniteSet(Letters(len, k + 1))
  BY <1>6, <1>8, <1>9, <1>10, Zenon
<1> QED
  BY <1>2, <1>3, <1>11, <1>12

\* A statement about the first labels that holds for none of them and for one more
\* holds for all.
LEMMA TotalIs ==
  ASSUME NEW len \in Seq(Int), NEW c \in 0 .. Len(len), \A k \in 1 .. c : len[k] \in Nat
  PROVE  /\ \A k \in 0 .. c : Total(len, k) \in Nat
         /\ \A k \in 0 .. c - 1 : Total(len, k + 1) = Total(len, k) + len[k + 1] + 1
<1>1. Len(len) \in Nat /\ c \in Nat /\ c <= Len(len)
  OBVIOUS
<1>2. \A k \in 0 .. c : IsFiniteSet(Letters(len, k))
  <2> DEFINE T == {k \in 0 .. c : ~IsFiniteSet(Letters(len, k))}
  <2> SUFFICES ASSUME T # {} PROVE FALSE
    OBVIOUS
  <2>1. T \in SUBSET Nat
    OBVIOUS
  <2> DEFINE m == Min(T)
  <2>2. m \in T /\ \A y \in T : m <= y
    <3> HIDE DEF T
    <3> QED
      BY <2>1, LeastIsMember
  <2> HIDE DEF m
  <2>3. m \in 0 .. c /\ ~IsFiniteSet(Letters(len, m))
    BY <2>2
  <2>4. m # 0
    BY <2>3, LettersNone
  <2>5. PICK k : k = m - 1
    OBVIOUS
  <2>6. /\ k \in 0 .. c /\ k \in Nat /\ k < Len(len) /\ k + 1 = m /\ ~(m <= k)
        /\ k + 1 \in 1 .. c
    BY <2>3, <2>4, <2>5, <1>1
  <2>7. IsFiniteSet(Letters(len, k))
    BY <2>2, <2>6
  <2> QED
    BY <2>3, <2>6, <2>7, LettersMore
<1>3. \A k \in 0 .. c : Total(len, k) \in Nat
  BY <1>2, FS_CardinalityType DEF Total, Letters
<1>4. \A k \in 0 .. c - 1 : Total(len, k + 1) = Total(len, k) + len[k + 1] + 1
  <2> TAKE k \in 0 .. c - 1
  <2>1. k \in Nat /\ k < Len(len) /\ k \in 0 .. c /\ k + 1 \in 1 .. c
    BY <1>1
  <2> QED
    BY <2>1, <1>2, LettersMore
<1> QED
  BY <1>3, <1>4

\* The labels that are taken are the first ones.
LEMMA TakenIs ==
  ASSUME NEW len \in Seq(Int)
  PROVE  \E c \in 0 .. Len(len) : /\ Taken(len) = 1 .. c /\ Cardinality(Taken(len)) = c
                                  /\ \A i \in 1 .. c : len[i] \in Nat /\ ~TooLong(len, i)
<1>1. Len(len) \in Nat /\ DOMAIN len = 1 .. Len(len)
  OBVIOUS
<1> DEFINE T == {k \in Nat : k + 1 \notin Taken(len)}
<1>2. T \in SUBSET Nat /\ T # {}
  <2>1. Len(len) + 1 \notin Taken(len)
    BY <1>1 DEF Taken
  <2> QED
    BY <1>1, <2>1
<1> DEFINE c == Min(T)
<1>3. c \in T /\ \A y \in T : c <= y
  <2> HIDE DEF T
  <2> QED
    BY <1>2, LeastIsMember
<1> HIDE DEF c
<1>4. c \in Nat /\ c + 1 \notin Taken(len) /\ \A k \in Nat : k < c => k + 1 \in Taken(len)
  BY <1>3
<1>5. \A k \in 1 .. c : k \in Taken(len)
  <2> TAKE k \in 1 .. c
  <2>1. k - 1 \in Nat /\ k - 1 < c /\ (k - 1) + 1 = k
    BY <1>4
  <2> QED
    BY <2>1, <1>4
<1>6. \A k \in Taken(len) : k \in 1 .. c
  <2> TAKE k \in Taken(len)
  <2>1. k \in 1 .. Len(len) /\ \A i \in 1 .. k : len[i] > 0 /\ ~TooLong(len, i)
    BY <1>1 DEF Taken
  <2>2. ASSUME k > c PROVE FALSE
    <3>1. c + 1 \in 1 .. Len(len) /\ \A i \in 1 .. c + 1 : i \in 1 .. k
      BY <2>1, <2>2, <1>1, <1>4
    <3>2. c + 1 \in Taken(len)
      BY <3>1, <2>1, <1>1 DEF Taken
    <3> QED
      BY <3>2, <1>4
  <2> QED
    BY <2>1, <2>2, <1>4
<1>7. Taken(len) = 1 .. c
  BY <1>5, <1>6, Zenon
<1>8. c <= Len(len)
  <2>1. c # 0 => c \in Taken(len)
    BY <1>4, <1>5
  <2> QED
    BY <2>1, <1>1, <1>4 DEF Taken
<1>9. Cardinality(1 .. c) = c
  <2>1. 1 \in Int /\ c \in Int
    BY <1>4
  <2>2. Cardinality(1 .. c) = IF 1 > c THEN 0 ELSE c - 1 + 1
    BY <2>1, FS_Interval
  <2> QED
    BY <2>2, <1>4
<1>10. \A i \in 1 .. c : len[i] \in Nat /\ ~TooLong(len, i)
  <2> TAKE i \in 1 .. c
  <2>1. i \in Taken(len) /\ i \in 1 .. i
    BY <1>4, <1>5
  <2>2. i \in DOMAIN len /\ len[i] > 0 /\ ~TooLong(len, i)
    BY <2>1, Zenon DEF Taken
  <2> QED
    BY <2>2
<1> QED
  BY <1>1, <1>4, <1>7, <1>8, <1>9, <1>10

\* Nothing is written outside of the buffer unless there is no label or a negative
\* length.
LEMMA WrittenIs ==
  ASSUME NEW len \in Seq(Int)
  PROVE  /\ Written(len) \subseteq Int
         /\ \/ Written(len) \subseteq 0 .. MaxLen - 1
            \/ Len(len) = 0 /\ Written(len) = {-1}
            \/ \E k \in DOMAIN len : len[k] < 0
<1>1. MaxLen \in Nat \ {0} /\ Len(len) \in Nat /\ DOMAIN len = 1 .. Len(len)
  BY LookupAssumption
<1>2. PICK c \in 0 .. Len(len) : /\ Taken(len) = 1 .. c /\ Cardinality(Taken(len)) = c
                                 /\ \A i \in 1 .. c : len[i] \in Nat /\ ~TooLong(len, i)
  BY TakenIs
<1>3. PICK a : a = Total(len, c)
  OBVIOUS
<1>4. a \in Nat
  <2>1. c \in 0 .. c
    OBVIOUS
  <2> QED
    BY <2>1, <1>2, <1>3, TotalIs
<1>5. PICK W : W = 0 .. a - 1
                     \cup (IF Taken(len) = DOMAIN len THEN {Total(len, Len(len)) - 1} ELSE {})
  OBVIOUS
<1>6. ASSUME c = 0
      PROVE  W \subseteq Int /\ (W \subseteq 0 .. MaxLen - 1 \/ (Len(len) = 0 /\ W = {-1}))
  <2>1. a = 0 /\ 0 .. a - 1 = {}
    BY <1>3, <1>6, LettersNone
  <2>2. CASE Len(len) = 0
    <3>1. Total(len, Len(len)) - 1 = -1
      BY <2>1, <2>2, <1>3, <1>6
    <3> QED
      BY <3>1, <2>1, <2>2, <1>1, <1>2, <1>5, <1>6
  <2>3. CASE Len(len) # 0
    <3>1. Taken(len) # DOMAIN len
      <4>1. 1 \in 1 .. Len(len) /\ 1 \notin 1 .. c
        BY <2>3, <1>1, <1>6
      <4> QED
        BY <4>1, <1>1, <1>2, Zenon
    <3> QED
      BY <3>1, <2>1, <1>5
  <2> QED
    BY <2>2, <2>3
<1>7. ASSUME c # 0
      PROVE  W \subseteq Int /\ W \subseteq 0 .. MaxLen - 1
  <2>1. c \in 1 .. c /\ c \in 1 .. Len(len)
    BY <1>1, <1>2, <1>7
  <2>2. ~TooLong(len, c)
    BY <2>1, <1>2
  <2>3. PICK k : k = c - 1
    OBVIOUS
  <2>4. k \in 0 .. c - 1 /\ k \in 0 .. c /\ k + 1 = c
    BY <2>1, <2>3, <1>1
  <2>5. /\ Total(len, k) \in Nat /\ len[c] \in Nat
        /\ a = Total(len, k) + len[c] + 1
    BY <2>1, <2>4, <1>1, <1>2, <1>3, TotalIs
  <2>6. Total(len, k) + len[c] < MaxLen
    BY <2>2, <2>3, <2>5, <1>1 DEF TooLong
  <2>7. a \in 1 .. MaxLen
    BY <2>5, <2>6, <1>1
  <2>8. Taken(len) = DOMAIN len => Len(len) = c
    <3> HAVE Taken(len) = DOMAIN len
    <3>1. Len(len) \in 1 .. Len(len)
      BY <2>1, <1>1
    <3>2. Len(len) \in 1 .. c
      BY <3>1, <1>1, <1>2, Zenon
    <3>3. Len(len) \in Nat
      BY <1>1
    <3> QED
      BY ONLY <3>2, <3>3, <2>1
  <2>9. W \subseteq 0 .. a - 1
    BY <2>7, <2>8, <1>3, <1>5
  <2> QED
    BY <2>7, <2>9, <1>1
<1>8. Written(len) = W \cup (IF Overrun(len) THEN a .. MaxLen ELSE {})
  BY <1>2, <1>3, <1>5, Zenon DEF Written
<1>9. CASE Overrun(len)
  BY <1>1, <1>4, <1>6, <1>7, <1>8, <1>9 DEF Overrun
<1>10. CASE ~Overrun(len)
  <2>1. Written(len) = W
    BY <1>8, <1>10
  <2> QED
    BY <2>1, <1>6, <1>7
<1> QED
  BY <1>9, <1>10

-----------------------------------------------------------------------------
(* The steps of the lookup.                                                *)

LookType ==
  [pc : {"off", "test", "slot", "first", "second", "time"},
   packet : Packets \cup {NoPacket}, name : NameType, tested : Nat,
   slot : 0 .. MaxSize, matched : BOOLEAN]

\* The part of NameInBuffer about one name.
NameFits(w) ==
  \/ w.wrote \subseteq 0 .. MaxLen - 1
  \/ w.label = <<>> /\ w.wrote = {-1}
  \/ SignedChar /\ \E i \in DOMAIN w.label : w.label[i] > 127

LEMMA NoNameIs == NoName \in NameType /\ NameFits(NoName)
<1>1. <<>> \in Seq(1 .. 255) /\ {} \in SUBSET Int
  OBVIOUS
<1>2. NoName.wrote = {}
  BY DEF NoName
<1>3. NameFits(NoName)
  BY <1>2 DEF NameFits
<1> QED
  BY <1>1, <1>3 DEF NoName, NameType

\* The parts of a lookup.
LEMMA LookRecord ==
  ASSUME NEW l \in LookType
  PROVE  /\ l = [pc |-> l.pc, packet |-> l.packet, name |-> l.name, tested |-> l.tested,
                 slot |-> l.slot, matched |-> l.matched]
         /\ l.pc \in {"off", "test", "slot", "first", "second", "time"}
         /\ l.packet \in Packets \cup {NoPacket} /\ l.name \in NameType /\ l.tested \in Nat
         /\ l.slot \in 0 .. MaxSize /\ l.matched \in BOOLEAN
BY DEF LookType

\* No test of a suffix is in progress.
Between(l) ==
  IF l.pc = "off" THEN l.tested = 0
  ELSE /\ l.pc = "test" /\ l.slot = 0 /\ ~l.matched
       /\ l.packet \in Packets /\ l.tested \in 1 .. Len(l.packet.suffix)

\* A step of the lookup has to do this for the invariant.
LEMMA LookupKeepsInv ==
  ASSUME LookupInv, UNCHANGED <<bucket, writer, now, member>>, look' \in LookType,
         ops' \in 0 .. MaxOps, ArrayOK(old'), due' \in {Never} \cup Nat,
         sometime' \in BOOLEAN, raced' \in BOOLEAN,
         LookAt(bucket, old', look', due', sometime', raced'),
         Justified(bucket, old', writer, look', member, sometime', raced', now),
         Ahead(bucket, old', look', member, due', now)
  PROVE  LookupInv'
<1>1. TypeOK'
  <2>1. ArrayOK(bucket)
    BY TypesAre
  <2>2. \A n \in {bucket', old'} \ {NoArray} :
          n.size \in Sizes /\ n \in ArrayType(n.size) /\ n.used \subseteq 0 .. n.pos - 1
    BY <2>1 DEF ArrayOK
  <2>3. Reading' => {bucket', old'} # {NoArray}
    BY DEF LookAt, Reading, ReadingAt, HeldOf
  <2>4. TypeOK
    BY DEF LookupInv
  <2>5. /\ writer' \in [pc : {"idle", "copy", "time", "bit", "trim", "expire"},
                       domain : Domains \cup {NoDomain}, slot : 0 .. MaxSize,
                       todo : SUBSET Halves, value : Nat]
        /\ now' \in 1 .. MaxNow /\ member' \in [Domains -> {Never} \cup Nat]
    BY <2>4 DEF TypeOK
  <2> QED
    BY <2>2, <2>3, <2>5 DEF TypeOK, LookType
<1> QED
  BY <1>1 DEF LookupInv

\* The end of the test of a suffix.
LEMMA ReleaseKeeps ==
  ASSUME LookupInv, NEW l \in LookType, Between(l), Release(l)
  PROVE  LookupInv'
<1>1. /\ look' = l /\ UNCHANGED <<bucket, writer, now, member>>
      /\ old' = NoArray /\ ops' = 0 /\ due' = Never /\ sometime' = FALSE /\ raced' = FALSE
  BY DEF Release, LookStep
<1>2. ops' \in 0 .. MaxOps
  BY <1>1, LookupAssumption
<1>3. ~ReadingAt(l) /\ ~Comparing(l)
  BY DEF Between, ReadingAt, Comparing
<1>4. LookAt(bucket, old', look', due', sometime', raced')
  BY <1>1, <1>3 DEF LookAt, Between
<1>5. Justified(bucket, old', writer, look', member, sometime', raced', now)
  BY <1>1, <1>3 DEF Justified, Slots
<1>6. Ahead(bucket, old', look', member, due', now)
  BY <1>1 DEF Ahead
<1> QED
  BY <1>1, <1>2, <1>4, <1>5, <1>6, LookupKeepsInv DEF ArrayOK

\* The verdict ends the lookup.
LEMMA ReturnIs ==
  ASSUME NEW b \in BOOLEAN
  PROVE  /\ Return(b) \in LookType /\ Between(Return(b)) /\ Return(b).tested = 0
         /\ Return(b).name = NoName /\ (Return(b).matched <=> b)
<1>1. MaxSize \in Nat
  BY LookupAssumption
<1>2. NoName \in NameType
  BY NoNameIs
<1> QED
  BY <1>1, <1>2 DEF Return, NoLook, LookType, Between

\* On to the next suffix, or to the end.
LEMMA NextSuffixIs ==
  ASSUME NEW l \in LookType, l.packet \in Packets, l.tested \in 0 .. Len(l.packet.suffix),
         ~l.matched
  PROVE  /\ NextSuffix(l) \in LookType /\ Between(NextSuffix(l)) /\ ~NextSuffix(l).matched
         /\ NextSuffix(l).name \in {NoName, l.name}
<1>1. l.packet.suffix \in Seq(Domains) /\ Len(l.packet.suffix) \in Nat /\ MaxSize \in Nat
  BY LookupAssumption
<1>2. CASE l.tested = Len(l.packet.suffix)
  BY <1>2, ReturnIs DEF NextSuffix
<1>3. CASE l.tested # Len(l.packet.suffix)
  <2>1. PICK k : k = [l EXCEPT !.pc = "test", !.tested = l.tested + 1, !.slot = 0]
    OBVIOUS
  <2>2. /\ k \in LookType /\ k.pc = "test" /\ k.packet = l.packet /\ k.tested = l.tested + 1
        /\ k.slot = 0 /\ ~k.matched /\ k.name = l.name
    <3>1. k = [pc |-> "test", packet |-> l.packet, name |-> l.name, tested |-> l.tested + 1,
               slot |-> 0, matched |-> l.matched]
      <4>1. l = [pc |-> l.pc, packet |-> l.packet, name |-> l.name, tested |-> l.tested,
                 slot |-> l.slot, matched |-> l.matched]
        BY LookRecord, Zenon
      <4> QED
        BY <4>1, <2>1
    <3>2. /\ l.tested \in Nat /\ l.matched \in BOOLEAN
          /\ l.packet \in Packets \cup {NoPacket} /\ l.name \in NameType
      BY LookRecord, Zenon
    <3>3. l.tested + 1 \in Nat /\ 0 \in 0 .. MaxSize
      BY <3>2, <1>1
    <3>4. k \in LookType
      BY <3>1, <3>2, <3>3 DEF LookType
    <3>5. /\ k.pc = "test" /\ k.packet = l.packet /\ k.tested = l.tested + 1
          /\ k.slot = 0 /\ k.name = l.name /\ k.matched = l.matched
      BY <3>1
    <3> QED
      BY <3>4, <3>5
  <2>3. NextSuffix(l) = k
    BY <2>1, <1>3 DEF NextSuffix
  <2>4. k.tested \in 1 .. Len(k.packet.suffix)
    BY <2>2, <1>1, <1>3
  <2> QED
    BY <2>2, <2>3, <2>4 DEF Between
<1> QED
  BY <1>2, <1>3

\* What the lookup has before it, at a place where it is.
LEMMA LookIs ==
  ASSUME LookupInv
  PROVE  /\ look \in LookType
         /\ LookAt(bucket, old, look, due, sometime, raced)
         /\ look.pc = "off" => look.tested = 0
         /\ look.pc # "off" => /\ look.packet \in Packets
                               /\ look.tested \in 1 .. Len(look.packet.suffix) /\ ~look.matched
                               /\ TestedBy(look) \in Domains
         /\ ReadingAt(look) =>
              /\ Held # NoArray /\ ArrayOK(Held) /\ Held.size \in 0 .. MaxSize
              /\ Held.pos \in 0 .. Held.size /\ Held.used \in SUBSET (0 .. Held.pos - 1)
              /\ Slots(Held) = Held.used
         /\ ~ReadingAt(look) => old = NoArray
         /\ Comparing(look) => ReadingAt(look) /\ look.slot < Held.size
<1>1. look \in LookType /\ LookAt(bucket, old, look, due, sometime, raced)
  BY DEF LookupInv, TypeOK, LookType
<1>2. look.pc # "off" => TestedBy(look) \in Domains
  BY <1>1, TestedIs DEF LookAt
<1>3. ArrayOK(Held) /\ Held = HeldOf(bucket, old)
  BY TypesAre DEF Held, HeldOf
<1>4. ASSUME ReadingAt(look)
      PROVE  /\ Held # NoArray /\ Held.size \in 0 .. MaxSize
             /\ Held.pos \in 0 .. Held.size /\ Held.used \in SUBSET (0 .. Held.pos - 1)
             /\ Slots(Held) = Held.used
  <2>1. Held # NoArray
    BY <1>1, <1>3, <1>4 DEF LookAt
  <2> QED
    BY <2>1, <1>3, ArrayIs
<1>5. Comparing(look) => ReadingAt(look) /\ look.slot < Held.size
  BY <1>1, <1>3 DEF LookAt, Comparing, ReadingAt
<1> QED
  BY <1>1, <1>2, <1>3, <1>4, <1>5 DEF LookAt

\* The lengths of the labels of a packet.
LEMMA LengthsAre ==
  ASSUME NEW p \in Packets
  PROVE  /\ Lengths(p) \in Seq(Int) /\ DOMAIN Lengths(p) = DOMAIN p.label
         /\ Len(Lengths(p)) = Len(p.label)
         /\ \A i \in DOMAIN p.label : Lengths(p)[i] < 0 => SignedChar /\ p.label[i] > 127
<1>1. p.label \in Seq(1 .. 255) /\ SignedChar \in BOOLEAN
  BY LookupAssumption
<1>2. PICK n : n = Len(p.label)
  OBVIOUS
<1>3. n \in Nat /\ DOMAIN p.label = 1 .. n /\ \A i \in 1 .. n : p.label[i] \in 1 .. 255
  <2>1. PICK q : q = p.label
    OBVIOUS
  <2>2. q \in Seq(1 .. 255)
    BY <2>1, <1>1
  <2>3. PICK B : B = 1 .. 255
    OBVIOUS
  <2>4. q \in Seq(B)
    BY <2>2, <2>3
  <2>5. Len(q) \in Nat /\ DOMAIN q = 1 .. Len(q) /\ \A i \in 1 .. Len(q) : q[i] \in B
    BY ONLY <2>4
  <2> QED
    BY <2>1, <2>3, <2>5, <1>2, Zenon
<1>4. \A b \in 1 .. 255 : LabelLength(b) \in Int /\ (LabelLength(b) < 0 => SignedChar /\ b > 127)
  BY <1>1 DEF LabelLength
<1>5. Lengths(p) = [i \in 1 .. n |-> LabelLength(p.label[i])]
  BY <1>3 DEF Lengths
<1>6. Lengths(p) \in [1 .. n -> Int]
  <2>1. \A i \in 1 .. n : LabelLength(p.label[i]) \in Int
    BY <1>3, <1>4
  <2> QED
    BY <2>1, <1>5
<1>7. Lengths(p) \in Seq(Int) /\ Len(Lengths(p)) = n
  BY <1>3, <1>6
<1> QED
  BY <1>2, <1>3, <1>4, <1>5, <1>7

LEMMA ArriveStep ==
  ASSUME LookupInv, NEW p \in Packets, Arrive(p)
  PROVE  LookupInv' /\ NameInBuffer'
<1>1. p.label \in Seq(1 .. 255) /\ p.suffix \in Seq(Domains) /\ MaxSize \in Nat
  BY LookupAssumption
<1>2. PICK len : len = Lengths(p)
  OBVIOUS
<1>3. PICK w : w = [label |-> p.label, wrote |-> Written(len)]
  OBVIOUS
<1>4. /\ w \in NameType
      /\ NameFits(w)
  <2>1. /\ Written(len) \subseteq Int
        /\ \/ Written(len) \subseteq 0 .. MaxLen - 1
           \/ Len(len) = 0 /\ Written(len) = {-1}
           \/ \E k \in DOMAIN len : len[k] < 0
    BY <1>2, LengthsAre, WrittenIs
  <2>2. w.label = p.label /\ w.wrote = Written(len)
    BY <1>3
  <2>3. w \in NameType
    BY <2>1, <1>1, <1>3 DEF NameType
  <2>4. Len(len) = 0 => p.label = <<>>
    BY <1>1, <1>2, LengthsAre
  <2>5. (\E k \in DOMAIN len : len[k] < 0)
        => SignedChar /\ \E i \in DOMAIN p.label : p.label[i] > 127
    BY <1>2, LengthsAre
  <2> QED
    BY <2>1, <2>2, <2>3, <2>4, <2>5, Zenon DEF NameFits
<1>5. PICK l : l = [NoLook EXCEPT !.packet = p, !.name = w]
  OBVIOUS
<1>6. /\ l \in LookType /\ l.packet = p /\ l.name = w /\ l.tested = 0 /\ ~l.matched
  <2>1. l = [pc |-> "off", packet |-> p, name |-> w, tested |-> 0, slot |-> 0, matched |-> FALSE]
    BY <1>5 DEF NoLook
  <2>2. "off" \in {"off", "test", "slot", "first", "second", "time"}
        /\ 0 \in Nat /\ 0 \in 0 .. MaxSize /\ FALSE \in BOOLEAN /\ p \in Packets \cup {NoPacket}
    BY <1>1
  <2>3. /\ l \in LookType /\ l.packet = p /\ l.name = w /\ l.tested = 0
        /\ (l.matched <=> FALSE)
    BY <2>1, <2>2, <1>4 DEF LookType
  <2> QED
    BY <2>3
<1>7. PICK r : r = IF Taken(len) = DOMAIN len THEN NextSuffix(l) ELSE Return(FALSE)
  OBVIOUS
<1>8. r \in LookType /\ Between(r)
  <2>1. 0 \in 0 .. Len(p.suffix)
    BY <1>1
  <2>2. NextSuffix(l) \in LookType /\ Between(NextSuffix(l))
    BY <2>1, <1>6, NextSuffixIs
  <2>3. Return(FALSE) \in LookType /\ Between(Return(FALSE))
    BY ReturnIs
  <2> QED
    BY <2>2, <2>3, <1>7, Zenon
<1>9. PICK k : k = [r EXCEPT !.name = w]
  OBVIOUS
<1>10. k \in LookType /\ Between(k) /\ k.name = w
  BY <1>4, <1>8, <1>9 DEF LookType, Between
<1>11. Release(k)
  BY <1>2, <1>3, <1>5, <1>7, <1>9, Zenon DEF Arrive
<1>12. look' = k
  BY <1>11 DEF Release, LookStep
<1>13. NameInBuffer'
  BY <1>4, <1>10, <1>12 DEF NameInBuffer, NameFits
<1> QED
  BY <1>10, <1>11, <1>13, ReleaseKeeps

\* What a step of the lookup may do.
MissFits == Misses => IF Reading THEN due = Never \/ Lapsed(due) ELSE Tested \notin Members

MatchFits == Matches => sometime \/ raced

StepFits == LookupInv' /\ look'.name \in {NoName, look.name} /\ MissFits /\ MatchFits

\* A match or a miss is the step that ends the test.
LEMMA ContinueFits ==
  ASSUME LookupInv, LookupInv', look.pc # "off",
         look'.tested = look.tested, look'.name = look.name, look'.matched = look.matched
  PROVE  StepFits
<1>1. ~look.matched
  BY LookIs
<1> QED
  BY <1>1 DEF StepFits, MissFits, MatchFits, Misses, Matches

\* The test of a suffix ends without a match.
LEMMA NextSuffixFits ==
  ASSUME LookupInv, look.pc # "off", Release(NextSuffix(look)),
         IF Reading THEN due = Never \/ Lapsed(due) ELSE Tested \notin Members
  PROVE  StepFits
<1>1. /\ look \in LookType /\ look.packet \in Packets /\ ~look.matched
      /\ look.tested \in 0 .. Len(look.packet.suffix)
  <2>1. /\ look \in LookType /\ look.packet \in Packets /\ ~look.matched
        /\ look.tested \in 1 .. Len(look.packet.suffix)
    BY LookIs
  <2>2. Len(look.packet.suffix) \in Nat
    BY <2>1, LookupAssumption
  <2> QED
    BY <2>1, <2>2
<1>2. PICK l : l = NextSuffix(look)
  OBVIOUS
<1>3. l \in LookType /\ Between(l) /\ ~l.matched /\ l.name \in {NoName, look.name}
  BY <1>1, <1>2, NextSuffixIs
<1>4. Release(l) /\ look' = l
  BY <1>2 DEF Release, LookStep
<1>5. LookupInv'
  BY <1>3, <1>4, ReleaseKeeps
<1> QED
  BY <1>3, <1>4, <1>5 DEF StepFits, MissFits, MatchFits, Matches

LEMMA ReadBucketStep ==
  ASSUME LookupInv, ReadBucket
  PROVE  StepFits
<1>1. look.pc = "test" /\ ~ReadingAt(look) /\ ~Comparing(look)
  BY DEF ReadBucket, ReadingAt, Comparing
<1>2. /\ look \in LookType /\ old = NoArray /\ TestedBy(look) \in Domains
      /\ LookAt(bucket, old, look, due, sometime, raced)
      /\ Agree(bucket, writer, member, now) /\ ArrayOK(bucket)
  BY <1>1, LookIs, TypesAre DEF LookupInv
<1>3. CASE bucket = NoArray /\ Release(NextSuffix(look))
  <2>1. Slots(bucket) = {}
    BY <1>3 DEF Slots
  <2>2. TestedBy(look) \notin InSet(member, now)
    BY <1>2, <2>1 DEF Agree
  <2>3. Tested \notin Members /\ ~Reading
    BY <1>1, <2>2, AtThisTime
  <2> QED
    BY <1>1, <1>3, <2>3, NextSuffixFits
<1>4. CASE /\ bucket # NoArray /\ LookStep([look EXCEPT !.pc = "slot"])
           /\ due' = IF Tested \in Members THEN member[Tested] ELSE Never
           /\ sometime' = (Tested \in Members \cup {writer.domain})
           /\ UNCHANGED <<old, ops, raced>>
  <2>1. PICK l : l = [look EXCEPT !.pc = "slot"]
    OBVIOUS
  <2>2. /\ l \in LookType /\ l.pc = "slot" /\ l.packet = look.packet /\ l.tested = look.tested
        /\ l.slot = look.slot /\ l.matched = look.matched /\ l.name = look.name
    BY <2>1, <1>2 DEF LookType
  <2>3. look' = l /\ UNCHANGED <<bucket, writer, now, member>>
    BY <2>1, <1>4 DEF LookStep
  <2>4. PICK T : T = TestedBy(look)
    OBVIOUS
  <2>5. T = TestedBy(l) /\ ReadingAt(l) /\ ~Comparing(l) /\ l.slot = 0 /\ T \in Domains
    BY <1>1, <1>2, <2>2, <2>4 DEF TestedBy, ReadingAt, Comparing, LookAt
  <2>6. /\ due' = IF T \in InSet(member, now) THEN member[T] ELSE Never
        /\ (sometime' <=> T \in InSet(member, now) \cup {writer.domain})
        /\ sometime' \in BOOLEAN /\ old' = NoArray /\ ops' = ops
    <3>1. Tested = T /\ Members = InSet(member, now)
      BY <2>4, AtThisTime, Zenon
    <3>2. /\ due' = IF T \in InSet(member, now) THEN member[T] ELSE Never
          /\ sometime' = (T \in InSet(member, now) \cup {writer.domain})
      BY <1>4, <3>1, Zenon
    <3>3. (sometime' <=> T \in InSet(member, now) \cup {writer.domain}) /\ sometime' \in BOOLEAN
      <4>1. PICK Z : Z = InSet(member, now) \cup {writer.domain}
        OBVIOUS
      <4>2. sometime' = (T \in Z)
        BY <3>2, <4>1, Zenon
      <4>3. CASE T \in Z
        <5>1. sometime' = TRUE
          BY <4>2, <4>3
        <5> QED
          BY <5>1, <4>1, <4>3
      <4>4. CASE T \notin Z
        <5>1. sometime' = FALSE
          <6>1. (T \in Z) = FALSE
            BY <4>4
          <6> QED
            BY <4>2, <6>1, Zenon
        <5> QED
          BY <5>1, <4>1, <4>4
      <4> QED
        BY <4>3, <4>4
    <3> QED
      BY <3>2, <3>3, <1>2, <1>4
  <2>7. /\ due' \in {Never} \cup Nat /\ raced' \in BOOLEAN /\ ops' \in 0 .. MaxOps
        /\ ArrayOK(old')
    <3>1. member \in MemberType /\ raced \in BOOLEAN /\ ops \in 0 .. MaxOps
      BY TypesAre, TypesStay
    <3> QED
      BY <3>1, <2>5, <2>6, <1>4 DEF MemberType, ArrayOK
  <2>8. HeldOf(bucket, old') = bucket
    BY <2>6 DEF HeldOf
  <2>9. LookAt(bucket, old', look', due', sometime', raced')
    <3>1. bucket.size \in 0 .. MaxSize /\ MaxSize \in Nat
      BY <1>2, <1>4, ArrayIs, LookupAssumption
    <3> QED
      BY <1>1, <1>2, <1>4, <2>2, <2>3, <2>5, <2>8, <3>1 DEF LookAt
  <2>10. Justified(bucket, old', writer, look', member, sometime', raced', now)
    BY <2>3, <2>5, <2>6 DEF Justified, Slots
  <2>11. Ahead(bucket, old', look', member, due', now)
    <3>1. ASSUME T \in InSet(member, now), ~Late(member[T], now)
          PROVE  \E i \in Slots(bucket) : /\ i >= l.slot /\ bucket.slot[i].half = T
                                          /\ Covers(bucket.slot[i].timeout, member[T])
      <4>1. PICK i \in Slots(bucket) : /\ bucket.slot[i].half = T
                                       /\ Covers(bucket.slot[i].timeout, member[T])
        BY <3>1, <1>2 DEF Agree
      <4>2. i >= 0
        <5>1. Slots(bucket) \in SUBSET Nat
          BY <1>2, <1>4, ArrayIs
        <5> QED
          BY <5>1
      <4> QED
        BY <4>1, <4>2, <2>5
    <3>2. T \in InSet(member, now) => Covers(member[T], member[T])
      <4>1. member \in MemberType
        BY TypesAre
      <4> QED
        BY <4>1 DEF Covers, InSet, MemberType
    <3> QED
      BY <3>1, <3>2, <2>3, <2>5, <2>6, <2>8 DEF Ahead
  <2>12. LookupInv'
    BY <2>2, <2>3, <2>6, <2>7, <2>9, <2>10, <2>11, LookupKeepsInv
  <2> QED
    BY <1>1, <2>2, <2>3, <2>12, ContinueFits
<1> QED
  BY <1>3, <1>4 DEF ReadBucket

\* A step within the test of a suffix leaves all but the place of the lookup.
LEMMA ContinueKeeps ==
  ASSUME LookupInv, NEW l \in LookType, Continue(l), ReadingAt(look), ReadingAt(l),
         l.packet = look.packet, l.tested = look.tested, l.matched = look.matched,
         l.name = look.name, l.slot <= Held.size, Comparing(l) => l.slot < Held.size,
         Comparing(l) /\ ~(raced /\ l.slot = look.slot) =>
           LET s == Held.slot[l.slot] IN
           /\ l.pc \in {"second", "time"} => s.half[1] = Tested[1]
           /\ l.pc = "time" => s.half[2] = Tested[2]
           /\ s.half = Tested /\ ~Late(s.timeout, now) => sometime,
         \A i \in Slots(Held) :
           /\ i >= look.slot /\ Held.slot[i].half = Tested
           /\ Covers(Held.slot[i].timeout, due) /\ due # Never /\ ~Late(due, now)
           => i >= l.slot
  PROVE  StepFits
<1>1. /\ look' = l /\ UNCHANGED <<bucket, writer, now, member, old, due, sometime, ops>>
      /\ raced' = (raced /\ l.slot = look.slot)
  BY DEF Continue, LookStep
<1>2. /\ ops \in 0 .. MaxOps /\ ArrayOK(old) /\ due \in {Never} \cup Nat
      /\ sometime \in BOOLEAN /\ raced' \in BOOLEAN
  BY <1>1, TypesAre, TypesStay
<1>3. PICK T : T = TestedBy(look)
  OBVIOUS
<1>4. T = TestedBy(l) /\ Tested = T /\ Held = HeldOf(bucket, old) /\ look.pc # "off" /\ l.pc # "off"
  BY <1>3, AtThisTime DEF TestedBy, ReadingAt
<1>5. /\ LookAt(bucket, old, look, due, sometime, raced)
      /\ Justified(bucket, old, writer, look, member, sometime, raced, now)
      /\ Ahead(bucket, old, look, member, due, now)
  BY DEF LookupInv
<1>6. LookAt(bucket, old, l, due, sometime, raced')
  <2>1. Held # NoArray /\ l.pc # "test"
    BY <1>4, LookIs DEF ReadingAt
  <2> QED
    BY <2>1, <1>4, <1>5 DEF LookAt
<1>7. Justified(bucket, old, writer, l, member, sometime, raced', now)
  BY <1>1, <1>3, <1>4, <1>5 DEF Justified
<1>8. Ahead(bucket, old, l, member, due, now)
  BY <1>3, <1>4, <1>5 DEF Ahead
<1>9. LookupInv'
  BY <1>1, <1>2, <1>6, <1>7, <1>8, LookupKeepsInv
<1> QED
  BY <1>1, <1>4, <1>9, ContinueFits

\* On to the next slot, if this one is not what must be found.
LEMMA SkipFits ==
  ASSUME LookupInv, ReadingAt(look), Continue(Skip), look.slot < Held.size,
         look.slot \in Slots(Held) /\ Held.slot[look.slot].half = Tested =>
           Late(Held.slot[look.slot].timeout, now)
  PROVE  StepFits
<1>1. /\ look \in LookType /\ Held.size \in 0 .. MaxSize /\ MaxSize \in Nat
      /\ Slots(Held) \in SUBSET Nat /\ ArrayOK(Held) /\ Held # NoArray
  <2>1. /\ look \in LookType /\ Held.size \in 0 .. MaxSize /\ ArrayOK(Held) /\ Held # NoArray
    BY LookIs
  <2> QED
    BY <2>1, LookupAssumption, ArrayIs
<1>2. PICK j : j = look.slot
  OBVIOUS
<1>3. j \in 0 .. MaxSize /\ j \in Nat
  BY <1>1, <1>2 DEF LookType
<1>4. PICK l : l = [look EXCEPT !.pc = "slot", !.slot = j + 1]
  OBVIOUS
<1>5. l = Skip
  BY <1>2, <1>4 DEF Skip
<1>6. /\ l \in LookType /\ l.pc = "slot" /\ l.packet = look.packet /\ l.tested = look.tested
      /\ l.slot = j + 1 /\ l.matched = look.matched /\ l.name = look.name
  <2>1. look = [pc |-> look.pc, packet |-> look.packet, name |-> look.name,
                tested |-> look.tested, slot |-> look.slot, matched |-> look.matched]
    BY <1>1, LookRecord, Zenon
  <2>2. l = [pc |-> "slot", packet |-> look.packet, name |-> look.name,
             tested |-> look.tested, slot |-> j + 1, matched |-> look.matched]
    BY <2>1, <1>4
  <2>3. /\ look.tested \in Nat /\ look.matched \in BOOLEAN
        /\ look.packet \in Packets \cup {NoPacket} /\ look.name \in NameType
    BY <1>1, LookRecord, Zenon
  <2>4. j + 1 \in 0 .. MaxSize
    BY <1>1, <1>2, <1>3
  <2>5. l \in LookType
    BY <2>2, <2>3, <2>4 DEF LookType
  <2> QED
    BY <2>2, <2>5
<1>7. ReadingAt(l) /\ ~Comparing(l) /\ l.slot <= Held.size
  BY <1>1, <1>2, <1>3, <1>6 DEF ReadingAt, Comparing
<1>8. \A i \in Slots(Held) :
        /\ i >= look.slot /\ Held.slot[i].half = Tested
        /\ Covers(Held.slot[i].timeout, due) /\ due # Never /\ ~Late(due, now)
        => i >= l.slot
  <2> SUFFICES ASSUME NEW i \in Slots(Held), i >= look.slot, Held.slot[i].half = Tested,
                      Covers(Held.slot[i].timeout, due), due # Never, ~Late(due, now)
               PROVE  i >= l.slot
    OBVIOUS
  <2>1. i \in Nat
    BY <1>1
  <2>2. Held.slot[i].timeout \in Nat /\ due \in Nat /\ now \in Nat
    <3>1. Held.slot[i] \in SlotType
      BY <1>1, ArrayIs
    <3> QED
      BY <3>1, SlotIs, TypesAre
  <2>3. ~Late(Held.slot[i].timeout, now)
    BY <2>2, CoversLate
  <2>4. i # j
    BY <2>3, <1>2
  <2> QED
    BY <2>1, <2>4, <1>2, <1>3, <1>6
<1> QED
  BY <1>5, <1>6, <1>7, <1>8, ContinueKeeps

\* A slot in use that may be read has a domain which was in the set, or is being
\* added, unless its time is over.
LEMMA UsedJustifies ==
  ASSUME LookupInv, ReadingAt(look), NEW j \in Slots(Held),
         Held.slot[j].half = Tested, ~Late(Held.slot[j].timeout, now)
  PROVE  sometime
<1>1. PICK T : T = TestedBy(look)
  OBVIOUS
<1>2. Tested = T /\ Held = HeldOf(bucket, old)
  BY <1>1, AtThisTime
<1>3. /\ Justified(bucket, old, writer, look, member, sometime, raced, now)
      /\ Agree(bucket, writer, member, now) /\ WriterAt(bucket, writer, member, now)
  BY DEF LookupInv
<1>4. CASE old # NoArray
  BY <1>1, <1>2, <1>3, <1>4 DEF Justified, HeldOf
<1>5. CASE old = NoArray
  <2>1. Held = bucket
    BY <1>2, <1>5 DEF HeldOf
  <2>2. bucket # NoArray /\ Slots(bucket) = bucket.used
    BY <2>1 DEF Slots
  <2>3. T \in InSet(member, now) \cup {writer.domain}
    <3>1. CASE j \in SettledIn(bucket, writer)
      <4>1. T \in Domains /\ member[T] = bucket.slot[j].timeout
        <5>1. /\ bucket.slot[j].half \in Domains
              /\ member[bucket.slot[j].half] = bucket.slot[j].timeout
          BY <3>1, <1>3, Zenon DEF Agree
        <5>2. bucket.slot[j].half = T
          BY <2>1, <1>2, Zenon
        <5> QED
          BY <5>1, <5>2
      <4>2. member[T] # Never
        <5>1. bucket.slot[j].timeout \in Nat
          BY <2>1, TypesAre
        <5> QED
          BY <5>1, <4>1 DEF Never
      <4> QED
        BY <4>1, <4>2, <2>1 DEF InSet
    <3>2. CASE j \notin SettledIn(bucket, writer)
      <4>1. Busy(writer) /\ j = writer.slot
        BY <3>2, <2>1 DEF SettledIn
      <4>2. writer.pc # "copy"
        <5>1. /\ writer.slot \in bucket.used
              /\ ~Late(bucket.slot[writer.slot].timeout, now)
          BY <4>1, <2>1, <2>2, Zenon
        <5> QED
          BY <5>1, <1>3, Zenon DEF WriterAt
      <4>3. bucket.slot[j].half = writer.domain
        <5>1. writer.pc \in {"time", "bit"}
          BY <4>1, <4>2 DEF Busy
        <5> QED
          BY <5>1, <4>1, <1>3, Zenon DEF WriterAt
      <4> QED
        BY <4>3, <2>1, <1>2
    <3> QED
      BY <3>1, <3>2
  <2> QED
    BY <2>3, <1>1, <1>3 DEF Justified
<1> QED
  BY <1>4, <1>5

\* The place of the lookup in the test of a slot changes.
LEMMA AtPlace ==
  ASSUME NEW l \in LookType, NEW pc \in {"first", "second", "time"}
  PROVE  LET k == [l EXCEPT !.pc = pc] IN
         /\ k \in LookType /\ k.pc = pc /\ k.packet = l.packet /\ k.tested = l.tested
         /\ k.slot = l.slot /\ k.matched = l.matched /\ k.name = l.name
         /\ ReadingAt(k) /\ Comparing(k)
BY DEF LookType, ReadingAt, Comparing

LEMMA TestUsedStep ==
  ASSUME LookupInv, TestUsed
  PROVE  StepFits
<1>1. look.pc = "slot" /\ ReadingAt(look) /\ Reading
  BY AtThisTime DEF TestUsed, ReadingAt
<1>2. /\ look \in LookType /\ Held.size \in 0 .. MaxSize /\ MaxSize \in Nat
      /\ Held.pos \in 0 .. Held.size /\ Held.used \in SUBSET (0 .. Held.pos - 1)
      /\ Slots(Held) = Held.used /\ look.slot \in Nat
  BY <1>1, LookIs, LookupAssumption, TypesAre
<1>3. CASE look.slot >= Held.pos /\ Release(NextSuffix(look))
  <2>1. Ahead(bucket, old, look, member, due, now) /\ HeldOf(bucket, old) = Held
    BY AtThisTime DEF LookupInv
  <2>2. ~(due # Never /\ ~Late(due, now))
    <3> SUFFICES ASSUME due # Never, ~Late(due, now) PROVE FALSE
      OBVIOUS
    <3>1. PICK i \in Slots(Held) : i >= look.slot
      BY <2>1 DEF Ahead
    <3> QED
      BY <3>1, <1>2, <1>3
  <2>3. due = Never \/ Lapsed(due)
    BY <2>2, AtThisTime
  <2> QED
    BY <2>3, <1>1, <1>3, NextSuffixFits
<1>4. CASE look.slot < Held.pos /\ look.slot \notin Held.used /\ Continue(Skip)
  <2>1. look.slot < Held.size /\ look.slot \notin Slots(Held)
    BY <1>2, <1>4
  <2> QED
    BY <2>1, <1>1, <1>4, SkipFits
<1>5. CASE /\ look.slot < Held.pos /\ look.slot \in Held.used
           /\ Continue([look EXCEPT !.pc = "first"])
  <2>1. PICK l : l = [look EXCEPT !.pc = "first"]
    OBVIOUS
  <2>2. /\ l \in LookType /\ l.pc = "first" /\ l.packet = look.packet /\ l.tested = look.tested
        /\ l.slot = look.slot /\ l.matched = look.matched /\ l.name = look.name
        /\ ReadingAt(l) /\ Comparing(l)
    BY <2>1, <1>2, AtPlace
  <2>3. l.slot < Held.size /\ l.slot <= Held.size /\ l.slot \in Slots(Held)
    BY <2>2, <1>2, <1>5
  <2>4. LET s == Held.slot[l.slot] IN
        /\ l.pc \in {"second", "time"} => s.half[1] = Tested[1]
        /\ l.pc = "time" => s.half[2] = Tested[2]
        /\ s.half = Tested /\ ~Late(s.timeout, now) => sometime
    BY <2>2, <2>3, <1>1, UsedJustifies
  <2>5. \A i \in Slots(Held) :
          /\ i >= look.slot /\ Held.slot[i].half = Tested
          /\ Covers(Held.slot[i].timeout, due) /\ due # Never /\ ~Late(due, now)
          => i >= l.slot
    BY <2>2
  <2>6. Continue(l)
    BY <2>1, <1>5
  <2> QED
    BY <2>2, <2>3, <2>4, <2>5, <2>6, <1>1, ContinueKeeps
<1> QED
  BY <1>3, <1>4, <1>5 DEF TestUsed

\* What the lookup knows of the slot it compares, unless it was written meanwhile.
LEMMA Compared ==
  ASSUME LookupInv, Comparing(look)
  PROVE  /\ ReadingAt(look) /\ look \in LookType /\ Slot = Held.slot[look.slot]
         /\ look.slot < Held.size /\ Held.size \in 0 .. MaxSize /\ MaxSize \in Nat
         /\ look.slot \in Nat /\ Slot \in SlotType /\ Tested \in Domains /\ look.pc # "off"
         /\ ~raced => /\ look.pc \in {"second", "time"} => Slot.half[1] = Tested[1]
                      /\ look.pc = "time" => Slot.half[2] = Tested[2]
                      /\ Slot.half = Tested /\ ~Late(Slot.timeout, now) => sometime
<1>1. /\ ReadingAt(look) /\ look \in LookType /\ Slot = Held.slot[look.slot]
      /\ look.slot < Held.size /\ Held.size \in 0 .. MaxSize /\ MaxSize \in Nat
      /\ look.slot \in Nat /\ Tested \in Domains /\ look.pc # "off"
      /\ Held # NoArray /\ ArrayOK(Held)
  <2>1. ReadingAt(look) /\ look.pc # "off"
    BY DEF ReadingAt, Comparing
  <2> QED
    BY <2>1, LookIs, LookupAssumption, TypesAre, AtThisTime DEF Slot
<1>2. Slot \in SlotType
  <2>1. Held.slot \in [0 .. Held.size - 1 -> SlotType] /\ look.slot \in 0 .. Held.size - 1
    BY <1>1, ArrayIs
  <2> QED
    BY <2>1, <1>1
<1>3. ASSUME ~raced
      PROVE  /\ look.pc \in {"second", "time"} => Slot.half[1] = Tested[1]
             /\ look.pc = "time" => Slot.half[2] = Tested[2]
             /\ Slot.half = Tested /\ ~Late(Slot.timeout, now) => sometime
  <2>1. Justified(bucket, old, writer, look, member, sometime, raced, now)
    BY DEF LookupInv
  <2>2. Slot = HeldOf(bucket, old).slot[look.slot] /\ Tested = TestedBy(look)
    BY <1>1, AtThisTime
  <2> QED
    BY <2>1, <2>2, <1>3 DEF Justified
<1> QED
  BY <1>1, <1>2, <1>3

LEMMA CompareHalfStep ==
  ASSUME LookupInv, NEW h \in Halves, CompareHalf(h)
  PROVE  StepFits
<1>1. h \in {1, 2} /\ (h = 1 => look.pc = "first") /\ (h = 2 => look.pc = "second")
      /\ Comparing(look)
  BY DEF CompareHalf, Halves, Comparing
<1>2. /\ ReadingAt(look) /\ look \in LookType /\ Slot = Held.slot[look.slot]
      /\ look.slot < Held.size /\ Held.size \in 0 .. MaxSize /\ MaxSize \in Nat
      /\ look.slot \in Nat
      /\ ~raced => /\ look.pc \in {"second", "time"} => Slot.half[1] = Tested[1]
                   /\ look.pc = "time" => Slot.half[2] = Tested[2]
                   /\ Slot.half = Tested /\ ~Late(Slot.timeout, now) => sometime
  BY <1>1, Compared
<1>3. CASE Slot.half[h] # Tested[h] /\ Continue(Skip)
  BY <1>2, <1>3, SkipFits
<1>4. CASE Slot.half[h] = Tested[h] /\ Continue([look EXCEPT !.pc = <<"second", "time">>[h]])
  <2>1. PICK pc : pc = <<"second", "time">>[h]
    OBVIOUS
  <2>2. pc \in {"first", "second", "time"} /\ (pc = "second" => h = 1) /\ (pc = "time" => h = 2)
    BY <2>1, <1>1
  <2>3. PICK l : l = [look EXCEPT !.pc = pc]
    OBVIOUS
  <2>4. /\ l \in LookType /\ l.pc = pc /\ l.packet = look.packet /\ l.tested = look.tested
        /\ l.slot = look.slot /\ l.matched = look.matched /\ l.name = look.name
        /\ ReadingAt(l) /\ Comparing(l)
    BY <2>2, <2>3, <1>2, AtPlace
  <2>5. l.slot < Held.size /\ l.slot <= Held.size
    BY <2>4, <1>2
  <2>6. ~raced => LET s == Held.slot[l.slot] IN
                  /\ l.pc \in {"second", "time"} => s.half[1] = Tested[1]
                  /\ l.pc = "time" => s.half[2] = Tested[2]
                  /\ s.half = Tested /\ ~Late(s.timeout, now) => sometime
    BY <2>2, <2>4, <1>1, <1>2, <1>4
  <2>7. \A i \in Slots(Held) :
          /\ i >= look.slot /\ Held.slot[i].half = Tested
          /\ Covers(Held.slot[i].timeout, due) /\ due # Never /\ ~Late(due, now)
          => i >= l.slot
    BY <2>4
  <2>8. Continue(l)
    BY <2>1, <2>3, <1>4
  <2> QED
    BY <2>4, <2>5, <2>6, <2>7, <2>8, <1>2, ContinueKeeps
<1> QED
  BY <1>3, <1>4 DEF CompareHalf

LEMMA MatchExtensionsStep ==
  ASSUME LookupInv, MatchExtensions
  PROVE  StepFits
<1>1. look.pc = "time" /\ Comparing(look)
  BY DEF MatchExtensions, Comparing
<1>2. /\ ReadingAt(look) /\ look \in LookType /\ Slot = Held.slot[look.slot]
      /\ look.slot < Held.size /\ Slot \in SlotType /\ Tested \in Domains
      /\ ~raced => /\ Slot.half[1] = Tested[1] /\ Slot.half[2] = Tested[2]
                   /\ Slot.half = Tested /\ ~Late(Slot.timeout, now) => sometime
  BY <1>1, Compared
<1>3. CASE Lapsed(Slot.timeout) /\ Continue(Skip)
  <2>1. Late(Slot.timeout, now)
    BY <1>3, AtThisTime
  <2> QED
    BY <2>1, <1>2, <1>3, SkipFits
<1>4. CASE ~Lapsed(Slot.timeout) /\ Release(Return(TRUE))
  <2>1. PICK r : r = Return(TRUE)
    OBVIOUS
  <2>2. r \in LookType /\ Between(r) /\ r.name = NoName /\ r.matched
    BY <2>1, ReturnIs
  <2>3. Release(r) /\ look' = r
    BY <2>1, <1>4 DEF Release, LookStep
  <2>4. LookupInv'
    BY <2>2, <2>3, ReleaseKeeps
  <2>5. sometime \/ raced
    <3>1. ~Late(Slot.timeout, now)
      BY <1>4, AtThisTime
    <3>2. ASSUME ~raced PROVE sometime
      <4>1. \A h \in Halves : Slot.half[h] = Tested[h]
        BY <3>2, <1>2 DEF Halves
      <4>2. Slot.half = Tested
        BY <4>1, <1>2, HalvesMake
      <4> QED
        BY <4>2, <3>1, <3>2, <1>2
    <3> QED
      BY <3>2
  <2> QED
    BY <2>2, <2>3, <2>4, <2>5 DEF StepFits, MissFits, MatchFits, Misses
<1> QED
  BY <1>3, <1>4 DEF MatchExtensions

-----------------------------------------------------------------------------
(* The theorems.                                                           *)

LEMMA LookupInvInit ==
  ASSUME Init
  PROVE  LookupInv /\ NameInBuffer
<1>1. /\ bucket = NoArray /\ old = NoArray /\ writer = NoWriter /\ now = 1 /\ look = NoLook
      /\ member = [d \in Domains |-> Never] /\ due = Never /\ sometime = FALSE /\ ops = 0
      /\ raced = FALSE
  BY DEF Init
<1>2. /\ MaxNow \in Nat \ {0} /\ MaxOps \in Nat /\ MaxSize \in Nat /\ MaxLen \in Nat
  BY LookupAssumption
<1>3. /\ look.pc = "off" /\ look.tested = 0 /\ look.name = NoName /\ look \in LookType
  BY <1>1, <1>2, NoNameIs DEF NoLook, LookType
<1>4. ~ReadingAt(look) /\ ~Comparing(look) /\ ~Reading
  BY <1>3 DEF ReadingAt, Comparing, Reading
<1>5. member \in MemberType /\ InSet(member, now) = {}
  BY <1>1 DEF MemberType, InSet
<1>6. TypeOK
  <2>1. now \in 1 .. MaxNow /\ ops \in 0 .. MaxOps
    BY <1>1, <1>2
  <2>2. writer \in WriterType
    BY <1>1, IdleWriter
  <2>3. {bucket, old} \ {NoArray} = {}
    BY <1>1
  <2> QED
    BY <2>1, <2>2, <2>3, <1>1, <1>3, <1>4, <1>5 DEF TypeOK, WriterType, MemberType, LookType
<1>7. Agree(bucket, writer, member, now) /\ WriterAt(bucket, writer, member, now)
  BY <1>1, <1>5, IdleWriter DEF Agree, SettledIn, Slots
<1>8. LookAt(bucket, old, look, due, sometime, raced)
  BY <1>1, <1>3, <1>4 DEF LookAt
<1>9. Justified(bucket, old, writer, look, member, sometime, raced, now)
  BY <1>1, <1>4 DEF Justified, Slots
<1>10. Ahead(bucket, old, look, member, due, now)
  BY <1>1 DEF Ahead
<1>11. NameInBuffer
  BY <1>3, NoNameIs DEF NameInBuffer, NameFits
<1> QED
  BY <1>6, <1>7, <1>8, <1>9, <1>10, <1>11 DEF LookupInv

\* A step that is not of the lookup.
LEMMA OtherStep ==
  ASSUME LookupInv, Writer \/ Tick
  PROVE  KeepsInv
<1>1. CASE \E d \in Domains, t \in Timeouts :
             AddArray(d, t) \/ AddSlot(d, t) \/ \E exist \in BOOLEAN : AddAgain(d, t, exist)
  BY <1>1, AddArrayStep, AddSlotStep, AddAgainStep
<1>2. CASE \E h \in Halves : CopyHalf(h)
  BY <1>2, CopyHalfStep
<1>3. CASE SetTimeout
  BY <1>3, SetTimeoutStep
<1>4. CASE SetUsed
  BY <1>4, SetUsedStep
<1>5. CASE \E d \in Domains : Del(d)
  BY <1>5, DelStep
<1>6. CASE DelTrim
  BY <1>6, DelTrimStep
<1>7. CASE Expire
  BY <1>7, ExpireStep
<1>8. CASE ExpireSlot
  BY <1>8, ExpireSlotStep
<1>9. CASE ExpireEnd
  BY <1>9, ExpireEndStep
<1>10. CASE Flush
  BY <1>10, FlushStep
<1>11. CASE Resize
  BY <1>11, ResizeStep
<1>12. CASE Tick
  BY <1>12, TickStep
<1> QED
  BY <1>1, <1>2, <1>3, <1>4, <1>5, <1>6, <1>7, <1>8, <1>9, <1>10, <1>11, <1>12 DEF Writer

\* What a step of the lookup writes is within the buffer or nothing.
LEMMA NameKept ==
  ASSUME NameInBuffer, look'.name \in {NoName, look.name}
  PROVE  NameInBuffer'
<1>1. NameFits(look.name)
  BY DEF NameInBuffer, NameFits
<1>2. NameFits(look'.name)
  BY <1>1, NoNameIs, Zenon
<1> QED
  BY <1>2 DEF NameInBuffer, NameFits

\* What holds after and over a step.
LEMMA LookupInvNext ==
  ASSUME LookupInv, NameInBuffer, Next
  PROVE  LookupInv' /\ NameInBuffer' /\ MissFits /\ MatchFits
<1>1. CASE Writer \/ Tick
  <2>1. KeepsInv
    BY <1>1, OtherStep
  <2>2. LookupInv' /\ look' = look
    BY <2>1, StepKeepsInv DEF KeepsInv
  <2>3. ~Misses
    BY <2>2 DEF Misses
  <2>4. ~Matches
    <3>1. look.tested > 0 => look.pc # "off"
      <4>1. look.pc = "off" => look.tested = 0
        BY LookIs
      <4> QED
        BY <4>1
    <3>2. look.pc # "off" => ~look.matched
      BY LookIs
    <3> QED
      BY <3>1, <3>2, <2>2 DEF Matches
  <2> QED
    BY <2>2, <2>3, <2>4, NameKept DEF MissFits, MatchFits
<1>2. CASE \E p \in Packets : Arrive(p)
  <2>1. PICK p \in Packets : Arrive(p)
    BY <1>2
  <2>2. look.tested = 0
    BY <2>1, LookIs DEF Arrive
  <2>3. LookupInv' /\ NameInBuffer'
    BY <2>1, ArriveStep
  <2> QED
    BY <2>2, <2>3 DEF MissFits, MatchFits, Misses, Matches
<1>3. CASE ReadBucket \/ TestUsed \/ (\E h \in Halves : CompareHalf(h)) \/ MatchExtensions
  <2>1. StepFits
    BY <1>3, ReadBucketStep, TestUsedStep, CompareHalfStep, MatchExtensionsStep
  <2> QED
    BY <2>1, NameKept DEF StepFits
<1> QED
  BY <1>1, <1>2, <1>3 DEF Next, Lookup

LEMMA LookupInvAlways == Spec => [](LookupInv /\ NameInBuffer)
<1>1. Init => LookupInv /\ NameInBuffer
  BY LookupInvInit
<1>2. LookupInv /\ NameInBuffer /\ [Next]_vars => (LookupInv /\ NameInBuffer)'
  <2> SUFFICES ASSUME LookupInv, NameInBuffer, [Next]_vars
               PROVE  LookupInv' /\ NameInBuffer'
    OBVIOUS
  <2>1. CASE Next
    BY <2>1, LookupInvNext
  <2>2. CASE UNCHANGED vars
    <3>1. UNCHANGED <<bucket, old, writer, now, look, member, due, sometime, ops, raced>>
      BY <2>2 DEF vars
    <3>2. LookupInv'
      BY <3>1 DEF LookupInv, TypeOK, Reading
    <3>3. NameInBuffer'
      BY <3>1 DEF NameInBuffer
    <3> QED
      BY <3>2, <3>3
  <2> QED
    BY <2>1, <2>2
<1> QED
  BY <1>1, <1>2, PTL DEF Spec

\* Arrays, writer and lookup have their types whatever happens: no used bit is at or
\* above pos, and a lookup that reads slots has an array to read them from.
THEOREM LookupTypeCorrect == Spec => []TypeOK
<1>1. LookupInv => TypeOK
  BY DEF LookupInv
<1> QED
  BY <1>1, LookupInvAlways, PTL

\* mtype_test misses no domain that is in the set from the time it reads the
\* bucket to its end, whatever writers do to the array meanwhile.
THEOREM LookupNoFalseMiss == Spec => NoFalseMiss
<1>1. /\ LookupInv /\ NameInBuffer /\ [Next]_vars
      => [Misses => IF Reading THEN due = Never \/ Lapsed(due) ELSE Tested \notin Members]_vars
  <2> SUFFICES ASSUME LookupInv, NameInBuffer, Next
               PROVE  Misses => IF Reading THEN due = Never \/ Lapsed(due)
                                ELSE Tested \notin Members
    OBVIOUS
  <2> QED
    BY LookupInvNext DEF MissFits
<1> QED
  BY <1>1, LookupInvAlways, PTL DEF Spec, NoFalseMiss

\* mtype_test matches a domain that was in the set at no time while it ran only
\* when the slot under examination was given to another domain meanwhile.
THEOREM LookupNoFalseMatch == Spec => FalseMatchOnlyByReuse
<1>1. /\ LookupInv /\ NameInBuffer /\ [Next]_vars => [Matches => sometime \/ raced]_vars
  <2> SUFFICES ASSUME LookupInv, NameInBuffer, Next
               PROVE  Matches => sometime \/ raced
    OBVIOUS
  <2> QED
    BY LookupInvNext DEF MatchFits
<1> QED
  BY <1>1, LookupInvAlways, PTL DEF Spec, FalseMatchOnlyByReuse

\* hash_domain_kadt keeps the name of a packet within its buffer, unless the packet
\* has no label at all or, where char is signed, a length byte above 127.
THEOREM LookupNameInBuffer == Spec => []NameInBuffer
<1>1. LookupInv /\ NameInBuffer => NameInBuffer
  OBVIOUS
<1> QED
  BY <1>1, LookupInvAlways, PTL

=============================================================================

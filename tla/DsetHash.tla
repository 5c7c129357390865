------------------------------ MODULE DsetHash ------------------------------
(***************************************************************************)
(* One set of type hash:domain: the hash of domain_set_hash_gen.h with     *)
(* arrays as buckets, which uadd, udel, utest and flush (call_ad in        *)
(* domain_set_core.c), the garbage collector and the packets work on.      *)
(*                                                                         *)
(* Each action is one section of set->lock, or one lookup.  An add that    *)
(* finds its bucket at the maximal size gives the lock up, resizes the     *)
(* table and starts again; the garbage collector and the clock run in      *)
(* between.  The life of the tables themselves (ref, uref, RCU) is not     *)
(* modelled here.                                                          *)
(*                                                                         *)
(* A slot whose used bit is clear keeps its old contents in memory.  Of    *)
(* these only the packet counter is ever read again, so the rest is given  *)
(* its kzalloc value when the bit is cleared.  Of the extensions the model *)
(* has the timeout and the packet counter; the byte counter, skbinfo and   *)
(* the comment are copied with them, and ext_size, the memory in use, is   *)
(* only reported.                                                          *)
(***************************************************************************)
EXTENDS Integers, Sequences, FiniteSets, FiniteSetsExt

CONSTANTS
  Domains,       \* the domain names in use
  NoElem,
  NoBucket,      \* a NULL bucket pointer
  Parent,        \* each domain without its first label, NoElem if that was all
  Hash,          \* jhash2 of each domain, before the mask of the table size
  InitSize,      \* AHASH_INIT_SIZE
  MaxSize,       \* AHASH_MAX_SIZE
  InitBits,      \* htable_bits of the first table
  MaxBits,       \* there is no memory for a table with more bits
  MaxElem,       \* h->maxelem
  Timeouts,      \* {"perm"} without timeout support, {"perm", "live"} with
  WithCounter, WithForceadd,
  CanFail,       \* whether kzalloc may fail
  MaxPackets     \* bound of the packet counters

jhash_size(b) == 2 ^ b

\* An element with its extensions.
SlotType == [elem : Domains \cup {NoElem}, timeout : {"perm", "live", "over"},
             packets : 0 .. MaxPackets]

\* The arrays of the given size.
BucketType(size) ==
  [size : {size}, pos : 0 .. size, used : SUBSET (0 .. size - 1),
   value : [0 .. size - 1 -> SlotType]]

\* There are finitely many domains because their length is bounded.  That powers
\* of two are positive is arithmetic which the provers do not know.
ASSUME HashAssumption ==
  /\ InitSize \in Nat \ {0} /\ MaxSize \in Nat /\ MaxSize % InitSize = 0
  /\ InitSize <= MaxSize
  /\ InitBits \in Nat /\ MaxBits \in Nat /\ InitBits <= MaxBits
  /\ \A b \in InitBits .. MaxBits : jhash_size(b) \in Nat \ {0}
  /\ MaxElem \in Nat /\ MaxPackets \in Nat
  /\ IsFiniteSet(Domains)
  /\ Hash \in [Domains -> Nat]
  /\ Parent \in [Domains -> Domains \cup {NoElem}]
  /\ NoElem \notin Domains
  /\ \A size \in 0 .. MaxSize : NoBucket \notin BucketType(size)
  /\ "perm" \in Timeouts /\ Timeouts \subseteq {"perm", "live"}
  /\ {WithCounter, WithForceadd, CanFail} \subseteq BOOLEAN

VARIABLES
  bits,      \* t->htable_bits
  bucket,    \* t->bucket
  elements,  \* set->elements
  op,        \* the command in progress: uadd, udel or utest of an element
  ret,       \* the answer to the last command, "none" while one is in progress
  wild       \* a slot outside of every bucket was written

hashvars == <<bits, bucket, elements, op, ret, wild>>

-----------------------------------------------------------------------------
WithTimeout == "live" \in Timeouts

\* One kzalloc: TRUE when it fails.
Failures == IF CanFail THEN BOOLEAN ELSE {FALSE}

Keys == 0 .. jhash_size(bits) - 1

HKEY(d, b) == Hash[d] % jhash_size(b)

\* The kzallocs of mtype_expire: the buckets for which they fail.
ExpireFailures == IF CanFail THEN SUBSET Keys ELSE {{}}

\* An element with its extensions, as kzalloc leaves it.
ZeroSlot == [elem |-> NoElem, timeout |-> "perm", packets |-> 0]

NewBucket(size) ==
  [size |-> size, pos |-> 0, used |-> {}, value |-> [i \in 0 .. size - 1 |-> ZeroSlot]]

\* kzalloc of a larger array and memcpy of the old one.
Enlarged(n) ==
  [NewBucket(n.size + InitSize) EXCEPT
     !.pos = n.pos, !.used = n.used,
     !.value = [i \in DOMAIN @ |-> IF i < n.size THEN n.value[i] ELSE @[i]]]

\* The slots that the loops over a bucket look at.
Live(n) == {i \in n.used : i < n.pos}

Holes(n) == {i \in 0 .. n.pos - 1 : i \notin n.used}

Expired(n, i) == n.value[i].timeout = "over"

\* The i-th member of a set of indices, from 0.
Nth(S, i) == CHOOSE x \in S : Cardinality({y \in S : y < x}) = i

\* A mutant: the slots are copied to where they were.
ShrunkInPlace(n) ==
  [NewBucket(n.size - InitSize) EXCEPT
     !.pos = n.pos, !.used = Live(n),
     !.value = [i \in DOMAIN @ |-> n.value[i]]]

\* A mutant: the counters are those of the slot that was there.
ShrunkElemsOnly(n) ==
  [NewBucket(n.size - InitSize) EXCEPT
     !.pos = Cardinality(Live(n)), !.used = 0 .. Cardinality(Live(n)) - 1,
     !.value = [i \in DOMAIN @ |->
                  IF i < Cardinality(Live(n))
                  THEN [n.value[i] EXCEPT !.elem = n.value[Nth(Live(n), i)].elem] ELSE @[i]]]

\* The array that is InitSize shorter, with the used slots moved together.
Shrunk(n) ==
  [NewBucket(n.size - InitSize) EXCEPT
     !.pos = Cardinality(Live(n)), !.used = 0 .. Cardinality(Live(n)) - 1,
     !.value = [i \in DOMAIN @ |->
                  IF i < Cardinality(Live(n)) THEN n.value[Nth(Live(n), i)] ELSE @[i]]]

\* clear_bit and domain_set_ext_destroy for the slots J.
Cleared(n, J) ==
  [n EXCEPT !.used = @ \ J,
            !.value = [i \in DOMAIN @ |->
               IF i \in J THEN [ZeroSlot EXCEPT !.packets = n.value[i].packets] ELSE @[i]]]

-----------------------------------------------------------------------------
(* mtype_expire                                                            *)

Lapsed(n) == {i \in Live(n) : Expired(n, i)}

ExpireBucket(n, oom) ==
  LET m == Cleared(n, Lapsed(n))
      d == Cardinality(Holes(m)) IN
  IF d < InitSize THEN m
  ELSE IF d >= m.size THEN NoBucket
  ELSE IF oom THEN m ELSE Shrunk(m)

\* The used slots of the table, as <<bucket, slot>>.
Stored ==
  UNION {{<<k, i>> : i \in Live(bucket[k])} : k \in {j \in Keys : bucket[j] # NoBucket}}

SlotAt(x) == bucket[x[1]].value[x[2]]

\* The set as it is, and after mtype_expire.
Now == [bucket |-> bucket, elements |-> elements]

\* The used slots of the table whose time is over.
Overdue == {x \in Stored : SlotAt(x).timeout = "over"}

ExpireAll(oom) ==
  [k \in Keys |-> IF bucket[k] = NoBucket THEN NoBucket ELSE ExpireBucket(bucket[k], k \in oom)]

\* A mutant: an element counts as gone only when its bucket is replaced.
AfterExpireUncounted(oom) ==
  [bucket   |-> ExpireAll(oom),
   elements |-> elements - Cardinality({x \in Overdue : x[1] \notin oom})]

AfterExpire(oom) ==
  [bucket |-> ExpireAll(oom), elements |-> elements - Cardinality(Overdue)]

-----------------------------------------------------------------------------
NoOp == [pc |-> "idle", elem |-> NoElem, exist |-> FALSE, timeout |-> "perm",
         packets |-> -1, bits |-> 0]

Init ==
  /\ bits = InitBits
  /\ bucket = [k \in 0 .. jhash_size(InitBits) - 1 |-> NoBucket]
  /\ elements = 0
  /\ op = NoOp
  /\ ret = "ok"
  /\ wild = FALSE

Idle == op = NoOp /\ ~wild

Answer(r) == ret' = r /\ op' = NoOp /\ UNCHANGED wild

\* hash_domain_uadt parses a command, which call_ad or domain_set_utest has
\* handed to it.  packets is -1 when the command gives none.
Call(o) ==
  /\ Idle
  /\ op' = o
  /\ ret' = "none"
  /\ UNCHANGED <<bits, bucket, elements, wild>>

UAdd(d, exist, timeout, packets) ==
  Call([pc |-> "add", elem |-> d, exist |-> exist, timeout |-> timeout,
        packets |-> packets, bits |-> 0])

UDel(d) == Call([NoOp EXCEPT !.pc = "del", !.elem = d])

UTest(d) == Call([NoOp EXCEPT !.pc = "test", !.elem = d])

\* What the add writes over the slot that was there.  The counter is written
\* only when the command gives one.
NewSlot(old) ==
  [elem |-> op.elem, timeout |-> op.timeout,
   packets |-> IF op.packets < 0 THEN old.packets ELSE op.packets]

\* An element is written into slot i.
WithSlot(n, i, new) ==
  [n EXCEPT !.value[i] = new, !.used = @ \cup {i}, !.pos = IF i < @ THEN @ ELSE i + 1]

\* From copy_data or overwrite_extensions to the end: slot i of n gets the
\* element and the extensions of the command.
Store(S, k, n, i) ==
  /\ bucket' = [S.bucket EXCEPT ![k] = WithSlot(n, i, NewSlot(n.value[i]))]
  /\ UNCHANGED bits
  /\ Answer("ok")

\* The add ends without storing anything.
Refuse(S, r) ==
  /\ bucket' = S.bucket
  /\ elements' = S.elements
  /\ UNCHANGED bits
  /\ Answer(r)

Full(S) == S.elements >= MaxElem

\* The slots that hold the element of the command.
Same(n) == {i \in Live(n) : n.value[i].elem = op.elem}

\* The slots a new element may take over: the first deleted or timed out one.
Reusable(n) == Holes(n) \cup Lapsed(n)

(* mtype_add, with the set S and the bucket k of the element.              *)

\* There is no bucket yet.
AddFirst(S, k, oom) ==
  /\ S.bucket[k] = NoBucket
  /\ \/ Full(S) /\ Refuse(S, "full")
     \/ ~Full(S) /\ oom /\ Refuse(S, "nomem")
     \/ /\ ~Full(S) /\ ~oom
        /\ Store(S, k, NewBucket(InitSize), 0)
        /\ elements' = S.elements + 1

\* The element is there.
AddAgain(S, k, n) ==
  /\ n # NoBucket
  /\ \E i \in Same(n) :
       \/ /\ op.exist \/ Expired(n, i)
          /\ Store(S, k, n, i)
          /\ elements' = S.elements
       \/ ~op.exist /\ ~Expired(n, i) /\ Refuse(S, "exist")

\* A slot is taken over.
AddReuse(S, k, n) ==
  /\ n # NoBucket /\ Same(n) = {} /\ Reusable(n) # {}
  /\ LET i == Min(Reusable(n)) IN
     \/ /\ i \notin n.used
        /\ Store(S, k, n, i)
        /\ elements' = S.elements + 1
     \/ /\ i \in n.used
        /\ Store(S, k, Cleared(n, {i}), i)
        /\ elements' = S.elements

\* forceadd finds no slot: index -1 is written.
AddForced(S, n) ==
  /\ n # NoBucket /\ Same(n) = {} /\ Reusable(n) = {}
  /\ Full(S) /\ WithForceadd
  /\ wild' = TRUE
  /\ bucket' = S.bucket /\ elements' = S.elements
  /\ UNCHANGED <<bits, op, ret>>

\* A new slot, in a larger array if need be.
AddLast(S, k, n, oom) ==
  /\ n # NoBucket /\ Same(n) = {} /\ Reusable(n) = {}
  /\ ~(Full(S) /\ WithForceadd)
  /\ \/ Full(S) /\ Refuse(S, "full")
     \/ /\ ~Full(S) /\ n.pos >= n.size /\ n.size >= MaxSize
        /\ op' = [op EXCEPT !.pc = "resize", !.bits = bits]
        /\ bucket' = S.bucket /\ elements' = S.elements
        /\ UNCHANGED <<bits, ret, wild>>
     \/ ~Full(S) /\ n.pos >= n.size /\ n.size < MaxSize /\ oom /\ Refuse(S, "nomem")
     \/ /\ ~Full(S) /\ (n.pos >= n.size => n.size < MaxSize /\ ~oom)
        /\ Store(S, k, IF n.pos < n.size THEN n ELSE Enlarged(n), n.pos)
        /\ elements' = S.elements + 1

\* mtype_add.  The set is expired first when it is full.
Add(ooms, oom) ==
  LET S == IF elements >= MaxElem /\ WithTimeout THEN AfterExpire(ooms) ELSE Now
      k == HKEY(op.elem, bits)
      n == S.bucket[k] IN
  /\ op.pc = "add"
  /\ \/ AddFirst(S, k, oom) \/ AddAgain(S, k, n) \/ AddReuse(S, k, n)
     \/ AddForced(S, n) \/ AddLast(S, k, n, oom)

-----------------------------------------------------------------------------
(* mtype_resize: one attempt, with the next number of bits.                *)

Before(x, y) == x[1] < y[1] \/ (x[1] = y[1] /\ x[2] < y[2])

\* A mutant: the bucket index of the current table is kept.
MovingByOldBits(b, k) == {x \in Stored : HKEY(SlotAt(x).elem, bits) = k}

\* A mutant: elements at the end of their bucket are left behind.
MovingAllButLast(b, k) ==
  {x \in Stored : HKEY(SlotAt(x).elem, b) = k /\ x[2] + 1 < MaxSize}

Moving(b, k) == {x \in Stored : HKEY(SlotAt(x).elem, b) = k}

\* The bucket that the slots X fill, in the order of the old table.
Filled(X) ==
  LET c == Cardinality(X)
      place(i) == CHOOSE x \in X : Cardinality({y \in X : Before(y, x)}) = i
      size == InitSize * ((c + InitSize - 1) \div InitSize) IN
  IF c = 0 THEN NoBucket
  ELSE [NewBucket(size) EXCEPT
          !.pos = c, !.used = 0 .. c - 1,
          !.value = [i \in DOMAIN @ |-> IF i < c THEN SlotAt(place(i)) ELSE @[i]]]

Attempt(b, oom) ==
  LET keys == 0 .. jhash_size(b) - 1
      new == [k \in keys |-> Filled(Moving(b, k))]
      tight == \E k \in keys : Cardinality(Moving(b, k)) > MaxSize IN
  /\ op.pc = "resize"
  /\ \/ /\ b > MaxBits \/ oom
        /\ Answer("nomem")
        /\ UNCHANGED <<bits, bucket, elements>>
     \/ /\ b <= MaxBits /\ ~oom /\ tight
        /\ op' = [op EXCEPT !.bits = b]
        /\ UNCHANGED <<bits, bucket, elements, ret, wild>>
     \/ /\ b <= MaxBits /\ ~oom /\ ~tight
        /\ bits' = b
        /\ bucket' = new
        /\ op' = [op EXCEPT !.pc = "add", !.bits = 0]
        /\ UNCHANGED <<elements, ret, wild>>

\* A mutant: the number of bits is not increased.
ResizeSameBits(oom) == Attempt(op.bits, oom)

Resize(oom) == Attempt(op.bits + 1, oom)

-----------------------------------------------------------------------------
(* The other operations.                                                   *)

\* Slot i is given up, and pos goes back if it was the last one.
Trimmed(n, i) == [Cleared(n, {i}) EXCEPT !.pos = IF i + 1 = @ THEN i ELSE @]

\* mtype_del.
Del(oom) ==
  LET k == HKEY(op.elem, bits)
      n == bucket[k] IN
  /\ op.pc = "del"
  /\ \/ /\ n # NoBucket => \A i \in Same(n) : Expired(n, i)
        /\ Answer("exist")
        /\ UNCHANGED <<bucket, elements>>
     \/ /\ n # NoBucket
        /\ \E i \in Same(n) :
             LET m == Trimmed(n, i) IN
             /\ ~Expired(n, i)
             /\ Answer("ok")
             /\ elements' = elements - 1
             /\ bucket' = [bucket EXCEPT ![k] =
                             IF m.pos = 0 THEN NoBucket
                             ELSE IF Cardinality(Holes(m)) >= InitSize /\ ~oom THEN Shrunk(m)
                             ELSE m]
  /\ UNCHANGED bits

\* A mutant: the timeout is not looked at.
mtype_test_expired(d) ==
  LET n == bucket[HKEY(d, bits)] IN
  n # NoBucket /\ \E i \in Live(n) : n.value[i].elem = d

\* mtype_test and mtype_data_match, for a test from userspace and for a
\* packet whose rule does not look at counters.
mtype_test(d) ==
  LET n == bucket[HKEY(d, bits)] IN
  /\ n # NoBucket
  /\ \E i \in Live(n) : n.value[i].elem = d /\ ~Expired(n, i)

Test ==
  /\ op.pc = "test"
  /\ Answer(IF mtype_test(op.elem) THEN "ok" ELSE "exist")
  /\ UNCHANGED <<bits, bucket, elements>>

\* hash_domain_kadt puts the labels of a packet together; d and the domains
\* above it, in the order in which they are tested: the last label first.
Suffixes[d \in Domains] ==
  IF Parent[d] = NoElem THEN <<d>> ELSE Append(Suffixes[Parent[d]], d)

\* The search of hash_domain_kadt stops at the first suffix that is in the set.
hash_domain_kadt(d) ==
  LET hits == {i \in DOMAIN Suffixes[d] : mtype_test(Suffixes[d][i])} IN
  IF hits = {} THEN NoElem ELSE Suffixes[d][Min(hits)]

\* A packet for the domain name: domain_set_update_counter when it matches.
Count(name) ==
  /\ WithCounter /\ ~wild
  /\ \E d \in Domains :
       LET k == HKEY(d, bits) IN
       /\ d = hash_domain_kadt(name) /\ bucket[k] # NoBucket
       /\ \E i \in Live(bucket[k]) :
            /\ bucket[k].value[i].elem = d /\ ~Expired(bucket[k], i)
            /\ bucket[k].value[i].packets < MaxPackets
            /\ bucket' = [bucket EXCEPT ![k].value[i].packets = @ + 1]
  /\ UNCHANGED <<bits, elements, op, ret, wild>>

mtype_flush ==
  /\ bucket' = [k \in Keys |-> NoBucket]
  /\ elements' = 0

\* domain_set_flush.
Flush ==
  /\ Idle
  /\ mtype_flush
  /\ ret' = "ok"
  /\ UNCHANGED <<bits, op, wild>>

\* It expires the set before it reports set->elements, between two
\* sections of set->lock of a command or after one.
mtype_head(ooms) ==
  /\ WithTimeout /\ ~wild
  /\ LET S == AfterExpire(ooms) IN
     bucket' = S.bucket /\ elements' = S.elements
  /\ UNCHANGED <<bits, op, ret, wild>>

\* mtype_gc, from its timer.
Gc(ooms) ==
  /\ WithTimeout /\ ~wild
  /\ LET S == AfterExpire(ooms) IN
     bucket' = S.bucket /\ elements' = S.elements
  /\ UNCHANGED <<bits, op, ret, wild>>

\* jiffies passes the timeout of a slot.
Lapse(k, i) ==
  /\ ~wild
  /\ bucket[k] # NoBucket /\ i \in Live(bucket[k])
  /\ bucket[k].value[i].timeout = "live"
  /\ bucket' = [bucket EXCEPT ![k].value[i].timeout = "over"]
  /\ UNCHANGED <<bits, elements, op, ret, wild>>

-----------------------------------------------------------------------------
Next ==
  \/ \E d \in Domains, exist \in BOOLEAN, t \in Timeouts,
       p \in (IF WithCounter THEN {-1, 0} ELSE {-1}) : UAdd(d, exist, t, p)
  \/ \E ooms \in ExpireFailures, oom \in Failures : Add(ooms, oom)
  \/ \E oom \in Failures : Resize(oom)
  \/ \E d \in Domains : UDel(d) \/ UTest(d) \/ Count(d)
  \/ \E oom \in Failures : Del(oom)
  \/ Test
  \/ Flush
  \/ \E ooms \in ExpireFailures : Gc(ooms) \/ mtype_head(ooms)
  \/ \E k \in Keys, i \in 0 .. MaxSize - 1 : Lapse(k, i)

Spec == Init /\ [][Next]_hashvars

\* The command in progress takes its next step.
Proceed ==
  \/ \E ooms \in ExpireFailures, oom \in Failures : Add(ooms, oom)
  \/ \E oom \in Failures : Resize(oom) \/ Del(oom)
  \/ Test

\* A command that has begun runs to its end.
FairSpec == Spec /\ WF_hashvars(Proceed)

-----------------------------------------------------------------------------
(* Properties                                                              *)

\* The sizes an array can have.
Sizes == {size \in 0 .. MaxSize : size % InitSize = 0}

BucketOK(n) == n.size \in Sizes /\ n \in BucketType(n.size) /\ n.used \subseteq 0 .. n.pos - 1

OpType ==
  [pc : {"idle", "add", "resize", "del", "test"}, elem : Domains \cup {NoElem},
   exist : BOOLEAN, timeout : Timeouts, packets : {-1, 0}, bits : 0 .. MaxBits]

\* Every variable has its type.  For a bucket this says that no array is
\* written past its end and no used bit lies at or above pos, where no loop
\* would see it.
TypeOK ==
  /\ bits \in InitBits .. MaxBits
  /\ DOMAIN bucket = Keys
  /\ \A k \in Keys : bucket[k] = NoBucket \/ BucketOK(bucket[k])
  /\ elements \in Nat
  /\ op \in OpType
  /\ ret \in {"none", "ok", "exist", "full", "nomem"}
  /\ wild \in BOOLEAN

\* set->elements is the number of used slots, whatever path an element came
\* or went by (reuse of a deleted or timed out slot, gc, shrinking without
\* memory, resize): the full check and the header rely on it.
ElementsExact == elements = Cardinality(Stored)

\* Every element is stored once, in the bucket that its hash selects in the
\* current table, so that lookups, add and del all work on the same slot.
StoredOnce ==
  \A x, y \in Stored :
    /\ x[1] = HKEY(SlotAt(x).elem, bits)
    /\ SlotAt(x).elem = SlotAt(y).elem => x = y

\* The abstract map that the table stands for.
MemberState(d) ==
  LET X == {x \in Stored : SlotAt(x).elem = d /\ SlotAt(x).timeout # "over"} IN
  IF X = {} THEN "out" ELSE SlotAt(CHOOSE x \in X : TRUE).timeout

\* An add may fail for want of memory when kzalloc can fail or so many domains
\* collide that not even the largest table takes them all.
MayRunOut ==
  \/ CanFail
  \/ \E k \in 0 .. jhash_size(MaxBits) - 1 :
       Cardinality({d \in Domains : HKEY(d, MaxBits) = k}) > MaxSize

Abstract == INSTANCE DsetSet WITH
  CanFail <- MayRunOut,
  members <- [d \in Domains |-> MemberState(d)],
  call <- [cmd |-> IF op.pc = "resize" THEN "add" ELSE op.pc,
           elem |-> op.elem, exist |-> op.exist, timeout |-> op.timeout]

\* The hash implements the map of DsetSet: answers and contents agree, an
\* add is refused as full only by a full set, and resizing, the garbage
\* collector and the moves inside a bucket lose or revive no element.
ImplementsSet == Abstract!AbsSpec

\* The slot of d in the current table.
SlotOf(d) == SlotAt(CHOOSE x \in Stored : SlotAt(x).elem = d)

\* The counter stays with its element.  As long as d is in the set and no
\* add of d ends, whatever moves its slot (resize, shrinking by del or gc,
\* growing, the reuse of a neighbour) loses none of the packets counted.
CountersKept ==
  [][\A d \in Domains :
       MemberState(d) # "out" /\ MemberState(d)' # "out"
         /\ ~(op.elem = d /\ op' = NoOp /\ op # NoOp)
         => SlotOf(d)'.packets >= SlotOf(d).packets]_hashvars

\* An add to a full set with forceadd takes the place of some entry of the
\* set ("may succeed and evict a random entry from the set").
ForceaddEvictsEntry == ~wild

\* The counter of an element that is added without one starts at zero ("The
\* packet and byte counters are initialized to zero when the elements are
\* (re-)added to the set").
CountersStartAtZero ==
  [][\A x \in Stored' :
       op.pc = "add" /\ op'.pc = "idle" /\ SlotAt(x)'.elem = op.elem
         /\ op.packets < 0 /\ MemberState(op.elem) = "out"
         => SlotAt(x)'.packets = 0]_hashvars

\* An add that has to resize is answered: it does not resize for ever.
AddsAnswered == op.pc # "idle" ~> op.pc = "idle"
=============================================================================

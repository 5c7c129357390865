----------------------------- MODULE DsetLookup -----------------------------
(***************************************************************************)
(* A packet is looked up in a set while the set changes.  hash_domain_kadt *)
(* puts the labels of the packet together and tests one suffix of the name *)
(* after the other with mtype_test, under rcu_read_lock_bh and without     *)
(* set->lock.  Meanwhile one writer at a time, which has set->lock, runs   *)
(* mtype_add, mtype_del, mtype_expire, mtype_flush or mtype_resize.        *)
(*                                                                         *)
(* The module looks at ONE bucket: all domains have the same hash value.   *)
(* Other buckets show only in that they can demand a resize at any time.   *)
(* Every access of the lookup to a slot is a step, and so is every write   *)
(* of the writer that the lookup can see.  A domain is a pair, because     *)
(* strcmp and memcpy are not atomic: half of a slot can be old and half of *)
(* it new.  Accesses happen in program order (the order of memcpy is       *)
(* free).  RCU keeps an array until the lookup that holds it has ended.    *)
(* What precedes the tests touches no shared state and is one step.        *)
(***************************************************************************)
EXTENDS Integers, Sequences, FiniteSets, FiniteSetsExt, Functions

CONSTANTS
  Domains,  \* domains, pairs of halves
  Packets,  \* records: label, the byte before each label; suffix, the domains tested
  SignedChar, \* TRUE if the build has a signed char
  MaxLen,   \* DSET_MAX_DOMAIN_LEN
  InitSize, \* AHASH_INIT_SIZE
  MaxSize,  \* AHASH_MAX
  Timeouts, \* timeout values of add, 0 for a permanent element
  MaxNow,   \* the clock stops here
  MaxOps,   \* the operations a writer begins during one test of a suffix
  NoDomain, NoArray, NoPacket

Halves == {1, 2}

\* An element with its timeout, and the arrays of the given size.
SlotType ==
  [half : [Halves -> {NoDomain} \cup {d[h] : d \in Domains, h \in Halves}], timeout : Nat]

ArrayType(size) ==
  [size : {size}, pos : 0 .. size, used : SUBSET (0 .. size - 1),
   slot : [0 .. size - 1 -> SlotType]]

\* The sizes an array can have.  mtype_del, which counts the holes and not the
\* size, can leave one without any slot.
Sizes == {size \in 0 .. MaxSize : size % InitSize = 0}

ASSUME LookupAssumption ==
  /\ \A d \in Domains : d = [h \in Halves |-> d[h]]
  /\ \A p \in Packets : p.label \in Seq(1 .. 255) /\ p.suffix \in Seq(Domains)
  /\ SignedChar \in BOOLEAN
  /\ MaxLen \in Nat \ {0} /\ MaxNow \in Nat \ {0} /\ MaxOps \in Nat /\ Timeouts \subseteq Nat
  /\ InitSize \in Nat \ {0} /\ MaxSize \in Nat \ {0} /\ MaxSize % InitSize = 0
  /\ NoPacket \notin Packets /\ NoDomain \notin Domains
  /\ \A size \in Sizes : NoArray \notin ArrayType(size)

VARIABLES
  bucket,  \* the array hbucket(t, key) points to
  old,     \* the array the lookup holds when it is not that one any more
  writer,  \* the operation that has set->lock
  now,     \* jiffies
  look,    \* the lookup; its name: the bytes of the labels, the indexes written
  member,  \* history: the deadline of each domain that is in the set
  due,     \* history: the earliest deadline the tested domain had in its test
  sometime,\* history: it was in the set, or being added, at some time since then
  ops,     \* how many operations have begun during the test
  raced    \* history: the slot under examination was written

vars == <<bucket, old, writer, now, look, member, due, sometime, ops, raced>>

-----------------------------------------------------------------------------
(* Buckets                                                                 *)

Never == -1 \* a domain that is not in the set has no deadline

PERMANENT == 0 \* DSET_ELEM_PERMANENT

ZeroSlot == [half |-> [h \in Halves |-> NoDomain], timeout |-> PERMANENT]

NewArray(size) ==
  [size |-> size, pos |-> 0, used |-> {}, slot |-> [i \in 0 .. size - 1 |-> ZeroSlot]]

\* domain_set_timeout_expired.
Lapsed(t) == t # PERMANENT /\ t < now

\* domain_set_timeout_set.  The clock begins at 1, so the sum is not PERMANENT.
Deadline(t) == IF t = 0 THEN PERMANENT ELSE now + t

Sooner(s, t) == IF PERMANENT \in {s, t} THEN Max({s, t}) ELSE Min({s, t})

Live(n) == {i \in n.used : i < n.pos}

Holes(n) == {i \in 0 .. n.pos - 1 : i \notin n.used}

\* The slots an add may take over.
Reusable(n) == Holes(n) \cup {i \in Live(n) : Lapsed(n.slot[i].timeout)}

Holding(n, d) == {i \in Live(n) : n.slot[i].half = d}

\* The i-th member of a set of indices, from 0.
Nth(S, i) == CHOOSE x \in S : Cardinality({y \in S : y < x}) = i

\* The used slots of n in an array of the given size, moved together.
Compact(n, size) ==
  LET c == Cardinality(Live(n)) IN
  [size |-> size, pos |-> c, used |-> 0 .. c - 1,
   slot |-> [i \in 0 .. size - 1 |-> IF i < c THEN n.slot[Nth(Live(n), i)] ELSE ZeroSlot]]

\* n with d behind the last slot; a full array is made InitSize longer first.
Appended(n, d, t) ==
  LET size == IF n.pos < n.size THEN n.size ELSE n.size + InitSize IN
  [size |-> size, pos |-> n.pos + 1, used |-> n.used \cup {n.pos},
   slot |-> [i \in 0 .. size - 1 |->
               IF i = n.pos THEN [half |-> d, timeout |-> t]
               ELSE IF i < n.size THEN n.slot[i] ELSE ZeroSlot]]

\* The lookup is between the read of the bucket and the end of the test.
Reading == look.pc \in {"slot", "first", "second", "time"}

\* rcu_assign_pointer and kfree_rcu: n is published, and the replaced array
\* lives on if the lookup holds it.
Publish(n) ==
  /\ bucket' = n
  /\ old' = IF Reading /\ old = NoArray THEN bucket ELSE old

-----------------------------------------------------------------------------
NoWriter == [pc |-> "idle", domain |-> NoDomain, slot |-> 0, todo |-> {}, value |-> 0]

\* The name of a packet in the buffer: the byte before each label, and the
\* indexes that were written.
NameType == [label : Seq(1 .. 255), wrote : SUBSET Int]

NoName == [label |-> <<>>, wrote |-> {}]

NoLook == [pc |-> "off", packet |-> NoPacket, name |-> NoName, tested |-> 0, slot |-> 0,
           matched |-> FALSE]

Init ==
  /\ bucket = NoArray
  /\ old = NoArray
  /\ writer = NoWriter
  /\ now = 1
  /\ look = NoLook
  /\ member = [d \in Domains |-> Never]
  /\ due = Never
  /\ sometime = FALSE
  /\ ops = 0
  /\ raced = FALSE

\* Every variable has its type; a used bit at or above pos would be seen by
\* no loop.
TypeOK ==
  /\ \A n \in {bucket, old} \ {NoArray} :
       n.size \in Sizes /\ n \in ArrayType(n.size) /\ n.used \subseteq 0 .. n.pos - 1
  /\ writer \in [pc : {"idle", "copy", "time", "bit", "trim", "expire"},
                 domain : Domains \cup {NoDomain}, slot : 0 .. MaxSize,
                 todo : SUBSET Halves, value : Nat]
  /\ now \in 1 .. MaxNow /\ ops \in 0 .. MaxOps
  /\ look \in [pc : {"off", "test", "slot", "first", "second", "time"},
               packet : Packets \cup {NoPacket}, name : NameType, tested : Nat,
               slot : 0 .. MaxSize, matched : BOOLEAN]
  /\ Reading => {bucket, old} # {NoArray}
  /\ member \in [Domains -> {Never} \cup Nat]
  /\ due \in {Never} \cup Nat /\ sometime \in BOOLEAN /\ raced \in BOOLEAN

-----------------------------------------------------------------------------
(* History                                                                 *)

Members == {d \in Domains : member[d] # Never /\ ~Lapsed(member[d])}

\* The suffix that is tested.
Tested == look.packet.suffix[look.tested]

\* What the test in progress may and must find, after a step of the writer or
\* the clock; the domain of an add in progress may be found.
Witness ==
  /\ due' = IF due # Never /\ Tested \in Members' THEN Sooner(due, member'[Tested]) ELSE Never
  /\ sometime' = (sometime \/ (Reading /\ Tested \in Members' \cup {writer'.domain}))

\* The slot that the lookup has found in use is written.
Disturb(j) ==
  raced' = (raced \/ (/\ look.pc \in {"first", "second", "time"}
                      /\ old = NoArray /\ look.slot = j))

\* The set holds d until deadline t now.
Enter(d, t) == member' = [member EXCEPT ![d] = t]

-----------------------------------------------------------------------------
(* The writer                                                              *)

Finish == writer' = NoWriter

\* An operation takes set->lock.
Begin ==
  /\ writer.pc = "idle"
  /\ ~Reading \/ ops < MaxOps
  /\ ops' = IF Reading THEN ops + 1 ELSE 0

\* mtype_add with a bucket that does not exist or has no slot to take: the
\* array is made ready before anyone can see it.
AddArray(d, t) ==
  /\ Begin
  /\ \/ bucket = NoArray /\ Publish(Appended(NewArray(InitSize), d, Deadline(t)))
     \/ /\ bucket # NoArray /\ Holding(bucket, d) = {} /\ Reusable(bucket) = {}
        /\ bucket.pos = bucket.size /\ bucket.size < MaxSize
        /\ Publish(Appended(bucket, d, Deadline(t)))
  /\ Enter(d, Deadline(t))
  /\ UNCHANGED <<writer, now, look, raced>>
  /\ Witness

\* mtype_add in the current array: the first deleted or timed-out slot is
\* reused, or the one at n->pos, which is moved first.
AddSlot(d, t) ==
  LET n == bucket IN
  /\ Begin /\ n # NoArray
  /\ Holding(n, d) = {}
  /\ \E j \in 0 .. MaxSize - 1 :
       /\ \/ j = Min(Reusable(n) \cup {MaxSize}) /\ UNCHANGED bucket
          \/ /\ Reusable(n) = {} /\ j = n.pos /\ n.pos < n.size
             /\ bucket' = [n EXCEPT !.pos = @ + 1]
       /\ writer' = [pc |-> "copy", domain |-> d, slot |-> j, todo |-> Halves,
                     value |-> Deadline(t)]
  /\ UNCHANGED <<old, now, look, member, raced>>
  /\ Witness

\* mtype_add of a domain that is there, with -exist or after its timeout: only
\* the extensions are written.  Until they are, the domain is in the set no
\* longer than both deadlines say.
AddAgain(d, t, exist) ==
  /\ Begin /\ bucket # NoArray
  /\ \E j \in Holding(bucket, d) :
       /\ exist \/ Lapsed(bucket.slot[j].timeout)
       /\ writer' = [pc |-> "time", domain |-> d, slot |-> j, todo |-> {},
                     value |-> Deadline(t)]
  /\ Enter(d, Sooner(member[d], Deadline(t)))
  /\ UNCHANGED <<bucket, old, now, look, raced>>
  /\ Witness

\* memcpy of the element.
CopyHalf(h) ==
  /\ writer.pc = "copy" /\ h \in writer.todo
  /\ bucket' = [bucket EXCEPT !.slot[writer.slot].half[h] = writer.domain[h]]
  /\ writer' = [writer EXCEPT !.todo = @ \ {h},
                              !.pc = IF writer.todo = {h} THEN "time" ELSE "copy"]
  /\ Disturb(writer.slot)
  /\ UNCHANGED <<old, now, look, member, ops>>
  /\ Witness

\* "Must come last for the case when timed out entry is reused".
SetTimeout ==
  /\ writer.pc = "time"
  /\ bucket' = [bucket EXCEPT !.slot[writer.slot].timeout = writer.value]
  /\ writer' = [writer EXCEPT !.pc = "bit"]
  /\ Disturb(writer.slot)
  /\ UNCHANGED <<old, now, look, member, ops>>
  /\ Witness

SetUsed ==
  /\ writer.pc = "bit"
  /\ bucket' = [bucket EXCEPT !.used = @ \cup {writer.slot}]
  /\ Enter(writer.domain, writer.value)
  /\ Finish
  /\ UNCHANGED <<old, now, look, raced, ops>>
  /\ Witness

\* mtype_del: clear_bit.
Del(d) ==
  /\ Begin /\ bucket # NoArray
  /\ \E j \in Holding(bucket, d) :
       /\ ~Lapsed(bucket.slot[j].timeout)
       /\ bucket' = [bucket EXCEPT !.used = @ \ {j}]
       /\ writer' = [NoWriter EXCEPT !.pc = "trim", !.slot = j]
  /\ Enter(d, Never)
  /\ UNCHANGED <<old, now, look, raced>>
  /\ Witness

\* Mutant of DelTrim: the last slot is moved into the hole.
DelTrimInPlace ==
  LET n == bucket
      j == writer.slot
      last == n.pos - 1 IN
  /\ writer.pc = "trim"
  /\ bucket' = [n EXCEPT !.pos = last,
                         !.used = IF last \in @ THEN (@ \ {last}) \cup {j} ELSE @,
                         !.slot[j] = n.slot[last]]
  /\ Finish
  /\ UNCHANGED <<old, now, look, member, raced, ops>>
  /\ Witness

\* Mutant of DelTrim: pos goes back whichever slot went.
DelTrimAlways ==
  /\ writer.pc = "trim"
  /\ bucket' = [bucket EXCEPT !.pos = @ - 1]
  /\ Finish
  /\ UNCHANGED <<old, now, look, member, raced, ops>>
  /\ Witness

\* The rest of mtype_del: pos goes back if the last slot went, an empty bucket
\* is given up, and one with many holes is replaced by a shorter one
\* unless there is no memory.
DelTrim ==
  LET n == [bucket EXCEPT !.pos = IF writer.slot + 1 = @ THEN writer.slot ELSE @] IN
  /\ writer.pc = "trim"
  /\ \/ n.pos = 0 /\ Publish(NoArray)
     \/ /\ n.pos # 0 /\ Cardinality(Holes(n)) >= InitSize
        /\ Publish(Compact(n, n.size - InitSize))
     \/ n.pos # 0 /\ bucket' = n /\ UNCHANGED old
  /\ Finish
  /\ UNCHANGED <<now, look, member, raced, ops>>
  /\ Witness

\* mtype_expire begins; one slot of it at a time.
Expire ==
  /\ Begin /\ bucket # NoArray
  /\ writer' = [NoWriter EXCEPT !.pc = "expire"]
  /\ UNCHANGED <<bucket, old, now, look, member, raced>>
  /\ Witness

ExpireSlot ==
  LET j == writer.slot IN
  /\ writer.pc = "expire" /\ j < bucket.pos
  /\ bucket' = IF j \in bucket.used /\ Lapsed(bucket.slot[j].timeout)
               THEN [bucket EXCEPT !.used = @ \ {j}] ELSE bucket
  /\ writer' = [writer EXCEPT !.slot = j + 1]
  /\ UNCHANGED <<old, now, look, member, raced, ops>>
  /\ Witness

ExpireEnd ==
  LET n == bucket
      holes == Cardinality(Holes(n)) IN
  /\ writer.pc = "expire" /\ writer.slot >= n.pos
  /\ \/ holes >= InitSize /\ holes >= n.size /\ Publish(NoArray)
     \/ holes >= InitSize /\ holes < n.size /\ Publish(Compact(n, n.size - InitSize))
     \/ (holes < InitSize \/ holes < n.size) /\ UNCHANGED <<bucket, old>>
  /\ Finish
  /\ UNCHANGED <<now, look, member, raced, ops>>
  /\ Witness

\* mtype_flush.
Flush ==
  /\ Begin /\ bucket # NoArray
  /\ Publish(NoArray)
  /\ member' = [d \in Domains |-> Never]
  /\ UNCHANGED <<writer, now, look, raced>>
  /\ Witness

\* The sizes an array grows through until it has room for c slots.
Rounded(c) == InitSize * ((c + InitSize - 1) \div InitSize)

\* mtype_resize: the slots in use are copied to the new table, which is
\* published as a whole.
Resize ==
  LET c == Cardinality(Live(bucket)) IN
  /\ Begin /\ bucket # NoArray
  /\ Publish(IF c = 0 THEN NoArray ELSE Compact(bucket, Rounded(c)))
  /\ UNCHANGED <<writer, now, look, member, raced>>
  /\ Witness

Writer ==
  \/ \E d \in Domains, t \in Timeouts :
       AddArray(d, t) \/ AddSlot(d, t) \/ \E exist \in BOOLEAN : AddAgain(d, t, exist)
  \/ \E h \in Halves : CopyHalf(h)
  \/ SetTimeout \/ SetUsed
  \/ \E d \in Domains : Del(d)
  \/ DelTrim
  \/ Expire \/ ExpireSlot \/ ExpireEnd
  \/ Flush \/ Resize

-----------------------------------------------------------------------------
(* The lookup                                                              *)

\* label_length = *domain: a char becomes an int.
LabelLength(byte) == IF SignedChar /\ byte > 127 THEN byte - 256 ELSE byte

Lengths(p) == [i \in DOMAIN p.label |-> LabelLength(p.label[i])]

\* total_length, the characters of the first k labels, each with its dot.  No
\* negative length is among them: strncpy does not come back from one.
Total(len, k) == Cardinality(UNION {{i} \X (0 .. len[i]) : i \in 1 .. k})

\* Mutant of TooLong: the dot behind the label is forgotten.
TooLongByDot(len, k) == Total(len, k - 1) + len[k] > MaxLen

\* The k-th label does not fit.  A negative length always does.
TooLong(len, k) == Total(len, k - 1) + len[k] >= MaxLen

\* The labels written before one that does not fit or has a negative length.
Taken(len) == {k \in DOMAIN len : \A i \in 1 .. k : len[i] > 0 /\ ~TooLong(len, i)}

\* A negative length comes to strncpy, which takes it for a size_t.
Overrun(len) ==
  \E k \in DOMAIN len : k = Cardinality(Taken(len)) + 1 /\ len[k] < 0 /\ ~TooLong(len, k)

\* The indexes of the buffer that are written: the labels with their dots; the
\* end of the name over the last dot, which is outside without a label; in an
\* overrun the rest of the buffer and MaxLen, which stands for all behind it.
Written(len) ==
  0 .. Total(len, Cardinality(Taken(len))) - 1
    \cup (IF Taken(len) = DOMAIN len THEN {Total(len, Len(len)) - 1} ELSE {})
    \cup (IF Overrun(len) THEN Total(len, Cardinality(Taken(len))) .. MaxLen ELSE {})

\* A step of the lookup, which disturbs nobody.
LookStep(l) ==
  /\ look' = l
  /\ UNCHANGED <<bucket, writer, now, member>>

\* The test of a suffix has ended, or none has begun: nothing is held.
Release(l) ==
  /\ LookStep(l)
  /\ old' = NoArray
  /\ ops' = 0
  /\ due' = Never /\ sometime' = FALSE /\ raced' = FALSE

\* The verdict.
Return(matched) == [NoLook EXCEPT !.matched = matched]

\* The next suffix is tested, or none matches.
NextSuffix(l) ==
  IF l.tested = Len(l.packet.suffix) THEN Return(FALSE)
  ELSE [l EXCEPT !.pc = "test", !.tested = @ + 1, !.slot = 0]

\* A packet arrives and its name is put together.  A packet with a name that
\* is too long does not match; one without a label tests the empty name,
\* which is none of Domains.  What an overrun does to the rest of the memory is
\* not modelled: the lookup ends.
Arrive(p) ==
  LET len == Lengths(p)
      name == [label |-> p.label, wrote |-> Written(len)]
      l == [NoLook EXCEPT !.packet = p, !.name = name] IN
  /\ look.pc = "off"
  /\ Release([IF Taken(len) = DOMAIN len THEN NextSuffix(l) ELSE Return(FALSE)
                EXCEPT !.name = name])

\* mtype_test reads the table and the bucket.  A resize between the two reads
\* changes nothing: the old table keeps its buckets.
ReadBucket ==
  /\ look.pc = "test"
  /\ \/ bucket = NoArray /\ Release(NextSuffix(look))
     \/ /\ bucket # NoArray /\ LookStep([look EXCEPT !.pc = "slot"])
        /\ due' = IF Tested \in Members THEN member[Tested] ELSE Never
        /\ sometime' = (Tested \in Members \cup {writer.domain})
        /\ UNCHANGED <<old, ops, raced>>

\* The array that the lookup holds.
Held == IF old = NoArray THEN bucket ELSE old

Slot == Held.slot[look.slot]

\* A step of the lookup within the test of a suffix.
Continue(l) ==
  /\ LookStep(l)
  /\ raced' = (raced /\ l.slot = look.slot)
  /\ UNCHANGED <<old, due, sometime, ops>>

\* On to the next slot.
Skip == [look EXCEPT !.pc = "slot", !.slot = @ + 1]

TestUsed ==
  /\ look.pc = "slot"
  /\ \/ look.slot >= Held.pos /\ Release(NextSuffix(look))
     \/ look.slot < Held.pos /\ look.slot \notin Held.used /\ Continue(Skip)
     \/ /\ look.slot < Held.pos /\ look.slot \in Held.used
        /\ Continue([look EXCEPT !.pc = "first"])

\* mtype_data_equal, one half after the other.
CompareHalf(h) ==
  /\ look.pc = <<"first", "second">>[h]
  /\ \/ Slot.half[h] # Tested[h] /\ Continue(Skip)
     \/ Slot.half[h] = Tested[h] /\ Continue([look EXCEPT !.pc = <<"second", "time">>[h]])

\* Mutant of MatchExtensions: the timeout is not looked at.
MatchAlways == look.pc = "time" /\ Release(Return(TRUE))

\* domain_set_match_extensions, without counters.
MatchExtensions ==
  /\ look.pc = "time"
  /\ \/ Lapsed(Slot.timeout) /\ Continue(Skip)
     \/ ~Lapsed(Slot.timeout) /\ Release(Return(TRUE))

Lookup ==
  \/ \E p \in Packets : Arrive(p)
  \/ ReadBucket \/ TestUsed
  \/ \E h \in Halves : CompareHalf(h)
  \/ MatchExtensions

\* jiffies.
Tick ==
  /\ now < MaxNow
  /\ now' = now + 1
  /\ UNCHANGED <<bucket, old, writer, look, member, raced, ops>>
  /\ Witness

Next == Writer \/ Lookup \/ Tick

Spec == Init /\ [][Next]_vars

-----------------------------------------------------------------------------
(* Properties                                                              *)

\* The step ends the test of a suffix without a match.
Misses == look.tested > 0 /\ look'.tested # look.tested /\ ~look'.matched

\* The step is a match.
Matches == look.tested > 0 /\ look'.matched

\* No false miss: mtype_test misses no domain that is in the set from the time
\* it reads the bucket to its end, although slots are reused, moved to other
\* arrays and given up while it looks at them.  A timeout that is renewed
\* meanwhile does not count: the lookup may hold the array with the old one.
NoFalseMiss ==
  [][Misses => IF Reading THEN due = Never \/ Lapsed(due) ELSE Tested \notin Members]_vars

\* mtype_test matches a domain that is in the set at no time while it runs only
\* when the very slot it had found in use was given to another domain
\* meanwhile.
FalseMatchOnlyByReuse == [][Matches => sometime \/ raced]_vars

\* hash_domain_kadt writes outside of the buffer of the name only for a packet
\* without any label, one byte before the buffer, and, where char is signed, for
\* one with a label whose length byte is above 127.
NameInBuffer ==
  \/ look.name.wrote \subseteq 0 .. MaxLen - 1
  \/ look.name.label = <<>> /\ look.name.wrote = {-1}
  \/ SignedChar /\ \E i \in DOMAIN look.name.label : look.name.label[i] > 127
=============================================================================

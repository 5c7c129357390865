---------------------------- MODULE DsetListing -----------------------------
(***************************************************************************)
(* The listing of all sets, from the hash tables of the kernel to the      *)
(* output of the dset program: domain_set_dump_start and mtype_list fill   *)
(* one message after another, bucket by bucket and slot by slot, and       *)
(* callback_list prints what it receives.  The lister holds no lock, only  *)
(* RCU: between any two of its reads elements are added and deleted, also  *)
(* in the array it is reading, tables are flushed and resized, and sets    *)
(* that are not being listed are created, destroyed and renamed.           *)
(*                                                                         *)
(* Nothing reads the elements of a set before its listing begins or after  *)
(* it has ended, and any can have been added or deleted at those times.  So *)
(* they are kept only of the set being listed, and chosen when its listing *)
(* begins; swapping two sets that are not being listed, which leaves the   *)
(* names with the indices, is no step of this module.                      *)
(*                                                                         *)
(* Slots matter only in the bucket that is being read.  Its array begins   *)
(* with the elements in any order and with any holes; mtype_add and        *)
(* mtype_del then edit it in place or replace it, and the lister keeps the *)
(* replaced one.  The used bit of a slot and the element in it are two     *)
(* reads, and the copy into the message is not atomic: if mtype_add writes *)
(* the slot after the test of its bit, some mixture is copied.  It is      *)
(* Garbled whatever its text is, be it that of some element.               *)
(* Sets have no timeouts and no forceadd.                                  *)
(*                                                                         *)
(* A bucket that does not fit into an empty message ("We assume that one   *)
(* hash bucket fills into one page") ends the listing.                     *)
(* Only the sequence of sections and elements that is printed is modelled, *)
(* with the end of a section (</dset> in XML) but without its wording.     *)
(***************************************************************************)
EXTENDS Naturals, Sequences, FiniteSets, SequencesExt

CONSTANTS
  Names,    \* set names
  Elems,    \* elements, numbers that stand for their hash values
  MaxIndex, \* inst->domain_set_max
  MaxElems, \* bound on the elements of the sets behind an index
  MinBits,  \* no table has fewer bits
  MaxBits,  \* no table has more bits
  HeadMax,  \* number of elements that fit into a message with the header of a set
  MsgMax,   \* number of elements that fit into any other message
  InitSize, \* AHASH_INIT_SIZE
  MaxHoles, \* bound on the holes of an array when its bucket is read
  Hole,     \* what a slot holds that is not in use
  Garbled,  \* whatever is copied from a slot while it is written
  NoSet, NoMsg, NoBucket, NoName

\* What a message can hold.
Words == Elems \cup {Garbled}

\* The number of buckets of a table.
jhash_size(b) == 2 ^ b

MsgType == [name : Names, header : BOOLEAN, elems : Seq(Words)]

BucketType ==
  [array : Seq(Elems \cup {Hole}), slot : Nat \ {0}, found : Words \cup {Hole},
   current : BOOLEAN, trim : Nat]

\* NoSet, NoMsg and NoBucket are no sets, messages and buckets, so that a test
\* against them is the test for NULL of the code.  The conjunct on the powers of two is
\* arithmetic which the provers do not know.
ASSUME ListingAssumption ==
  /\ Elems \subseteq Nat /\ IsFiniteSet(Elems)
  /\ Garbled \in Nat /\ Garbled \notin Elems /\ Hole \notin Words
  /\ MaxIndex \in Nat /\ MsgMax \in Nat \ {0} /\ HeadMax \in 0 .. MsgMax
  /\ MaxElems \in [0 .. MaxIndex - 1 -> Nat] /\ InitSize \in Nat \ {0} /\ MaxHoles \in Nat
  /\ MinBits \in Nat /\ MaxBits \in Nat /\ MinBits <= MaxBits
  /\ \A b \in MinBits .. MaxBits : jhash_size(b) \in 1 .. jhash_size(MaxBits)
  /\ jhash_size(MaxBits) \in Nat
  /\ NoName \notin Names /\ NoSet \notin Names /\ NoMsg \notin MsgType
  /\ NoBucket \notin BucketType

VARIABLES
  set,     \* the names of the sets behind the indices
  dump,    \* the netlink_callback of the listing, and the elements of the set
           \* being listed
  bucket,  \* the bucket that mtype_list is reading: the array, the slot, the
           \* element found in use there but not yet copied, whether the array is
           \* still the one in the table, and the length of the message before
  msg,     \* the message under construction or on its way
  session, \* struct dset_session
  out,     \* what was printed, as a sequence of sections
  present  \* history: see Witness

vars == <<set, dump, bucket, msg, session, out, present>>

-----------------------------------------------------------------------------
Indices == 0 .. MaxIndex - 1

Key(e, bits) == e % jhash_size(bits)

Bucket(S, bits, k) == {e \in S : Key(e, bits) = k}

\* The set at index i is being listed: it has a netlink reference, and the
\* listing holds a table of it.
Held(i) == dump.held /\ dump.index = i

\* Every variable has its type.
TypeOK ==
  /\ set \in [Indices -> {NoSet} \cup Names]
  /\ dump \in [pc : {"scan", "list", "cut"}, index : 0 .. MaxIndex, held : BOOLEAN,
               first : 0 .. jhash_size(MaxBits), arg0 : 0 .. jhash_size(MaxBits),
               bits : MinBits .. MaxBits, table : SUBSET Elems, elems : SUBSET Elems,
               moved : BOOLEAN]
  /\ bucket # NoBucket => bucket \in BucketType
  /\ msg # NoMsg =>
       msg \in MsgType /\ Len(msg.elems) <= IF msg.header THEN HeadMax ELSE MsgMax
  /\ session \in [status : {"run", "done", "error"}, saved_setname : Names \cup {NoName},
                  sort : BOOLEAN, sorted : Seq(Words)]
  /\ out \in Seq([name : Names, elems : Seq(Words), closed : BOOLEAN])
  /\ present \in Seq([name : Names, always : SUBSET Elems, ever : SUBSET Elems])

\* The netlink_callback at index i, without a set and a table.
DumpAt(i) == [pc |-> "scan", index |-> i, held |-> FALSE, first |-> 0, arg0 |-> 0,
              bits |-> MinBits, table |-> {}, elems |-> {}, moved |-> FALSE]

Init ==
  /\ set \in {f \in [Indices -> Names] : IsInjective(f)}
  /\ dump = DumpAt(0)
  /\ bucket = NoBucket
  /\ msg = NoMsg
  /\ \E s \in BOOLEAN : session = [status |-> "run", saved_setname |-> NoName,
                                  sort |-> s, sorted |-> <<>>]
  /\ out = <<>>
  /\ present = <<>>

-----------------------------------------------------------------------------
(* What other programs and the kernel do meanwhile.                        *)

\* The history of the set being listed: the elements that have been in it
\* since its listing began, and those that have been in it at some time.
With(p, S) == [name |-> p.name, always |-> p.always \cap S, ever |-> p.ever \cup S]

\* The first slot that is not in use, or the one at n->pos.
FreeSlot(a) ==
  CHOOSE j \in 1 .. Len(a) + 1 :
    /\ j = Len(a) + 1 \/ a[j] = Hole
    /\ \A k \in 1 .. j - 1 : a[k] # Hole

Holes(a) == {j \in DOMAIN a : a[j] = Hole}

\* A change of bucket k of the table is one of the bucket being read.
Touches(k) ==
  ~dump.moved /\ bucket # NoBucket /\ bucket.current /\ k = dump.arg0

\* The elements of the set being listed change to S.  The listing sees it if its
\* table is still that of the set.
Change(S) ==
  /\ dump.held
  /\ dump' = [dump EXCEPT !.elems = S, !.table = IF dump.moved THEN dump.table ELSE S]
  /\ present' = [present EXCEPT ![Len(present)] = With(present[Len(present)], S)]
  /\ UNCHANGED <<set, msg, session, out>>

\* The array a with e in slot j, which may be the one behind the last.
Put(a, j, e) == IF j = Len(a) + 1 THEN Append(a, e) ELSE [a EXCEPT ![j] = e]

\* mtype_add writes the array being read.  If the lister has found the slot in
\* use and has not copied it yet, it copies what is written.
AddInPlace(e) ==
  LET j == FreeSlot(bucket.array) IN
  bucket' = [bucket EXCEPT !.array = Put(bucket.array, j, e),
               !.found = IF bucket.found # Hole /\ j = bucket.slot
                         THEN Garbled ELSE bucket.found]

\* mtype_add: an array without holes and without room behind pos is replaced by
\* a larger one.  (When it is as large as can be, Resize comes first.)
Add(e) ==
  LET touches == Touches(Key(e, dump.bits)) IN
  /\ dump.held /\ e \notin dump.elems
  /\ Cardinality(dump.elems) < MaxElems[dump.index]
  /\ Change(dump.elems \cup {e})
  /\ \/ ~touches /\ UNCHANGED bucket
     \/ touches /\ AddInPlace(e)
     \/ /\ touches /\ Holes(bucket.array) = {}
        /\ bucket' = [bucket EXCEPT !.current = FALSE]

\* The array a without the used bit of e; pos goes back if it was the last slot.
Cleared(a, e) ==
  LET j == CHOOSE k \in DOMAIN a : a[k] = e IN
  IF j = Len(a) THEN SubSeq(a, 1, j - 1) ELSE [a EXCEPT ![j] = Hole]

\* mtype_del: an empty array is given up, and one with many holes is replaced by
\* a shorter one unless there is no memory.
Del(e) ==
  LET touches == Touches(Key(e, dump.bits))
      a == Cleared(bucket.array, e) IN
  /\ e \in dump.elems /\ Change(dump.elems \ {e})
  /\ \/ ~touches /\ UNCHANGED bucket
     \/ touches /\ a # <<>> /\ bucket' = [bucket EXCEPT !.array = a]
     \/ /\ touches /\ (a = <<>> \/ Cardinality(Holes(a)) >= InitSize)
        /\ bucket' = [bucket EXCEPT !.array = a, !.current = FALSE]

\* mtype_flush, one bucket after the other because the lister may look in
\* between: the arrays are given up as they are.
Flush(k) ==
  /\ Change(dump.elems \ Bucket(dump.elems, dump.bits, k))
  /\ \/ ~Touches(k) /\ UNCHANGED bucket
     \/ Touches(k) /\ bucket' = [bucket EXCEPT !.current = FALSE]

\* Mutant of Resize: the listing follows the set to the new table.
ResizeUnderDump ==
  /\ dump.held /\ ~dump.moved /\ dump.bits < MaxBits
  /\ dump' = [dump EXCEPT !.bits = dump.bits + 1]
  /\ UNCHANGED <<set, bucket, msg, session, out, present>>

\* mtype_resize: the set moves to a table of twice the size; the listing keeps
\* the old one, which nobody changes any more.
Resize ==
  /\ dump.held /\ ~dump.moved /\ dump.bits < MaxBits
  /\ dump' = [dump EXCEPT !.moved = TRUE]
  /\ UNCHANGED <<set, bucket, msg, session, out, present>>

\* Nobody bears the name.
FreeName(n) == n \notin Range(set)

\* domain_set_create takes the first free index.
Create(i, n) ==
  /\ set[i] = NoSet /\ FreeName(n)
  /\ \A j \in 0 .. i - 1 : set[j] # NoSet
  /\ set' = [set EXCEPT ![i] = n]
  /\ UNCHANGED <<dump, bucket, msg, session, out, present>>

Destroy(i) ==
  /\ set[i] # NoSet /\ ~Held(i)
  /\ set' = [set EXCEPT ![i] = NoSet]
  /\ UNCHANGED <<dump, bucket, msg, session, out, present>>

Rename(i, n) ==
  /\ set[i] # NoSet /\ ~Held(i) /\ FreeName(n)
  /\ set' = [set EXCEPT ![i] = n]
  /\ UNCHANGED <<dump, bucket, msg, session, out, present>>

-----------------------------------------------------------------------------
(* domain_set_dump_start and mtype_list                                    *)

\* Mutant of DumpSkip: continue without the increment.
DumpSkipStays ==
  /\ dump.pc = "scan" /\ msg = NoMsg /\ dump.index < MaxIndex
  /\ set[dump.index] = NoSet
  /\ UNCHANGED vars

\* There is no set behind the index.
DumpSkip ==
  /\ dump.pc = "scan" /\ msg = NoMsg /\ dump.index < MaxIndex
  /\ set[dump.index] = NoSet
  /\ dump' = [dump EXCEPT !.index = @ + 1]
  /\ UNCHANGED <<set, bucket, msg, session, out, present>>

\* Mutant of StartMsg: every message has a header.
StartMsgHeader(n) == [name |-> n, header |-> TRUE, elems |-> <<>>]

\* start_msg and the attributes before the elements: the first message of a
\* set has the header.
StartMsg(n) == [name |-> n, header |-> dump.arg0 = 0, elems |-> <<>>]

\* A message starts.  The first one of a set takes the reference and
\* holds the table (mtype_uref).
DumpHead ==
  /\ dump.pc = "scan" /\ msg = NoMsg /\ dump.index < MaxIndex
  /\ set[dump.index] # NoSet
  /\ msg' = StartMsg(set[dump.index])
  /\ \/ \E S \in SUBSET Elems, b \in MinBits .. MaxBits :
          /\ dump.arg0 = 0 /\ Cardinality(S) <= MaxElems[dump.index]
          /\ dump' = [DumpAt(dump.index) EXCEPT !.pc = "list", !.held = TRUE,
                        !.bits = b, !.table = S, !.elems = S]
          /\ present' = Append(present,
                          [name |-> set[dump.index], always |-> S, ever |-> S])
     \/ /\ dump.arg0 # 0
        /\ dump' = [dump EXCEPT !.pc = "list", !.first = dump.arg0]
        /\ UNCHANGED present
  /\ UNCHANGED <<set, bucket, session, out>>

\* The elements of the next bucket.
NextBucket == Bucket(dump.table, dump.bits, dump.arg0)

\* The arrays of the elements of S with h holes.
Arrays(S, h) ==
  {a \in [1 .. Cardinality(S) + h -> S \cup {Hole}] :
     /\ S \subseteq Range(a)
     /\ \A j, k \in DOMAIN a : a[j] = a[k] => j = k \/ a[j] = Hole}

\* n = rcu_dereference(hbucket(t, cb->args[DSET_CB_ARG0])); no bucket is as one
\* without slots.
ReadBucket ==
  /\ dump.pc = "list" /\ bucket = NoBucket /\ dump.arg0 < jhash_size(dump.bits)
  /\ \E h \in 0 .. MaxHoles : \E a \in Arrays(NextBucket, h) :
       bucket' = [array |-> a, slot |-> 1, found |-> Hole, current |-> TRUE,
                  trim |-> Len(msg.elems)]
  /\ UNCHANGED <<set, dump, msg, session, out, present>>

\* test_bit(i, n->used)
TestSlot ==
  /\ bucket # NoBucket /\ bucket.found = Hole /\ bucket.slot <= Len(bucket.array)
  /\ bucket' = IF bucket.array[bucket.slot] = Hole
               THEN [bucket EXCEPT !.slot = bucket.slot + 1]
               ELSE [bucket EXCEPT !.found = bucket.array[bucket.slot]]
  /\ UNCHANGED <<set, dump, msg, session, out, present>>

\* Mutant of Fits: the test comes one element too late.
FitsOneMore == Len(msg.elems) <= IF msg.header THEN HeadMax ELSE MsgMax

\* There is room for one more element in the message.
Fits == Len(msg.elems) < IF msg.header THEN HeadMax ELSE MsgMax

\* What mtype_data_list may copy: the element that was found, or a mixture when
\* its slot is the one that mtype_add may be writing to.
Copied ==
  {bucket.found} \cup
    {g \in {Garbled} :
       ~dump.moved /\ bucket.current /\ FreeSlot(bucket.array) = bucket.slot}

\* An element is put into the message.
CopySlot ==
  /\ bucket # NoBucket /\ bucket.found # Hole /\ Fits
  /\ \E e \in Copied : msg' = [msg EXCEPT !.elems = Append(msg.elems, e)]
  /\ bucket' = [bucket EXCEPT !.slot = bucket.slot + 1, !.found = Hole]
  /\ UNCHANGED <<set, dump, session, out, present>>

\* i = n->pos: on to the next bucket.
EndBucket ==
  /\ bucket # NoBucket /\ bucket.found = Hole /\ bucket.slot > Len(bucket.array)
  /\ dump' = [dump EXCEPT !.arg0 = dump.arg0 + 1]
  /\ bucket' = NoBucket
  /\ UNCHANGED <<set, msg, session, out, present>>

\* There is no room for an element: nlmsg_trim takes back what is in the message
\* of its bucket.
Trim ==
  /\ bucket # NoBucket /\ bucket.found # Hole /\ ~Fits
  /\ msg' = [msg EXCEPT !.elems = SubSeq(msg.elems, 1, bucket.trim)]
  /\ bucket' = NoBucket
  /\ UNCHANGED <<set, session, out, present>>

\* The next message begins with the bucket.
MsgFull ==
  /\ Trim /\ dump.arg0 # dump.first
  /\ dump' = [dump EXCEPT !.pc = "scan", !.first = 0]

\* Not even an empty message has room for the bucket: -EMSGSIZE.  The message
\* goes out with what was in it before the elements, the set is released, and
\* netlink ends the dump with the error in NLMSG_DONE.
MsgTooSmall ==
  /\ Trim /\ dump.arg0 = dump.first
  /\ dump' = [DumpAt(MaxIndex) EXCEPT !.pc = "cut"]

\* Set listing finished: next_set, release_refcount, and mtype_uref lets the
\* table go.
SetListed ==
  /\ dump.pc = "list" /\ bucket = NoBucket /\ dump.arg0 = jhash_size(dump.bits)
  /\ dump' = DumpAt(dump.index + 1)
  /\ UNCHANGED <<set, bucket, msg, session, out, present>>

-----------------------------------------------------------------------------
(* The callbacks of the session.                                           *)

\* merge: "if equal, take 'a'".
Merge(a, b) ==
  LET rest[i \in 0 .. Len(a), j \in 0 .. Len(b)] ==
        IF i = Len(a) THEN SubSeq(b, j + 1, Len(b))
        ELSE IF j = Len(b) THEN SubSeq(a, i + 1, Len(a))
        ELSE IF a[i + 1] <= b[j + 1] THEN <<a[i + 1]>> \o rest[i + 1, j]
        ELSE <<b[j + 1]>> \o rest[i, j + 1]
  IN rest[0, 0]

\* The next element e of the list: it takes the first empty place of part[],
\* merged with the lists in the places before.
Place(part, e) ==
  LET lev == CHOOSE k \in 1 .. Len(part) + 1 :
               /\ k = Len(part) + 1 \/ part[k] = <<>>
               /\ \A j \in 1 .. k - 1 : part[j] # <<>>
      cur == FoldLeft(LAMBDA c, p : Merge(p, c), <<e>>, SubSeq(part, 1, lev - 1))
  IN [k \in 1 .. Len(part) + (IF lev > Len(part) THEN 1 ELSE 0) |->
        IF k < lev THEN <<>> ELSE IF k = lev THEN cur ELSE part[k]]

\* list_sort; part[] is never full.
ListSort(s) ==
  FoldLeft(LAMBDA list, p : Merge(p, list), <<>>, FoldLeft(Place, <<>>, s))

\* What list_sort with bystrcmp returns, the same elements in ascending order
\* (MCListing compares the two).
Ascending(s) ==
  CHOOSE t \in {[i \in DOMAIN s |-> s[p[i]]] : p \in Bijection(DOMAIN s, DOMAIN s)} :
    \A i, j \in DOMAIN t : i < j => t[i] <= t[j]

\* print_set_done: the elements of a sorted listing are printed, and the
\* section is closed if there is one.
Closed(section, s) ==
  [name |-> section.name, elems |-> section.elems \o Ascending(s), closed |-> TRUE]

PrintSetDone(sections, s) ==
  IF sections = <<>> THEN sections
  ELSE [sections EXCEPT ![Len(sections)] = Closed(sections[Len(sections)], s)]

\* Mutant of ListCreate: a new section does not close the one before.
ListCreateOpen(n) == Append(out, [name |-> n, elems |-> <<>>, closed |-> FALSE])

\* The previous set is closed and list_create prints the header of set n.
ListCreate(n) ==
  Append(PrintSetDone(out, session.sorted),
         [name |-> n, elems |-> <<>>, closed |-> FALSE])

\* list_adt for every element of the message: printed, or kept to be sorted.
ListAdt(sections, pending) ==
  IF session.sort
  THEN /\ out' = sections
       /\ session' = [session EXCEPT !.saved_setname = msg.name,
                                     !.sorted = pending \o msg.elems]
  ELSE /\ out' = [sections EXCEPT ![Len(sections)].elems = @ \o msg.elems]
       /\ session' = [session EXCEPT !.saved_setname = msg.name]

\* A message has arrived.
Received == dump.pc # "list" /\ msg # NoMsg /\ session.status = "run"

\* callback_list with a header: a new set.
CallbackHeader ==
  /\ Received /\ msg.header /\ msg.name # session.saved_setname
  /\ msg' = NoMsg
  /\ ListAdt(ListCreate(msg.name), <<>>)
  /\ UNCHANGED <<set, dump, bucket, present>>

\* callback_list without a header: more elements of the same set.
CallbackMore ==
  /\ Received /\ ~msg.header /\ msg.name = session.saved_setname
  /\ msg' = NoMsg
  /\ ListAdt(out, session.sorted)
  /\ UNCHANGED <<set, dump, bucket, present>>

\* callback_list: "extra DATA received" or "missing DATA part".
CallbackBroken ==
  /\ Received /\ msg.header = (msg.name = session.saved_setname)
  /\ session' = [session EXCEPT !.status = "error"]
  /\ msg' = NoMsg
  /\ UNCHANGED <<set, dump, bucket, out, present>>

\* NLMSG_DONE after the last set or after an error: callback_done does not
\* look at the code in it.
CallbackDone ==
  /\ dump.pc # "list" /\ msg = NoMsg /\ dump.index = MaxIndex
  /\ session.status = "run"
  /\ session' = [session EXCEPT !.status = "done", !.sorted = <<>>]
  /\ out' = PrintSetDone(out, session.sorted)
  /\ UNCHANGED <<set, dump, bucket, msg, present>>

-----------------------------------------------------------------------------
\* What the others do to the set being listed, and to the sets.
Others ==
  \/ \E e \in Elems : Add(e) \/ Del(e)
  \/ \E k \in 0 .. jhash_size(dump.bits) - 1 : Flush(k)
  \/ Resize
  \/ \E i \in Indices : Destroy(i) \/ \E n \in Names : Create(i, n) \/ Rename(i, n)

Listing ==
  /\ session.status = "run"
  /\ \/ DumpSkip \/ DumpHead
     \/ ReadBucket \/ TestSlot \/ CopySlot \/ EndBucket \/ MsgFull \/ MsgTooSmall \/ SetListed
     \/ CallbackHeader \/ CallbackMore \/ CallbackBroken \/ CallbackDone

Next ==
  \/ Listing
  \/ session.status = "run" /\ Others

\* The listing runs on in the kernel and the program; the commands of the other
\* programs may come for ever.
Spec == Init /\ [][Next]_vars /\ WF_vars(Listing)

-----------------------------------------------------------------------------
(* Properties.                                                             *)

Times(s, e) == Cardinality({i \in DOMAIN s : s[i] = e})

\* A finished listing has one section for each set that it met, in which every
\* element that was in the set all the time is printed exactly once, although
\* slots are read one by one while elements come and go in the same array and
\* the table is replaced.  Elements that were there only for a part of the time
\* may be printed any number of times; a word that never was in the set is
\* printed only when the set changed while it was listed.  Only of the last
\* section can elements be missing, when a bucket was too large for a message.
ListingExact ==
  session.status = "done" =>
    /\ Len(out) = Len(present)
    /\ \A k \in DOMAIN out :
         /\ out[k].name = present[k].name
         /\ \A e \in present[k].always : Times(out[k].elems, e) <= 1
         /\ \A i \in DOMAIN out[k].elems :
              \/ out[k].elems[i] \in present[k].ever
              \/ out[k].elems[i] = Garbled /\ present[k].always # present[k].ever
         /\ k < Len(out) \/ dump.pc # "cut" =>
              \A e \in present[k].always : Times(out[k].elems, e) = 1

\* The output is well-formed: only the last section is open, and none at the
\* end; with -sorted the elements of a closed section are in order.
OutputWellFormed ==
  /\ \A k \in DOMAIN out : k < Len(out) \/ session.status = "done" => out[k].closed
  /\ session.sort =>
       \A k \in DOMAIN out : \A i, j \in DOMAIN out[k].elems :
         i < j => out[k].elems[i] <= out[k].elems[j]

\* The program calls a message of the kernel broken only when two sets bore the
\* same name one after the other while the listing went on.
BrokenOnlyByRename ==
  session.status = "error" =>
    \E k, l \in DOMAIN present : k # l /\ present[k].name = present[l].name

\* Every listing ends, whatever the other programs do meanwhile.
ListingEnds == <>(session.status # "run")
=============================================================================

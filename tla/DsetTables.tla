------------------------------ MODULE DsetTables ------------------------------
(***************************************************************************)
(* The life of the hash tables of one set: which tables exist while a      *)
(* resize (mtype_resize), listings (mtype_uref, mtype_list) and packets    *)
(* (mtype_test) run in parallel.  The contents of the tables are those of  *)
(* DsetHash; here an element is only the pointer to its comment, which a   *)
(* resize copies from the old table to the new one.                        *)
(*                                                                         *)
(* Resizes are serialized by the nfnl mutex.  They read and write the      *)
(* table under set->lock; a listing takes neither that mutex nor the lock, *)
(* so each of its atomic operations is a step.  RCU is modelled by what it *)
(* promises: a grace period ends when the read sections that were open at  *)
(* its start have ended.                                                   *)
(***************************************************************************)
EXTENDS Naturals, FiniteSets

CONSTANTS
  Tables,    \* htables; their number bounds the resizes
  FirstTable,
  NoTable,
  Readers,   \* packets
  Dumpers,   \* listings
  Elems      \* elements with a comment

ASSUME TablesAssumption ==
  /\ FirstTable \in Tables /\ NoTable \notin Tables /\ Readers \cap Dumpers = {}
  /\ IsFiniteSet(Dumpers)

VARIABLES
  table,     \* h->table
  mem,       \* of each htable: "unused", "live" or "freed"
  ref, uref, \* t->ref, t->uref
  content,   \* the elements whose comment pointer lies in each table
  comment,   \* of each element's comment: "live", "retired" or "freed"
  grace,     \* the readers that the kfree_rcu of a comment waits for
  resize,    \* the resize in progress
  reader,    \* the table that each packet has dereferenced
  dump       \* the listings

tablevars == <<table, mem, ref, uref, content, comment, grace, resize, reader, dump>>

NoResize == [pc |-> "idle", orig |-> NoTable, new |-> NoTable, waits |-> {}]

NoDump == [pc |-> "idle", table |-> NoTable, reads |-> {}]

Init ==
  /\ table = FirstTable
  /\ mem = [t \in Tables |-> IF t = FirstTable THEN "live" ELSE "unused"]
  /\ ref = [t \in Tables |-> 0]
  /\ uref = [t \in Tables |-> 0]
  /\ content = [t \in Tables |-> IF t = FirstTable THEN Elems ELSE {}]
  /\ comment = [e \in Elems |-> "live"]
  /\ grace = [e \in Elems |-> {}]
  /\ resize = NoResize
  /\ reader = [r \in Readers |-> NoTable]
  /\ dump = [d \in Dumpers |-> NoDump]

\* Those inside an RCU read section.
InRcu ==
  {r \in Readers : reader[r] # NoTable} \cup {d \in Dumpers : dump[d].pc \in {"start", "list"}}

\* Whoever leaves a read section is no longer waited for.
Leave(x) ==
  /\ grace' = [e \in Elems |-> grace[e] \ {x}]
  /\ resize' = [resize EXCEPT !.waits = @ \ {x}]

\* set->lock is held by the resize.
Locked == resize.pc \in {"ref", "copy", "fail"}

-----------------------------------------------------------------------------
(* mtype_resize                                                            *)

ResizeAlloc(t) ==
  /\ resize.pc = "idle" /\ mem[t] = "unused"
  /\ mem' = [mem EXCEPT ![t] = "live"]
  /\ resize' = [NoResize EXCEPT !.pc = "alloc", !.new = t]
  /\ UNCHANGED <<table, ref, uref, content, comment, grace, reader, dump>>

\* spin_lock_bh and atomic_set(&orig->ref, 1).
ResizeRef ==
  /\ resize.pc = "alloc"
  /\ ref' = [ref EXCEPT ![table] = 1]
  /\ resize' = [resize EXCEPT !.pc = "ref", !.orig = table]
  /\ UNCHANGED <<table, mem, uref, content, comment, grace, reader, dump>>

ResizeUref ==
  /\ resize.pc = "ref"
  /\ uref' = [uref EXCEPT ![resize.orig] = @ + 1]
  /\ resize' = [resize EXCEPT !.pc = "copy"]
  /\ UNCHANGED <<table, mem, ref, content, comment, grace, reader, dump>>

\* All elements are copied with their comment pointers, the new table is
\* published, the lock is released and synchronize_rcu_bh begins.
ResizeCopy ==
  /\ resize.pc = "copy"
  /\ content' = [content EXCEPT ![resize.new] = content[resize.orig]]
  /\ table' = resize.new
  /\ resize' = [resize EXCEPT !.pc = "sync", !.waits = InRcu]
  /\ UNCHANGED <<mem, ref, uref, comment, grace, reader, dump>>

\* A bucket cannot be allocated or is too small: cleanup.
ResizeFail ==
  /\ resize.pc = "copy"
  /\ ref' = [ref EXCEPT ![resize.orig] = 0]
  /\ resize' = [resize EXCEPT !.pc = "fail"]
  /\ UNCHANGED <<table, mem, uref, content, comment, grace, reader, dump>>

ResizeCleanup ==
  /\ resize.pc = "fail"
  /\ uref' = [uref EXCEPT ![resize.orig] = @ - 1]
  /\ mem' = [mem EXCEPT ![resize.new] = "freed"]
  /\ resize' = NoResize
  /\ UNCHANGED <<table, ref, content, comment, grace, reader, dump>>

\* A mutant: the grace period is not waited for.
ResizePutEarly ==
  /\ resize.pc = "sync"
  /\ uref' = [uref EXCEPT ![resize.orig] = @ - 1]
  /\ mem' = [mem EXCEPT ![resize.orig] = IF uref[resize.orig] = 1 THEN "freed" ELSE @]
  /\ resize' = NoResize
  /\ UNCHANGED <<table, ref, content, comment, grace, reader, dump>>

\* The grace period is over: atomic_dec_and_test(&orig->uref).
ResizePut ==
  /\ resize.pc = "sync" /\ resize.waits = {}
  /\ uref' = [uref EXCEPT ![resize.orig] = @ - 1]
  /\ mem' = [mem EXCEPT ![resize.orig] = IF uref[resize.orig] = 1 THEN "freed" ELSE @]
  /\ resize' = NoResize
  /\ UNCHANGED <<table, ref, content, comment, grace, reader, dump>>

-----------------------------------------------------------------------------
(* Packets, and commands or the garbage collector that remove an element.  *)

\* rcu_dereference_bh(h->table), and the end of the lookup.
ReaderEnter(r) ==
  /\ reader[r] = NoTable
  /\ reader' = [reader EXCEPT ![r] = table]
  /\ UNCHANGED <<table, mem, ref, uref, content, comment, grace, resize, dump>>

ReaderLeave(r) ==
  /\ reader[r] # NoTable
  /\ reader' = [reader EXCEPT ![r] = NoTable]
  /\ Leave(r)
  /\ UNCHANGED <<table, mem, ref, uref, content, comment, dump>>

\* The element leaves the current table and its comment goes to kfree_rcu.
Drop(e) ==
  /\ ~Locked
  /\ e \in content[table]
  /\ content' = [content EXCEPT ![table] = @ \ {e}]
  /\ comment' = [comment EXCEPT ![e] = "retired"]
  /\ grace' = [grace EXCEPT ![e] = InRcu]
  /\ UNCHANGED <<table, mem, ref, uref, resize, reader, dump>>

\* A mutant: kfree instead of kfree_rcu.
CommentFreeAtOnce(e) ==
  /\ comment[e] = "retired"
  /\ comment' = [comment EXCEPT ![e] = "freed"]
  /\ UNCHANGED <<table, mem, ref, uref, content, grace, resize, reader, dump>>

\* The grace period of a comment ends.
CommentFree(e) ==
  /\ comment[e] = "retired" /\ grace[e] = {}
  /\ comment' = [comment EXCEPT ![e] = "freed"]
  /\ UNCHANGED <<table, mem, ref, uref, content, grace, resize, reader, dump>>

-----------------------------------------------------------------------------
(* Listings: mtype_uref at their start and end, mtype_list for a message.  *)

DumpStart(d) ==
  /\ dump[d].pc = "idle"
  /\ dump' = [dump EXCEPT ![d] = [NoDump EXCEPT !.pc = "start", !.table = table]]
  /\ UNCHANGED <<table, mem, ref, uref, content, comment, grace, resize, reader>>

\* A mutant: the table is remembered without a reference.
DumpHoldOnly(d) ==
  /\ dump[d].pc = "start"
  /\ dump' = [dump EXCEPT ![d].pc = "held"]
  /\ Leave(d)
  /\ UNCHANGED <<table, mem, ref, uref, content, comment, reader>>

\* atomic_inc(&t->uref) and rcu_read_unlock_bh.
DumpHold(d) ==
  /\ dump[d].pc = "start"
  /\ uref' = [uref EXCEPT ![dump[d].table] = @ + 1]
  /\ dump' = [dump EXCEPT ![d].pc = "held"]
  /\ Leave(d)
  /\ UNCHANGED <<table, mem, ref, content, comment, reader>>

\* One message: what mtype_list may read until rcu_read_unlock.
DumpList(d) ==
  /\ dump[d].pc = "held"
  /\ dump' = [dump EXCEPT ![d] = [@ EXCEPT !.pc = "list", !.reads = content[dump[d].table]]]
  /\ UNCHANGED <<table, mem, ref, uref, content, comment, grace, resize, reader>>

DumpMessage(d) ==
  /\ dump[d].pc = "list"
  /\ dump' = [dump EXCEPT ![d] = [@ EXCEPT !.pc = "held", !.reads = {}]]
  /\ Leave(d)
  /\ UNCHANGED <<table, mem, ref, uref, content, comment, reader>>

\* atomic_dec_and_test(&t->uref) at the end of the listing.
DumpRelease(d) ==
  /\ dump[d].pc = "held"
  /\ uref' = [uref EXCEPT ![dump[d].table] = @ - 1]
  /\ dump' = [dump EXCEPT ![d] =
                IF uref[@.table] = 1 THEN [@ EXCEPT !.pc = "check"] ELSE NoDump]
  /\ UNCHANGED <<table, mem, ref, content, comment, grace, resize, reader>>

\* A mutant: the old table is left to the resize.
DumpCheckOnly(d) ==
  /\ dump[d].pc = "check"
  /\ dump' = [dump EXCEPT ![d] = NoDump]
  /\ UNCHANGED <<table, mem, ref, uref, content, comment, grace, resize, reader>>

\* atomic_read(&t->ref): the last listing of a table that was resized.
DumpCheck(d) ==
  /\ dump[d].pc = "check"
  /\ mem' = [mem EXCEPT ![dump[d].table] = IF ref[dump[d].table] = 1 THEN "freed" ELSE @]
  /\ dump' = [dump EXCEPT ![d] = NoDump]
  /\ UNCHANGED <<table, ref, uref, content, comment, grace, resize, reader>>

-----------------------------------------------------------------------------
Next ==
  \/ \E t \in Tables : ResizeAlloc(t)
  \/ ResizeRef \/ ResizeUref \/ ResizeCopy \/ ResizeFail \/ ResizeCleanup \/ ResizePut
  \/ \E r \in Readers : ReaderEnter(r) \/ ReaderLeave(r)
  \/ \E e \in Elems : Drop(e) \/ CommentFree(e)
  \/ \E d \in Dumpers :
       \/ DumpStart(d) \/ DumpHold(d) \/ DumpList(d) \/ DumpMessage(d)
       \/ DumpRelease(d) \/ DumpCheck(d)

Spec == Init /\ [][Next]_tablevars

-----------------------------------------------------------------------------
(* Properties                                                              *)

\* Every variable has its type: no uref is dropped that was not taken.
TypeOK ==
  /\ table \in Tables
  /\ mem \in [Tables -> {"unused", "live", "freed"}]
  /\ ref \in [Tables -> {0, 1}]
  /\ uref \in [Tables -> Nat]
  /\ content \in [Tables -> SUBSET Elems]
  /\ comment \in [Elems -> {"live", "retired", "freed"}]
  /\ grace \in [Elems -> SUBSET (Readers \cup Dumpers)]
  /\ resize \in [pc : {"idle", "alloc", "ref", "copy", "fail", "sync"},
                 orig : Tables \cup {NoTable}, new : Tables \cup {NoTable},
                 waits : SUBSET (Readers \cup Dumpers)]
  /\ reader \in [Readers -> Tables \cup {NoTable}]
  /\ dump \in [Dumpers -> [pc : {"idle", "start", "held", "list", "check"},
                           table : Tables \cup {NoTable}, reads : SUBSET Elems]]

\* The tables that somebody is going to read or write.
InUse ==
  {table} \cup {resize.orig, resize.new} \cup {reader[r] : r \in Readers}
    \cup {dump[d].table : d \in Dumpers}

\* Nobody works on a table that was freed: not the packets, not the resize,
\* not a listing ("There can't be another parallel resizing, but dumping is
\* possible").
TablesAlive == \A t \in InUse \ {NoTable} : mem[t] = "live"

\* No table is leaked: once no resize and no listing is under way, only the
\* current table is left.
OldTablesFreed ==
  resize.pc = "idle" /\ (\A d \in Dumpers : dump[d].pc = "idle")
    => \A t \in Tables : mem[t] = "live" => t = table

\* The comments that a message about the current table may read are still
\* allocated ("Used only when dumping a set, protected by rcu_read_lock()").
CurrentCommentsAlive ==
  \A d \in Dumpers :
    dump[d].table = table => \A e \in dump[d].reads : comment[e] # "freed"
=============================================================================

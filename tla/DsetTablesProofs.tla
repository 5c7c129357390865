-------------------------- MODULE DsetTablesProofs --------------------------
(***************************************************************************)
(* Theorems about DsetTables, for every number of tables (and so of        *)
(* resizes), packets, listings and elements.                               *)
(***************************************************************************)
EXTENDS MCTables, FiniteSetTheorems, TLAPS

-----------------------------------------------------------------------------
(* The invariants.                                                         *)

\* What the record of the resize and those of the listings say.
ShapeInv ==
  /\ resize.pc = "idle" => resize = NoResize
  /\ resize.pc # "idle" => resize.new \in Tables
  /\ resize.pc = "alloc" => resize.orig = NoTable
  /\ resize.pc \in {"ref", "copy", "fail"} => resize.orig = table
  /\ resize.pc = "sync" =>
       resize.orig \in Tables /\ resize.orig # table /\ resize.new = table
  /\ \A d \in Dumpers :
       /\ dump[d].pc = "idle" => dump[d].table = NoTable
       /\ dump[d].pc # "idle" => dump[d].table \in Tables
       /\ dump[d].pc # "list" => dump[d].reads = {}

\* A table that was never published: only the resize knows it.
Fresh(t) ==
  mem[t] = "unused" \/ (resize.pc \in {"alloc", "ref", "copy", "fail"} /\ resize.new = t)

FreshInv ==
  /\ \A t \in Tables : Fresh(t) =>
       /\ t # table /\ ref[t] = 0
       /\ \A r \in Readers : reader[r] # t
       /\ \A d \in Dumpers : dump[d].table # t
  /\ resize.pc \in {"alloc", "ref", "copy", "fail"} => mem[resize.new] = "live"

\* t->ref is set on the current table while a resize copies it, and stays
\* set on the table that was replaced.
MarkInv ==
  /\ ref[table] = 1 <=> resize.pc \in {"ref", "copy"}
  /\ resize.pc = "sync" => ref[resize.orig] = 1

\* The listings that have a reference on t, and the reference of a resize.
Holders(t) == {d \in Dumpers : dump[d].pc \in {"held", "list"} /\ dump[d].table = t}

Own(t) == IF resize.pc \in {"copy", "fail", "sync"} /\ resize.orig = t THEN 1 ELSE 0

\* t->uref counts the listings of t and the resize that copies it.
UrefInv == \A t \in Tables : uref[t] = Cardinality(Holders(t)) + Own(t)

\* Somebody is left to free a table that was replaced: the resize at the end
\* of its grace period, or a listing that has or had a reference.
Freer(t) ==
  /\ ref[t] = 1
  /\ \/ resize.pc = "sync" /\ resize.orig = t
     \/ \E d \in Dumpers : dump[d].table = t /\ dump[d].pc \in {"held", "list", "check"}

OldInv == \A t \in Tables : mem[t] = "live" /\ t # table /\ ~Fresh(t) => Freer(t)

TablesInv == TypeOK /\ ShapeInv /\ FreshInv /\ MarkInv /\ UrefInv /\ OldInv

\* An element of the current table has its comment; one that a message about
\* the current table still reads has it, too, or its grace period waits for
\* the message.
CommentInv ==
  /\ \A e \in content[table] : comment[e] = "live"
  /\ \A d \in Dumpers : dump[d].table = table =>
       \A e \in dump[d].reads :
         comment[e] = "live" \/ (comment[e] = "retired" /\ d \in grace[e])

\* A table in use has not been freed.
LiveInv ==
  /\ mem[table] = "live"
  /\ resize.pc # "idle" => mem[resize.new] = "live"
  /\ resize.pc = "sync" => mem[resize.orig] = "live"
  /\ \A r \in Readers : reader[r] # NoTable => mem[reader[r]] = "live"
  /\ \A d \in Dumpers : dump[d].table # NoTable => mem[dump[d].table] = "live"

\* A packet, or a listing that has no reference yet, is on the current table
\* or the grace period of the resize waits for it.
GraceInv ==
  /\ \A r \in Readers : reader[r] \notin {NoTable, table} =>
       resize.pc = "sync" /\ reader[r] = resize.orig /\ r \in resize.waits
  /\ \A d \in Dumpers : dump[d].pc = "start" /\ dump[d].table # table =>
       resize.pc = "sync" /\ dump[d].table = resize.orig /\ d \in resize.waits

\* A listing that dropped the last reference of t, and has not looked at
\* t->ref yet, is not met by a resize of t, and on a table that was replaced
\* it is the last one.
CheckInv ==
  /\ \A d \in Dumpers : dump[d].pc = "check" =>
       /\ resize.pc \in {"ref", "copy", "fail", "sync"} => dump[d].table # resize.orig
       /\ dump[d].table # table =>
            \A e \in Dumpers : dump[e].table = dump[d].table => e = d

AliveInv == LiveInv /\ GraceInv /\ CheckInv

-----------------------------------------------------------------------------
(* Counting.                                                               *)

ResizeType == [pc : {"idle", "alloc", "ref", "copy", "fail", "sync"},
               orig : Tables \cup {NoTable}, new : Tables \cup {NoTable},
               waits : SUBSET (Readers \cup Dumpers)]

ListingType == [pc : {"idle", "start", "held", "list", "check"},
                table : Tables \cup {NoTable}, reads : SUBSET Elems]

\* The holders of a table are finitely many.
LEMMA HoldersFinite ==
  ASSUME NEW t
  PROVE  /\ IsFiniteSet(Holders(t)) /\ Cardinality(Holders(t)) \in Nat
         /\ Cardinality(Holders(t)) = 0 <=> Holders(t) = {}
<1>1. IsFiniteSet(Holders(t))
  BY TablesAssumption, FS_Subset DEF Holders
<1> QED
  BY <1>1, FS_CardinalityType, FS_EmptySet

\* The fields of the records have their types.
LEMMA Fields ==
  ASSUME TypeOK
  PROVE  /\ resize \in ResizeType
         /\ resize.pc \in {"idle", "alloc", "ref", "copy", "fail", "sync"}
         /\ resize.orig \in Tables \cup {NoTable} /\ resize.new \in Tables \cup {NoTable}
         /\ resize.waits \subseteq Readers \cup Dumpers
         /\ dump \in [Dumpers -> ListingType]
         /\ \A d \in Dumpers : /\ dump[d] \in ListingType
                               /\ dump[d].pc \in {"idle", "start", "held", "list", "check"}
                               /\ dump[d].table \in Tables \cup {NoTable}
                               /\ dump[d].reads \subseteq Elems
PROOF BY DEF TypeOK, ResizeType, ListingType

\* Who has a reference is counted.
LEMMA UrefFacts ==
  ASSUME TypeOK, UrefInv, NEW t \in Tables
  PROVE  /\ uref[t] \in Nat
         /\ Own(t) = 1 => uref[t] >= 1
         /\ Own(t) = 1 /\ uref[t] = 1 => Holders(t) = {}
         /\ Own(t) = 1 /\ uref[t] # 1 => Holders(t) # {}
         /\ \A d \in Holders(t) :
              /\ uref[t] >= 1
              /\ Own(t) = 1 => uref[t] # 1
              /\ uref[t] = 1 => Holders(t) = {d} /\ Own(t) = 0
              /\ uref[t] # 1 => Own(t) = 1 \/ \E e \in Holders(t) : e # d
<1> DEFINE H == Holders(t)
<1>1. uref[t] \in Nat /\ uref[t] = Cardinality(H) + Own(t) /\ Own(t) \in {0, 1}
  BY DEF TypeOK, UrefInv, Own
<1>2. IsFiniteSet(H) /\ Cardinality(H) \in Nat /\ (Cardinality(H) = 0 <=> H = {})
  BY HoldersFinite
<1> HIDE DEF H
<1>3. /\ Own(t) = 1 => uref[t] >= 1
      /\ Own(t) = 1 /\ uref[t] = 1 => H = {}
      /\ Own(t) = 1 /\ uref[t] # 1 => H # {}
  BY <1>1, <1>2
<1>4. ASSUME NEW d \in H
      PROVE  /\ uref[t] >= 1
             /\ Own(t) = 1 => uref[t] # 1
             /\ uref[t] = 1 => H = {d} /\ Own(t) = 0
             /\ uref[t] # 1 => Own(t) = 1 \/ \E e \in H : e # d
  <2>1. /\ IsFiniteSet(H \ {d}) /\ Cardinality(H \ {d}) = Cardinality(H) - 1
        /\ Cardinality(H \ {d}) \in Nat
        /\ Cardinality(H \ {d}) = 0 <=> H \ {d} = {}
    BY <1>2, FS_RemoveElement, FS_CardinalityType, FS_EmptySet
  <2>2. H \ {d} = {} <=> H = {d}
    OBVIOUS
  <2> QED
    BY <1>1, <1>2, <2>1, <2>2
<1> QED
  BY <1>1, <1>3, <1>4 DEF H

-----------------------------------------------------------------------------
(* What the actions do to the records.                                     *)

\* Only the record of the listing that moves changes.
Others(d) == \A e \in Dumpers : e # d => dump'[e] = dump[e]

\* The record of a listing after its step.
LEMMA DumpFacts ==
  ASSUME TypeOK, NEW d \in Dumpers
  PROVE  /\ DumpStart(d) =>
              /\ dump[d].pc = "idle" /\ Others(d)
              /\ dump'[d].pc = "start" /\ dump'[d].table = table /\ dump'[d].reads = {}
         /\ DumpHold(d) =>
              /\ dump[d].pc = "start" /\ Others(d)
              /\ dump'[d].pc = "held" /\ dump'[d].table = dump[d].table
              /\ dump'[d].reads = dump[d].reads
         /\ DumpList(d) =>
              /\ dump[d].pc = "held" /\ Others(d)
              /\ dump'[d].pc = "list" /\ dump'[d].table = dump[d].table
              /\ dump'[d].reads = content[dump[d].table]
         /\ DumpMessage(d) =>
              /\ dump[d].pc = "list" /\ Others(d)
              /\ dump'[d].pc = "held" /\ dump'[d].table = dump[d].table
              /\ dump'[d].reads = {}
         /\ DumpRelease(d) /\ uref[dump[d].table] = 1 =>
              /\ dump[d].pc = "held" /\ Others(d)
              /\ dump'[d].pc = "check" /\ dump'[d].table = dump[d].table
              /\ dump'[d].reads = dump[d].reads
         /\ DumpRelease(d) /\ uref[dump[d].table] # 1 =>
              /\ dump[d].pc = "held" /\ Others(d)
              /\ dump'[d].pc = "idle" /\ dump'[d].table = NoTable /\ dump'[d].reads = {}
         /\ DumpCheck(d) =>
              /\ dump[d].pc = "check" /\ Others(d)
              /\ dump'[d].pc = "idle" /\ dump'[d].table = NoTable /\ dump'[d].reads = {}
<1>1. dump \in [Dumpers -> ListingType] /\ dump[d] \in ListingType
  BY Fields
<1>2. NoDump.pc = "idle" /\ NoDump.table = NoTable /\ NoDump.reads = {}
  BY DEF NoDump
<1>3. ASSUME NEW v, dump' = [dump EXCEPT ![d] = v] PROVE dump'[d] = v /\ Others(d)
  BY <1>1, <1>3 DEF Others
<1>4. DumpStart(d) =>
        /\ dump[d].pc = "idle" /\ Others(d)
        /\ dump'[d].pc = "start" /\ dump'[d].table = table /\ dump'[d].reads = {}
  BY <1>3 DEF DumpStart, NoDump
<1>5. DumpHold(d) =>
        /\ dump[d].pc = "start" /\ Others(d)
        /\ dump'[d].pc = "held" /\ dump'[d].table = dump[d].table
        /\ dump'[d].reads = dump[d].reads
  BY <1>1 DEF DumpHold, Others, ListingType
<1>6. DumpList(d) =>
        /\ dump[d].pc = "held" /\ Others(d)
        /\ dump'[d].pc = "list" /\ dump'[d].table = dump[d].table
        /\ dump'[d].reads = content[dump[d].table]
  BY <1>1 DEF DumpList, Others, ListingType
<1>7. DumpMessage(d) =>
        /\ dump[d].pc = "list" /\ Others(d)
        /\ dump'[d].pc = "held" /\ dump'[d].table = dump[d].table
        /\ dump'[d].reads = {}
  BY <1>1 DEF DumpMessage, Others, ListingType
<1>8. DumpRelease(d) /\ uref[dump[d].table] = 1 =>
        /\ dump[d].pc = "held" /\ Others(d)
        /\ dump'[d].pc = "check" /\ dump'[d].table = dump[d].table
        /\ dump'[d].reads = dump[d].reads
  BY <1>1 DEF DumpRelease, Others, ListingType
<1>9. DumpRelease(d) /\ uref[dump[d].table] # 1 =>
        /\ dump[d].pc = "held" /\ Others(d)
        /\ dump'[d].pc = "idle" /\ dump'[d].table = NoTable /\ dump'[d].reads = {}
  BY <1>1, <1>2 DEF DumpRelease, Others
<1>10. DumpCheck(d) =>
        /\ dump[d].pc = "check" /\ Others(d)
        /\ dump'[d].pc = "idle" /\ dump'[d].table = NoTable /\ dump'[d].reads = {}
  BY <1>2, <1>3 DEF DumpCheck
<1> QED
  BY <1>4, <1>5, <1>6, <1>7, <1>8, <1>9, <1>10

\* The record of the resize after a step.
LEMMA ResizeFacts ==
  ASSUME TypeOK
  PROVE  /\ NoResize.pc = "idle" /\ NoResize.orig = NoTable
         /\ NoResize.new = NoTable /\ NoResize.waits = {}
         /\ \A t \in Tables : ResizeAlloc(t) =>
              /\ resize.pc = "idle" /\ resize'.pc = "alloc"
              /\ resize'.orig = NoTable /\ resize'.new = t /\ resize'.waits = {}
         /\ ResizeRef =>
              /\ resize.pc = "alloc" /\ resize'.pc = "ref" /\ resize'.orig = table
              /\ resize'.new = resize.new /\ resize'.waits = resize.waits
         /\ ResizeUref =>
              /\ resize.pc = "ref" /\ resize'.pc = "copy" /\ resize'.orig = resize.orig
              /\ resize'.new = resize.new /\ resize'.waits = resize.waits
         /\ ResizeCopy =>
              /\ resize.pc = "copy" /\ resize'.pc = "sync" /\ resize'.orig = resize.orig
              /\ resize'.new = resize.new /\ resize'.waits = InRcu
         /\ ResizeFail =>
              /\ resize.pc = "copy" /\ resize'.pc = "fail" /\ resize'.orig = resize.orig
              /\ resize'.new = resize.new /\ resize'.waits = resize.waits
         /\ ResizeCleanup => resize.pc = "fail" /\ resize' = NoResize
         /\ ResizePut => resize.pc = "sync" /\ resize' = NoResize
         /\ \A x : Leave(x) =>
              /\ resize'.pc = resize.pc /\ resize'.orig = resize.orig
              /\ resize'.new = resize.new /\ resize'.waits = resize.waits \ {x}
<1>1. resize \in ResizeType
  BY Fields
<1>2. NoResize.pc = "idle" /\ NoResize.orig = NoTable
      /\ NoResize.new = NoTable /\ NoResize.waits = {}
  BY DEF NoResize
<1>3. \A t \in Tables : ResizeAlloc(t) =>
              /\ resize.pc = "idle" /\ resize'.pc = "alloc"
              /\ resize'.orig = NoTable /\ resize'.new = t /\ resize'.waits = {}
  BY DEF ResizeAlloc, NoResize
<1>4. /\ ResizeRef =>
              /\ resize.pc = "alloc" /\ resize'.pc = "ref" /\ resize'.orig = table
              /\ resize'.new = resize.new /\ resize'.waits = resize.waits
      /\ ResizeUref =>
              /\ resize.pc = "ref" /\ resize'.pc = "copy" /\ resize'.orig = resize.orig
              /\ resize'.new = resize.new /\ resize'.waits = resize.waits
  BY <1>1 DEF ResizeRef, ResizeUref, ResizeType
<1>5. /\ ResizeCopy =>
              /\ resize.pc = "copy" /\ resize'.pc = "sync" /\ resize'.orig = resize.orig
              /\ resize'.new = resize.new /\ resize'.waits = InRcu
      /\ ResizeFail =>
              /\ resize.pc = "copy" /\ resize'.pc = "fail" /\ resize'.orig = resize.orig
              /\ resize'.new = resize.new /\ resize'.waits = resize.waits
  BY <1>1 DEF ResizeCopy, ResizeFail, ResizeType
<1>6. /\ ResizeCleanup => resize.pc = "fail" /\ resize' = NoResize
      /\ ResizePut => resize.pc = "sync" /\ resize' = NoResize
  BY DEF ResizeCleanup, ResizePut
<1>7. \A x : Leave(x) =>
              /\ resize'.pc = resize.pc /\ resize'.orig = resize.orig
              /\ resize'.new = resize.new /\ resize'.waits = resize.waits \ {x}
  BY <1>1 DEF Leave, ResizeType
<1> QED
  BY <1>2, <1>3, <1>4, <1>5, <1>6, <1>7

-----------------------------------------------------------------------------
(* Type correctness and the shape of the records.                          *)

LEMMA TypeStep ==
  ASSUME TypeOK, ShapeInv, UrefInv, Next
  PROVE  TypeOK'
<1> USE DEF TypeOK
<1>1. ASSUME NEW t \in Tables, ResizeAlloc(t) PROVE TypeOK'
  BY <1>1, TablesAssumption DEF ResizeAlloc, NoResize
<1>2. ASSUME ResizeRef PROVE TypeOK'
  BY <1>2 DEF ResizeRef
<1>3. ASSUME ResizeUref PROVE TypeOK'
  <2>1. resize.orig \in Tables /\ uref[resize.orig] + 1 \in Nat
    BY <1>3 DEF ResizeUref, ShapeInv
  <2>2. uref' \in [Tables -> Nat]
    BY <1>3, <2>1 DEF ResizeUref
  <2>3. resize' \in ResizeType
    BY <1>3 DEF ResizeUref, ResizeType
  <2> QED
    BY <1>3, <2>2, <2>3 DEF ResizeUref, ResizeType
<1>4. ASSUME ResizeCopy PROVE TypeOK'
  <2>1. InRcu \subseteq Readers \cup Dumpers
    BY DEF InRcu
  <2>2. resize.new \in Tables /\ resize.orig \in Tables
    BY <1>4 DEF ResizeCopy, ShapeInv
  <2> HIDE DEF InRcu
  <2> QED
    BY <1>4, <2>1, <2>2 DEF ResizeCopy
<1>5. ASSUME ResizeFail PROVE TypeOK'
  BY <1>5 DEF ResizeFail
<1>6. ASSUME ResizeCleanup \/ ResizePut PROVE TypeOK'
  <2>1. resize.orig \in Tables /\ Own(resize.orig) = 1
    BY <1>6 DEF ResizeCleanup, ResizePut, ShapeInv, Own
  <2>2. uref[resize.orig] \in Nat /\ uref[resize.orig] >= 1
    BY <2>1, UrefFacts
  <2>3. uref[resize.orig] - 1 \in Nat
    BY <2>2
  <2>4. resize' = NoResize /\ resize' \in ResizeType
    BY <1>6, TablesAssumption DEF ResizeCleanup, ResizePut, NoResize, ResizeType
  <2>5. uref' \in [Tables -> Nat]
    BY <1>6, <2>1, <2>3 DEF ResizeCleanup, ResizePut
  <2>6. mem' \in [Tables -> {"unused", "live", "freed"}]
    BY <1>6 DEF ResizeCleanup, ResizePut
  <2> QED
    BY <1>6, <2>4, <2>5, <2>6 DEF ResizeCleanup, ResizePut, ResizeType
<1>7. ASSUME NEW r \in Readers, ReaderEnter(r) PROVE TypeOK'
  BY <1>7 DEF ReaderEnter
<1>8. ASSUME NEW x, Leave(x)
      PROVE  grace' \in [Elems -> SUBSET (Readers \cup Dumpers)] /\ resize' \in ResizeType
  BY <1>8 DEF Leave, ResizeType
<1>9. ASSUME NEW r \in Readers, ReaderLeave(r) PROVE TypeOK'
  BY <1>8, <1>9 DEF ReaderLeave, ResizeType
<1>10. ASSUME NEW e \in Elems, Drop(e) PROVE TypeOK'
  <2>1. InRcu \subseteq Readers \cup Dumpers
    BY DEF InRcu
  <2> QED
    BY <1>10, <2>1 DEF Drop
<1>11. ASSUME NEW e \in Elems, CommentFree(e) PROVE TypeOK'
  BY <1>11 DEF CommentFree
<1>12. ASSUME NEW d \in Dumpers, DumpStart(d) PROVE TypeOK'
  BY <1>12 DEF DumpStart, NoDump
<1>13. ASSUME NEW d \in Dumpers, DumpHold(d) PROVE TypeOK'
  <2>1. dump[d].table \in Tables /\ uref[dump[d].table] + 1 \in Nat
    BY <1>13 DEF DumpHold, ShapeInv
  <2>2. uref' \in [Tables -> Nat]
    BY <1>13, <2>1 DEF DumpHold
  <2>3. dump' \in [Dumpers -> ListingType]
    BY <1>13 DEF DumpHold, ListingType
  <2>4. grace' \in [Elems -> SUBSET (Readers \cup Dumpers)] /\ resize' \in ResizeType
    BY <1>8, <1>13 DEF DumpHold
  <2> QED
    BY <1>13, <2>2, <2>3, <2>4 DEF DumpHold, ListingType, ResizeType
<1>14. ASSUME NEW d \in Dumpers, DumpList(d) PROVE TypeOK'
  <2>1. content[dump[d].table] \subseteq Elems
    BY <1>14 DEF DumpList, ShapeInv
  <2> QED
    BY <1>14, <2>1 DEF DumpList
<1>15. ASSUME NEW d \in Dumpers, DumpMessage(d) PROVE TypeOK'
  <2>1. [dump[d] EXCEPT !.pc = "held", !.reads = {}] \in ListingType
    BY Fields DEF ListingType
  <2>2. dump' \in [Dumpers -> ListingType]
    BY <1>15, <2>1, Fields DEF DumpMessage
  <2>3. grace' \in [Elems -> SUBSET (Readers \cup Dumpers)] /\ resize' \in ResizeType
    BY <1>8, <1>15 DEF DumpMessage
  <2> QED
    BY <1>15, <2>2, <2>3 DEF DumpMessage, ListingType, ResizeType
<1>16. ASSUME NEW d \in Dumpers, DumpRelease(d) PROVE TypeOK'
  <2>1. dump[d].table \in Tables /\ d \in Holders(dump[d].table)
    BY <1>16 DEF DumpRelease, ShapeInv, Holders
  <2>2. uref[dump[d].table] \in Nat /\ uref[dump[d].table] >= 1
    BY <2>1, UrefFacts
  <2>3. uref[dump[d].table] - 1 \in Nat
    BY <2>2
  <2>4. uref' \in [Tables -> Nat]
    BY <1>16, <2>1, <2>3 DEF DumpRelease
  <2>5. dump' \in [Dumpers -> ListingType]
    BY <1>16, TablesAssumption DEF DumpRelease, NoDump, ListingType
  <2> QED
    BY <1>16, <2>4, <2>5 DEF DumpRelease, ListingType
<1>17. ASSUME NEW d \in Dumpers, DumpCheck(d) PROVE TypeOK'
  BY <1>17, TablesAssumption DEF DumpCheck, NoDump
<1> HIDE DEF TypeOK
<1> QED
  BY <1>1, <1>2, <1>3, <1>4, <1>5, <1>6, <1>7, <1>9, <1>10, <1>11, <1>12, <1>13, <1>14,
     <1>15, <1>16, <1>17 DEF Next

LEMMA ShapeStep ==
  ASSUME TypeOK, ShapeInv, FreshInv, Next
  PROVE  ShapeInv'
<1> USE DEF ShapeInv
<1>1. ASSUME NEW t \in Tables, ResizeAlloc(t) PROVE ShapeInv'
  <2>1. resize'.pc = "alloc" /\ resize'.orig = NoTable /\ resize'.new = t
    BY <1>1, ResizeFacts
  <2> QED
    BY <1>1, <2>1 DEF ResizeAlloc
<1>2. ASSUME ResizeRef \/ ResizeUref \/ ResizeFail PROVE ShapeInv'
  <2>1. /\ resize.pc # "idle" /\ resize'.pc \in {"ref", "copy", "fail"}
        /\ resize'.orig = table /\ resize'.new = resize.new
    BY <1>2, ResizeFacts
  <2> QED
    BY <1>2, <2>1 DEF ResizeRef, ResizeUref, ResizeFail
<1>3. ASSUME ResizeCopy PROVE ShapeInv'
  <2>1. /\ resize.pc = "copy" /\ resize'.pc = "sync"
        /\ resize'.orig = resize.orig /\ resize'.new = resize.new
    BY <1>3, ResizeFacts
  <2>2. resize.new \in Tables /\ resize.orig = table /\ table \in Tables
    BY <2>1 DEF TypeOK
  <2>3. resize.new # table
    BY <2>1, <2>2 DEF FreshInv, Fresh
  <2> QED
    BY <1>3, <2>1, <2>2, <2>3 DEF ResizeCopy
<1>4. ASSUME ResizeCleanup \/ ResizePut PROVE ShapeInv'
  <2>1. resize' = NoResize /\ resize'.pc = "idle"
    BY <1>4, ResizeFacts
  <2> QED
    BY <1>4, <2>1 DEF ResizeCleanup, ResizePut
<1>5. ASSUME NEW x, Leave(x), UNCHANGED table
      PROVE  /\ resize'.pc = "idle" => resize' = NoResize
             /\ resize'.pc # "idle" => resize'.new \in Tables
             /\ resize'.pc = "alloc" => resize'.orig = NoTable
             /\ resize'.pc \in {"ref", "copy", "fail"} => resize'.orig = table'
             /\ resize'.pc = "sync" =>
                  resize'.orig \in Tables /\ resize'.orig # table' /\ resize'.new = table'
  <2>1. /\ resize'.pc = resize.pc /\ resize'.orig = resize.orig
        /\ resize'.new = resize.new
    BY <1>5, ResizeFacts
  <2>2. resize.pc = "idle" => resize' = NoResize
    BY <1>5 DEF Leave, NoResize
  <2> QED
    BY <1>5, <2>1, <2>2
<1>6. ASSUME NEW r \in Readers, ReaderEnter(r) \/ ReaderLeave(r) PROVE ShapeInv'
  <2>1. CASE ReaderEnter(r)
    BY <2>1 DEF ReaderEnter
  <2>2. CASE ReaderLeave(r)
    <3>1. Leave(r) /\ UNCHANGED <<table, dump>>
      BY <2>2 DEF ReaderLeave
    <3> QED
      BY <1>5, <3>1
  <2> QED
    BY <1>6, <2>1, <2>2
<1>7. ASSUME NEW e \in Elems, Drop(e) \/ CommentFree(e) PROVE ShapeInv'
  BY <1>7 DEF Drop, CommentFree
<1>8. ASSUME NEW d \in Dumpers,
             DumpStart(d) \/ DumpList(d) \/ DumpRelease(d) \/ DumpCheck(d)
      PROVE  ShapeInv'
  <2>1. UNCHANGED <<table, resize>>
    BY <1>8 DEF DumpStart, DumpList, DumpRelease, DumpCheck
  <2>2. Others(d)
    BY <1>8, DumpFacts
  <2>3. /\ dump'[d].pc = "idle" => dump'[d].table = NoTable
        /\ dump'[d].pc # "idle" => dump'[d].table \in Tables
        /\ dump'[d].pc # "list" => dump'[d].reads = {}
    BY <1>8, DumpFacts DEF TypeOK
  <2> QED
    BY <2>1, <2>2, <2>3 DEF Others
<1>9. ASSUME NEW d \in Dumpers, DumpHold(d) \/ DumpMessage(d) PROVE ShapeInv'
  <2>1. Leave(d) /\ UNCHANGED table
    BY <1>9 DEF DumpHold, DumpMessage
  <2>2. Others(d)
    BY <1>9, DumpFacts
  <2>3. /\ dump'[d].pc = "idle" => dump'[d].table = NoTable
        /\ dump'[d].pc # "idle" => dump'[d].table \in Tables
        /\ dump'[d].pc # "list" => dump'[d].reads = {}
    BY <1>9, DumpFacts
  <2> QED
    BY <1>5, <2>1, <2>2, <2>3 DEF Others
<1> HIDE DEF ShapeInv
<1> QED
  BY <1>1, <1>2, <1>3, <1>4, <1>6, <1>7, <1>8, <1>9 DEF Next

-----------------------------------------------------------------------------
(* Tables that were never published, and the mark of a table.              *)

\* Nobody learns of a table before the resize has published it.
LEMMA FreshStep ==
  ASSUME TypeOK, ShapeInv, FreshInv, Next
  PROVE  FreshInv'
<1> USE DEF FreshInv, Fresh
<1>1. ASSUME NEW t \in Tables, ResizeAlloc(t) PROVE FreshInv'
  <2>1. resize'.pc = "alloc" /\ resize'.new = t
    BY <1>1, ResizeFacts
  <2> QED
    BY <1>1, <2>1 DEF ResizeAlloc, TypeOK
<1>2. ASSUME ResizeRef \/ ResizeUref \/ ResizeFail PROVE FreshInv'
  <2>1. /\ resize.pc \in {"alloc", "ref", "copy", "fail"} /\ resize'.new = resize.new
        /\ resize'.pc \in {"alloc", "ref", "copy", "fail"}
    BY <1>2, ResizeFacts
  <2>2. ASSUME NEW t \in Tables, t # table, ref[t] = 0 PROVE ref'[t] = 0
    BY <1>2, <2>2 DEF ResizeRef, ResizeUref, ResizeFail, TypeOK, ShapeInv
  <2>3. UNCHANGED <<table, mem, reader, dump>>
    BY <1>2 DEF ResizeRef, ResizeUref, ResizeFail
  <2> QED
    BY <2>1, <2>2, <2>3
<1>3. ASSUME ResizeCopy PROVE FreshInv'
  <2>1. resize.pc = "copy" /\ resize'.pc = "sync" /\ resize.new \in Tables
    BY <1>3, ResizeFacts DEF ShapeInv
  <2>2. UNCHANGED <<mem, ref, reader, dump>> /\ table' = resize.new
    BY <1>3 DEF ResizeCopy
  <2> QED
    BY <2>1, <2>2
<1>4. ASSUME ResizeCleanup \/ ResizePut PROVE FreshInv'
  <2>1. resize'.pc = "idle"
    BY <1>4, ResizeFacts
  <2>2. \A t \in Tables : mem'[t] = "unused" => mem[t] = "unused"
    BY <1>4 DEF ResizeCleanup, ResizePut, TypeOK
  <2>3. UNCHANGED <<table, ref, reader, dump>>
    BY <1>4 DEF ResizeCleanup, ResizePut
  <2> QED
    BY <2>1, <2>2, <2>3
<1>5. ASSUME NEW r \in Readers, ReaderEnter(r) PROVE FreshInv'
  BY <1>5 DEF ReaderEnter, TypeOK
<1>6. ASSUME NEW r \in Readers, ReaderLeave(r) PROVE FreshInv'
  <2>1. resize'.pc = resize.pc /\ resize'.new = resize.new
    BY <1>6, ResizeFacts DEF ReaderLeave
  <2> QED
    BY <1>6, <2>1, TablesAssumption DEF ReaderLeave, TypeOK
<1>7. ASSUME NEW e \in Elems, Drop(e) \/ CommentFree(e) PROVE FreshInv'
  BY <1>7 DEF Drop, CommentFree
<1>8. ASSUME NEW d \in Dumpers, DumpStart(d) PROVE FreshInv'
  <2>1. Others(d) /\ dump'[d].table = table
    BY <1>8, DumpFacts
  <2> QED
    BY <1>8, <2>1 DEF DumpStart, Others
<1>9. ASSUME NEW d \in Dumpers, DumpHold(d) \/ DumpMessage(d) \/ DumpList(d) PROVE FreshInv'
  <2>1. Others(d) /\ dump'[d].table = dump[d].table
    BY <1>9, DumpFacts
  <2>2. resize'.pc = resize.pc /\ resize'.new = resize.new
    BY <1>9, ResizeFacts DEF DumpHold, DumpMessage, DumpList
  <2>3. UNCHANGED <<table, mem, ref, reader>>
    BY <1>9 DEF DumpHold, DumpMessage, DumpList
  <2> QED
    BY <2>1, <2>2, <2>3 DEF Others
<1>10. ASSUME NEW d \in Dumpers, DumpRelease(d) \/ DumpCheck(d) PROVE FreshInv'
  <2>1. Others(d) /\ dump'[d].table \in {dump[d].table, NoTable}
    BY <1>10, DumpFacts
  <2>2. UNCHANGED <<table, ref, resize, reader>>
    BY <1>10 DEF DumpRelease, DumpCheck
  <2>3. /\ \A t \in Tables : mem'[t] = "unused" => mem[t] = "unused"
        /\ \A t \in Tables : t # dump[d].table => mem'[t] = mem[t]
    BY <1>10 DEF DumpRelease, DumpCheck, TypeOK
  <2>4. resize.pc # "idle" => resize.new \in Tables
    BY DEF ShapeInv
  <2> QED
    BY <2>1, <2>2, <2>3, <2>4, TablesAssumption DEF Others
<1> HIDE DEF FreshInv, Fresh
<1> QED
  BY <1>1, <1>2, <1>3, <1>4, <1>5, <1>6, <1>7, <1>8, <1>9, <1>10 DEF Next

\* The mark is on the table being copied, and stays on it once replaced.
LEMMA MarkStep ==
  ASSUME TypeOK, ShapeInv, FreshInv, MarkInv, Next
  PROVE  MarkInv'
<1> USE DEF MarkInv
<1>1. ASSUME NEW t \in Tables, ResizeAlloc(t) PROVE MarkInv'
  <2>1. resize.pc = "idle" /\ resize'.pc = "alloc"
    BY <1>1, ResizeFacts
  <2> QED
    BY <1>1, <2>1 DEF ResizeAlloc
<1>2. ASSUME ResizeRef \/ ResizeUref PROVE MarkInv'
  <2>1. resize'.pc \in {"ref", "copy"} /\ resize.pc \in {"alloc", "ref"}
    BY <1>2, ResizeFacts
  <2> QED
    BY <1>2, <2>1 DEF ResizeRef, ResizeUref, TypeOK
<1>3. ASSUME ResizeFail PROVE MarkInv'
  <2>1. resize'.pc = "fail" /\ resize.pc = "copy" /\ resize.orig = table
    BY <1>3, ResizeFacts DEF ShapeInv
  <2> QED
    BY <1>3, <2>1 DEF ResizeFail, TypeOK
<1>4. ASSUME ResizeCopy PROVE MarkInv'
  <2>1. /\ resize'.pc = "sync" /\ resize.pc = "copy" /\ resize.orig = table
        /\ resize'.orig = table /\ table' = resize.new /\ resize.new \in Tables
    BY <1>4, ResizeFacts DEF ShapeInv, ResizeCopy
  <2>2. ref[resize.new] = 0 /\ ref' = ref
    BY <1>4, <2>1 DEF FreshInv, Fresh, ResizeCopy
  <2> QED
    BY <2>1, <2>2
<1>5. ASSUME ResizeCleanup \/ ResizePut PROVE MarkInv'
  <2>1. resize'.pc = "idle" /\ resize.pc \in {"fail", "sync"}
    BY <1>5, ResizeFacts
  <2> QED
    BY <1>5, <2>1 DEF ResizeCleanup, ResizePut
<1>6. ASSUME NEW x, Leave(x), UNCHANGED <<ref, table>> PROVE MarkInv'
  <2>1. resize'.pc = resize.pc /\ resize'.orig = resize.orig
    BY <1>6, ResizeFacts
  <2> QED
    BY <1>6, <2>1
<1>7. ASSUME NEW r \in Readers, ReaderEnter(r) \/ ReaderLeave(r) PROVE MarkInv'
  BY <1>6, <1>7 DEF ReaderEnter, ReaderLeave
<1>8. ASSUME NEW e \in Elems, Drop(e) \/ CommentFree(e) PROVE MarkInv'
  BY <1>8 DEF Drop, CommentFree
<1>9. ASSUME NEW d \in Dumpers,
             \/ DumpStart(d) \/ DumpHold(d) \/ DumpList(d) \/ DumpMessage(d)
             \/ DumpRelease(d) \/ DumpCheck(d)
      PROVE  MarkInv'
  <2>1. CASE DumpHold(d) \/ DumpMessage(d)
    BY <1>6, <2>1 DEF DumpHold, DumpMessage
  <2>2. CASE DumpStart(d) \/ DumpList(d) \/ DumpRelease(d) \/ DumpCheck(d)
    BY <2>2 DEF DumpStart, DumpList, DumpRelease, DumpCheck
  <2> QED
    BY <1>9, <2>1, <2>2
<1> HIDE DEF MarkInv
<1> QED
  BY <1>1, <1>2, <1>3, <1>4, <1>5, <1>7, <1>8, <1>9 DEF Next

-----------------------------------------------------------------------------
(* The references of the listings and of the resize.                       *)

\* The holders of a table are the same when every listing that moves keeps
\* its reference, and its table with it.
LEMMA HoldersSame ==
  ASSUME \A d \in Dumpers :
           \/ dump'[d] = dump[d]
           \/ dump[d].pc \notin {"held", "list"} /\ dump'[d].pc \notin {"held", "list"}
           \/ /\ dump[d].pc \in {"held", "list"} /\ dump'[d].pc \in {"held", "list"}
              /\ dump'[d].table = dump[d].table,
         NEW t
  PROVE  Holders(t)' = Holders(t)
PROOF BY DEF Holders

\* A step that neither moves a listing nor takes a reference.
LEMMA UrefSame ==
  ASSUME UrefInv, UNCHANGED uref,
         \A t \in Tables : Holders(t)' = Holders(t) /\ Own(t)' = Own(t)
  PROVE  UrefInv'
PROOF BY DEF UrefInv

\* A step of the resize counts its own reference.
LEMMA UrefOwn ==
  ASSUME TypeOK, UrefInv, UNCHANGED dump, NEW o \in Tables,
         \A t \in Tables : t # o => uref'[t] = uref[t] /\ Own(t)' = Own(t),
         uref'[o] - uref[o] = Own(o)' - Own(o), uref'[o] \in Int
  PROVE  UrefInv'
<1> SUFFICES ASSUME NEW t \in Tables PROVE (uref[t] = Cardinality(Holders(t)) + Own(t))'
  BY DEF UrefInv
<1>1. Holders(t)' = Holders(t)
  BY DEF Holders
<1>2. uref[t] = Cardinality(Holders(t)) + Own(t) /\ uref[t] \in Nat
  BY DEF UrefInv, TypeOK
<1>3. Own(t) \in {0, 1} /\ Own(t)' \in {0, 1}
  BY DEF Own
<1>4. Cardinality(Holders(t)) \in Nat
  BY HoldersFinite
<1>5. CASE t = o
  BY <1>1, <1>2, <1>3, <1>4, <1>5
<1>6. CASE t # o
  BY <1>1, <1>2, <1>6
<1> QED
  BY <1>5, <1>6

LEMMA UrefStep ==
  ASSUME TypeOK, ShapeInv, UrefInv, Next
  PROVE  UrefInv'
<1>1. ASSUME UNCHANGED dump PROVE \A t \in Tables : Holders(t)' = Holders(t)
  BY <1>1 DEF Holders
<1>2. ASSUME NEW t \in Tables, ResizeAlloc(t) PROVE UrefInv'
  <2>1. resize.pc = "idle" /\ resize'.pc = "alloc" /\ UNCHANGED <<uref, dump>>
    BY <1>2, ResizeFacts DEF ResizeAlloc
  <2>2. \A u \in Tables : Own(u)' = Own(u)
    BY <2>1 DEF Own
  <2> QED
    BY <1>1, <2>1, <2>2, UrefSame
<1>3. ASSUME ResizeRef PROVE UrefInv'
  <2>1. resize.pc = "alloc" /\ resize'.pc = "ref" /\ UNCHANGED <<uref, dump>>
    BY <1>3, ResizeFacts DEF ResizeRef
  <2>2. \A u \in Tables : Own(u)' = Own(u)
    BY <2>1 DEF Own
  <2> QED
    BY <1>1, <2>1, <2>2, UrefSame
<1>4. ASSUME ResizeCopy \/ ResizeFail PROVE UrefInv'
  <2>1. /\ resize.pc = "copy" /\ resize'.pc \in {"fail", "sync"}
        /\ resize'.orig = resize.orig /\ UNCHANGED <<uref, dump>>
    BY <1>4, ResizeFacts DEF ResizeCopy, ResizeFail
  <2>2. \A u \in Tables : Own(u)' = Own(u)
    BY <2>1 DEF Own
  <2> QED
    BY <1>1, <2>1, <2>2, UrefSame
<1>5. ASSUME ResizeUref PROVE UrefInv'
  <2>0. PICK o \in Tables : o = resize.orig
    BY <1>5 DEF ResizeUref, ShapeInv, TypeOK
  <2>1. /\ resize.pc = "ref" /\ resize'.pc = "copy" /\ resize'.orig = o
        /\ resize.orig = o /\ UNCHANGED dump
    BY <1>5, <2>0, ResizeFacts DEF ResizeUref
  <2>2. uref'[o] = uref[o] + 1 /\ \A t \in Tables : t # o => uref'[t] = uref[t]
    BY <1>5, <2>1 DEF ResizeUref, TypeOK
  <2>3. Own(o) = 0 /\ Own(o)' = 1 /\ \A t \in Tables : t # o => Own(t)' = Own(t)
    BY <2>1 DEF Own
  <2>4. uref[o] \in Nat
    BY <2>1 DEF TypeOK
  <2>5. uref'[o] - uref[o] = Own(o)' - Own(o) /\ uref'[o] \in Int
    BY <2>2, <2>3, <2>4
  <2> QED
    BY <2>1, <2>2, <2>3, <2>5, UrefOwn
<1>6. ASSUME ResizeCleanup \/ ResizePut PROVE UrefInv'
  <2>0. PICK o \in Tables : o = resize.orig
    BY <1>6 DEF ResizeCleanup, ResizePut, ShapeInv, TypeOK
  <2>1. /\ resize.pc \in {"fail", "sync"} /\ resize'.pc = "idle"
        /\ resize.orig = o /\ UNCHANGED dump
    BY <1>6, <2>0, ResizeFacts DEF ResizeCleanup, ResizePut
  <2>2. uref'[o] = uref[o] - 1 /\ \A t \in Tables : t # o => uref'[t] = uref[t]
    BY <1>6, <2>1 DEF ResizeCleanup, ResizePut, TypeOK
  <2>3. Own(o) = 1 /\ Own(o)' = 0 /\ \A t \in Tables : t # o => Own(t)' = Own(t)
    BY <2>1 DEF Own
  <2>4. uref[o] \in Nat
    BY <2>1 DEF TypeOK
  <2>5. uref'[o] - uref[o] = Own(o)' - Own(o) /\ uref'[o] \in Int
    BY <2>2, <2>3, <2>4
  <2> QED
    BY <2>1, <2>2, <2>3, <2>5, UrefOwn
<1>7. ASSUME resize'.pc = resize.pc, resize'.orig = resize.orig
      PROVE  \A t \in Tables : Own(t)' = Own(t)
  BY <1>7 DEF Own
<1>8. ASSUME NEW r \in Readers, ReaderEnter(r) \/ ReaderLeave(r) PROVE UrefInv'
  <2>1. UNCHANGED <<uref, dump>> /\ resize'.pc = resize.pc /\ resize'.orig = resize.orig
    BY <1>8, ResizeFacts DEF ReaderEnter, ReaderLeave
  <2> QED
    BY <1>1, <1>7, <2>1, UrefSame
<1>9. ASSUME NEW e \in Elems, Drop(e) \/ CommentFree(e) PROVE UrefInv'
  <2>1. UNCHANGED <<uref, dump, resize>>
    BY <1>9 DEF Drop, CommentFree
  <2> QED
    BY <1>1, <1>7, <2>1, UrefSame
<1>10. ASSUME NEW d \in Dumpers,
              DumpStart(d) \/ DumpList(d) \/ DumpMessage(d) \/ DumpCheck(d)
       PROVE  UrefInv'
  <2>1. UNCHANGED uref /\ resize'.pc = resize.pc /\ resize'.orig = resize.orig
    BY <1>10, ResizeFacts DEF DumpStart, DumpList, DumpMessage, DumpCheck
  <2>2. /\ Others(d)
        /\ \/ dump[d].pc \notin {"held", "list"} /\ dump'[d].pc \notin {"held", "list"}
           \/ /\ dump[d].pc \in {"held", "list"} /\ dump'[d].pc \in {"held", "list"}
              /\ dump'[d].table = dump[d].table
    BY <1>10, DumpFacts
  <2>3. \A t \in Tables : Holders(t)' = Holders(t)
    BY <2>2, HoldersSame DEF Others
  <2> QED
    BY <1>7, <2>1, <2>3, UrefSame
<1>11. ASSUME NEW d \in Dumpers, DumpHold(d) \/ DumpRelease(d),
              NEW t \in Tables
       PROVE  (uref[t] = Cardinality(Holders(t)) + Own(t))'
  <2> DEFINE o == dump[d].table
  <2>1. o \in Tables /\ Others(d) /\ resize'.pc = resize.pc /\ resize'.orig = resize.orig
    BY <1>11, DumpFacts, ResizeFacts DEF ShapeInv, DumpHold, DumpRelease
  <2>2. /\ Own(t)' = Own(t) /\ uref[t] = Cardinality(Holders(t)) + Own(t)
        /\ uref[t] \in Nat /\ Own(t) \in {0, 1}
    BY <1>7, <2>1 DEF UrefInv, TypeOK, Own
  <2>3. /\ Cardinality(Holders(t)) \in Nat /\ IsFiniteSet(Holders(t))
    BY HoldersFinite
  <2>4. CASE DumpHold(d)
    <3>1. uref'[t] = IF t = o THEN uref[t] + 1 ELSE uref[t]
      BY <2>1, <2>4 DEF DumpHold, TypeOK
    <3>2. dump[d].pc = "start" /\ dump'[d].pc = "held" /\ dump'[d].table = o
      BY <2>4, DumpFacts
    <3>3. d \notin Holders(t)
      BY <3>2 DEF Holders
    <3>4. Holders(t)' = IF t = o THEN Holders(t) \cup {d} ELSE Holders(t)
      BY <2>1, <3>2 DEF Holders, Others
    <3>5. Cardinality(Holders(t) \cup {d}) = Cardinality(Holders(t)) + 1
      BY <2>3, <3>3, FS_AddElement
    <3> QED
      BY <2>2, <2>3, <3>1, <3>4, <3>5
  <2>5. CASE DumpRelease(d)
    <3>1. uref'[t] = IF t = o THEN uref[t] - 1 ELSE uref[t]
      BY <2>1, <2>5 DEF DumpRelease, TypeOK
    <3>2. dump[d].pc = "held" /\ dump'[d].pc \notin {"held", "list"}
      BY <2>5, DumpFacts
    <3>3. t = o => d \in Holders(t)
      BY <3>2 DEF Holders
    <3>4. Holders(t)' = IF t = o THEN Holders(t) \ {d} ELSE Holders(t)
      BY <2>1, <3>2 DEF Holders, Others
    <3>5. t = o => Cardinality(Holders(t) \ {d}) = Cardinality(Holders(t)) - 1
      BY <2>3, <3>3, FS_RemoveElement
    <3> QED
      BY <2>2, <2>3, <3>1, <3>4, <3>5
  <2> QED
    BY <1>11, <2>4, <2>5
<1>12. ASSUME NEW d \in Dumpers, DumpHold(d) \/ DumpRelease(d) PROVE UrefInv'
  BY <1>11, <1>12 DEF UrefInv
<1> QED
  BY <1>2, <1>3, <1>4, <1>5, <1>6, <1>8, <1>9, <1>10, <1>12 DEF Next

-----------------------------------------------------------------------------
(* Somebody is left to free every table that was replaced.                 *)

LEMMA OldStep ==
  ASSUME TablesInv, Next
  PROVE  OldInv'
<1> USE DEF TablesInv
<1>1. SUFFICES ASSUME NEW t \in Tables, mem'[t] = "live", t # table', ~Fresh(t)'
               PROVE  Freer(t)'
  BY DEF OldInv
<1>2. mem[t] = "live" /\ t # table /\ ~Fresh(t) => Freer(t)
  BY DEF OldInv
<1>3. ASSUME NEW u \in Tables, ResizeAlloc(u) PROVE Freer(t)'
  <2>1. resize.pc = "idle" /\ resize'.pc = "alloc" /\ resize'.new = u
    BY <1>3, ResizeFacts
  <2>2. mem[t] = "live" /\ ~Fresh(t)
    BY <1>1, <1>3, <2>1 DEF ResizeAlloc, Fresh, TypeOK
  <2> QED
    BY <1>1, <1>2, <1>3, <2>1, <2>2 DEF ResizeAlloc, Freer
<1>4. ASSUME ResizeRef \/ ResizeUref \/ ResizeFail PROVE Freer(t)'
  <2>1. /\ resize.pc \in {"alloc", "ref", "copy"} /\ resize'.pc \in {"ref", "copy", "fail"}
        /\ resize'.new = resize.new
    BY <1>4, ResizeFacts
  <2>2. UNCHANGED <<table, mem, dump>>
    BY <1>4 DEF ResizeRef, ResizeUref, ResizeFail
  <2>3. Freer(t) /\ t # table
    BY <1>1, <1>2, <2>1, <2>2 DEF Fresh
  <2>4. ref'[t] = ref[t]
    BY <1>4, <2>3 DEF ResizeRef, ResizeUref, ResizeFail, TypeOK, ShapeInv
  <2> QED
    BY <2>1, <2>2, <2>3, <2>4 DEF Freer
<1>5. ASSUME ResizeCopy PROVE Freer(t)'
  <2>1. /\ resize.pc = "copy" /\ resize'.pc = "sync" /\ resize'.orig = resize.orig
        /\ resize'.new = resize.new /\ resize.orig = table
    BY <1>5, ResizeFacts DEF ShapeInv
  <2>2. UNCHANGED <<mem, ref, dump>> /\ table' = resize.new
    BY <1>5 DEF ResizeCopy
  <2>3. CASE t = table
    BY <2>1, <2>2, <2>3 DEF Freer, MarkInv
  <2>4. CASE t # table
    <3>1. Freer(t)
      BY <1>1, <1>2, <2>1, <2>2, <2>4 DEF Fresh
    <3> QED
      BY <2>1, <2>2, <3>1 DEF Freer
  <2> QED
    BY <2>3, <2>4
<1>6. ASSUME ResizeCleanup PROVE Freer(t)'
  <2>1. resize.pc = "fail" /\ resize'.pc = "idle" /\ UNCHANGED <<table, ref, dump>>
    BY <1>6, ResizeFacts DEF ResizeCleanup
  <2>2. t # resize.new /\ mem[t] = "live"
    BY <1>1, <1>6 DEF ResizeCleanup, TypeOK
  <2>3. Freer(t)
    BY <1>1, <1>2, <2>1, <2>2 DEF Fresh
  <2> QED
    BY <2>1, <2>3 DEF Freer
<1>7. ASSUME ResizePut PROVE Freer(t)'
  <2>1. /\ resize.pc = "sync" /\ resize'.pc = "idle" /\ UNCHANGED <<table, ref, dump>>
        /\ resize.orig \in Tables
    BY <1>7, ResizeFacts DEF ResizePut, ShapeInv
  <2>2. mem[t] = "live" /\ (t = resize.orig => uref[t] # 1)
    BY <1>1, <1>7 DEF ResizePut, TypeOK
  <2>3. Freer(t)
    BY <1>1, <1>2, <2>1, <2>2 DEF Fresh
  <2>4. CASE t = resize.orig
    <3>1. Own(t) = 1
      BY <2>1, <2>4 DEF Own
    <3>2. Holders(t) # {}
      BY <2>2, <2>4, <3>1, UrefFacts
    <3>3. \E d \in Dumpers : dump[d].table = t /\ dump[d].pc \in {"held", "list", "check"}
      BY <3>2 DEF Holders
    <3> QED
      BY <2>1, <2>3, <3>3 DEF Freer
  <2>5. CASE t # resize.orig
    BY <2>1, <2>3, <2>5 DEF Freer
  <2> QED
    BY <2>4, <2>5
<1>8. ASSUME NEW r \in Readers, ReaderEnter(r) \/ ReaderLeave(r) PROVE Freer(t)'
  <2>1. /\ UNCHANGED <<table, mem, ref, dump>> /\ resize'.pc = resize.pc
        /\ resize'.orig = resize.orig /\ resize'.new = resize.new
    BY <1>8, ResizeFacts DEF ReaderEnter, ReaderLeave
  <2> QED
    BY <1>1, <1>2, <2>1 DEF Fresh, Freer
<1>9. ASSUME NEW e \in Elems, Drop(e) \/ CommentFree(e) PROVE Freer(t)'
  BY <1>1, <1>2, <1>9 DEF Drop, CommentFree, Fresh, Freer
<1>10. ASSUME NEW d \in Dumpers,
              DumpStart(d) \/ DumpHold(d) \/ DumpList(d) \/ DumpMessage(d)
       PROVE  Freer(t)'
  <2>1. /\ UNCHANGED <<table, mem, ref>> /\ resize'.pc = resize.pc
        /\ resize'.orig = resize.orig /\ resize'.new = resize.new
    BY <1>10, ResizeFacts DEF DumpStart, DumpHold, DumpList, DumpMessage
  <2>2. Freer(t)
    BY <1>1, <1>2, <2>1 DEF Fresh
  <2>3. /\ Others(d)
        /\ \/ dump[d].pc \in {"idle", "start"}
           \/ dump'[d].table = dump[d].table /\ dump'[d].pc \in {"held", "list"}
    BY <1>10, DumpFacts
  <2> QED
    BY <2>1, <2>2, <2>3 DEF Freer, Others
<1>11. ASSUME NEW d \in Dumpers, DumpRelease(d) PROVE Freer(t)'
  <2>1. UNCHANGED <<table, mem, ref, resize>> /\ Others(d)
    BY <1>11, DumpFacts DEF DumpRelease
  <2>2. Freer(t)
    BY <1>1, <1>2, <2>1 DEF Fresh
  <2>3. CASE dump[d].table # t
    BY <2>1, <2>2, <2>3 DEF Freer, Others
  <2>4. CASE dump[d].table = t /\ uref[t] = 1
    <3>1. dump'[d].table = t /\ dump'[d].pc = "check"
      BY <1>11, <2>4, DumpFacts
    <3> QED
      BY <2>1, <2>2, <3>1 DEF Freer
  <2>5. CASE dump[d].table = t /\ uref[t] # 1
    <3>1. d \in Holders(t)
      BY <1>11, <2>5 DEF Holders, DumpRelease
    <3>2. Own(t) = 1 \/ \E e \in Holders(t) : e # d
      BY <2>5, <3>1, UrefFacts
    <3>3. CASE Own(t) = 1
      <4>1. resize.pc \in {"copy", "fail", "sync"} /\ resize.orig = t
        BY <3>3 DEF Own
      <4>2. resize.pc = "sync"
        BY <1>1, <2>1, <4>1 DEF ShapeInv
      <4> QED
        BY <2>1, <2>2, <4>1, <4>2 DEF Freer
    <3>4. CASE \E e \in Holders(t) : e # d
      <4>1. PICK e \in Dumpers : /\ e # d /\ dump[e].table = t
                                 /\ dump[e].pc \in {"held", "list"}
        BY <3>4 DEF Holders
      <4> QED
        BY <2>1, <2>2, <4>1 DEF Freer, Others
    <3> QED
      BY <3>2, <3>3, <3>4
  <2> QED
    BY <2>3, <2>4, <2>5
<1>12. ASSUME NEW d \in Dumpers, DumpCheck(d) PROVE Freer(t)'
  <2>1. UNCHANGED <<table, ref, resize>> /\ Others(d)
    BY <1>12, DumpFacts DEF DumpCheck
  <2>2. mem[t] = "live" /\ (t = dump[d].table => ref[t] # 1)
    BY <1>1, <1>12 DEF DumpCheck, TypeOK
  <2>3. Freer(t)
    BY <1>1, <1>2, <2>1, <2>2 DEF Fresh
  <2>4. dump[d].table # t
    BY <2>2, <2>3 DEF Freer
  <2> QED
    BY <2>1, <2>3, <2>4 DEF Freer, Others
<1> QED
  BY <1>3, <1>4, <1>5, <1>6, <1>7, <1>8, <1>9, <1>10, <1>11, <1>12 DEF Next

-----------------------------------------------------------------------------
(* The invariant of the tables.                                            *)

LEMMA TablesInit == Init => TablesInv
<1> SUFFICES ASSUME Init PROVE TablesInv
  OBVIOUS
<1>1. resize.pc = "idle" /\ resize = NoResize /\ \A d \in Dumpers :
        dump[d].pc = "idle" /\ dump[d].table = NoTable /\ dump[d].reads = {}
  BY DEF Init, NoResize, NoDump
<1>2. TypeOK
  BY TablesAssumption DEF Init, TypeOK, NoResize, NoDump
<1>3. ShapeInv
  BY <1>1 DEF ShapeInv
<1>4. FreshInv /\ MarkInv
  BY <1>1, TablesAssumption DEF Init, FreshInv, Fresh, MarkInv
<1>5. UrefInv
  <2>1. \A t \in Tables : Holders(t) = {} /\ Own(t) = 0 /\ uref[t] = 0
    BY <1>1 DEF Holders, Own, Init
  <2>2. \A t \in Tables : Cardinality(Holders(t)) = 0
    BY <2>1, FS_EmptySet
  <2> QED
    BY <2>1, <2>2 DEF UrefInv
<1>6. OldInv
  BY DEF Init, OldInv
<1> QED
  BY <1>2, <1>3, <1>4, <1>5, <1>6 DEF TablesInv

LEMMA TablesStep == TablesInv /\ [Next]_tablevars => TablesInv'
<1> SUFFICES ASSUME TablesInv, [Next]_tablevars PROVE TablesInv'
  OBVIOUS
<1>1. CASE Next
  BY <1>1, TypeStep, ShapeStep, FreshStep, MarkStep, UrefStep, OldStep DEF TablesInv
<1>2. CASE UNCHANGED tablevars
  <2> USE <1>2 DEF tablevars
  <2>1. TypeOK' /\ ShapeInv' /\ MarkInv'
    BY DEF TablesInv, TypeOK, ShapeInv, MarkInv
  <2>2. FreshInv' /\ OldInv'
    BY DEF TablesInv, FreshInv, OldInv, Fresh, Freer
  <2>3. UrefInv'
    BY DEF TablesInv, UrefInv, Holders, Own
  <2> QED
    BY <2>1, <2>2, <2>3 DEF TablesInv
<1> QED
  BY <1>1, <1>2

LEMMA TablesSafe == Spec => []TablesInv
PROOF BY TablesInit, TablesStep, PTL DEF Spec

\* Every variable has its type; in particular mtype_uref and mtype_resize
\* never drop a reference below zero, in whatever order listings and resizes
\* end.
THEOREM TablesTypeCorrect == Spec => []TypeOK
<1>1. TablesInv => TypeOK
  BY DEF TablesInv
<1> QED
  BY <1>1, TablesSafe, PTL

\* No table is leaked: of the listings and the resize that have a table, the
\* last one frees it, so that with none under way only the current one is
\* left.
THEOREM NoTableLeaks == Spec => []OldTablesFreed
<1>1. ASSUME TablesInv PROVE OldTablesFreed
  <2> SUFFICES ASSUME resize.pc = "idle", \A d \in Dumpers : dump[d].pc = "idle",
                      NEW t \in Tables, mem[t] = "live", t # table
               PROVE  FALSE
    BY DEF OldTablesFreed
  <2>1. ~Fresh(t)
    BY DEF Fresh
  <2>2. Freer(t)
    BY <1>1, <2>1 DEF TablesInv, OldInv
  <2> QED
    BY <2>2 DEF Freer
<1> QED
  BY <1>1, TablesSafe, PTL

-----------------------------------------------------------------------------
(* The comments of the current table.                                      *)

LEMMA CommentStep ==
  ASSUME TablesInv, CommentInv, Next
  PROVE  CommentInv'
<1> USE DEF CommentInv
<1>0. TypeOK /\ ShapeInv /\ FreshInv
  BY DEF TablesInv
<1>1. ASSUME UNCHANGED <<table, content, comment, grace, dump>> PROVE CommentInv'
  BY <1>1
<1>2. ASSUME (\E t \in Tables : ResizeAlloc(t)) \/ ResizeRef \/ ResizeUref \/ ResizeFail
               \/ ResizeCleanup \/ ResizePut \/ (\E r \in Readers : ReaderEnter(r))
      PROVE  CommentInv'
  BY <1>1, <1>2
     DEF ResizeAlloc, ResizeRef, ResizeUref, ResizeFail, ResizeCleanup, ResizePut, ReaderEnter
<1>3. ASSUME ResizeCopy PROVE CommentInv'
  <2>1. /\ resize.pc = "copy" /\ resize.orig = table /\ resize.new \in Tables
        /\ table' = resize.new /\ UNCHANGED <<comment, grace, dump>>
    BY <1>0, <1>3 DEF ResizeCopy, ShapeInv
  <2>2. content'[table'] = content[table]
    BY <1>0, <1>3, <2>1 DEF ResizeCopy, TypeOK
  <2>3. \A d \in Dumpers : dump[d].table # resize.new
    BY <1>0, <2>1 DEF FreshInv, Fresh
  <2> QED
    BY <2>1, <2>2, <2>3
<1>4. ASSUME NEW r \in Readers, ReaderLeave(r) PROVE CommentInv'
  <2>1. UNCHANGED <<table, content, comment, dump>>
    BY <1>4 DEF ReaderLeave
  <2>2. \A e \in Elems : \A d \in Dumpers : d \in grace[e] => d \in grace'[e]
    BY <1>0, <1>4, TablesAssumption DEF ReaderLeave, Leave
  <2>3. \A d \in Dumpers : dump[d].reads \subseteq Elems
    BY <1>0, Fields
  <2> QED
    BY <2>1, <2>2, <2>3
<1>5. ASSUME NEW x \in Elems, Drop(x) PROVE CommentInv'
  <2>1. UNCHANGED <<table, dump>> /\ x \in content[table]
    BY <1>5 DEF Drop
  <2>2. content'[table] = content[table] \ {x}
    BY <1>0, <1>5 DEF Drop, TypeOK
  <2>3. /\ comment'[x] = "retired" /\ grace'[x] = InRcu
        /\ \A e \in Elems : e # x => comment'[e] = comment[e] /\ grace'[e] = grace[e]
    BY <1>0, <1>5 DEF Drop, TypeOK
  <2>4. content[table] \subseteq Elems
    BY <1>0 DEF TypeOK
  <2>5. \A e \in content'[table'] : comment'[e] = "live"
    BY <2>1, <2>2, <2>3, <2>4
  <2>6. ASSUME NEW d \in Dumpers, dump[d].table = table, NEW e \in dump[d].reads
        PROVE  comment'[e] = "live" \/ (comment'[e] = "retired" /\ d \in grace'[e])
    <3>1. e \in Elems
      BY <1>0, Fields
    <3>2. dump[d].pc = "list"
      BY <1>0 DEF ShapeInv
    <3>3. d \in InRcu
      BY <3>2 DEF InRcu
    <3>4. comment[e] = "live" \/ (comment[e] = "retired" /\ d \in grace[e])
      BY <2>6
    <3> QED
      BY <2>3, <3>1, <3>3, <3>4
  <2> QED
    BY <2>1, <2>5, <2>6
<1>6. ASSUME NEW x \in Elems, CommentFree(x) PROVE CommentInv'
  <2>1. /\ UNCHANGED <<table, content, grace, dump>>
        /\ comment[x] = "retired" /\ grace[x] = {}
    BY <1>6 DEF CommentFree
  <2>2. \A e \in Elems : e # x => comment'[e] = comment[e]
    BY <1>0, <1>6 DEF CommentFree, TypeOK
  <2>3. content[table] \subseteq Elems /\ \A d \in Dumpers : dump[d].reads \subseteq Elems
    BY <1>0, Fields DEF TypeOK
  <2> QED
    BY <2>1, <2>2, <2>3
<1>7. ASSUME NEW d \in Dumpers, Others(d), UNCHANGED <<table, content, comment>>,
             \A e \in Elems : \A c \in Dumpers : c # d /\ c \in grace[e] => c \in grace'[e],
             dump'[d].table = table => \A e \in dump'[d].reads : comment[e] = "live"
      PROVE  CommentInv'
  <2>1. \A c \in Dumpers : dump[c].reads \subseteq Elems
    BY <1>0, Fields
  <2> QED
    BY <1>7, <2>1 DEF Others
<1>8. ASSUME NEW d \in Dumpers, DumpStart(d) PROVE CommentInv'
  <2>1. Others(d) /\ dump'[d].reads = {} /\ UNCHANGED <<table, content, comment, grace>>
    BY <1>0, <1>8, DumpFacts DEF DumpStart
  <2> QED
    BY <1>7, <2>1
<1>9. ASSUME NEW d \in Dumpers, DumpHold(d) \/ DumpMessage(d) PROVE CommentInv'
  <2>1. Others(d) /\ dump'[d].reads = {}
    BY <1>0, <1>9, DumpFacts DEF ShapeInv
  <2>2. UNCHANGED <<table, content, comment>> /\ Leave(d)
    BY <1>9 DEF DumpHold, DumpMessage
  <2>3. \A e \in Elems : \A c \in Dumpers : c # d /\ c \in grace[e] => c \in grace'[e]
    BY <2>2 DEF Leave
  <2> QED
    BY <1>7, <2>1, <2>2, <2>3
<1>10. ASSUME NEW d \in Dumpers, DumpList(d) PROVE CommentInv'
  <2>1. /\ Others(d) /\ dump'[d].reads = content[dump[d].table]
        /\ dump'[d].table = dump[d].table /\ UNCHANGED <<table, content, comment, grace>>
    BY <1>0, <1>10, DumpFacts DEF DumpList
  <2> QED
    BY <1>7, <2>1
<1>11. ASSUME NEW d \in Dumpers, DumpRelease(d) \/ DumpCheck(d) PROVE CommentInv'
  <2>1. Others(d) /\ dump'[d].reads = {}
    BY <1>0, <1>11, DumpFacts DEF ShapeInv
  <2>2. UNCHANGED <<table, content, comment, grace>>
    BY <1>11 DEF DumpRelease, DumpCheck
  <2> QED
    BY <1>7, <2>1, <2>2
<1> HIDE DEF CommentInv
<1> QED
  BY <1>2, <1>3, <1>4, <1>5, <1>6, <1>8, <1>9, <1>10, <1>11 DEF Next

\* What a message about the current table may read is allocated: elements
\* that commands and the garbage collector take out of the table meanwhile
\* keep their comments until the message has been put together.
THEOREM MessagesReadLiveComments == Spec => []CurrentCommentsAlive
<1>1. Init => CommentInv
  BY TablesAssumption DEF Init, CommentInv, NoDump
<1>2. TablesInv /\ CommentInv /\ [Next]_tablevars => CommentInv'
  <2>1. UNCHANGED tablevars /\ CommentInv => CommentInv'
    BY DEF tablevars, CommentInv
  <2> QED
    BY <2>1, CommentStep
<1>3. CommentInv => CurrentCommentsAlive
  BY DEF CommentInv, CurrentCommentsAlive
<1> QED
  BY <1>1, <1>2, <1>3, TablesSafe, PTL DEF Spec

-----------------------------------------------------------------------------
(* Nobody works on a freed table.                                          *)

LEMMA LiveStep ==
  ASSUME TablesInv, AliveInv, Next
  PROVE  LiveInv'
<1>0. TypeOK /\ ShapeInv /\ FreshInv /\ MarkInv /\ UrefInv /\ LiveInv /\ GraceInv /\ CheckInv
  BY DEF TablesInv, AliveInv
<1>1. ASSUME NEW u \in Tables, ResizeAlloc(u) PROVE LiveInv'
  <2>1. resize'.pc = "alloc" /\ resize'.new = u /\ UNCHANGED <<table, reader, dump>>
    BY <1>0, <1>1, ResizeFacts DEF ResizeAlloc
  <2>2. mem'[u] = "live" /\ \A t \in Tables : t # u => mem'[t] = mem[t]
    BY <1>0, <1>1 DEF ResizeAlloc, TypeOK
  <2>3. /\ table \in Tables
        /\ \A r \in Readers : reader[r] # NoTable => reader[r] \in Tables
        /\ \A d \in Dumpers : dump[d].table # NoTable => dump[d].table \in Tables
    BY <1>0, Fields DEF TypeOK
  <2> QED
    BY <1>0, <2>1, <2>2, <2>3 DEF LiveInv
<1>2. ASSUME ResizeRef \/ ResizeUref \/ ResizeFail PROVE LiveInv'
  <2>1. /\ resize.pc # "idle" /\ resize'.pc # "sync" /\ resize'.new = resize.new
        /\ UNCHANGED <<table, mem, reader, dump>>
    BY <1>0, <1>2, ResizeFacts DEF ResizeRef, ResizeUref, ResizeFail
  <2> QED
    BY <1>0, <2>1 DEF LiveInv
<1>3. ASSUME ResizeCopy PROVE LiveInv'
  <2>1. /\ resize.pc = "copy" /\ resize.orig = table /\ resize'.orig = table
        /\ resize'.new = resize.new /\ table' = resize.new /\ UNCHANGED <<mem, reader, dump>>
    BY <1>0, <1>3, ResizeFacts DEF ResizeCopy, ShapeInv
  <2> QED
    BY <1>0, <2>1 DEF LiveInv
<1>4. ASSUME ResizeCleanup PROVE LiveInv'
  <2>1. /\ resize.pc = "fail" /\ resize.new \in Tables /\ resize'.pc = "idle"
        /\ UNCHANGED <<table, reader, dump>>
    BY <1>0, <1>4, ResizeFacts DEF ResizeCleanup, ShapeInv
  <2>2. \A t \in Tables : t # resize.new => mem'[t] = mem[t]
    BY <1>0, <1>4 DEF ResizeCleanup, TypeOK
  <2>3. /\ table # resize.new
        /\ \A r \in Readers : reader[r] # resize.new
        /\ \A d \in Dumpers : dump[d].table # resize.new
    BY <1>0, <2>1 DEF FreshInv, Fresh
  <2>4. /\ table \in Tables
        /\ \A r \in Readers : reader[r] # NoTable => reader[r] \in Tables
        /\ \A d \in Dumpers : dump[d].table # NoTable => dump[d].table \in Tables
    BY <1>0, Fields DEF TypeOK
  <2> QED
    BY <1>0, <2>1, <2>2, <2>3, <2>4 DEF LiveInv
<1>5. ASSUME ResizePut PROVE LiveInv'
  <2>1. /\ resize.pc = "sync" /\ resize.waits = {} /\ resize'.pc = "idle"
        /\ UNCHANGED <<table, reader, dump>>
        /\ resize.orig \in Tables /\ resize.orig # table
    BY <1>0, <1>5, ResizeFacts DEF ResizePut, ShapeInv
  <2>2. /\ \A t \in Tables : t # resize.orig => mem'[t] = mem[t]
        /\ uref[resize.orig] # 1 => mem'[resize.orig] = mem[resize.orig]
    BY <1>0, <1>5, <2>1 DEF ResizePut, TypeOK
  <2>3. \A r \in Readers : reader[r] # NoTable => reader[r] = table
    BY <1>0, <2>1 DEF GraceInv
  <2>4. ASSUME NEW d \in Dumpers, dump[d].table = resize.orig PROVE uref[resize.orig] # 1
    <3>1. dump[d].pc \notin {"idle", "start", "check"}
      BY <1>0, <2>1, <2>4, TablesAssumption DEF ShapeInv, GraceInv, CheckInv
    <3>2. dump[d].pc \in {"held", "list"}
      BY <1>0, <3>1, Fields
    <3>3. d \in Holders(resize.orig) /\ Own(resize.orig) = 1
      BY <2>1, <2>4, <3>2 DEF Holders, Own
    <3> QED
      BY <1>0, <2>1, <3>3, UrefFacts
  <2>5. /\ table \in Tables
        /\ \A d \in Dumpers : dump[d].table # NoTable => dump[d].table \in Tables
    BY <1>0, Fields DEF TypeOK
  <2> QED
    BY <1>0, <2>1, <2>2, <2>3, <2>4, <2>5 DEF LiveInv
<1>6. ASSUME NEW r \in Readers, ReaderEnter(r) \/ ReaderLeave(r) PROVE LiveInv'
  <2>1. /\ UNCHANGED <<table, mem, dump>> /\ resize'.pc = resize.pc
        /\ resize'.orig = resize.orig /\ resize'.new = resize.new
    BY <1>0, <1>6, ResizeFacts DEF ReaderEnter, ReaderLeave
  <2>2. \A q \in Readers : reader'[q] \in {reader[q], table, NoTable}
    BY <1>0, <1>6 DEF ReaderEnter, ReaderLeave, TypeOK
  <2> QED
    BY <1>0, <2>1, <2>2 DEF LiveInv
<1>7. ASSUME NEW e \in Elems, Drop(e) \/ CommentFree(e) PROVE LiveInv'
  BY <1>0, <1>7 DEF Drop, CommentFree, LiveInv
<1>8. ASSUME NEW d \in Dumpers,
             DumpStart(d) \/ DumpHold(d) \/ DumpList(d) \/ DumpMessage(d) \/ DumpRelease(d)
      PROVE  LiveInv'
  <2>1. /\ UNCHANGED <<table, mem, reader>> /\ resize'.pc = resize.pc
        /\ resize'.orig = resize.orig /\ resize'.new = resize.new
    BY <1>0, <1>8, ResizeFacts DEF DumpStart, DumpHold, DumpList, DumpMessage, DumpRelease
  <2>2. Others(d) /\ dump'[d].table \in {dump[d].table, table, NoTable}
    BY <1>0, <1>8, DumpFacts
  <2> QED
    BY <1>0, <2>1, <2>2 DEF LiveInv, Others
<1>9. ASSUME NEW d \in Dumpers, DumpCheck(d) PROVE LiveInv'
  <2> DEFINE o == dump[d].table
  <2>1. /\ dump[d].pc = "check" /\ o \in Tables /\ Others(d) /\ dump'[d].table = NoTable
        /\ UNCHANGED <<table, ref, resize, reader>>
    BY <1>0, <1>9, DumpFacts DEF DumpCheck, ShapeInv
  <2>2. /\ \A t \in Tables : t # o => mem'[t] = mem[t]
        /\ ref[o] # 1 => mem' = mem
    BY <1>0, <1>9 DEF DumpCheck, TypeOK
  <2>3. CASE ref[o] # 1
    BY <1>0, <2>1, <2>2, <2>3 DEF LiveInv, Others
  <2>4. CASE ref[o] = 1
    <3>1. resize.pc \in {"ref", "copy", "fail", "sync"} => o # resize.orig
      BY <1>0, <2>1 DEF CheckInv
    <3>2. o # table
      BY <1>0, <2>4, <3>1 DEF MarkInv, ShapeInv
    <3>3. resize.pc # "idle" => o # resize.new
      BY <1>0, <2>1, <2>4, <3>2, Fields DEF FreshInv, Fresh, ShapeInv
    <3>4. \A r \in Readers : reader[r] # o
      BY <1>0, <2>1, <3>1, <3>2, TablesAssumption DEF GraceInv
    <3>5. \A e \in Dumpers : e # d => dump[e].table # o
      BY <1>0, <2>1, <3>2 DEF CheckInv
    <3>6. /\ table \in Tables
          /\ resize.pc # "idle" => resize.new \in Tables
          /\ resize.pc = "sync" => resize.orig \in Tables
          /\ \A r \in Readers : reader[r] # NoTable => reader[r] \in Tables
          /\ \A e \in Dumpers : dump[e].table # NoTable => dump[e].table \in Tables
      BY <1>0, Fields DEF TypeOK, ShapeInv
    <3> HIDE DEF o
    <3> QED
      BY <1>0, <2>1, <2>2, <3>1, <3>2, <3>3, <3>4, <3>5, <3>6 DEF LiveInv, Others
  <2> QED
    BY <2>3, <2>4
<1> QED
  BY <1>1, <1>2, <1>3, <1>4, <1>5, <1>6, <1>7, <1>8, <1>9 DEF Next

LEMMA GraceStep ==
  ASSUME TablesInv, GraceInv, Next
  PROVE  GraceInv'
<1>0. TypeOK /\ ShapeInv
  BY DEF TablesInv
<1>1. ASSUME (\E t \in Tables : ResizeAlloc(t)) \/ ResizeRef \/ ResizeUref \/ ResizeFail
               \/ ResizeCleanup
      PROVE  GraceInv'
  <2>1. resize.pc # "sync"
    BY <1>0, <1>1, ResizeFacts
  <2>2. UNCHANGED <<table, reader, dump>>
    BY <1>1 DEF ResizeAlloc, ResizeRef, ResizeUref, ResizeFail, ResizeCleanup
  <2> QED
    BY <2>1, <2>2 DEF GraceInv
<1>2. ASSUME ResizePut PROVE GraceInv'
  <2>1. resize.waits = {} /\ UNCHANGED <<table, reader, dump>>
    BY <1>2 DEF ResizePut
  <2> QED
    BY <2>1 DEF GraceInv
<1>3. ASSUME ResizeCopy PROVE GraceInv'
  <2>1. /\ resize.pc = "copy" /\ resize'.pc = "sync" /\ resize'.orig = table
        /\ resize'.waits = InRcu /\ UNCHANGED <<reader, dump>>
    BY <1>0, <1>3, ResizeFacts DEF ResizeCopy, ShapeInv
  <2>2. /\ \A r \in Readers : reader[r] # NoTable => reader[r] = table /\ r \in InRcu
        /\ \A d \in Dumpers : dump[d].pc = "start" => dump[d].table = table /\ d \in InRcu
    BY <2>1 DEF GraceInv, InRcu
  <2> QED
    BY <2>1, <2>2 DEF GraceInv
<1>4. ASSUME NEW r \in Readers, ReaderEnter(r) PROVE GraceInv'
  <2>1. UNCHANGED <<table, resize, dump>>
    BY <1>4 DEF ReaderEnter
  <2>2. \A q \in Readers : reader'[q] \in {reader[q], table}
    BY <1>0, <1>4 DEF ReaderEnter, TypeOK
  <2> QED
    BY <2>1, <2>2 DEF GraceInv
<1>5. ASSUME NEW r \in Readers, ReaderLeave(r) PROVE GraceInv'
  <2>1. /\ UNCHANGED <<table, dump>> /\ resize'.pc = resize.pc
        /\ resize'.orig = resize.orig /\ resize'.waits = resize.waits \ {r}
    BY <1>0, <1>5, ResizeFacts DEF ReaderLeave
  <2>2. reader'[r] = NoTable /\ \A q \in Readers : q # r => reader'[q] = reader[q]
    BY <1>0, <1>5 DEF ReaderLeave, TypeOK
  <2> QED
    BY <2>1, <2>2, TablesAssumption DEF GraceInv
<1>6. ASSUME NEW e \in Elems, Drop(e) \/ CommentFree(e) PROVE GraceInv'
  BY <1>6 DEF Drop, CommentFree, GraceInv
<1>7. ASSUME NEW d \in Dumpers, DumpStart(d) \/ DumpList(d) \/ DumpRelease(d) \/ DumpCheck(d)
      PROVE  GraceInv'
  <2>1. UNCHANGED <<table, reader, resize>>
    BY <1>7 DEF DumpStart, DumpList, DumpRelease, DumpCheck
  <2>2. Others(d) /\ (dump'[d].pc = "start" => dump'[d].table = table)
    BY <1>0, <1>7, DumpFacts
  <2> QED
    BY <2>1, <2>2 DEF GraceInv, Others
<1>8. ASSUME NEW d \in Dumpers, DumpHold(d) \/ DumpMessage(d) PROVE GraceInv'
  <2>1. /\ UNCHANGED <<table, reader>> /\ resize'.pc = resize.pc
        /\ resize'.orig = resize.orig /\ resize'.waits = resize.waits \ {d}
    BY <1>0, <1>8, ResizeFacts DEF DumpHold, DumpMessage
  <2>2. Others(d) /\ dump'[d].pc # "start"
    BY <1>0, <1>8, DumpFacts
  <2> QED
    BY <2>1, <2>2, TablesAssumption DEF GraceInv, Others
<1> QED
  BY <1>1, <1>2, <1>3, <1>4, <1>5, <1>6, <1>7, <1>8 DEF Next

LEMMA CheckStep ==
  ASSUME TablesInv, GraceInv, CheckInv, Next, ~Overlapping
  PROVE  CheckInv'
<1>0. TypeOK /\ ShapeInv /\ FreshInv /\ UrefInv
  BY DEF TablesInv
<1>1. ASSUME NEW u \in Tables, ResizeAlloc(u) PROVE CheckInv'
  <2>1. resize'.pc = "alloc" /\ UNCHANGED <<table, dump>>
    BY <1>0, <1>1, ResizeFacts DEF ResizeAlloc
  <2> QED
    BY <2>1 DEF CheckInv
<1>2. ASSUME ResizeRef PROVE CheckInv'
  <2>1. resize'.pc = "ref" /\ resize'.orig = table /\ UNCHANGED <<table, dump>>
    BY <1>0, <1>2, ResizeFacts DEF ResizeRef
  <2> QED
    BY <2>1 DEF CheckInv, Overlapping
<1>3. ASSUME ResizeUref \/ ResizeFail PROVE CheckInv'
  <2>1. /\ resize.pc \in {"ref", "copy"} /\ resize'.orig = resize.orig
        /\ UNCHANGED <<table, dump>>
    BY <1>0, <1>3, ResizeFacts DEF ResizeUref, ResizeFail
  <2> QED
    BY <2>1 DEF CheckInv
<1>4. ASSUME ResizeCopy PROVE CheckInv'
  <2>1. /\ resize.pc = "copy" /\ resize.orig = table /\ resize'.orig = resize.orig
        /\ UNCHANGED dump
    BY <1>0, <1>4, ResizeFacts DEF ResizeCopy, ShapeInv
  <2> QED
    BY <2>1 DEF CheckInv
<1>5. ASSUME ResizeCleanup \/ ResizePut PROVE CheckInv'
  <2>1. resize'.pc = "idle" /\ UNCHANGED <<table, dump>>
    BY <1>0, <1>5, ResizeFacts DEF ResizeCleanup, ResizePut
  <2> QED
    BY <2>1 DEF CheckInv
<1>6. ASSUME NEW r \in Readers, ReaderEnter(r) \/ ReaderLeave(r) PROVE CheckInv'
  <2>1. /\ UNCHANGED <<table, dump>> /\ resize'.pc = resize.pc
        /\ resize'.orig = resize.orig
    BY <1>0, <1>6, ResizeFacts DEF ReaderEnter, ReaderLeave
  <2> QED
    BY <2>1 DEF CheckInv
<1>7. ASSUME NEW e \in Elems, Drop(e) \/ CommentFree(e) PROVE CheckInv'
  BY <1>7 DEF Drop, CommentFree, CheckInv
<1>8. ASSUME NEW d \in Dumpers, DumpStart(d) \/ DumpHold(d) \/ DumpList(d) \/ DumpMessage(d)
      PROVE  CheckInv'
  <2>1. /\ UNCHANGED table /\ resize'.pc = resize.pc /\ resize'.orig = resize.orig
    BY <1>0, <1>8, ResizeFacts DEF DumpStart, DumpHold, DumpList, DumpMessage
  <2>2. /\ Others(d) /\ dump'[d].pc # "check"
        /\ dump'[d].table \in {dump[d].table, table}
    BY <1>0, <1>8, DumpFacts
  <2> QED
    BY <2>1, <2>2 DEF CheckInv, Others
<1>9. ASSUME NEW d \in Dumpers, Others(d), UNCHANGED <<table, resize>>,
             dump'[d].pc = "idle", dump'[d].table = NoTable
      PROVE  CheckInv'
  <2>1. \A c \in Dumpers : dump[c].pc = "check" => dump[c].table # NoTable
    BY <1>0, TablesAssumption DEF ShapeInv
  <2> QED
    BY <1>9, <2>1 DEF CheckInv, Others
<1>10. ASSUME NEW d \in Dumpers, DumpCheck(d) PROVE CheckInv'
  BY <1>0, <1>9, <1>10, DumpFacts DEF DumpCheck
<1>11. ASSUME NEW d \in Dumpers, DumpRelease(d) PROVE CheckInv'
  <2> DEFINE o == dump[d].table
  <2>1. UNCHANGED <<table, resize>> /\ Others(d) /\ dump[d].pc = "held" /\ o \in Tables
    BY <1>0, <1>11, DumpFacts DEF DumpRelease, ShapeInv
  <2>2. CASE uref[o] # 1
    BY <1>0, <1>9, <1>11, <2>1, <2>2, DumpFacts
  <2>3. CASE uref[o] = 1
    <3>1. dump'[d].pc = "check" /\ dump'[d].table = o
      BY <1>0, <1>11, <2>3, DumpFacts
    <3>2. d \in Holders(o)
      BY <2>1 DEF Holders
    <3>3. Holders(o) = {d} /\ Own(o) = 0
      BY <1>0, <2>1, <2>3, <3>2, UrefFacts
    <3>4. resize.pc \in {"copy", "fail", "sync"} => o # resize.orig
      BY <3>3 DEF Own
    <3>5. resize.pc = "ref" => o # resize.orig
      BY <1>0, <2>1, <3>1 DEF Overlapping, ShapeInv
    <3>6. ASSUME o # table, NEW e \in Dumpers, e # d, dump[e].table = o PROVE FALSE
      <4>1. dump[e].pc \notin {"held", "list"}
        BY <3>3, <3>6 DEF Holders
      <4>2. dump[e].pc # "check"
        BY <2>1, <3>6 DEF CheckInv
      <4>3. dump[e].pc # "idle"
        BY <1>0, <2>1, <3>6, TablesAssumption DEF ShapeInv
      <4>4. dump[e].pc = "start"
        BY <1>0, <4>1, <4>2, <4>3, Fields
      <4> QED
        BY <3>4, <3>6, <4>4 DEF GraceInv
    <3>7. \A c \in Dumpers : c # d /\ dump[c].pc = "check" /\ dump[c].table # table =>
            dump[c].table # o
      BY <2>1 DEF CheckInv
    <3> HIDE DEF o
    <3>8. ASSUME NEW c \in Dumpers, dump'[c].pc = "check"
          PROVE  /\ resize'.pc \in {"ref", "copy", "fail", "sync"} => dump'[c].table # resize'.orig
                 /\ dump'[c].table # table' =>
                      \A e \in Dumpers : dump'[e].table = dump'[c].table => e = c
      <4>1. CASE c = d
        BY <2>1, <3>1, <3>4, <3>5, <3>6, <4>1 DEF Others
      <4>2. CASE c # d
        BY <2>1, <3>1, <3>7, <3>8, <4>2 DEF Others, CheckInv
      <4> QED
        BY <4>1, <4>2
    <3> QED
      BY <3>8 DEF CheckInv
  <2> QED
    BY <2>2, <2>3
<1> QED
  BY <1>1, <1>2, <1>3, <1>4, <1>5, <1>6, <1>7, <1>8, <1>10, <1>11 DEF Next

\* Unless the end of a listing runs into the start of a resize, nobody works
\* on a freed table: packets, the resize and the listings of tables that were
\* replaced are protected by t->ref, t->uref and RCU together.
THEOREM TablesAliveButForOverlap == MCSpec => []AliveWithoutOverlap
<1> DEFINE Inv == TablesInv /\ (~overlap => AliveInv)
<1>1. MCInit => Inv
  <2> SUFFICES ASSUME MCInit PROVE Inv
    OBVIOUS
  <2>1. TablesInv /\ resize.pc = "idle"
    BY TablesInit DEF MCInit, Init, NoResize
  <2>2. /\ mem[table] = "live" /\ \A r \in Readers : reader[r] = NoTable
        /\ \A d \in Dumpers : dump[d].pc = "idle" /\ dump[d].table = NoTable
    BY TablesAssumption DEF MCInit, Init, NoDump
  <2> QED
    BY <2>1, <2>2 DEF AliveInv, LiveInv, GraceInv, CheckInv
<1>2. Inv /\ [MCNext]_<<tablevars, overlap>> => Inv'
  <2> SUFFICES ASSUME Inv, [MCNext]_<<tablevars, overlap>> PROVE Inv'
    OBVIOUS
  <2>1. TablesInv'
    BY TablesStep DEF MCNext
  <2>2. CASE MCNext
    <3> SUFFICES ASSUME ~overlap' PROVE AliveInv'
      BY <2>1
    <3>1. Next /\ ~overlap /\ ~Overlapping
      BY <2>2 DEF MCNext
    <3>2. TablesInv /\ AliveInv
      BY <3>1
    <3> QED
      BY <3>1, <3>2, LiveStep, GraceStep, CheckStep DEF AliveInv
  <2>3. CASE UNCHANGED <<tablevars, overlap>>
    <3>1. AliveInv => AliveInv'
      BY <2>3 DEF tablevars, AliveInv, LiveInv, GraceInv, CheckInv
    <3> QED
      BY <2>1, <2>3, <3>1
  <2> QED
    BY <2>2, <2>3
<1>3. Inv => AliveWithoutOverlap
  <2> SUFFICES ASSUME TablesInv, AliveInv, NEW t \in InUse \ {NoTable} PROVE mem[t] = "live"
    BY DEF AliveWithoutOverlap, TablesAlive
  <2>1. resize.pc = "idle" => resize.orig = NoTable /\ resize.new = NoTable
    BY ResizeFacts DEF TablesInv, ShapeInv
  <2>2. resize.pc \in {"alloc", "ref", "copy", "fail"} => resize.orig \in {table, NoTable}
    BY DEF TablesInv, ShapeInv
  <2>3. resize.pc \in {"idle", "alloc", "ref", "copy", "fail", "sync"}
    BY Fields DEF TablesInv
  <2> QED
    BY <2>1, <2>2, <2>3 DEF InUse, AliveInv, LiveInv
<1> QED
  BY <1>1, <1>2, <1>3, PTL DEF MCSpec

=============================================================================

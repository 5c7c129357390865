------------------------- MODULE DsetSessionProofs --------------------------
(***************************************************************************)
(* Theorems about DsetSession, for every menu of lines, restore files of   *)
(* every length and buffers of every size.                                 *)
(***************************************************************************)
EXTENDS DsetSession, FiniteSetTheorems, SequenceTheorems, WellFoundedInduction, TLAPS

-----------------------------------------------------------------------------
(* The invariants.                                                         *)

\* Where the program has a command at hand, and when that command may join
\* the buffered ones.
LineInv ==
  /\ pc \in {"type", "flush", "build", "full", "send"} =>
       restore_line >= 1 /\ Line.cmd \in Commands
  /\ pc = "build" /\ nlmsg # NoMsg => MayAggregate
  /\ pc = "full" => MayAggregate /\ nlmsg # NoMsg
  /\ pc = "done" => nlmsg = NoMsg
  /\ pc # "exit" => exit.by = "none"

\* The buffer is empty, or holds adds or dels of the set that saved_setname
\* names, or the command at hand.
MsgInv ==
  /\ nlmsg = NoMsg => saved_setname = NoName
  /\ nlmsg # NoMsg => Len(nlmsg.adt) >= 1
  /\ nlmsg # NoMsg /\ pc # "send" =>
       /\ nlmsg.cmd = cmd /\ cmd \in Adt /\ nlmsg.to = NoName
       /\ nlmsg.set = saved_setname /\ saved_setname \in Names
       /\ \A i \in 1 .. Len(nlmsg.adt) : nlmsg.adt[i].elem \in Elems
  /\ pc = "send" =>
       /\ nlmsg.cmd = Line.cmd /\ Line.cmd \notin Adt /\ nlmsg.adt = <<Data>>
       /\ nlmsg.set = Line.set /\ nlmsg.to = Line.to

SessionInv == TypeOK /\ LineInv /\ MsgInv

OrderInv == LinesInOrder /\ RefusedLineReported /\ LostLinesAreOneBatch

\* Without -exist so far, the kernel refuses to create a set again.
ExclInv == pc = "send" /\ "exist" \notin envopts => nlmsg.excl

CacheInv == CacheTrue /\ ExclInv

-----------------------------------------------------------------------------
(* Sequences.                                                              *)

\* A non-empty set of numbers has a least element.
LEMMA LeastNumber ==
  ASSUME NEW T \in SUBSET Nat, T # {}
  PROVE  \E x \in T : \A y \in T : x <= y
<1> DEFINE R == OpToRel(<, Nat)
<1>1. PICK x \in T : \A y \in T : ~(<<y, x>> \in R)
  <2>1. IsWellFoundedOn(R, Nat)
    BY NatLessThanWellFounded
  <2> HIDE DEF R
  <2> QED
    BY <2>1, WFMin
<1>2. ASSUME NEW y \in T PROVE x <= y
  <2>1. y < x => <<y, x>> \in R
    BY DEF OpToRel
  <2>2. x \in Nat /\ y \in Nat
    OBVIOUS
  <2> HIDE DEF R
  <2> QED
    BY <1>1, <2>1, <2>2
<1> QED
  BY <1>2

\* A sequence without its i-th element.
LEMMA Removed ==
  ASSUME NEW S, NEW s \in Seq(S), NEW i \in 1 .. Len(s)
  PROVE  /\ RemoveAt(s, i) \in Seq(S) /\ Len(RemoveAt(s, i)) = Len(s) - 1
         /\ \A j \in 1 .. Len(s) - 1 : RemoveAt(s, i)[j] = IF j < i THEN s[j] ELSE s[j + 1]
<1> DEFINE a == SubSeq(s, 1, i - 1)
           b == SubSeq(s, i + 1, Len(s))
<1>0. Len(s) \in Nat /\ i \in Nat /\ i >= 1 /\ i <= Len(s)
  OBVIOUS
<1>1. /\ a \in Seq(S) /\ Len(a) = i - 1 /\ \A j \in 1 .. i - 1 : a[j] = s[j]
  BY <1>0, SubSeqProperties
<1>2. /\ b \in Seq(S) /\ Len(b) = Len(s) - i
      /\ \A j \in 1 .. Len(s) - i : b[j] = s[i + j]
  BY <1>0, SubSeqProperties
<1>3. RemoveAt(s, i) = a \o b
  BY DEF RemoveAt
<1> HIDE DEF a, b
<1>4. /\ a \o b \in Seq(S) /\ Len(a \o b) = Len(s) - 1
      /\ \A j \in 1 .. Len(s) - 1 : (a \o b)[j] = IF j <= i - 1 THEN a[j] ELSE b[j - (i - 1)]
  <2>1. (i - 1) + (Len(s) - i) = Len(s) - 1
    BY <1>0
  <2>2. /\ a \o b \in Seq(S) /\ Len(a \o b) = Len(a) + Len(b)
        /\ \A j \in 1 .. Len(a) + Len(b) :
             (a \o b)[j] = IF j <= Len(a) THEN a[j] ELSE b[j - Len(a)]
    BY <1>1, <1>2, ConcatProperties
  <2> QED
    BY <1>1, <1>2, <2>1, <2>2
<1>5. ASSUME NEW j \in 1 .. Len(s) - 1
      PROVE  (a \o b)[j] = IF j < i THEN s[j] ELSE s[j + 1]
  BY <1>0, <1>1, <1>2, <1>4
<1> QED
  BY <1>3, <1>4, <1>5

\* The first entry of the cache with a name, when there is one.
LEMMA FirstFound ==
  ASSUME cache \in Seq(Names), NEW n, Contains(cache, n)
  PROVE  /\ FirstAt(n) \in 1 .. Len(cache) /\ cache[FirstAt(n)] = n
<1> DEFINE T == {i \in 1 .. Len(cache) : cache[i] = n}
<1>1. T \in SUBSET Nat /\ T # {}
  BY DEF Contains
<1>2. PICK x \in T : \A y \in T : x <= y
  BY <1>1, LeastNumber
<1>3. x \in DOMAIN cache /\ cache[x] = n /\ \A j \in 1 .. x - 1 : cache[j] # n
  BY <1>2
<1>4. FirstAt(n) \in DOMAIN cache /\ cache[FirstAt(n)] = n
  BY <1>3 DEF FirstAt
<1> QED
  BY <1>4

-----------------------------------------------------------------------------
(* Lines and messages.                                                     *)

\* fgets appends a line to those read.
LEMMA Reading ==
  ASSUME TypeOK, NEW l \in Menu, Fgets(l)
  PROVE  /\ file' \in Seq(Menu) /\ restore_line \in Nat /\ restore_line' = restore_line + 1
         /\ restore_line' <= MaxLines /\ Line' = l
         /\ \A i \in 1 .. restore_line : file'[i] = file[i]
         /\ pc = "read"
<1>1. file \in Seq(Menu) /\ file' = Append(file, l) /\ Len(file) < MaxLines
  BY DEF TypeOK, Fgets
<1>2. Len(file') = Len(file) + 1 /\ file'[Len(file) + 1] = l
  BY <1>1
<1>3. Len(file) + 1 <= MaxLines /\ Len(file) \in Nat
  BY <1>1, SessionAssumption
<1> QED
  BY <1>1, <1>2, <1>3 DEF Fgets, restore_line, Line

\* The line at hand.
LEMMA LineFacts ==
  ASSUME TypeOK, restore_line >= 1
  PROVE  /\ restore_line \in 1 .. MaxLines
         /\ Line \in Menu /\ Complete(Line)
         /\ Line.set \in Names \cup {NoName} /\ Line.to \in Names \cup {NoName}
         /\ Line.elem \in Elems \cup {NoElem}
         /\ Data \in DataType
<1>1. restore_line \in Nat /\ restore_line <= MaxLines /\ MaxLines \in Nat
  BY SessionAssumption DEF TypeOK, restore_line
<1>2. Line \in Menu
  BY DEF TypeOK, Line, restore_line
<1>3. Line \in LineType /\ Complete(Line)
  BY <1>2, SessionAssumption
<1> QED
  BY <1>1, <1>2, <1>3 DEF LineType, Data, DataType

\* What the first k elements of a message are for the kernel.
LEMMA ServedFacts ==
  ASSUME TypeOK, nlmsg.cmd \in Commands, NEW k \in 0 .. Len(nlmsg.adt)
  PROVE  /\ Served(k) \in Seq(OpType) /\ Len(Served(k)) = k
         /\ \A i \in 1 .. k :
              /\ Served(k)[i].cmd = nlmsg.cmd /\ Served(k)[i].set = nlmsg.set
              /\ Served(k)[i].to = nlmsg.to /\ Served(k)[i].elem = nlmsg.adt[i].elem
              /\ Served(k)[i].lineno = nlmsg.adt[i].lineno
<1>1. /\ nlmsg.adt \in Seq(DataType) /\ nlmsg.set \in Names \cup {NoName}
      /\ nlmsg.to \in Names \cup {NoName} /\ k \in Nat /\ Len(nlmsg.adt) \in Nat
  BY DEF TypeOK, MsgType
<1>2. ASSUME NEW i \in 1 .. k
      PROVE  [cmd |-> nlmsg.cmd, set |-> nlmsg.set, to |-> nlmsg.to,
              elem |-> nlmsg.adt[i].elem, lineno |-> nlmsg.adt[i].lineno] \in OpType
  <2>1. nlmsg.adt[i] \in DataType
    BY <1>1, <1>2
  <2> QED
    BY <1>1, <2>1 DEF OpType, DataType
<1>3. Served(k) \in [1 .. k -> OpType]
  BY <1>2 DEF Served
<1> QED
  BY <1>1, <1>3 DEF Served

-----------------------------------------------------------------------------
(* Type correctness.                                                       *)

SetsType == [Names -> {Absent} \cup SUBSET Elems]

ExitType == [code : {0, 1}, line : 0 .. MaxLines, by : {"none", "parser", "kernel", "socket"}]

\* A message or an empty one.
LEMMA MsgTypes ==
  /\ NoMsg \in MsgType /\ NoMsg.adt = <<>> /\ Len(NoMsg.adt) = 0
  /\ BatchMax \in Nat /\ 0 <= BatchMax /\ 1 <= BatchMax /\ MaxLines \in Nat
<1>1. BatchMax \in Nat /\ BatchMax # 0 /\ MaxLines \in Nat
  BY SessionAssumption
<1>2. NoMsg.adt = <<>> /\ Len(NoMsg.adt) = 0
  BY DEF NoMsg
<1>3. <<>> \in Seq(DataType)
  OBVIOUS
<1>4. NoMsg \in MsgType
  BY <1>3 DEF NoMsg, MsgType
<1> QED
  BY <1>1, <1>2, <1>4

\* What a batch does to the sets, and what it leaves to report.
LEMMA BatchTypes ==
  ASSUME SessionInv, pc # "send", nlmsg # NoMsg, NEW k \in 0 .. Len(nlmsg.adt), ServeBatch(k)
  PROVE  /\ sets' \in SetsType /\ executed' \in Seq(OpType)
         /\ k < Len(nlmsg.adt) => ErrorLine(k) \in 0 .. MaxLines
         /\ session_lineno \in 0 .. MaxLines
<1>0. TypeOK /\ MsgInv
  BY DEF SessionInv
<1>1. /\ nlmsg.adt \in Seq(DataType) /\ Len(nlmsg.adt) \in Nat /\ Len(nlmsg.adt) >= 1
      /\ nlmsg.cmd \in Adt /\ nlmsg.set \in Names
      /\ \A i \in 1 .. Len(nlmsg.adt) : nlmsg.adt[i].elem \in Elems
  <2>1. nlmsg.adt \in Seq(DataType)
    BY <1>0 DEF TypeOK, MsgType
  <2>2. /\ Len(nlmsg.adt) >= 1 /\ nlmsg.cmd \in Adt /\ nlmsg.set \in Names
        /\ \A i \in 1 .. Len(nlmsg.adt) : nlmsg.adt[i].elem \in Elems
    BY <1>0 DEF MsgInv
  <2> QED
    BY <2>1, <2>2
<1>2. \A i \in 1 .. Len(nlmsg.adt) : nlmsg.adt[i].lineno \in 0 .. MaxLines
  <2>1. \A i \in 1 .. Len(nlmsg.adt) : nlmsg.adt[i] \in DataType
    BY <1>1
  <2> QED
    BY <2>1 DEF DataType
<1>3. k < Len(nlmsg.adt) => ErrorLine(k) \in 0 .. MaxLines
  BY <1>1, <1>2 DEF ErrorLine
<1>4. restore_line \in 0 .. MaxLines
  BY <1>0, SessionAssumption DEF TypeOK, restore_line
<1>5. session_lineno \in 0 .. MaxLines
  BY <1>1, <1>2, <1>4 DEF session_lineno
<1>6. executed' \in Seq(OpType)
  <2>1. Served(k) \in Seq(OpType)
    BY <1>0, <1>1, ServedFacts DEF Commands
  <2> QED
    BY <1>0, <2>1, ConcatProperties DEF ServeBatch, TypeOK
<1>7. sets' \in SetsType
  <2>1. CASE k = 0
    BY <1>0, <2>1 DEF ServeBatch, TypeOK, SetsType
  <2>2. CASE k # 0
    <3>1. sets \in SetsType /\ sets[nlmsg.set] # Absent
      BY <1>0, <2>2 DEF ServeBatch, TypeOK, SetsType
    <3>2. sets[nlmsg.set] \subseteq Elems
      BY <1>1, <3>1 DEF SetsType
    <3>3. \A i \in 1 .. k : nlmsg.adt[i].elem \in Elems
      BY <1>1
    <3>4. After(k) \subseteq Elems
      BY <3>2, <3>3 DEF After
    <3>5. sets' = [sets EXCEPT ![nlmsg.set] = After(k)]
      BY <2>2 DEF ServeBatch
    <3> HIDE DEF After
    <3> QED
      BY <3>1, <3>4, <3>5 DEF SetsType
  <2> QED
    BY <2>1, <2>2
<1> QED
  BY <1>3, <1>5, <1>6, <1>7

\* What another command does to the sets and to the cache.
LEMMA ServeTypes ==
  ASSUME TypeOK, nlmsg.cmd \in Commands \ {"destroy", "flush"} => nlmsg.set \in Names,
         nlmsg.cmd \in {"rename", "swap"} => nlmsg.to \in Names, Serve
  PROVE  sets' \in SetsType
<1> DEFINE V == {Absent} \cup SUBSET Elems
<1>1. sets \in [Names -> V] /\ Absent \in V /\ {} \in V
  BY DEF TypeOK
<1> SUFFICES sets' \in [Names -> V]
  BY DEF SetsType
<1> HIDE DEF V
<1>2. CASE nlmsg.cmd = "create"
  BY <1>1, <1>2 DEF Serve
<1>3. CASE nlmsg.cmd = "destroy"
  BY <1>1, <1>3 DEF Serve
<1>4. CASE nlmsg.cmd = "flush"
  BY <1>1, <1>4 DEF Serve
<1>5. CASE nlmsg.cmd = "rename"
  <2>1. nlmsg.set \in Names /\ nlmsg.to \in Names
    BY <1>5 DEF Commands, Adt
  <2>2. sets' = [sets EXCEPT ![nlmsg.set] = Absent, ![nlmsg.to] = sets[nlmsg.set]]
    BY <1>5 DEF Serve
  <2> QED
    BY <1>1, <2>1, <2>2
<1>6. CASE nlmsg.cmd = "swap"
  <2>1. nlmsg.set \in Names /\ nlmsg.to \in Names
    BY <1>6 DEF Commands, Adt
  <2>2. sets' = [sets EXCEPT ![nlmsg.set] = sets[nlmsg.to], ![nlmsg.to] = sets[nlmsg.set]]
    BY <1>6 DEF Serve
  <2> QED
    BY <1>1, <2>1, <2>2
<1>7. CASE nlmsg.cmd = "test"
  BY <1>1, <1>7 DEF Serve
<1> QED
  BY <1>2, <1>3, <1>4, <1>5, <1>6, <1>7 DEF Serve

LEMMA CacheTypes ==
  ASSUME TypeOK, nlmsg.cmd \in {"create", "rename", "swap"} => nlmsg.set \in Names,
         nlmsg.cmd \in {"rename", "swap"} => nlmsg.to \in Names
  PROVE  CacheAfter \in Seq(Names)
<1>1. cache \in Seq(Names) /\ Len(cache) \in Nat /\ cache \in [1 .. Len(cache) -> Names]
  BY DEF TypeOK
<1>0. \A f \in [1 .. Len(cache) -> Names] : f \in Seq(Names)
  BY <1>1
<1>2. nlmsg.cmd = "create" => CacheAdd(nlmsg.set) \in Seq(Names)
  BY <1>1 DEF CacheAdd
<1>3. CacheDel(nlmsg.set) \in Seq(Names)
  <2>1. CASE nlmsg.set # NoName /\ Contains(cache, nlmsg.set)
    BY <1>1, <2>1, FirstFound, Removed DEF CacheDel
  <2>2. CASE ~(nlmsg.set # NoName /\ Contains(cache, nlmsg.set))
    BY <1>1, <2>2 DEF CacheDel
  <2> QED
    BY <2>1, <2>2
<1>4. nlmsg.cmd = "rename" => CacheRename(nlmsg.set, nlmsg.to) \in Seq(Names)
  <2> HIDE DEF FirstAt, Contains
  <2>1. nlmsg.to \in Names => CacheRename(nlmsg.set, nlmsg.to) \in [1 .. Len(cache) -> Names]
    BY <1>1, Zenon DEF CacheRename
  <2> QED
    BY <1>0, <2>1
<1>5. nlmsg.cmd = "swap" => CacheSwap(nlmsg.set, nlmsg.to) \in Seq(Names)
  <2> HIDE DEF FirstAt, Contains
  <2>1. nlmsg.set \in Names /\ nlmsg.to \in Names
          => CacheSwap(nlmsg.set, nlmsg.to) \in [1 .. Len(cache) -> Names]
    BY <1>1, Zenon DEF CacheSwap
  <2> QED
    BY <1>0, <2>1
<1> HIDE DEF CacheAdd, CacheDel, CacheRename, CacheSwap
<1> QED
  BY <1>1, <1>2, <1>3, <1>4, <1>5 DEF CacheAfter

\* Steps that read a line, or the end of the file.
LEMMA ReadStep ==
  ASSUME SessionInv, NEW l \in Menu,
         ReadBlank(l) \/ ReadCommit(l) \/ ReadCommand(l) \/ ReadBad(l) \/ ReadQuit(l)
  PROVE  SessionInv'
<1>0. TypeOK /\ LineInv /\ MsgInv /\ Fgets(l) /\ l \in LineType
  BY SessionAssumption DEF SessionInv, ReadBlank, ReadCommit, ReadCommand, ReadBad, ReadQuit
<1>1. /\ file' \in Seq(Menu) /\ restore_line \in Nat /\ restore_line' = restore_line + 1
      /\ restore_line' <= MaxLines /\ Line' = l /\ pc = "read"
  BY <1>0, Reading
<1>2. /\ UNCHANGED <<cmd, saved_setname, nlmsg, cache, checked, sets, executed, disturbed>>
      /\ pc' \in {"read", "commit", "type", "flush", "exit"}
      /\ pc' \in {"type", "flush"} => l.cmd \in Commands
  BY <1>1 DEF ReadBlank, ReadCommit, ReadCommand, ReadBad, ReadQuit, Exit
<1>3. envopts' \subseteq {"exist", "quiet"}
  <2>1. envopts \subseteq {"exist", "quiet"} /\ l.opts \subseteq {"exist", "quiet"}
    BY <1>0 DEF TypeOK, LineType
  <2> QED
    BY <2>1 DEF ReadBlank, ReadCommit, ReadCommand, ReadBad, ReadQuit, CoreOptions
<1>4. exit' \in ExitType /\ (pc' # "exit" => exit' = exit)
  <2>1. exit \in ExitType
    BY <1>0 DEF TypeOK, ExitType
  <2>2. {0, Len(file')} \subseteq 0 .. MaxLines /\ 0 \in 0 .. MaxLines
    BY <1>1, SessionAssumption DEF restore_line
  <2> QED
    BY <2>1, <2>2 DEF ReadBlank, ReadCommit, ReadCommand, ReadBad, ReadQuit, Exit, ExitType
<1>5. TypeOK'
  BY <1>0, <1>1, <1>2, <1>3, <1>4 DEF TypeOK, ExitType, restore_line
<1>6. LineInv'
  BY <1>0, <1>1, <1>2, <1>4 DEF LineInv
<1>7. MsgInv'
  BY <1>0, <1>1, <1>2 DEF MsgInv
<1> QED
  BY <1>5, <1>6, <1>7 DEF SessionInv

\* Steps that only move the program on, or end it.
LEMMA MoveStep ==
  ASSUME SessionInv, EndOfFile \/ CreateTypeGet \/ AdtTypeGet \/ CommitNothing \/ Aggregate
  PROVE  SessionInv'
<1>0. TypeOK /\ LineInv /\ MsgInv
  BY DEF SessionInv
<1>1. UNCHANGED <<file, envopts, cmd, saved_setname, nlmsg, cache, sets, executed, disturbed>>
  BY DEF EndOfFile, CreateTypeGet, AdtTypeGet, CommitNothing, Aggregate
<1>2. exit' \in ExitType /\ checked' \in BOOLEAN /\ (pc' # "exit" => exit' = exit)
  <2>1. exit \in ExitType /\ checked \in BOOLEAN /\ restore_line \in 0 .. MaxLines
    BY <1>0, SessionAssumption DEF TypeOK, ExitType, restore_line
  <2>2. /\ exit' = exit \/ (exit' = [code |-> 1, line |-> restore_line, by |-> "parser"] /\ pc' = "exit")
        /\ checked' \in {checked, TRUE}
    BY DEF EndOfFile, CreateTypeGet, AdtTypeGet, CommitNothing, Aggregate, Exit
  <2>3. [code |-> 1, line |-> restore_line, by |-> "parser"] \in ExitType
    BY <2>1 DEF ExitType
  <2>4. checked' \in BOOLEAN
    BY <2>1, <2>2
  <2> QED
    BY <2>1, <2>2, <2>3, <2>4
<1>3. /\ pc # "send" /\ pc # "exit"
      /\ \/ pc' \in {"exit", "eof", "read"}
         \/ pc = "type" /\ pc' = "flush"
         \/ pc \in {"flush", "full"} /\ nlmsg = NoMsg /\ pc' = "build"
         \/ pc = "flush" /\ MayAggregate /\ pc' = "build"
         \/ nlmsg = NoMsg /\ pc' = "done"
  BY DEF EndOfFile, CreateTypeGet, AdtTypeGet, CommitNothing, Aggregate, Exit, Committing, Resume
<1>4. TypeOK'
  BY <1>0, <1>1, <1>2, <1>3 DEF TypeOK, ExitType
<1>5. MayAggregate' = MayAggregate /\ Line' = Line /\ restore_line' = restore_line
  BY <1>1 DEF MayAggregate, Line, restore_line
<1>6. LineInv'
  BY <1>0, <1>1, <1>2, <1>3, <1>5 DEF LineInv
<1>7. MsgInv'
  BY <1>0, <1>1, <1>3 DEF MsgInv
<1> QED
  BY <1>4, <1>6, <1>7 DEF SessionInv

\* The buffered lines are sent.
LEMMA BatchStep ==
  ASSUME SessionInv, NEW k \in 0 .. BatchMax, k <= Len(nlmsg.adt),
         CommitBatch(k) \/ CommitLost(k)
  PROVE  SessionInv'
<1>0. /\ TypeOK /\ LineInv /\ MsgInv /\ nlmsg # NoMsg /\ ServeBatch(k)
      /\ pc \in {"commit", "flush", "full", "eof"}
      /\ nlmsg' = NoMsg /\ saved_setname' = NoName
  BY DEF SessionInv, CommitBatch, CommitLost, Committing, Resume, ResetBuffer
<1>1. UNCHANGED <<file, envopts, cmd, cache, checked, disturbed>>
  BY DEF CommitBatch, CommitLost
<1>2. k \in 0 .. Len(nlmsg.adt)
  <2>1. nlmsg.adt \in Seq(DataType) /\ BatchMax \in Nat
    BY <1>0, SessionAssumption DEF TypeOK, MsgType
  <2> QED
    BY <2>1
<1>3. /\ sets' \in SetsType /\ executed' \in Seq(OpType)
      /\ k < Len(nlmsg.adt) => ErrorLine(k) \in 0 .. MaxLines
      /\ session_lineno \in 0 .. MaxLines
  BY <1>0, <1>2, BatchTypes
<1>4. /\ pc' \in {"read", "build", "done", "exit"}
      /\ pc' = "build" => pc \in {"flush", "full"}
      /\ exit' \in ExitType /\ (pc' # "exit" => exit' = exit)
  <2>1. exit \in ExitType
    BY <1>0 DEF TypeOK, ExitType
  <2> QED
    BY <1>0, <1>3, <2>1 DEF CommitBatch, CommitLost, Resume, Exit, ExitType
<1>5. TypeOK'
  BY <1>0, <1>1, <1>3, <1>4, MsgTypes DEF TypeOK, ExitType, SetsType
<1>6. LineInv'
  <2>1. Line' = Line /\ restore_line' = restore_line
    BY <1>1 DEF Line, restore_line
  <2> QED
    BY <1>0, <1>4, <2>1 DEF LineInv
<1>7. MsgInv'
  BY <1>0, <1>4 DEF MsgInv
<1> QED
  BY <1>5, <1>6, <1>7 DEF SessionInv

\* The line at hand joins the buffer, or finds it full.
LEMMA BuildAdtStep ==
  ASSUME SessionInv, BuildAdt
  PROVE  SessionInv'
<1>0. /\ TypeOK /\ LineInv /\ MsgInv /\ pc = "build" /\ Line.cmd \in Adt /\ cmd' = Line.cmd
      /\ restore_line >= 1 /\ Adt \subseteq Commands
  BY DEF SessionInv, BuildAdt, LineInv, Commands
<1>1. UNCHANGED <<file, envopts, cache, checked, exit, sets, executed, disturbed>>
  BY DEF BuildAdt
<1>2. /\ Data \in DataType /\ Line.set \in Names /\ Line.to = NoName /\ Line.elem \in Elems
      /\ Line \in Menu
  <2>1. Complete(Line) /\ Line.to \in Names \cup {NoName} /\ Data \in DataType /\ Line \in Menu
    BY <1>0, LineFacts
  <2> QED
    BY <1>0, <2>1 DEF Complete, Adt, Commands
<1>3. Line' = Line /\ restore_line' = restore_line
  BY <1>1 DEF Line, restore_line
<1>4. nlmsg \in MsgType /\ nlmsg.adt \in Seq(DataType)
  BY <1>0 DEF TypeOK, MsgType
<1>5. CASE Len(nlmsg.adt) = BatchMax /\ pc' = "full" /\ UNCHANGED <<nlmsg, saved_setname>>
  <2>1. nlmsg # NoMsg
    BY <1>5, MsgTypes
  <2>2. MayAggregate /\ cmd = Line.cmd
    BY <1>0, <2>1 DEF LineInv, MayAggregate
  <2>3. MayAggregate'
    BY <1>0, <1>3, <1>5, <2>2 DEF MayAggregate
  <2>4. TypeOK'
    BY <1>0, <1>1, <1>5 DEF TypeOK
  <2>5. LineInv'
    BY <1>0, <1>1, <1>3, <1>5, <2>1, <2>3 DEF LineInv
  <2>6. MsgInv'
    BY <1>0, <1>5, <2>1, <2>2 DEF MsgInv
  <2> QED
    BY <2>4, <2>5, <2>6 DEF SessionInv
<1>6. CASE /\ Len(nlmsg.adt) < BatchMax /\ pc' = "read" /\ saved_setname' = Line.set
           /\ nlmsg' = IF nlmsg = NoMsg THEN NewMsg ELSE [nlmsg EXCEPT !.adt = Append(@, Data)]
  <2>1. /\ nlmsg' \in MsgType /\ Len(nlmsg'.adt) <= BatchMax /\ Len(nlmsg'.adt) >= 1
        /\ nlmsg'.cmd = Line.cmd /\ nlmsg'.set = Line.set /\ nlmsg'.to = NoName
        /\ \A i \in 1 .. Len(nlmsg'.adt) : nlmsg'.adt[i].elem \in Elems
    <3>1. CASE nlmsg = NoMsg
      <4>1. nlmsg' = NewMsg
        BY <1>6, <3>1
      <4>2. <<Data>> \in Seq(DataType) /\ Len(<<Data>>) = 1 /\ <<Data>>[1] = Data
        BY <1>2
      <4>3. Data.elem \in Elems
        BY <1>2 DEF Data
      <4> HIDE DEF Data
      <4>4. NewMsg \in MsgType
        BY <1>0, <1>2, <4>2 DEF NewMsg, MsgType
      <4>5. /\ NewMsg.adt = <<Data>> /\ NewMsg.cmd = Line.cmd /\ NewMsg.set = Line.set
            /\ NewMsg.to = Line.to
        BY DEF NewMsg
      <4> HIDE DEF NewMsg
      <4> QED
        BY <1>2, <4>1, <4>2, <4>3, <4>4, <4>5, MsgTypes
    <3>2. CASE nlmsg # NoMsg
      <4>1. /\ nlmsg.cmd = cmd /\ nlmsg.set = saved_setname /\ nlmsg.to = NoName
            /\ \A i \in 1 .. Len(nlmsg.adt) : nlmsg.adt[i].elem \in Elems
            /\ cmd = Line.cmd /\ saved_setname = Line.set
        BY <1>0, <3>2 DEF MsgInv, LineInv, MayAggregate
      <4>2. nlmsg' = [nlmsg EXCEPT !.adt = Append(nlmsg.adt, Data)]
        BY <1>6, <3>2
      <4>3. Data.elem \in Elems
        BY <1>2 DEF Data
      <4> HIDE DEF Data
      <4>4. /\ Append(nlmsg.adt, Data) \in Seq(DataType)
            /\ Len(Append(nlmsg.adt, Data)) = Len(nlmsg.adt) + 1
            /\ \A i \in 1 .. Len(nlmsg.adt) + 1 : Append(nlmsg.adt, Data)[i].elem \in Elems
        BY <1>2, <1>4, <4>1, <4>3
      <4>5. /\ nlmsg' \in MsgType /\ nlmsg'.adt = Append(nlmsg.adt, Data)
            /\ nlmsg'.cmd = nlmsg.cmd /\ nlmsg'.set = nlmsg.set /\ nlmsg'.to = nlmsg.to
        BY <1>4, <4>2, <4>4 DEF MsgType
      <4>6. Len(nlmsg.adt) \in Nat /\ Len(nlmsg.adt) + 1 <= BatchMax
        BY <1>4, <1>6, MsgTypes
      <4> QED
        BY <4>1, <4>4, <4>5, <4>6
    <3> QED
      BY <3>1, <3>2
  <2>2. nlmsg' # NoMsg
    BY <2>1, MsgTypes
  <2>3. TypeOK'
    BY <1>0, <1>1, <1>2, <1>6, <2>1 DEF TypeOK
  <2>4. LineInv'
    BY <1>0, <1>1, <1>6 DEF LineInv
  <2>5. MsgInv'
    BY <1>0, <1>2, <1>6, <2>1, <2>2 DEF MsgInv
  <2> QED
    BY <2>3, <2>4, <2>5 DEF SessionInv
<1> QED
  BY <1>5, <1>6 DEF BuildAdt

\* The message of another command.
LEMMA BuildOtherStep ==
  ASSUME SessionInv, BuildOther
  PROVE  SessionInv'
<1>0. /\ TypeOK /\ LineInv /\ MsgInv /\ pc = "build" /\ Line.cmd \notin Adt /\ cmd' = Line.cmd
      /\ restore_line >= 1 /\ Line.cmd \in Commands /\ pc' = "send" /\ nlmsg' = NewMsg
  BY DEF SessionInv, BuildOther, LineInv
<1>1. UNCHANGED <<file, envopts, saved_setname, cache, checked, exit, sets, executed, disturbed>>
  BY DEF BuildOther
<1>2. nlmsg = NoMsg /\ saved_setname = NoName
  BY <1>0 DEF LineInv, MayAggregate, MsgInv
<1>3. Line' = Line /\ restore_line' = restore_line /\ Data' = Data
  BY <1>1 DEF Line, restore_line, Data
<1>4. /\ Line.set \in Names \cup {NoName} /\ Line.to \in Names \cup {NoName} /\ Data \in DataType
  BY <1>0, LineFacts
<1>5. /\ NewMsg \in MsgType /\ NewMsg.adt = <<Data>> /\ NewMsg.cmd = Line.cmd
      /\ NewMsg.set = Line.set /\ NewMsg.to = Line.to
  <2> HIDE DEF Data
  <2>1. <<Data>> \in Seq(DataType)
    BY <1>4
  <2> QED
    BY <1>0, <1>4, <2>1 DEF NewMsg, MsgType
<1>6. Len(NewMsg.adt) = 1 /\ NewMsg # NoMsg
  <2>1. Len(<<Data>>) = 1
    OBVIOUS
  <2>2. Len(NewMsg.adt) = 1
    BY <1>5, <2>1
  <2> QED
    BY <2>2, MsgTypes
<1> HIDE DEF NewMsg, Data
<1>7. TypeOK'
  BY <1>0, <1>1, <1>5, <1>6, MsgTypes DEF TypeOK
<1>8. LineInv'
  BY <1>0, <1>1, <1>3 DEF LineInv
<1>9. MsgInv'
  <2>1. nlmsg' # NoMsg /\ Len(nlmsg'.adt) = 1 /\ nlmsg'.adt = <<Data'>>
    BY <1>0, <1>3, <1>5, <1>6
  <2>2. nlmsg'.cmd = Line'.cmd /\ Line'.cmd \notin Adt /\ nlmsg'.set = Line'.set /\ nlmsg'.to = Line'.to
    BY <1>0, <1>3, <1>5
  <2> HIDE DEF Line
  <2> QED
    BY <1>0, <2>1, <2>2 DEF MsgInv
<1> QED
  BY <1>7, <1>8, <1>9 DEF SessionInv

\* The message of a command that is sent at once.
LEMMA SendFacts ==
  ASSUME SessionInv, pc = "send"
  PROVE  /\ TypeOK /\ LineInv /\ MsgInv /\ restore_line \in 1 .. MaxLines
         /\ nlmsg.cmd \in Commands \ Adt /\ nlmsg.cmd = Line.cmd
         /\ Len(nlmsg.adt) = 1 /\ nlmsg.adt[1] = Data
         /\ nlmsg.set = Line.set /\ nlmsg.to = Line.to
         /\ nlmsg.set \in Names \cup {NoName}
         /\ nlmsg.cmd \in Commands \ {"destroy", "flush"} => nlmsg.set \in Names
         /\ nlmsg.cmd \in {"rename", "swap"} => nlmsg.to \in Names
<1>1. TypeOK /\ LineInv /\ MsgInv
  BY DEF SessionInv
<1>2. restore_line >= 1 /\ Line.cmd \in Commands
  BY <1>1 DEF LineInv
<1>3. restore_line \in 1 .. MaxLines /\ Complete(Line) /\ Line.set \in Names \cup {NoName}
  BY <1>1, <1>2, LineFacts
<1>4. /\ nlmsg.cmd = Line.cmd /\ Line.cmd \notin Adt /\ nlmsg.adt = <<Data>>
      /\ nlmsg.set = Line.set /\ nlmsg.to = Line.to
  BY <1>1 DEF MsgInv
<1>5. Len(<<Data>>) = 1 /\ <<Data>>[1] = Data
  OBVIOUS
<1> QED
  BY <1>1, <1>2, <1>3, <1>4, <1>5 DEF Complete

\* A command was sent.
LEMMA SendStep ==
  ASSUME SessionInv, SendDone \/ SendTestNo \/ SendRefused \/ SendLost
  PROVE  SessionInv'
<1>0. pc = "send" /\ nlmsg' = NoMsg /\ saved_setname' = NoName
  BY DEF SendDone, SendTestNo, SendRefused, SendLost, ResetBuffer
<1>1. /\ TypeOK /\ LineInv /\ MsgInv /\ restore_line \in 1 .. MaxLines
      /\ nlmsg.cmd \in Commands /\ Len(nlmsg.adt) = 1
      /\ nlmsg.cmd \in Commands \ {"destroy", "flush"} => nlmsg.set \in Names
      /\ nlmsg.cmd \in {"rename", "swap"} => nlmsg.to \in Names
  BY <1>0, SendFacts
<1>2. UNCHANGED <<file, envopts, cmd, checked, disturbed>>
  BY DEF SendDone, SendTestNo, SendRefused, SendLost
<1>3. sets' \in SetsType
  <2>1. Serve => sets' \in SetsType
    BY <1>1, ServeTypes
  <2>2. sets \in SetsType
    BY <1>1 DEF TypeOK, SetsType
  <2> QED
    BY <2>1, <2>2 DEF SendDone, SendTestNo, SendRefused, SendLost
<1>4. executed' \in Seq(OpType)
  <2>1. 1 \in 0 .. Len(nlmsg.adt)
    BY <1>1
  <2>2. Served(1) \in Seq(OpType)
    BY <1>1, <2>1, ServedFacts
  <2>3. executed \in Seq(OpType)
    BY <1>1 DEF TypeOK
  <2>4. executed \o Served(1) \in Seq(OpType)
    BY <2>2, <2>3, ConcatProperties
  <2> QED
    BY <2>3, <2>4 DEF SendDone, SendTestNo, SendRefused, SendLost
<1>5. cache' \in Seq(Names)
  <2>1. nlmsg.cmd \in {"create", "rename", "swap"} => nlmsg.set \in Names
    BY <1>1 DEF Commands
  <2>2. CacheAfter \in Seq(Names)
    BY <1>1, <2>1, CacheTypes
  <2>3. cache \in Seq(Names)
    BY <1>1 DEF TypeOK
  <2>4. cache' = CacheAfter \/ cache' = cache
    BY DEF SendDone, SendTestNo, SendRefused, SendLost
  <2> QED
    BY <2>2, <2>3, <2>4
<1>6. pc' \in {"read", "exit"} /\ exit' \in ExitType /\ (pc' # "exit" => exit' = exit)
  <2>1. exit \in ExitType
    BY <1>1 DEF TypeOK, ExitType
  <2>2. \A c \in {0, 1}, n \in {0, restore_line}, b \in {"parser", "kernel", "socket"} :
          [code |-> c, line |-> n, by |-> b] \in ExitType
    <3>1. 0 \in 0 .. MaxLines /\ restore_line \in 0 .. MaxLines
      BY <1>1, SessionAssumption
    <3> QED
      BY <3>1 DEF ExitType
  <2>3. \/ pc' = "read" /\ exit' = exit
        \/ pc' = "exit" /\ \E c \in {0, 1}, n \in {0, restore_line}, b \in {"parser", "kernel", "socket"} :
             exit' = [code |-> c, line |-> n, by |-> b]
    <3>1. CASE SendDone
      BY <3>1 DEF SendDone, Exit
    <3>2. CASE SendTestNo
      BY <3>2 DEF SendTestNo, Exit
    <3>3. CASE SendRefused
      BY <3>3 DEF SendRefused, Exit
    <3>4. CASE SendLost
      BY <3>4 DEF SendLost, Exit
    <3> QED
      BY <3>1, <3>2, <3>3, <3>4
  <2> QED
    BY <2>1, <2>2, <2>3
<1>7. TypeOK'
  BY <1>0, <1>1, <1>2, <1>3, <1>4, <1>5, <1>6, MsgTypes DEF TypeOK, ExitType, SetsType
<1>8. LineInv'
  BY <1>0, <1>1, <1>6 DEF LineInv
<1>9. MsgInv'
  BY <1>0, <1>6 DEF MsgInv
<1> QED
  BY <1>7, <1>8, <1>9 DEF SessionInv

\* Another program changes a set.
LEMMA OtherStep ==
  ASSUME SessionInv, OtherProgram
  PROVE  SessionInv'
<1>0. TypeOK /\ LineInv /\ MsgInv
  BY DEF SessionInv
<1>1. /\ UNCHANGED <<file, pc, envopts, cmd, saved_setname, nlmsg, cache, checked, exit, executed>>
      /\ disturbed' = TRUE
  BY DEF OtherProgram
<1>2. sets' \in SetsType
  <2>1. PICK n \in Names, s \in {Absent, {}} : sets' = [sets EXCEPT ![n] = s]
    BY DEF OtherProgram
  <2> QED
    BY <1>0, <2>1 DEF TypeOK, SetsType
<1>3. TypeOK'
  BY <1>0, <1>1, <1>2 DEF TypeOK, SetsType
<1>4. Line' = Line /\ restore_line' = restore_line /\ MayAggregate' = MayAggregate /\ Data' = Data
  BY <1>1 DEF Line, restore_line, MayAggregate, Data
<1>5. LineInv' /\ MsgInv'
  BY <1>0, <1>1, <1>4 DEF LineInv, MsgInv
<1> QED
  BY <1>3, <1>5 DEF SessionInv

\* Nothing happens.
LEMMA StutterStep ==
  ASSUME SessionInv, UNCHANGED vars
  PROVE  SessionInv'
BY DEF SessionInv, TypeOK, LineInv, MsgInv, vars, Line, restore_line, MayAggregate, Data

LEMMA SessionInit == Init => SessionInv
<1> SUFFICES ASSUME Init PROVE SessionInv
  OBVIOUS
<1>1. MaxLines \in Nat /\ 0 \in 0 .. MaxLines
  BY SessionAssumption
<1>4. sets \in SetsType
  BY DEF Init, SetsType
<1>5. exit \in ExitType
  BY <1>1 DEF Init, ExitType
<1>6. <<>> \in Seq(Menu) /\ <<>> \in Seq(Names) /\ <<>> \in Seq(OpType) /\ Len(<<>>) = 0
  OBVIOUS
<1>7. nlmsg \in MsgType /\ Len(nlmsg.adt) <= BatchMax
  BY MsgTypes DEF Init
<1>8. file \in Seq(Menu) /\ Len(file) <= MaxLines /\ cache \in Seq(Names) /\ executed \in Seq(OpType)
  BY <1>1, <1>6 DEF Init
<1>9. checked \in BOOLEAN /\ disturbed \in BOOLEAN /\ pc = "read" /\ envopts = {} /\ cmd = "none"
  BY DEF Init
<1>2. TypeOK
  <2>1. saved_setname = NoName
    BY DEF Init
  <2> QED
    BY <1>4, <1>5, <1>7, <1>8, <1>9, <2>1 DEF TypeOK, SetsType, ExitType
<1>3. LineInv /\ MsgInv
  BY DEF Init, LineInv, MsgInv
<1> QED
  BY <1>2, <1>3 DEF SessionInv

LEMMA SessionNext == SessionInv /\ [Next]_vars => SessionInv'
<1> SUFFICES ASSUME SessionInv, [Next]_vars PROVE SessionInv'
  OBVIOUS
<1> QED
  BY ReadStep, MoveStep, BatchStep, BuildAdtStep, BuildOtherStep, SendStep, OtherStep, StutterStep
  DEF Next

LEMMA SessionAlways == Spec => []SessionInv
<1>1. Init => SessionInv
  BY SessionInit
<1>2. SessionInv /\ [Next]_vars => SessionInv'
  BY SessionNext
<1> QED
  BY <1>1, <1>2, PTL DEF Spec

\* Every variable has its type, whatever the file says and whatever the kernel
\* answers; in particular no message ever grows beyond session->buffer.
THEOREM SessionTypeCorrect == Spec => []TypeOK
<1>1. SessionInv => TypeOK
  BY DEF SessionInv
<1> QED
  BY <1>1, SessionAlways, PTL

-----------------------------------------------------------------------------
(* The commands of a file, what they ask for, and sequences that do it in  *)
(* the order of the file; the elements of a message as operations.         *)

Asks(f) == {n \in 1 .. Len(f) : f[n].cmd \in Commands}

Upto(f, b) == {n \in Asks(f) : n <= b}

Does(f, n) == [cmd |-> f[n].cmd, set |-> f[n].set, to |-> f[n].to, elem |-> f[n].elem,
               lineno |-> n]

Ordered(f, ops, b) ==
  /\ LineNos(ops) = Upto(f, b)
  /\ \A i \in DOMAIN ops : ops[i] = Does(f, ops[i].lineno)
  /\ \A i, j \in DOMAIN ops : i < j => ops[i].lineno < ops[j].lineno

Sends(msg, k) ==
  [i \in 1 .. k |-> [cmd |-> msg.cmd, set |-> msg.set, to |-> msg.to,
                     elem |-> msg.adt[i].elem, lineno |-> msg.adt[i].lineno]]

\* While the program runs, what was executed and what is buffered are the
\* commands up to the one at hand.
RunInv ==
  pc # "exit" =>
    Ordered(file, executed \o Sends(nlmsg, Len(nlmsg.adt)), restore_line - Unbuilt)

\* How the program has ended.
EndInv ==
  pc = "exit" =>
    /\ \E k \in 0 .. Len(file) : Ordered(file, executed, k)
    /\ RefusedLineReported
    /\ LostLinesAreOneBatch

\* The first operations of an ordered sequence are those of the lines before
\* the one whose operation comes next.
LEMMA OrderedPrefix ==
  ASSUME NEW f \in Seq(Menu), NEW b \in Nat, b <= Len(f), NEW ops, NEW len \in Nat,
         DOMAIN ops = 1 .. len, Ordered(f, ops, b),
         NEW a, NEW k \in 0 .. len, DOMAIN a = 1 .. k, \A i \in 1 .. k : a[i] = ops[i]
  PROVE  /\ k = len => Ordered(f, a, b)
         /\ k < len =>
              /\ ops[k + 1].lineno \in Upto(f, b) /\ ops[k + 1].lineno \in Nat \ {0}
              /\ Ordered(f, a, ops[k + 1].lineno - 1)
<1>0. k \in Nat /\ k <= len /\ 1 .. k \subseteq 1 .. len
  OBVIOUS
<1>1. /\ \A i \in 1 .. len : ops[i].lineno \in Upto(f, b)
      /\ \A n \in Upto(f, b) : \E i \in 1 .. len : ops[i].lineno = n
      /\ \A i \in 1 .. len : ops[i] = Does(f, ops[i].lineno)
      /\ \A i, j \in 1 .. len : i < j => ops[i].lineno < ops[j].lineno
  BY DEF Ordered, LineNos
<1>2. \A n \in Upto(f, b) : n \in Nat /\ n >= 1 /\ n <= b /\ n \in Asks(f)
  BY DEF Upto, Asks
<1>3. /\ \A i \in 1 .. k : a[i] = Does(f, a[i].lineno)
      /\ \A i, j \in 1 .. k : i < j => a[i].lineno < a[j].lineno
  BY <1>0, <1>1
<1>4. ASSUME k = len PROVE Ordered(f, a, b)
  <2>1. \A n : n \in LineNos(a) <=> n \in LineNos(ops)
    BY <1>4 DEF LineNos
  <2>2. LineNos(a) = LineNos(ops)
    BY <2>1
  <2> QED
    BY <1>3, <1>4, <2>2 DEF Ordered
<1>5. ASSUME k < len
      PROVE  /\ ops[k + 1].lineno \in Upto(f, b) /\ ops[k + 1].lineno \in Nat \ {0}
             /\ Ordered(f, a, ops[k + 1].lineno - 1)
  <2>1. k + 1 \in 1 .. len
    BY <1>0, <1>5
  <2>2. PICK m : m = ops[k + 1].lineno
    OBVIOUS
  <2>3. m \in Upto(f, b) /\ m \in Nat \ {0} /\ m <= b
    BY <1>1, <1>2, <2>1, <2>2
  <2>4. ASSUME NEW i \in 1 .. k PROVE a[i].lineno \in Upto(f, m - 1)
    <3>1. ops[i].lineno < m /\ ops[i].lineno \in Upto(f, b)
      BY <1>0, <1>1, <2>1, <2>2, <2>4
    <3> QED
      BY <1>2, <2>3, <2>4, <3>1 DEF Upto
  <2>5. ASSUME NEW n \in Upto(f, m - 1) PROVE \E i \in 1 .. k : a[i].lineno = n
    <3>1. n \in Asks(f) /\ n \in Nat /\ n < m
      BY <2>3, <2>5 DEF Upto, Asks
    <3>2. n \in Upto(f, b)
      BY <2>3, <3>1 DEF Upto
    <3>3. PICK i \in 1 .. len : ops[i].lineno = n
      BY <1>1, <3>2
    <3>4. ~(i > k + 1) /\ i # k + 1
      BY <1>1, <2>1, <2>2, <2>3, <3>1, <3>3
    <3>5. i \in 1 .. k
      BY <1>0, <3>3, <3>4
    <3> QED
      BY <3>3, <3>5
  <2>6. \A n : n \in LineNos(a) <=> n \in Upto(f, m - 1)
    BY <2>4, <2>5 DEF LineNos
  <2>7. LineNos(a) = Upto(f, m - 1)
    BY <2>6
  <2>8. Ordered(f, a, m - 1)
    BY <1>3, <2>7 DEF Ordered
  <2> QED
    BY <2>2, <2>3, <2>8
<1> QED
  BY <1>4, <1>5

\* The operation of the next command is appended.
LEMMA OrderedAppend ==
  ASSUME NEW f \in Seq(Menu), NEW n \in Asks(f), NEW ops, NEW len \in Nat,
         DOMAIN ops = 1 .. len, Ordered(f, ops, n - 1),
         NEW a, DOMAIN a = 1 .. len + 1, \A i \in 1 .. len : a[i] = ops[i],
         a[len + 1] = Does(f, n)
  PROVE  Ordered(f, a, n)
<1>1. /\ \A i \in 1 .. len : ops[i].lineno \in Upto(f, n - 1)
      /\ \A x \in Upto(f, n - 1) : \E i \in 1 .. len : ops[i].lineno = x
      /\ \A i \in 1 .. len : ops[i] = Does(f, ops[i].lineno)
      /\ \A i, j \in 1 .. len : i < j => ops[i].lineno < ops[j].lineno
  BY DEF Ordered, LineNos
<1>2. /\ n \in Nat /\ \A x \in Asks(f) : x \in Nat
      /\ \A x \in Upto(f, n - 1) : x \in Asks(f) /\ x < n
      /\ \A x \in Asks(f) : x < n => x \in Upto(f, n - 1)
      /\ \A x : x \in Upto(f, n) <=> x \in Asks(f) /\ x <= n
  BY DEF Upto, Asks
<1>3. Does(f, n).lineno = n
  BY DEF Does
<1>4. \A i \in 1 .. len + 1 : i \in 1 .. len \/ i = len + 1
  OBVIOUS
<1>5. \A i \in 1 .. len + 1 : a[i] = Does(f, a[i].lineno)
  BY <1>1, <1>3, <1>4
<1>6. \A i, j \in 1 .. len + 1 : i < j => a[i].lineno < a[j].lineno
  <2> SUFFICES ASSUME NEW i \in 1 .. len + 1, NEW j \in 1 .. len + 1, i < j
               PROVE  a[i].lineno < a[j].lineno
    OBVIOUS
  <2>1. i \in 1 .. len
    OBVIOUS
  <2>2. CASE j \in 1 .. len
    BY <1>1, <2>1, <2>2
  <2>3. CASE j = len + 1
    BY <1>1, <1>2, <1>3, <2>1, <2>3
  <2> QED
    BY <1>4, <2>2, <2>3
<1>7. ASSUME NEW i \in 1 .. len + 1 PROVE a[i].lineno \in Upto(f, n)
  <2>1. CASE i \in 1 .. len
    <3>1. a[i].lineno \in Upto(f, n - 1)
      BY <1>1, <2>1
    <3>2. a[i].lineno \in Asks(f) /\ a[i].lineno < n /\ a[i].lineno \in Nat
      BY <1>2, <3>1
    <3> QED
      BY <1>2, <3>2
  <2>2. CASE i = len + 1
    BY <1>2, <1>3, <2>2
  <2> QED
    BY <1>4, <1>7, <2>1, <2>2
<1>8. ASSUME NEW x \in Upto(f, n) PROVE \E i \in 1 .. len + 1 : a[i].lineno = x
  <2>1. x \in Asks(f) /\ x \in Nat /\ x <= n
    BY <1>2, <1>8
  <2>2. CASE x = n
    <3>1. len + 1 \in 1 .. len + 1
      OBVIOUS
    <3> QED
      BY <1>3, <2>2, <3>1
  <2>3. CASE x < n
    <3>1. PICK i \in 1 .. len : ops[i].lineno = x
      BY <1>1, <1>2, <2>1, <2>3
    <3>2. i \in 1 .. len + 1
      OBVIOUS
    <3> QED
      BY <3>1, <3>2
  <2> QED
    BY <1>2, <2>1, <2>2, <2>3
<1>9. \A x : x \in LineNos(a) <=> x \in Upto(f, n)
  BY <1>7, <1>8 DEF LineNos
<1>10. LineNos(a) = Upto(f, n)
  BY <1>9
<1> QED
  BY <1>5, <1>6, <1>10 DEF Ordered

\* Another line is read.
LEMMA OrderedGrow ==
  ASSUME NEW f \in Seq(Menu), NEW l \in Menu, NEW ops, NEW b \in Nat, b <= Len(f), Ordered(f, ops, b)
  PROVE  /\ Ordered(Append(f, l), ops, b)
         /\ l.cmd \notin Commands /\ b = Len(f) => Ordered(Append(f, l), ops, b + 1)
         /\ \A n \in 1 .. Len(f) : n \in Asks(Append(f, l)) <=> n \in Asks(f)
         /\ l.cmd \notin Commands => Asks(Append(f, l)) = Asks(f)
<1> DEFINE g == Append(f, l)
<1>1. /\ Len(f) \in Nat /\ Len(g) = Len(f) + 1 /\ g[Len(f) + 1] = l
      /\ \A n \in 1 .. Len(f) : g[n] = f[n]
  OBVIOUS
<1> HIDE DEF g
<1>2. \A n \in 1 .. Len(f) : n \in Asks(g) <=> n \in Asks(f)
  BY <1>1 DEF Asks
<1>3. \A n \in 1 .. Len(f) : Does(g, n) = Does(f, n)
  BY <1>1 DEF Does
<1>4. \A n : n \in Upto(g, b) <=> n \in Upto(f, b)
  BY <1>1, <1>2 DEF Upto, Asks
<1>5. Upto(g, b) = Upto(f, b)
  BY <1>4
<1>6. \A i \in DOMAIN ops : ops[i].lineno \in 1 .. Len(f)
  BY DEF Ordered, LineNos, Upto, Asks
<1>7. Ordered(g, ops, b)
  BY <1>3, <1>5, <1>6 DEF Ordered
<1>8. ASSUME l.cmd \notin Commands PROVE Asks(g) = Asks(f)
  <2>1. \A n : n \in Asks(g) <=> n \in Asks(f)
    BY <1>1, <1>8 DEF Asks
  <2> QED
    BY <2>1
<1>9. ASSUME l.cmd \notin Commands, b = Len(f) PROVE Ordered(g, ops, b + 1)
  <2>1. \A n : n \in Upto(g, b + 1) <=> n \in Upto(g, b)
    BY <1>1, <1>8, <1>9 DEF Upto, Asks
  <2>2. Upto(g, b + 1) = Upto(g, b)
    BY <2>1
  <2> QED
    BY <1>7, <2>2 DEF Ordered
<1> QED
  BY <1>2, <1>7, <1>8, <1>9 DEF g

\* A set of lines of the elements in the buffer is no larger than the buffer.
LEMMA NoMoreThanBuffered ==
  ASSUME NEW len \in Nat, NEW s, NEW T, \A x \in T : \E i \in 1 .. len : s[i].lineno = x
  PROVE  Cardinality(T) <= len /\ Cardinality(T) \in Nat
<1> DEFINE h == [x \in T |-> CHOOSE i \in 1 .. len : s[i].lineno = x]
<1>1. ASSUME NEW x \in T PROVE h[x] \in 1 .. len /\ s[h[x]].lineno = x
  <2>1. \E i \in 1 .. len : s[i].lineno = x
    OBVIOUS
  <2>2. h[x] = CHOOSE i \in 1 .. len : s[i].lineno = x
    BY <1>1
  <2> HIDE DEF h
  <2> QED
    BY <2>1, <2>2
<1>2. h \in [T -> 1 .. len]
  BY <1>1
<1> HIDE DEF h
<1>3. h \in Injection(T, 1 .. len)
  BY <1>1, <1>2 DEF Injection, IsInjective
<1>4. 1 \in Int /\ len \in Int
  OBVIOUS
<1>5. IsFiniteSet(1 .. len) /\ Cardinality(1 .. len) = IF 1 > len THEN 0 ELSE len - 1 + 1
  BY <1>4, FS_Interval
<1>6. Cardinality(1 .. len) = len
  BY <1>5
<1>7. IsFiniteSet(T) /\ Cardinality(T) <= Cardinality(1 .. len)
  BY <1>3, <1>5, FS_Injection
<1>8. Cardinality(T) \in Nat
  BY <1>7, FS_CardinalityType
<1> QED
  BY <1>6, <1>7, <1>8

\* The operations of a message.
AnyOp == [cmd : Commands \cup {"none"}, set : Names \cup {NoName}, to : Names \cup {NoName},
          elem : Elems \cup {NoElem}, lineno : 1 .. MaxLines]

LEMMA SendsFacts ==
  ASSUME NEW msg \in MsgType, NEW k \in 0 .. Len(msg.adt)
  PROVE  /\ Sends(msg, k) \in Seq(AnyOp) /\ Len(Sends(msg, k)) = k
         /\ \A i \in 1 .. k :
              Sends(msg, k)[i] = [cmd |-> msg.cmd, set |-> msg.set, to |-> msg.to,
                                  elem |-> msg.adt[i].elem, lineno |-> msg.adt[i].lineno]
<1>1. /\ msg.adt \in Seq(DataType) /\ msg.set \in Names \cup {NoName}
      /\ msg.to \in Names \cup {NoName} /\ k \in Nat /\ Len(msg.adt) \in Nat
      /\ msg.cmd \in Commands \cup {"none"}
  BY DEF MsgType
<1>2. ASSUME NEW i \in 1 .. k
      PROVE  [cmd |-> msg.cmd, set |-> msg.set, to |-> msg.to,
              elem |-> msg.adt[i].elem, lineno |-> msg.adt[i].lineno] \in AnyOp
  <2>1. msg.adt[i] \in DataType
    BY <1>1, <1>2
  <2> QED
    BY <1>1, <2>1 DEF AnyOp, DataType
<1>3. Sends(msg, k) \in [1 .. k -> AnyOp]
  BY <1>2 DEF Sends
<1> QED
  BY <1>1, <1>3 DEF Sends

\* What was executed, and the first k elements of a message.
LEMMA ConcatFacts ==
  ASSUME NEW ops \in Seq(OpType), NEW msg \in MsgType, NEW k \in 0 .. Len(msg.adt)
  PROVE  /\ DOMAIN (ops \o Sends(msg, k)) = 1 .. Len(ops) + k /\ Len(ops) \in Nat
         /\ \A i \in 1 .. Len(ops) : (ops \o Sends(msg, k))[i] = ops[i]
         /\ \A i \in 1 .. k :
              (ops \o Sends(msg, k))[Len(ops) + i] =
                [cmd |-> msg.cmd, set |-> msg.set, to |-> msg.to,
                 elem |-> msg.adt[i].elem, lineno |-> msg.adt[i].lineno]
         /\ k = 0 => ops \o Sends(msg, k) = ops
<1>1. /\ Sends(msg, k) \in Seq(AnyOp) /\ Len(Sends(msg, k)) = k
      /\ \A i \in 1 .. k :
           Sends(msg, k)[i] = [cmd |-> msg.cmd, set |-> msg.set, to |-> msg.to,
                               elem |-> msg.adt[i].elem, lineno |-> msg.adt[i].lineno]
  BY SendsFacts
<1>2. ops \in Seq(AnyOp)
  <2>1. \A x \in OpType : x \in AnyOp
    BY DEF OpType, AnyOp
  <2>2. Len(ops) \in Nat /\ ops \in [1 .. Len(ops) -> OpType]
    OBVIOUS
  <2>3. ops \in [1 .. Len(ops) -> AnyOp]
    BY <2>1, <2>2
  <2> QED
    BY <2>2, <2>3
<1> HIDE DEF Sends
<1>3. PICK t : t = Sends(msg, k)
  OBVIOUS
<1>4. /\ ops \o t \in Seq(AnyOp) /\ Len(ops \o t) = Len(ops) + k
      /\ \A i \in 1 .. Len(ops) + k :
           (ops \o t)[i] = IF i <= Len(ops) THEN ops[i] ELSE t[i - Len(ops)]
  <2>1. t \in Seq(AnyOp) /\ Len(t) = k
    BY <1>1, <1>3
  <2>2. /\ ops \o t \in Seq(AnyOp) /\ Len(ops \o t) = Len(ops) + Len(t)
        /\ \A i \in 1 .. Len(ops) + Len(t) :
             (ops \o t)[i] = IF i <= Len(ops) THEN ops[i] ELSE t[i - Len(ops)]
    BY <1>2, <2>1, ConcatProperties
  <2> QED
    BY <2>1, <2>2, Zenon
<1>5. Len(ops) \in Nat /\ k \in Nat
  <2>1. msg.adt \in Seq(DataType)
    BY DEF MsgType
  <2> QED
    BY <2>1
<1>6. \A i \in 1 .. k : Len(ops) + i \in 1 .. Len(ops) + k /\ ~(Len(ops) + i <= Len(ops)) /\ Len(ops) + i - Len(ops) = i
  BY <1>5
<1>7. \A i \in 1 .. k : (ops \o t)[Len(ops) + i] = t[i]
  BY <1>4, <1>6
<1>8. \A i \in 1 .. Len(ops) : (ops \o t)[i] = ops[i]
  BY <1>4, <1>5
<1>9. DOMAIN (ops \o t) = 1 .. Len(ops) + k
  <2>1. \A S : \A q \in Seq(S) : DOMAIN q = 1 .. Len(q)
    OBVIOUS
  <2> QED
    BY <1>4, <2>1
<1>10. k = 0 => ops \o t = ops
  <2>1. k = 0 => t = <<>>
    BY <1>1, <1>3
  <2>2. ops \o <<>> = ops
    BY ConcatEmptySeq
  <2> QED
    BY <2>1, <2>2
<1> QED
  BY <1>1, <1>3, <1>5, <1>7, <1>8, <1>9, <1>10

-----------------------------------------------------------------------------
(* What the order of the lines means for a step that ends the program.     *)

\* The state while the program runs.
LEMMA RunTypes ==
  ASSUME SessionInv
  PROVE  /\ file \in Seq(Menu) /\ executed \in Seq(OpType) /\ nlmsg \in MsgType
         /\ nlmsg.adt \in Seq(DataType) /\ Len(nlmsg.adt) \in Nat /\ Len(nlmsg.adt) <= BatchMax
         /\ restore_line = Len(file) /\ Len(file) \in Nat
         /\ restore_line - Unbuilt \in Nat /\ restore_line - Unbuilt <= Len(file)
         /\ (Unbuilt = 0 \/ (Unbuilt = 1 /\ restore_line >= 1))
<1>1. TypeOK /\ LineInv
  BY DEF SessionInv
<1>2. nlmsg \in MsgType /\ Len(nlmsg.adt) <= BatchMax
  BY <1>1 DEF TypeOK
<1>3. nlmsg.adt \in Seq(DataType)
  BY <1>2 DEF MsgType
<1>4. file \in Seq(Menu) /\ executed \in Seq(OpType)
  BY <1>1 DEF TypeOK
<1>5. Unbuilt = 0 \/ (Unbuilt = 1 /\ restore_line >= 1)
  BY <1>1 DEF LineInv, Unbuilt
<1>6. restore_line = Len(file) /\ Len(file) \in Nat
  BY <1>4 DEF restore_line
<1> QED
  BY <1>2, <1>3, <1>4, <1>5, <1>6

\* How far the kernel is when it has executed the first k buffered elements.
LEMMA ServedSome ==
  ASSUME SessionInv, RunInv, pc # "exit", NEW k \in 0 .. Len(nlmsg.adt)
  PROVE  /\ k = Len(nlmsg.adt) =>
              Ordered(file, executed \o Sends(nlmsg, k), restore_line - Unbuilt)
         /\ k < Len(nlmsg.adt) =>
              /\ nlmsg.adt[k + 1].lineno \in Upto(file, restore_line - Unbuilt)
              /\ nlmsg.adt[k + 1].lineno \in Nat \ {0}
              /\ Ordered(file, executed \o Sends(nlmsg, k), nlmsg.adt[k + 1].lineno - 1)
<1>0. /\ file \in Seq(Menu) /\ executed \in Seq(OpType) /\ nlmsg \in MsgType
      /\ Len(nlmsg.adt) \in Nat
      /\ restore_line - Unbuilt \in Nat /\ restore_line - Unbuilt <= Len(file)
  BY RunTypes
<1>1. PICK L : L = Len(nlmsg.adt)
  OBVIOUS
<1>2. PICK ops : ops = executed \o Sends(nlmsg, L)
  OBVIOUS
<1>3. PICK a : a = executed \o Sends(nlmsg, k)
  OBVIOUS
<1>4. L \in Nat /\ L \in 0 .. Len(nlmsg.adt) /\ k \in Nat /\ k <= L
  BY <1>0, <1>1
<1>5. /\ DOMAIN ops = 1 .. Len(executed) + L /\ Len(executed) \in Nat
      /\ \A i \in 1 .. Len(executed) : ops[i] = executed[i]
      /\ \A i \in 1 .. L :
           ops[Len(executed) + i] = [cmd |-> nlmsg.cmd, set |-> nlmsg.set, to |-> nlmsg.to,
              elem |-> nlmsg.adt[i].elem, lineno |-> nlmsg.adt[i].lineno]
  BY <1>0, <1>2, <1>4, ConcatFacts
<1>6. /\ DOMAIN a = 1 .. Len(executed) + k
      /\ \A i \in 1 .. Len(executed) : a[i] = executed[i]
      /\ \A i \in 1 .. k :
           a[Len(executed) + i] = [cmd |-> nlmsg.cmd, set |-> nlmsg.set, to |-> nlmsg.to,
              elem |-> nlmsg.adt[i].elem, lineno |-> nlmsg.adt[i].lineno]
  BY <1>0, <1>3, ConcatFacts
<1>7. PICK e : e = Len(executed)
  OBVIOUS
<1>8. ASSUME NEW i \in 1 .. e + k PROVE a[i] = ops[i]
  <2>0. e \in Nat
    BY <1>5, <1>7
  <2>1. CASE i <= e
    <3>1. i \in 1 .. e
      BY <1>4, <1>8, <2>0, <2>1
    <3> QED
      BY <1>5, <1>6, <1>7, <3>1
  <2>2. CASE i > e
    <3>1. i - e \in 1 .. k /\ i - e \in 1 .. L /\ i = e + (i - e)
      BY <1>4, <1>8, <2>0, <2>2
    <3>2. \A j \in 1 .. k : j \in 1 .. L => a[e + j] = ops[e + j]
      BY <1>5, <1>6, <1>7
    <3> QED
      BY <3>1, <3>2
  <2> QED
    BY <1>4, <1>8, <2>0, <2>1, <2>2
<1>9. Ordered(file, ops, restore_line - Unbuilt)
  BY <1>1, <1>2 DEF RunInv
<1>10. /\ e \in Nat /\ e + k \in 0 .. e + L /\ e + L \in Nat
       /\ DOMAIN ops = 1 .. e + L /\ DOMAIN a = 1 .. e + k
  BY <1>4, <1>5, <1>6, <1>7
<1>11. /\ e + k = e + L => Ordered(file, a, restore_line - Unbuilt)
       /\ e + k < e + L =>
            /\ ops[e + k + 1].lineno \in Upto(file, restore_line - Unbuilt)
            /\ ops[e + k + 1].lineno \in Nat \ {0}
            /\ Ordered(file, a, ops[e + k + 1].lineno - 1)
  BY <1>0, <1>8, <1>9, <1>10, OrderedPrefix
<1>12. k < L => ops[e + k + 1].lineno = nlmsg.adt[k + 1].lineno
  <2>1. k < L => k + 1 \in 1 .. L /\ e + k + 1 = e + (k + 1)
    BY <1>4, <1>10
  <2>2. ASSUME NEW i \in 1 .. L PROVE ops[e + i].lineno = nlmsg.adt[i].lineno
    <3>1. ops[e + i] = [cmd |-> nlmsg.cmd, set |-> nlmsg.set, to |-> nlmsg.to,
                        elem |-> nlmsg.adt[i].elem, lineno |-> nlmsg.adt[i].lineno]
      BY <1>5, <1>7, <2>2, Zenon
    <3> QED
      BY <3>1
  <2> QED
    BY <2>1, <2>2
<1> QED
  BY <1>1, <1>3, <1>4, <1>10, <1>11, <1>12

\* A command before the one at hand that was not executed is in the buffer.
LEMMA Buffered ==
  ASSUME SessionInv, RunInv, pc # "exit",
         NEW n \in Upto(file, restore_line - Unbuilt), n \notin LineNos(executed)
  PROVE  \E i \in 1 .. Len(nlmsg.adt) :
           /\ nlmsg.adt[i].lineno = n
           /\ file[n].cmd = nlmsg.cmd /\ file[n].set = nlmsg.set
<1>0. /\ executed \in Seq(OpType) /\ nlmsg \in MsgType /\ Len(nlmsg.adt) \in Nat
  BY RunTypes
<1>1. PICK L : L = Len(nlmsg.adt)
  OBVIOUS
<1>2. PICK ops : ops = executed \o Sends(nlmsg, L)
  OBVIOUS
<1>3. PICK e : e = Len(executed)
  OBVIOUS
<1>4. L \in Nat /\ L \in 0 .. Len(nlmsg.adt) /\ e \in Nat
  BY <1>0, <1>1, <1>3
<1>5. /\ DOMAIN ops = 1 .. e + L
      /\ \A i \in 1 .. e : ops[i] = executed[i]
      /\ \A i \in 1 .. L :
           ops[e + i] = [cmd |-> nlmsg.cmd, set |-> nlmsg.set, to |-> nlmsg.to,
              elem |-> nlmsg.adt[i].elem, lineno |-> nlmsg.adt[i].lineno]
  BY <1>0, <1>2, <1>3, <1>4, ConcatFacts
<1>6. Ordered(file, ops, restore_line - Unbuilt)
  BY <1>1, <1>2 DEF RunInv
<1>7. PICK j \in 1 .. e + L : ops[j].lineno = n /\ ops[j] = Does(file, n)
  BY <1>5, <1>6 DEF Ordered, LineNos
<1>8. j > e
  <2>1. SUFFICES ASSUME j <= e PROVE FALSE
    BY <1>4, <1>7
  <2>2. j \in 1 .. e
    BY <1>4, <1>7, <2>1
  <2>3. executed[j].lineno = n /\ j \in DOMAIN executed
    BY <1>0, <1>3, <1>5, <1>7, <2>2
  <2> QED
    BY <2>3 DEF LineNos
<1>9. j - e \in 1 .. L /\ j = e + (j - e)
  <2>1. j \in Nat /\ j <= e + L
    BY <1>4, <1>7
  <2> QED
    BY <1>4, <1>8, <2>1
<1>10. ASSUME NEW i \in 1 .. L
       PROVE  /\ ops[e + i].lineno = nlmsg.adt[i].lineno
              /\ ops[e + i].cmd = nlmsg.cmd /\ ops[e + i].set = nlmsg.set
  <2>1. ops[e + i] = [cmd |-> nlmsg.cmd, set |-> nlmsg.set, to |-> nlmsg.to,
                      elem |-> nlmsg.adt[i].elem, lineno |-> nlmsg.adt[i].lineno]
    BY <1>5, <1>10, Zenon
  <2> QED
    BY <2>1
<1>11. Does(file, n).cmd = file[n].cmd /\ Does(file, n).set = file[n].set
  BY DEF Does
<1> QED
  BY <1>1, <1>7, <1>9, <1>10, <1>11

-----------------------------------------------------------------------------
(* The commands stay in the order of the file.                             *)

LEMMA RunRead ==
  ASSUME SessionInv, RunInv, NEW l \in Menu, ReadBlank(l) \/ ReadCommit(l) \/ ReadCommand(l)
  PROVE  RunInv'
<1>0. /\ pc = "read" /\ file' = Append(file, l) /\ UNCHANGED <<nlmsg, executed>>
      /\ \/ pc' \in {"read", "commit"} /\ l.cmd \notin Commands
         \/ pc' \in {"type", "flush"}
  BY DEF ReadBlank, ReadCommit, ReadCommand, Fgets, Commands, Adt
<1>1. file \in Seq(Menu) /\ Len(file) \in Nat /\ restore_line = Len(file)
  BY RunTypes
<1>2. PICK ops : ops = executed \o Sends(nlmsg, Len(nlmsg.adt))
  OBVIOUS
<1>3. Unbuilt = 0 /\ restore_line - Unbuilt = Len(file)
  BY <1>0, <1>1 DEF Unbuilt
<1>4. Ordered(file, ops, Len(file))
  BY <1>0, <1>2, <1>3 DEF RunInv
<1>5. /\ Ordered(file', ops, Len(file))
      /\ l.cmd \notin Commands => Ordered(file', ops, Len(file) + 1)
  BY <1>0, <1>1, <1>4, OrderedGrow
<1>6. restore_line' = Len(file) + 1
  BY <1>0, <1>1 DEF restore_line
<1>7. ops = executed' \o Sends(nlmsg', Len(nlmsg'.adt))
  BY <1>0, <1>2
<1>8. CASE pc' \in {"read", "commit"} /\ l.cmd \notin Commands
  <2>1. Unbuilt' = 0
    BY <1>8 DEF Unbuilt
  <2>2. restore_line' - Unbuilt' = Len(file) + 1
    BY <1>1, <1>6, <2>1
  <2> QED
    BY <1>5, <1>7, <1>8, <2>2 DEF RunInv
<1>9. CASE pc' \in {"type", "flush"}
  <2>1. Unbuilt' = 1
    BY <1>9 DEF Unbuilt
  <2>2. restore_line' - Unbuilt' = Len(file)
    BY <1>1, <1>6, <2>1
  <2> QED
    BY <1>5, <1>7, <2>2 DEF RunInv
<1> QED
  BY <1>0, <1>8, <1>9

LEMMA RunMove ==
  ASSUME SessionInv, RunInv,
         \/ EndOfFile \/ CreateTypeGet \/ AdtTypeGet \/ CommitNothing \/ Aggregate
         \/ OtherProgram \/ UNCHANGED vars
  PROVE  RunInv'
<1>1. UNCHANGED <<file, nlmsg, executed>>
  BY DEF EndOfFile, CreateTypeGet, AdtTypeGet, CommitNothing, Aggregate, OtherProgram, vars
<1>2. pc' # "exit" => pc # "exit" /\ Unbuilt' = Unbuilt
  <2>1. CASE EndOfFile \/ CreateTypeGet \/ AdtTypeGet
    BY <2>1 DEF EndOfFile, CreateTypeGet, AdtTypeGet, Exit, Unbuilt
  <2>2. CASE CommitNothing \/ Aggregate
    BY <2>2 DEF CommitNothing, Aggregate, Committing, Resume, Unbuilt
  <2>3. CASE OtherProgram \/ UNCHANGED vars
    BY <2>3 DEF OtherProgram, vars, Unbuilt
  <2> QED
    BY <2>1, <2>2, <2>3
<1>3. restore_line' = restore_line
  BY <1>1 DEF restore_line
<1> QED
  BY <1>1, <1>2, <1>3 DEF RunInv

\* All that was buffered is executed.
LEMMA RunSent ==
  ASSUME SessionInv, RunInv, SessionInv', UNCHANGED file, nlmsg' = NoMsg,
         pc # "exit", executed' = executed \o Sends(nlmsg, Len(nlmsg.adt)), Unbuilt' = Unbuilt
  PROVE  RunInv'
<1>1. executed' \in Seq(OpType)
  BY DEF SessionInv, TypeOK
<1>2. NoMsg \in MsgType /\ NoMsg.adt = <<>> /\ Len(NoMsg.adt) = 0 /\ 0 \in 0 .. Len(NoMsg.adt)
  BY MsgTypes
<1>3. executed' \o Sends(NoMsg, 0) = executed'
  <2>1. PICK x : x = executed'
    OBVIOUS
  <2>2. x \in Seq(OpType)
    BY <1>1, <2>1
  <2>3. 0 = 0 => x \o Sends(NoMsg, 0) = x
    BY <1>2, <2>2, ConcatFacts
  <2> QED
    BY <2>1, <2>3
<1>4. executed' \o Sends(nlmsg', Len(nlmsg'.adt)) = executed'
  BY <1>2, <1>3
<1>5. restore_line' = restore_line
  BY DEF restore_line
<1> QED
  BY <1>4, <1>5 DEF RunInv

LEMMA RunBatch ==
  ASSUME SessionInv, RunInv, SessionInv', NEW k \in 0 .. BatchMax, k <= Len(nlmsg.adt),
         CommitBatch(k), pc' # "exit"
  PROVE  RunInv'
<1>1. /\ executed' = executed \o Served(k) /\ k = Len(nlmsg.adt) /\ pc' = Resume[pc]
      /\ pc \in {"commit", "flush", "full", "eof"} /\ nlmsg' = NoMsg /\ UNCHANGED file
  BY DEF CommitBatch, ServeBatch, Exit, Committing, Resume, ResetBuffer
<1>2. Unbuilt' = Unbuilt
  BY <1>1 DEF Unbuilt, Resume
<1>3. executed' = executed \o Sends(nlmsg, Len(nlmsg.adt))
  BY <1>1 DEF Served, Sends
<1>4. pc # "exit"
  BY <1>1
<1> QED
  BY <1>1, <1>2, <1>3, <1>4, RunSent

LEMMA RunSend ==
  ASSUME SessionInv, RunInv, SessionInv', SendDone, pc' # "exit"
  PROVE  RunInv'
<1>1. /\ executed' = executed \o Served(1) /\ pc = "send" /\ pc' = "read" /\ nlmsg' = NoMsg
      /\ UNCHANGED file
  BY DEF SendDone, ResetBuffer, Exit
<1>2. Unbuilt' = Unbuilt
  BY <1>1 DEF Unbuilt
<1>3. Len(nlmsg.adt) = 1
  BY <1>1, SendFacts
<1>4. executed' = executed \o Sends(nlmsg, Len(nlmsg.adt))
  BY <1>1, <1>3 DEF Served, Sends
<1> QED
  BY <1>1, <1>2, <1>4, RunSent

\* The command at hand joins the buffered ones.
LEMMA RunBuilt ==
  ASSUME SessionInv, RunInv, SessionInv', UNCHANGED <<file, executed>>,
         pc = "build", pc' \in {"read", "send"}, Len(nlmsg'.adt) = Len(nlmsg.adt) + 1,
         nlmsg'.cmd = Line.cmd, nlmsg'.set = Line.set, nlmsg'.to = Line.to,
         nlmsg'.adt[Len(nlmsg.adt) + 1] = Data,
         \A i \in 1 .. Len(nlmsg.adt) :
           /\ nlmsg'.adt[i] = nlmsg.adt[i] /\ nlmsg'.cmd = nlmsg.cmd
           /\ nlmsg'.set = nlmsg.set /\ nlmsg'.to = nlmsg.to
  PROVE  RunInv'
<1>0. /\ file \in Seq(Menu) /\ executed \in Seq(OpType) /\ nlmsg \in MsgType
      /\ Len(nlmsg.adt) \in Nat /\ restore_line = Len(file) /\ Len(file) \in Nat
  BY RunTypes
<1>1. restore_line >= 1 /\ Line.cmd \in Commands
  BY DEF SessionInv, LineInv
<1>2. nlmsg' \in MsgType
  BY DEF SessionInv, TypeOK
<1>3. PICK L : L = Len(nlmsg.adt)
  OBVIOUS
<1>4. PICK e : e = Len(executed)
  OBVIOUS
<1>5. PICK ops : ops = executed \o Sends(nlmsg, L)
  OBVIOUS
<1>6. PICK msg : msg = nlmsg'
  OBVIOUS
<1>7. PICK a : a = executed \o Sends(msg, L + 1)
  OBVIOUS
<1>8. L \in Nat /\ L \in 0 .. Len(nlmsg.adt) /\ e \in Nat /\ L + 1 \in 0 .. Len(msg.adt)
  BY <1>0, <1>3, <1>4, <1>6
<1>9. /\ DOMAIN ops = 1 .. e + L
      /\ \A i \in 1 .. e : ops[i] = executed[i]
      /\ \A i \in 1 .. L :
           ops[e + i] = [cmd |-> nlmsg.cmd, set |-> nlmsg.set, to |-> nlmsg.to,
              elem |-> nlmsg.adt[i].elem, lineno |-> nlmsg.adt[i].lineno]
  BY <1>0, <1>4, <1>5, <1>8, ConcatFacts
<1>10. /\ DOMAIN a = 1 .. e + (L + 1)
       /\ \A i \in 1 .. e : a[i] = executed[i]
       /\ \A i \in 1 .. L + 1 :
            a[e + i] = [cmd |-> msg.cmd, set |-> msg.set, to |-> msg.to,
               elem |-> msg.adt[i].elem, lineno |-> msg.adt[i].lineno]
  <2>1. msg \in MsgType
    BY <1>2, <1>6
  <2>2. PICK k : k = L + 1
    OBVIOUS
  <2>3. k \in 0 .. Len(msg.adt) /\ a = executed \o Sends(msg, k)
    BY <1>7, <1>8, <2>2
  <2>4. /\ DOMAIN a = 1 .. e + k
        /\ \A i \in 1 .. e : a[i] = executed[i]
        /\ \A i \in 1 .. k :
             a[e + i] = [cmd |-> msg.cmd, set |-> msg.set, to |-> msg.to,
                elem |-> msg.adt[i].elem, lineno |-> msg.adt[i].lineno]
    <3>1. executed \in Seq(OpType)
      BY <1>0
    <3>2. /\ DOMAIN (executed \o Sends(msg, k)) = 1 .. Len(executed) + k
          /\ \A i \in 1 .. Len(executed) : (executed \o Sends(msg, k))[i] = executed[i]
          /\ \A i \in 1 .. k :
               (executed \o Sends(msg, k))[Len(executed) + i] =
                 [cmd |-> msg.cmd, set |-> msg.set, to |-> msg.to,
                  elem |-> msg.adt[i].elem, lineno |-> msg.adt[i].lineno]
      BY <2>1, <2>3, <3>1, ConcatFacts, Zenon
    <3> QED
      BY <1>4, <2>3, <3>2, Zenon
  <2> QED
    BY <2>2, <2>4, Zenon
<1>11. ASSUME NEW i \in 1 .. L PROVE a[e + i] = ops[e + i]
  <2>1. i \in 1 .. L + 1
    BY <1>8, <1>11
  <2>2. a[e + i] = [cmd |-> msg.cmd, set |-> msg.set, to |-> msg.to,
               elem |-> msg.adt[i].elem, lineno |-> msg.adt[i].lineno]
    BY <1>10, <2>1, Zenon
  <2>3. ops[e + i] = [cmd |-> nlmsg.cmd, set |-> nlmsg.set, to |-> nlmsg.to,
              elem |-> nlmsg.adt[i].elem, lineno |-> nlmsg.adt[i].lineno]
    BY <1>9, <1>11, Zenon
  <2>4. /\ msg.adt[i] = nlmsg.adt[i] /\ msg.cmd = nlmsg.cmd
        /\ msg.set = nlmsg.set /\ msg.to = nlmsg.to
    BY <1>3, <1>6, <1>11
  <2> QED
    BY <2>2, <2>3, <2>4
<1>12. ASSUME NEW i \in 1 .. e + L PROVE a[i] = ops[i]
  <2>1. CASE i <= e
    <3>1. i \in 1 .. e
      BY <1>8, <1>12, <2>1
    <3> QED
      BY <1>9, <1>10, <3>1
  <2>2. CASE i > e
    <3>1. i - e \in 1 .. L /\ i = e + (i - e)
      BY <1>8, <1>12, <2>2
    <3> QED
      BY <1>11, <3>1
  <2> QED
    BY <1>8, <1>12, <2>1, <2>2
<1>13. a[e + (L + 1)] = Does(file, restore_line)
  <2>1. L + 1 \in 1 .. L + 1
    BY <1>8
  <2>2. a[e + (L + 1)] = [cmd |-> msg.cmd, set |-> msg.set, to |-> msg.to,
               elem |-> msg.adt[L + 1].elem, lineno |-> msg.adt[L + 1].lineno]
    BY <1>10, <2>1, Zenon
  <2>3. msg.adt[L + 1] = Data /\ msg.cmd = Line.cmd /\ msg.set = Line.set /\ msg.to = Line.to
    BY <1>3, <1>6
  <2>4. Data.elem = Line.elem /\ Data.lineno = restore_line
    BY DEF Data
  <2>5. Does(file, restore_line) = [cmd |-> Line.cmd, set |-> Line.set, to |-> Line.to,
                                    elem |-> Line.elem, lineno |-> restore_line]
    BY DEF Does, Line
  <2> QED
    BY <2>2, <2>3, <2>4, <2>5
<1>14. Ordered(file, ops, restore_line - 1)
  BY <1>3, <1>5 DEF RunInv, Unbuilt
<1>15. restore_line \in Asks(file)
  BY <1>0, <1>1 DEF Asks, Line
<1>16. e + L \in Nat /\ e + (L + 1) = e + L + 1
  BY <1>8
<1>17. DOMAIN a = 1 .. e + L + 1 /\ a[e + L + 1] = Does(file, restore_line)
  BY <1>10, <1>13, <1>16
<1>18. Ordered(file, a, restore_line)
  <2>1. PICK len : len = e + L
    OBVIOUS
  <2>2. /\ len \in Nat /\ DOMAIN ops = 1 .. len /\ DOMAIN a = 1 .. len + 1
        /\ a[len + 1] = Does(file, restore_line) /\ \A i \in 1 .. len : a[i] = ops[i]
    BY <1>9, <1>12, <1>16, <1>17, <2>1
  <2> QED
    BY <1>0, <1>14, <1>15, <2>2, OrderedAppend
<1>19. restore_line' - Unbuilt' = restore_line
  BY <1>0 DEF Unbuilt, restore_line
<1>20. a = executed' \o Sends(nlmsg', Len(nlmsg'.adt))
  BY <1>3, <1>6, <1>7
<1> QED
  BY <1>18, <1>19, <1>20 DEF RunInv

LEMMA RunBuild ==
  ASSUME SessionInv, RunInv, SessionInv', BuildAdt \/ BuildOther
  PROVE  RunInv'
<1>0. /\ nlmsg.adt \in Seq(DataType) /\ Len(nlmsg.adt) \in Nat /\ nlmsg \in MsgType
      /\ restore_line = Len(file)
  BY RunTypes
<1>1. pc = "build" /\ UNCHANGED <<file, executed>> /\ LineInv /\ MsgInv /\ TypeOK
  BY DEF BuildAdt, BuildOther, SessionInv
<1>2. /\ NewMsg.cmd = Line.cmd /\ NewMsg.set = Line.set /\ NewMsg.to = Line.to
      /\ Len(NewMsg.adt) = 1 /\ NewMsg.adt[1] = Data
  <2> HIDE DEF Data
  <2> QED
    BY DEF NewMsg
<1>3. CASE BuildAdt /\ pc' = "full"
  <2>1. UNCHANGED nlmsg
    BY <1>3 DEF BuildAdt
  <2>2. restore_line' - Unbuilt' = restore_line - Unbuilt
    BY <1>1, <1>3 DEF Unbuilt, restore_line
  <2> QED
    BY <1>1, <1>3, <2>1, <2>2 DEF RunInv
<1>4. CASE nlmsg = NoMsg /\ nlmsg' = NewMsg /\ pc' \in {"read", "send"}
  <2>1. Len(nlmsg.adt) = 0
    BY <1>4, MsgTypes
  <2>2. /\ nlmsg'.cmd = Line.cmd /\ nlmsg'.set = Line.set /\ nlmsg'.to = Line.to
        /\ Len(nlmsg'.adt) = 0 + 1 /\ nlmsg'.adt[0 + 1] = Data
    BY <1>2, <1>4
  <2>3. \A i \in 1 .. Len(nlmsg.adt) : FALSE
    BY <2>1
  <2> HIDE DEF NewMsg, Data
  <2> QED
    BY <1>1, <1>4, <2>1, <2>2, <2>3, RunBuilt
<1>5. CASE /\ nlmsg # NoMsg /\ pc' = "read" /\ Line.cmd \in Adt
           /\ nlmsg' = [nlmsg EXCEPT !.adt = Append(@, Data)]
  <2>1. PICK d : d = Data
    OBVIOUS
  <2>2. nlmsg' = [nlmsg EXCEPT !.adt = Append(nlmsg.adt, d)]
    BY <1>5, <2>1
  <2>3. /\ nlmsg'.adt = Append(nlmsg.adt, d) /\ nlmsg'.cmd = nlmsg.cmd
        /\ nlmsg'.set = nlmsg.set /\ nlmsg'.to = nlmsg.to
    BY <1>0, <2>2 DEF MsgType
  <2>4. /\ Len(nlmsg'.adt) = Len(nlmsg.adt) + 1 /\ nlmsg'.adt[Len(nlmsg.adt) + 1] = d
        /\ \A i \in 1 .. Len(nlmsg.adt) : nlmsg'.adt[i] = nlmsg.adt[i]
    BY <1>0, <2>3
  <2>5. nlmsg.cmd = Line.cmd /\ nlmsg.set = Line.set /\ nlmsg.to = NoName
    BY <1>1, <1>5 DEF LineInv, MsgInv, MayAggregate
  <2>6. Line.to = NoName
    <3>1. restore_line >= 1
      BY <1>1 DEF LineInv
    <3>2. Complete(Line) /\ Line.to \in Names \cup {NoName}
      BY <1>1, <3>1, LineFacts
    <3> QED
      BY <1>5, <3>2 DEF Complete, Adt
  <2>7. pc' \in {"read", "send"}
    BY <1>5
  <2> HIDE DEF Data
  <2> QED
    BY <1>1, <2>1, <2>3, <2>4, <2>5, <2>6, <2>7, RunBuilt
<1>6. CASE BuildAdt
  BY <1>3, <1>4, <1>5, <1>6 DEF BuildAdt
<1>7. CASE BuildOther
  <2>1. nlmsg = NoMsg
    BY <1>1, <1>7 DEF BuildOther, LineInv, MayAggregate
  <2> QED
    BY <1>4, <1>7, <2>1 DEF BuildOther
<1> QED
  BY <1>6, <1>7

LEMMA RunStep ==
  ASSUME SessionInv, RunInv, SessionInv', [Next]_vars
  PROVE  RunInv'
<1>1. CASE pc' = "exit"
  BY <1>1 DEF RunInv
<1>2. CASE pc' # "exit"
  <2>1. ASSUME NEW l \in Menu, ReadBad(l) \/ ReadQuit(l) PROVE FALSE
    BY <1>2, <2>1 DEF ReadBad, ReadQuit, Exit
  <2>2. ~SendTestNo /\ ~SendRefused /\ ~SendLost
    BY <1>2 DEF SendTestNo, SendRefused, SendLost, Exit
  <2>3. ASSUME NEW k \in 0 .. BatchMax, CommitLost(k) PROVE FALSE
    BY <1>2, <2>3 DEF CommitLost, Exit
  <2> QED
    BY <1>2, <2>1, <2>2, <2>3, RunRead, RunMove, RunBatch, RunSend, RunBuild DEF Next
<1> QED
  BY <1>1, <1>2

\* The end of the program, when the kernel has executed the first k of the
\* buffered elements and the lines it leaves are before the one at hand.
LEMMA EndLost ==
  ASSUME SessionInv, RunInv, pc # "exit", pc # "send",
         NEW T, \A n \in T : n \in Upto(file, restore_line - Unbuilt) /\ n \notin LineNos(executed)
  PROVE  /\ Cardinality(T) <= BatchMax
         /\ \A m, n \in T :
              file[n].cmd \in Adt /\ file[n].cmd = file[m].cmd /\ file[n].set = file[m].set
<1>0. Len(nlmsg.adt) \in Nat /\ Len(nlmsg.adt) <= BatchMax
  BY RunTypes
<1>1. \A n \in T : \E i \in 1 .. Len(nlmsg.adt) :
        /\ nlmsg.adt[i].lineno = n
        /\ file[n].cmd = nlmsg.cmd /\ file[n].set = nlmsg.set
  BY Buffered
<1>2. Cardinality(T) <= Len(nlmsg.adt) /\ Cardinality(T) \in Nat
  <2>1. PICK s : s = nlmsg.adt
    OBVIOUS
  <2>2. \A n \in T : \E i \in 1 .. Len(nlmsg.adt) : s[i].lineno = n
    BY <1>1, <2>1
  <2> QED
    BY <1>0, <2>2, NoMoreThanBuffered
<1>3. Cardinality(T) <= BatchMax
  <2>1. BatchMax \in Nat
    BY MsgTypes
  <2> QED
    BY <1>0, <1>2, <2>1
<1>4. ASSUME NEW n \in T PROVE nlmsg.cmd \in Adt
  <2>1. PICK i \in 1 .. Len(nlmsg.adt) : TRUE
    BY <1>1, <1>4
  <2>2. Len(nlmsg.adt) # 0
    BY <1>0, <2>1
  <2>3. nlmsg # NoMsg
    BY <2>2, MsgTypes
  <2> QED
    BY <2>3 DEF SessionInv, MsgInv
<1> QED
  BY <1>1, <1>3, <1>4

\* How much is executed before another line is read.
LEMMA ExecutedSome ==
  ASSUME SessionInv, RunInv, pc # "exit", NEW k \in 0 .. Len(nlmsg.adt)
  PROVE  \E b \in 0 .. Len(file) : Ordered(file, executed \o Sends(nlmsg, k), b)
<1>0. /\ Len(nlmsg.adt) \in Nat /\ restore_line - Unbuilt \in Nat
      /\ restore_line - Unbuilt <= Len(file) /\ Len(file) \in Nat
  BY RunTypes
<1>1. CASE k = Len(nlmsg.adt)
  <2>1. Ordered(file, executed \o Sends(nlmsg, k), restore_line - Unbuilt)
    BY <1>1, ServedSome
  <2>2. restore_line - Unbuilt \in 0 .. Len(file)
    BY <1>0
  <2> QED
    BY <2>1, <2>2
<1>2. CASE k < Len(nlmsg.adt)
  <2>1. PICK m : m = nlmsg.adt[k + 1].lineno
    OBVIOUS
  <2>2. /\ m \in Upto(file, restore_line - Unbuilt) /\ m \in Nat \ {0}
        /\ Ordered(file, executed \o Sends(nlmsg, k), m - 1)
    BY <1>2, <2>1, ServedSome
  <2>3. m <= Len(file)
    BY <2>2 DEF Upto, Asks
  <2>4. m - 1 \in 0 .. Len(file)
    BY <1>0, <2>2, <2>3
  <2> QED
    BY <2>2, <2>4
<1> QED
  BY <1>0, <1>1, <1>2

LEMMA ExecutedNone ==
  ASSUME SessionInv
  PROVE  /\ 0 \in 0 .. Len(nlmsg.adt) /\ executed \o Sends(nlmsg, 0) = executed
<1>0. executed \in Seq(OpType) /\ nlmsg \in MsgType /\ Len(nlmsg.adt) \in Nat
  BY RunTypes
<1>1. 0 \in 0 .. Len(nlmsg.adt)
  BY <1>0
<1>2. 0 = 0 => executed \o Sends(nlmsg, 0) = executed
  BY <1>0, <1>1, ConcatFacts, Zenon
<1> QED
  BY <1>1, <1>2

\* A line that cannot be parsed, or quit, ends the program.
LEMMA EndRead ==
  ASSUME SessionInv, RunInv, NEW l \in Menu, ReadBad(l) \/ ReadQuit(l)
  PROVE  EndInv'
<1>0. /\ pc = "read" /\ file' = Append(file, l) /\ UNCHANGED <<nlmsg, executed>>
      /\ l.cmd \notin Commands /\ exit'.by = "parser"
  BY DEF ReadBad, ReadQuit, Fgets, Commands, Adt, Exit
<1>1. file \in Seq(Menu) /\ Len(file) \in Nat /\ restore_line = Len(file)
  BY RunTypes
<1>2. Unbuilt = 0 /\ restore_line - Unbuilt = Len(file) /\ pc # "exit" /\ pc # "send"
  BY <1>0, <1>1 DEF Unbuilt
<1>3. PICK b \in 0 .. Len(file) : Ordered(file, executed, b)
  BY <1>2, ExecutedSome, ExecutedNone
<1>4. b \in Nat /\ b <= Len(file)
  BY <1>1, <1>3
<1>5. Ordered(file', executed, b) /\ Asks(file') = Asks(file)
  BY <1>0, <1>1, <1>3, <1>4, OrderedGrow
<1>6. Len(file') = Len(file) + 1 /\ \A n \in 1 .. Len(file) : file'[n] = file[n]
  BY <1>0, <1>1
<1>7. b \in 0 .. Len(file')
  BY <1>1, <1>4, <1>6
<1>8. RefusedLineReported'
  BY <1>0 DEF RefusedLineReported
<1>9. LostLinesAreOneBatch'
  <2>1. PICK T : T = {n \in Asks(file) \ LineNos(executed) : n < Len(file) + 1}
    OBVIOUS
  <2>2. \A n \in T : n \in Upto(file, Len(file)) /\ n \notin LineNos(executed) /\ n \in 1 .. Len(file)
    BY <1>1, <2>1 DEF Upto, Asks
  <2>3. \A n \in T : n \in Upto(file, restore_line - Unbuilt) /\ n \notin LineNos(executed)
    BY <1>2, <2>2
  <2>4. /\ Cardinality(T) <= BatchMax
        /\ \A m, n \in T :
             file[n].cmd \in Adt /\ file[n].cmd = file[m].cmd /\ file[n].set = file[m].set
    BY <1>2, <2>3, EndLost
  <2>5. \A m, n \in T :
             file'[n].cmd \in Adt /\ file'[n].cmd = file'[m].cmd /\ file'[n].set = file'[m].set
    BY <1>6, <2>2, <2>4
  <2>6. T = {n \in Asked \ LineNos(executed) : n < restore_line}'
    <3>1. Asked' = Asks(file') /\ restore_line' = Len(file) + 1
      BY <1>6 DEF Asked, Asks, restore_line
    <3> QED
      BY <1>0, <1>5, <2>1, <3>1
  <2> QED
    BY <2>4, <2>5, <2>6 DEF LostLinesAreOneBatch
<1> QED
  BY <1>0, <1>5, <1>7, <1>8, <1>9 DEF EndInv

\* The program ends when the kernel has executed the first k of the buffered
\* commands.
LEMMA EndHere ==
  ASSUME SessionInv, RunInv, pc # "exit", UNCHANGED file, NEW k \in 0 .. Len(nlmsg.adt),
         executed' = executed \o Sends(nlmsg, k),
         exit'.by = "kernel" =>
           \/ exit'.code = 1 /\ k < Len(nlmsg.adt) /\ exit'.line = nlmsg.adt[k + 1].lineno
           \/ k = Len(nlmsg.adt) /\ Unbuilt = 0
  PROVE  EndInv'
<1>0. /\ file \in Seq(Menu) /\ executed \in Seq(OpType) /\ nlmsg \in MsgType
      /\ nlmsg.adt \in Seq(DataType) /\ Len(nlmsg.adt) \in Nat
      /\ restore_line = Len(file) /\ Len(file) \in Nat
      /\ restore_line - Unbuilt \in Nat
      /\ (Unbuilt = 0 \/ (Unbuilt = 1 /\ restore_line >= 1))
  BY RunTypes
<1>1. (\E b \in 0 .. Len(file) : Ordered(file, executed, b))'
  BY ExecutedSome
<1>2. Asked' = Asks(file) /\ restore_line' = Len(file)
  BY DEF Asked, Asks, restore_line
<1>3. ASSUME NEW n \in LineNos(executed) PROVE n \in LineNos(executed')
  <2>1. /\ DOMAIN (executed \o Sends(nlmsg, k)) = 1 .. Len(executed) + k /\ Len(executed) \in Nat
        /\ \A i \in 1 .. Len(executed) : (executed \o Sends(nlmsg, k))[i] = executed[i]
    BY <1>0, ConcatFacts
  <2>2. PICK i \in DOMAIN executed : executed[i].lineno = n
    BY <1>3 DEF LineNos
  <2>3. i \in 1 .. Len(executed) /\ i \in 1 .. Len(executed) + k
    BY <1>0, <2>1, <2>2
  <2>4. i \in DOMAIN executed' /\ executed'[i] = executed[i]
    BY <2>1, <2>3
  <2> QED
    BY <2>2, <2>4 DEF LineNos
<1>4. RefusedLineReported'
  <2>1. CASE exit'.by # "kernel"
    BY <2>1 DEF RefusedLineReported
  <2>2. CASE exit'.code = 1 /\ k < Len(nlmsg.adt) /\ exit'.line = nlmsg.adt[k + 1].lineno
    <3>1. PICK m : m = nlmsg.adt[k + 1].lineno
      OBVIOUS
    <3>2. m \in Upto(file, restore_line - Unbuilt) /\ m \in Nat \ {0} /\ Ordered(file, executed', m - 1)
      BY <2>2, <3>1, ServedSome
    <3>3. LineNos(executed') = Upto(file, m - 1) /\ m \in Asks(file)
      BY <3>2 DEF Ordered, Upto
    <3>4. m \notin Upto(file, m - 1)
      BY <3>2 DEF Upto
    <3>5. \A n \in Asks(file) \ Upto(file, m - 1) : m <= n
      BY <3>2 DEF Upto, Asks
    <3> QED
      BY <1>2, <2>2, <3>1, <3>3, <3>4, <3>5 DEF RefusedLineReported
  <2>3. CASE k = Len(nlmsg.adt) /\ Unbuilt = 0
    <3>1. restore_line - Unbuilt = Len(file)
      BY <1>0, <2>3
    <3>2. Ordered(file, executed', Len(file))
      BY <2>3, <3>1, ServedSome
    <3>3. \A n \in Asks(file) : n \in LineNos(executed')
      BY <3>2 DEF Ordered, Upto, Asks
    <3> QED
      BY <1>2, <3>3 DEF RefusedLineReported
  <2> QED
    BY <2>1, <2>2, <2>3
<1>5. LostLinesAreOneBatch'
  <2>1. PICK T : T = {n \in Asks(file) \ LineNos(executed') : n < Len(file)}
    OBVIOUS
  <2>2. \A n \in T : n \in Upto(file, restore_line - Unbuilt) /\ n \notin LineNos(executed)
    BY <1>0, <1>3, <2>1 DEF Upto, Asks
  <2>3. /\ Cardinality(T) <= BatchMax
        /\ \A m, n \in T :
             file[n].cmd \in Adt /\ file[n].cmd = file[m].cmd /\ file[n].set = file[m].set
    <3>1. CASE pc # "send"
      BY <2>2, <3>1, EndLost
    <3>2. CASE pc = "send"
      <4>1. Len(nlmsg.adt) = 1 /\ nlmsg.adt[1] = Data
        BY <3>2, SendFacts
      <4>2. Data.lineno = Len(file)
        BY <1>0 DEF Data
      <4>3. ASSUME NEW n \in T PROVE FALSE
        <5>1. PICK i \in 1 .. Len(nlmsg.adt) : nlmsg.adt[i].lineno = n
          BY <2>2, <4>3, Buffered
        <5>2. i = 1
          BY <4>1, <5>1
        <5>3. n = Len(file) /\ n < Len(file)
          BY <2>1, <4>1, <4>2, <4>3, <5>1, <5>2
        <5> QED
          BY <1>0, <5>3
      <4>4. T = {}
        BY <4>3
      <4>5. Cardinality(T) = 0 /\ BatchMax \in Nat
        BY <4>4, FS_EmptySet, MsgTypes
      <4> QED
        BY <4>4, <4>5
    <3> QED
      BY <3>1, <3>2
  <2>4. T = {n \in Asked \ LineNos(executed) : n < restore_line}'
    BY <1>2, <2>1
  <2> QED
    BY <2>3, <2>4 DEF LostLinesAreOneBatch
<1> QED
  BY <1>1, <1>4, <1>5 DEF EndInv

LEMMA EndStep ==
  ASSUME SessionInv, RunInv, EndInv, [Next]_vars
  PROVE  EndInv'
<1>0. Len(nlmsg.adt) \in Nat
  BY RunTypes
<1>1. 0 \in 0 .. Len(nlmsg.adt) /\ executed \o Sends(nlmsg, 0) = executed
  BY ExecutedNone
<1>2. ASSUME UNCHANGED vars PROVE EndInv'
  BY <1>2 DEF EndInv, vars, RefusedLineReported, LostLinesAreOneBatch, Ordered, Upto, Asks,
              Does, LineNos, Asked, restore_line
<1>3. ASSUME pc' # "exit" PROVE EndInv'
  BY <1>3 DEF EndInv
<1>4. ASSUME NEW l \in Menu, ReadBad(l) \/ ReadQuit(l) PROVE EndInv'
  BY <1>4, EndRead
<1>5. ASSUME CreateTypeGet \/ AdtTypeGet, pc' = "exit" PROVE EndInv'
  <2>1. pc # "exit" /\ UNCHANGED <<file, executed>> /\ exit'.by # "kernel"
    BY <1>5 DEF CreateTypeGet, AdtTypeGet, Exit
  <2> QED
    BY <1>1, <2>1, EndHere
<1>6. ASSUME NEW k \in 0 .. BatchMax, k <= Len(nlmsg.adt), CommitBatch(k), pc' = "exit"
      PROVE  EndInv'
  <2>1. k \in 0 .. Len(nlmsg.adt)
    BY <1>0, <1>6
  <2>2. /\ pc # "exit" /\ UNCHANGED file /\ executed' = executed \o Served(k)
        /\ exit'.code = 1 /\ k < Len(nlmsg.adt) /\ exit'.line = ErrorLine(k)
    <3>1. pc \in {"commit", "flush", "full", "eof"} /\ pc' # Resume[pc]
      BY <1>6 DEF CommitBatch, Committing, Resume
    <3> QED
      BY <1>6, <3>1 DEF CommitBatch, ServeBatch, Exit
  <2>3. executed' = executed \o Sends(nlmsg, k) /\ exit'.line = nlmsg.adt[k + 1].lineno
    BY <2>2 DEF Served, Sends, ErrorLine
  <2> QED
    BY <2>1, <2>2, <2>3, EndHere
<1>7. ASSUME NEW k \in 0 .. BatchMax, k <= Len(nlmsg.adt), CommitLost(k)
      PROVE  EndInv'
  <2>1. k \in 0 .. Len(nlmsg.adt)
    BY <1>0, <1>7
  <2>2. /\ pc # "exit" /\ UNCHANGED file /\ executed' = executed \o Served(k)
        /\ exit'.by # "kernel"
    BY <1>7 DEF CommitLost, ServeBatch, Exit, Committing, Resume
  <2>3. executed' = executed \o Sends(nlmsg, k)
    BY <2>2 DEF Served, Sends
  <2> QED
    BY <2>1, <2>2, <2>3, EndHere
<1>8. ASSUME SendDone \/ SendTestNo \/ SendRefused \/ SendLost, pc' = "exit" PROVE EndInv'
  <2>1. pc = "send" /\ UNCHANGED file
    BY <1>8 DEF SendDone, SendTestNo, SendRefused, SendLost
  <2>2. Len(nlmsg.adt) = 1 /\ nlmsg.adt[1] = Data
    BY <2>1, SendFacts
  <2>3. Data.lineno = restore_line /\ Unbuilt = 0
    BY <2>1 DEF Data, Unbuilt
  <2>4. Served(1) = Sends(nlmsg, 1)
    BY DEF Served, Sends
  <2>5. \/ executed' = executed \o Sends(nlmsg, 1)
        \/ /\ executed' = executed
           /\ exit'.by = "kernel" => exit'.code = 1 /\ exit'.line = restore_line
    BY <1>8, <2>4 DEF SendDone, SendTestNo, SendRefused, SendLost, Exit
  <2>6. CASE executed' = executed \o Sends(nlmsg, 1)
    <3>1. 1 \in 0 .. Len(nlmsg.adt) /\ 1 = Len(nlmsg.adt)
      BY <2>2
    <3> QED
      BY <2>1, <2>3, <2>6, <3>1, EndHere
  <2>7. CASE /\ executed' = executed
             /\ exit'.by = "kernel" => exit'.code = 1 /\ exit'.line = restore_line
    <3>1. 0 < Len(nlmsg.adt) /\ nlmsg.adt[0 + 1].lineno = restore_line
      BY <2>2, <2>3
    <3> QED
      BY <1>1, <2>1, <2>7, <3>1, EndHere
  <2> QED
    BY <2>5, <2>6, <2>7
<1>9. ASSUME \/ \E l \in Menu : ReadBlank(l) \/ ReadCommit(l) \/ ReadCommand(l)
             \/ EndOfFile \/ CommitNothing \/ Aggregate \/ BuildAdt \/ BuildOther \/ OtherProgram
      PROVE  pc' # "exit"
  <2>1. ASSUME NEW l \in Menu, ReadBlank(l) \/ ReadCommit(l) \/ ReadCommand(l) PROVE pc' # "exit"
    BY <2>1 DEF ReadBlank, ReadCommit, ReadCommand, Fgets
  <2>2. CASE CommitNothing
    BY <2>2 DEF CommitNothing, Committing, Resume
  <2>3. CASE EndOfFile \/ Aggregate \/ BuildAdt \/ BuildOther \/ OtherProgram
    BY <2>3 DEF EndOfFile, Aggregate, BuildAdt, BuildOther, OtherProgram
  <2> QED
    BY <1>9, <2>1, <2>2, <2>3
<1> QED
  BY <1>2, <1>3, <1>4, <1>5, <1>6, <1>7, <1>8, <1>9 DEF Next

LEMMA OrderInit == Init => RunInv /\ EndInv
<1> SUFFICES ASSUME Init PROVE RunInv /\ EndInv
  OBVIOUS
<1>1. file = <<>> /\ Len(file) = 0 /\ executed = <<>> /\ nlmsg = NoMsg /\ pc = "read" /\ SessionInv
  BY SessionInit DEF Init
<1>2. Len(nlmsg.adt) = 0
  BY <1>1, MsgTypes
<1>3. executed \o Sends(nlmsg, 0) = <<>>
  BY <1>1, ExecutedNone
<1>4. restore_line - Unbuilt = 0
  BY <1>1 DEF restore_line, Unbuilt
<1>5. \A n : n \notin Upto(file, 0)
  BY <1>1 DEF Upto, Asks
<1>6. DOMAIN <<>> = {}
  OBVIOUS
<1>7. \A n : n \notin LineNos(<<>>)
  BY <1>6 DEF LineNos
<1>8. LineNos(<<>>) = Upto(file, 0)
  BY <1>5, <1>7
<1>9. Ordered(file, <<>>, 0)
  BY <1>6, <1>8 DEF Ordered
<1> QED
  BY <1>1, <1>2, <1>3, <1>4, <1>9 DEF RunInv, EndInv

LEMMA OrderAlways == Spec => [](SessionInv /\ RunInv /\ EndInv)
<1>1. Init => SessionInv /\ RunInv /\ EndInv
  BY SessionInit, OrderInit
<1>2. SessionInv /\ RunInv /\ EndInv /\ [Next]_vars => (SessionInv /\ RunInv /\ EndInv)'
  BY SessionNext, RunStep, EndStep
<1> QED
  BY <1>1, <1>2, PTL DEF Spec

\* The invariants say what the properties say.
LEMMA OrderMeaning ==
  ASSUME SessionInv, RunInv, EndInv
  PROVE  OrderInv
<1>0. /\ restore_line = Len(file) /\ Len(file) \in Nat /\ executed \in Seq(OpType)
  BY RunTypes
<1>1. \A ops, b : Ordered(file, ops, b) <=> InOrder(ops, {n \in Asked : n <= b})
  BY DEF Ordered, InOrder, Upto, Asks, Asked, Does, Op
<1>2. \A k : Served(k) = Sends(nlmsg, k)
  BY DEF Served, Sends
<1>3. \E b \in 0 .. Len(file) : Ordered(file, executed, b)
  BY ExecutedSome, ExecutedNone DEF EndInv
<1>4. pc = "done" => InOrder(executed, Asked)
  <2> SUFFICES ASSUME pc = "done" PROVE InOrder(executed, Asked)
    OBVIOUS
  <2>1. nlmsg = NoMsg /\ Unbuilt = 0
    BY DEF SessionInv, LineInv, Unbuilt
  <2>2. executed \o Sends(nlmsg, Len(nlmsg.adt)) = executed
    BY <2>1, MsgTypes, ExecutedNone
  <2>3. restore_line - Unbuilt = Len(file)
    BY <1>0, <2>1
  <2>4. Ordered(file, executed, Len(file))
    BY <2>2, <2>3 DEF RunInv
  <2>5. {n \in Asked : n <= Len(file)} = Asked
    BY <1>0 DEF Asked
  <2> QED
    BY <1>1, <2>4, <2>5
<1>5. LinesInOrder
  BY <1>1, <1>2, <1>3, <1>4 DEF LinesInOrder, RunInv
<1>6. RefusedLineReported
  <2>1. CASE pc = "exit"
    BY <2>1 DEF EndInv
  <2>2. CASE pc # "exit"
    BY <2>2 DEF SessionInv, LineInv, RefusedLineReported
  <2> QED
    BY <2>1, <2>2
<1>7. LostLinesAreOneBatch
  BY DEF EndInv, LostLinesAreOneBatch
<1> QED
  BY <1>5, <1>6, <1>7 DEF OrderInv

\* The kernel executes the commands of a restore file of any length, each one
\* once and in the order of the file, whatever dset_commit buffers and however
\* large session->buffer is.
THEOREM RestoreKeepsTheOrder == Spec => []LinesInOrder
<1>1. SessionInv /\ RunInv /\ EndInv => LinesInOrder
  BY OrderMeaning DEF OrderInv
<1> QED
  BY <1>1, OrderAlways, PTL

\* The line number of an error of the kernel is that of the first command that
\* was not executed.
THEOREM RefusalsNameTheLine == Spec => []RefusedLineReported
<1>1. SessionInv /\ RunInv /\ EndInv => RefusedLineReported
  BY OrderMeaning DEF OrderInv
<1> QED
  BY <1>1, OrderAlways, PTL

\* However the program ends, the lines lost before the current one are adds or
\* dels of one set that fit into one message.
THEOREM AtMostOneBatchIsLost == Spec => []LostLinesAreOneBatch
<1>1. SessionInv /\ RunInv /\ EndInv => LostLinesAreOneBatch
  BY OrderMeaning DEF OrderInv
<1> QED
  BY <1>1, OrderAlways, PTL

-----------------------------------------------------------------------------
(* The cache of sets follows the kernel.                                   *)

\* The cache after the answer to a command.
LEMMA CacheFollows ==
  ASSUME SessionInv, CacheInv, ~disturbed, "exist" \notin envopts, pc = "send", Serve,
         NEW c, c = CacheAfter
  PROVE  /\ \A i \in DOMAIN c : sets'[c[i]] # Absent
         /\ \A i, j \in DOMAIN c : c[i] = c[j] => i = j
<1> DEFINE n == nlmsg.set
           m == nlmsg.to
<1>0. /\ nlmsg.cmd \in Commands \ {"destroy", "flush"} => n \in Names
      /\ nlmsg.cmd \in {"rename", "swap"} => m \in Names
      /\ n \in Names \cup {NoName} /\ TypeOK
  BY SendFacts
<1>1. cache \in Seq(Names) /\ sets \in SetsType /\ Len(cache) \in Nat /\ DOMAIN cache = 1 .. Len(cache)
  BY <1>0 DEF TypeOK, SetsType
<1>2. /\ \A i \in 1 .. Len(cache) : sets[cache[i]] # Absent /\ cache[i] \in Names
      /\ \A i, j \in 1 .. Len(cache) : cache[i] = cache[j] => i = j
      /\ nlmsg.excl
  BY <1>1 DEF CacheInv, CacheTrue, ExclInv, Exists
<1>3. Contains(cache, n) => FirstAt(n) \in 1 .. Len(cache) /\ cache[FirstAt(n)] = n
  BY <1>1, FirstFound
<1>4. Contains(cache, m) => FirstAt(m) \in 1 .. Len(cache) /\ cache[FirstAt(m)] = m
  BY <1>1, FirstFound
<1>5. \A x : Contains(cache, x) <=> \E i \in 1 .. Len(cache) : cache[i] = x
  BY <1>1 DEF Contains
<1>6. CASE nlmsg.cmd = "create"
  <2>1. n \in Names /\ sets[n] = Absent /\ sets' = [sets EXCEPT ![n] = {}] /\ c = CacheAdd(n)
    BY <1>0, <1>2, <1>6 DEF Serve, Exists, Commands, CacheAfter
  <2>2. c = Append(cache, n)
    BY <1>1, <1>2, <2>1 DEF CacheAdd
  <2>3. /\ DOMAIN c = 1 .. Len(cache) + 1 /\ c[Len(cache) + 1] = n
        /\ \A i \in 1 .. Len(cache) : c[i] = cache[i] /\ c[i] # n
    BY <1>1, <1>2, <2>1, <2>2
  <2>4. {} # Absent
    BY SessionAssumption
  <2>5. \A i \in 1 .. Len(cache) + 1 : i \in 1 .. Len(cache) \/ i = Len(cache) + 1
    BY <1>1
  <2>6. \A i \in 1 .. Len(cache) : sets'[cache[i]] # Absent
    BY <1>1, <1>2, <2>1 DEF SetsType
  <2>7. sets'[n] # Absent
    BY <1>1, <2>1, <2>4 DEF SetsType
  <2> QED
    BY <1>2, <2>3, <2>5, <2>6, <2>7
<1>7. CASE nlmsg.cmd = "destroy"
  <2>1. /\ c = CacheDel(n)
        /\ sets' = [x \in Names |-> IF n \in {x, NoName} THEN Absent ELSE sets[x]]
    BY <1>7 DEF Serve, CacheAfter
  <2>2. CASE n = NoName
    <3>1. c = <<>>
      BY <2>1, <2>2 DEF CacheDel
    <3>2. DOMAIN <<>> = {}
      OBVIOUS
    <3> QED
      BY <3>1, <3>2
  <2>3. CASE n # NoName /\ ~Contains(cache, n)
    <3>1. c = cache
      BY <2>1, <2>3 DEF CacheDel
    <3>2. \A i \in 1 .. Len(cache) : cache[i] # n
      BY <1>5, <2>3
    <3>3. \A i \in 1 .. Len(cache) : sets'[cache[i]] = sets[cache[i]]
      BY <1>2, <2>1, <2>3, <3>2
    <3> QED
      BY <1>1, <1>2, <3>1, <3>3
  <2>4. CASE n # NoName /\ Contains(cache, n)
    <3>1. PICK f : f = FirstAt(n)
      OBVIOUS
    <3>2. f \in 1 .. Len(cache) /\ cache[f] = n /\ c = RemoveAt(cache, f)
      BY <1>3, <2>1, <2>4, <3>1 DEF CacheDel
    <3>3. /\ c \in Seq(Names) /\ Len(c) = Len(cache) - 1
          /\ \A j \in 1 .. Len(cache) - 1 : c[j] = IF j < f THEN cache[j] ELSE cache[j + 1]
      BY <1>1, <3>2, Removed
    <3>4. DOMAIN c = 1 .. Len(cache) - 1
      BY <3>3
    <3>5. \A j \in 1 .. Len(cache) - 1 : j \in 1 .. Len(cache) /\ j + 1 \in 1 .. Len(cache)
      BY <1>1
    <3>6. ASSUME NEW j \in 1 .. Len(cache) - 1 PROVE c[j] # n /\ c[j] \in Names /\ sets[c[j]] # Absent
      <4>1. CASE j < f
        <5>1. c[j] = cache[j] /\ j # f
          BY <3>2, <3>3, <3>6, <4>1
        <5> QED
          BY <1>2, <3>2, <3>5, <3>6, <5>1
      <4>2. CASE ~(j < f)
        <5>1. c[j] = cache[j + 1] /\ j + 1 # f
          BY <3>2, <3>3, <3>6, <4>2
        <5> QED
          BY <1>2, <3>2, <3>5, <3>6, <5>1
      <4> QED
        BY <4>1, <4>2
    <3>7. \A j \in 1 .. Len(cache) - 1 : sets'[c[j]] = sets[c[j]]
      BY <2>1, <2>4, <3>6
    <3>8. ASSUME NEW i \in 1 .. Len(cache) - 1, NEW j \in 1 .. Len(cache) - 1, c[i] = c[j]
          PROVE  i = j
      <4>1. /\ c[i] = IF i < f THEN cache[i] ELSE cache[i + 1]
            /\ c[j] = IF j < f THEN cache[j] ELSE cache[j + 1]
        BY <3>3, <3>8
      <4>2. (IF i < f THEN i ELSE i + 1) = (IF j < f THEN j ELSE j + 1)
        BY <1>2, <3>5, <3>8, <4>1
      <4> QED
        BY <1>1, <3>2, <3>8, <4>2
    <3> QED
      BY <3>4, <3>6, <3>7, <3>8
  <2> QED
    BY <2>2, <2>3, <2>4
<1>8. CASE nlmsg.cmd = "flush"
  <2>1. /\ c = cache
        /\ sets' = [x \in Names |-> IF n \in {x, NoName} /\ Exists(x) THEN {} ELSE sets[x]]
    BY <1>8 DEF Serve, CacheAfter
  <2>2. {} # Absent
    BY SessionAssumption
  <2>3. \A i \in 1 .. Len(cache) : sets'[cache[i]] # Absent
    BY <1>2, <2>1, <2>2
  <2> QED
    BY <1>1, <1>2, <2>1, <2>3
<1>9. CASE nlmsg.cmd = "rename"
  <2>1. /\ c = CacheRename(n, m) /\ n \in Names /\ m \in Names
        /\ sets[n] # Absent /\ sets[m] = Absent
        /\ sets' = [sets EXCEPT ![n] = Absent, ![m] = sets[n]]
    BY <1>0, <1>9 DEF Serve, CacheAfter, Commands, Exists
  <2>2. n # m /\ sets'[m] # Absent /\ \A x \in Names \ {n, m} : sets'[x] = sets[x]
    BY <1>1, <2>1 DEF SetsType
  <2>3. \A i \in 1 .. Len(cache) : cache[i] # m
    BY <1>2, <2>1
  <2>4. CASE Contains(cache, n)
    <3>1. PICK f : f = FirstAt(n)
      OBVIOUS
    <3>2. f \in 1 .. Len(cache) /\ cache[f] = n /\ c = [cache EXCEPT ![f] = m]
      BY <1>3, <2>1, <2>4, <3>1 DEF CacheRename
    <3>3. /\ DOMAIN c = 1 .. Len(cache) /\ c[f] = m
          /\ \A i \in 1 .. Len(cache) : i # f => c[i] = cache[i] /\ cache[i] # n
      BY <1>1, <1>2, <3>2
    <3> QED
      BY <1>2, <2>2, <2>3, <3>2, <3>3
  <2>5. CASE ~Contains(cache, n)
    <3>1. c = cache /\ \A i \in 1 .. Len(cache) : cache[i] # n
      BY <1>5, <2>1, <2>5 DEF CacheRename
    <3> QED
      BY <1>1, <1>2, <2>2, <2>3, <3>1
  <2> QED
    BY <2>4, <2>5
<1>10. CASE nlmsg.cmd = "swap"
  <2>1. /\ c = CacheSwap(n, m) /\ n \in Names /\ m \in Names
        /\ sets[n] # Absent /\ sets[m] # Absent
        /\ sets' = [sets EXCEPT ![n] = sets[m], ![m] = sets[n]]
    BY <1>0, <1>10 DEF Serve, CacheAfter, Commands, Exists
  <2>2. \A x \in Names : sets[x] # Absent => sets'[x] # Absent
    BY <1>1, <2>1 DEF SetsType
  <2>3. CASE Contains(cache, n) /\ Contains(cache, m)
    <3>1. PICK f : f = FirstAt(n)
      OBVIOUS
    <3>2. PICK g : g = FirstAt(m)
      OBVIOUS
    <3>3. /\ f \in 1 .. Len(cache) /\ cache[f] = n /\ g \in 1 .. Len(cache) /\ cache[g] = m
          /\ c = [cache EXCEPT ![f] = m, ![g] = n]
      BY <1>3, <1>4, <2>1, <2>3, <3>1, <3>2 DEF CacheSwap
    <3>4. /\ DOMAIN c = 1 .. Len(cache) /\ c[g] = n /\ (f # g => c[f] = m)
          /\ \A i \in 1 .. Len(cache) : i # f /\ i # g => c[i] = cache[i]
      BY <1>1, <3>3
    <3>5. f = g => n = m
      BY <3>3
    <3>6. \A i \in 1 .. Len(cache) : c[i] \in Names /\ sets[c[i]] # Absent
      BY <1>2, <2>1, <3>3, <3>4
    <3>7. ASSUME NEW i \in 1 .. Len(cache), NEW j \in 1 .. Len(cache), c[i] = c[j]
          PROVE  i = j
      <4>1. \A x \in 1 .. Len(cache) : /\ (x = f => cache[g] = c[x] \/ f = g)
                                       /\ (x = g => cache[f] = c[x])
                                       /\ (x # f /\ x # g => cache[x] = c[x])
        BY <3>3, <3>4
      <4>2. \A x, y \in 1 .. Len(cache) : cache[x] = cache[y] => x = y
        BY <1>2
      <4> QED
        BY <3>3, <3>4, <3>7, <4>1, <4>2
    <3> QED
      BY <2>2, <3>4, <3>6, <3>7
  <2>4. CASE ~(Contains(cache, n) /\ Contains(cache, m))
    <3>1. c = cache
      BY <2>1, <2>4 DEF CacheSwap
    <3> QED
      BY <1>1, <1>2, <2>2, <3>1
  <2> QED
    BY <2>3, <2>4
<1>11. CASE nlmsg.cmd = "test"
  <2>1. c = cache /\ sets' = sets
    BY <1>11 DEF Serve, CacheAfter
  <2> QED
    BY <1>1, <1>2, <2>1
<1> QED
  BY <1>6, <1>7, <1>8, <1>9, <1>10, <1>11 DEF Serve

\* A batch neither makes a set nor removes one.
LEMMA BatchKeepsSets ==
  ASSUME SessionInv, pc # "send", nlmsg # NoMsg, NEW k \in 0 .. Len(nlmsg.adt), ServeBatch(k),
         NEW x \in Names, sets[x] # Absent
  PROVE  sets'[x] # Absent
<1>1. sets \in SetsType /\ nlmsg.set \in Names
  BY DEF SessionInv, TypeOK, SetsType, MsgInv
<1>2. CASE k = 0
  BY <1>2 DEF ServeBatch
<1>3. CASE k # 0
  <2>1. sets[nlmsg.set] # Absent /\ sets' = [sets EXCEPT ![nlmsg.set] = After(k)]
    BY <1>3 DEF ServeBatch
  <2>2. sets' \in SetsType
    BY BatchTypes
  <2>3. After(k) # Absent
    <3>1. sets[nlmsg.set] \in SUBSET Elems
      BY <1>1, <2>1 DEF SetsType
    <3>2. nlmsg.adt \in Seq(DataType) /\ Len(nlmsg.adt) \in Nat
      BY RunTypes
    <3>3. \A i \in 1 .. k : nlmsg.adt[i].elem \in Elems
      BY <3>2 DEF SessionInv, MsgInv
    <3>4. After(k) \in SUBSET Elems
      BY <3>1, <3>3 DEF After
    <3> QED
      BY <3>4, SessionAssumption
  <2> HIDE DEF After
  <2> QED
    BY <1>1, <2>1, <2>3 DEF SetsType
<1> QED
  BY <1>2, <1>3

LEMMA CacheStep ==
  ASSUME SessionInv, CacheInv, [Next]_vars
  PROVE  CacheInv'
<1>0. TypeOK /\ cache \in Seq(Names) /\ DOMAIN cache = 1 .. Len(cache) /\ Len(cache) \in Nat
  BY DEF SessionInv, TypeOK
<1>1. \A i \in DOMAIN cache : cache[i] \in Names
  BY <1>0
<1>2. /\ envopts \subseteq envopts' /\ (disturbed => disturbed')
      /\ pc = "exit" => UNCHANGED vars
  <2>1. ASSUME NEW l \in Menu,
               ReadBlank(l) \/ ReadCommit(l) \/ ReadCommand(l) \/ ReadBad(l) \/ ReadQuit(l)
        PROVE  envopts \subseteq envopts' /\ disturbed' = disturbed /\ pc # "exit"
    BY <2>1 DEF ReadBlank, ReadCommit, ReadCommand, ReadBad, ReadQuit, CoreOptions, Fgets
  <2>2. CASE EndOfFile \/ CreateTypeGet \/ AdtTypeGet \/ Aggregate \/ BuildAdt \/ BuildOther
    BY <2>2 DEF EndOfFile, CreateTypeGet, AdtTypeGet, Aggregate, BuildAdt, BuildOther
  <2>3. CASE CommitNothing \/ \E k \in 0 .. BatchMax : CommitBatch(k) \/ CommitLost(k)
    BY <2>3 DEF CommitNothing, CommitBatch, CommitLost, Committing, Resume
  <2>4. CASE SendDone \/ SendTestNo \/ SendRefused \/ SendLost
    BY <2>4 DEF SendDone, SendTestNo, SendRefused, SendLost
  <2>5. CASE OtherProgram \/ UNCHANGED vars
    BY <2>5 DEF OtherProgram, vars
  <2> QED
    BY <2>1, <2>2, <2>3, <2>4, <2>5 DEF Next
<1>3. ASSUME SendDone PROVE CacheTrue'
  <2>1. pc = "send" /\ Serve /\ cache' = CacheAfter
    BY <1>3 DEF SendDone
  <2>2. SUFFICES ASSUME ~disturbed', "exist" \notin envopts'
                 PROVE  /\ \A i \in DOMAIN cache' : sets'[cache'[i]] # Absent
                        /\ \A i, j \in DOMAIN cache' : cache'[i] = cache'[j] => i = j
    BY DEF CacheTrue, Exists
  <2>3. ~disturbed /\ "exist" \notin envopts
    BY <1>2, <2>2
  <2>4. PICK c : c = cache'
    OBVIOUS
  <2>5. c = CacheAfter
    BY <2>1, <2>4
  <2>6. /\ \A i \in DOMAIN c : sets'[c[i]] # Absent
        /\ \A i, j \in DOMAIN c : c[i] = c[j] => i = j
    BY <2>1, <2>3, <2>5, CacheFollows
  <2> QED
    BY <2>4, <2>6
<1>4. ASSUME NEW k \in 0 .. BatchMax, k <= Len(nlmsg.adt), CommitBatch(k)
      PROVE  CacheTrue'
  <2>1. /\ pc \in {"commit", "flush", "full", "eof"} /\ nlmsg # NoMsg /\ ServeBatch(k)
        /\ UNCHANGED <<cache, envopts, disturbed>>
    BY <1>4 DEF CommitBatch, Committing, Resume
  <2>2. k \in 0 .. Len(nlmsg.adt)
    BY <1>4, RunTypes
  <2>3. \A x \in Names : sets[x] # Absent => sets'[x] # Absent
    BY <2>1, <2>2, BatchKeepsSets
  <2> QED
    BY <1>1, <2>1, <2>3 DEF CacheInv, CacheTrue, Exists
<1>5. ASSUME \/ \E l \in Menu :
                  ReadBlank(l) \/ ReadCommit(l) \/ ReadCommand(l) \/ ReadBad(l) \/ ReadQuit(l)
             \/ EndOfFile \/ CreateTypeGet \/ AdtTypeGet \/ CommitNothing \/ Aggregate
             \/ BuildAdt \/ BuildOther \/ UNCHANGED vars
      PROVE  CacheTrue'
  <2>1. UNCHANGED <<cache, sets, disturbed>>
    BY <1>5 DEF ReadBlank, ReadCommit, ReadCommand, ReadBad, ReadQuit, EndOfFile, CreateTypeGet,
                AdtTypeGet, CommitNothing, Aggregate, BuildAdt, BuildOther, vars
  <2>2. pc' # "exit" => pc # "exit"
    BY <1>2 DEF vars
  <2> QED
    BY <1>2, <2>1, <2>2 DEF CacheInv, CacheTrue, Exists
<1>6. ASSUME SendTestNo \/ SendRefused \/ SendLost \/ \E k \in 0 .. BatchMax : CommitLost(k)
      PROVE  CacheTrue'
  <2>1. pc' = "exit"
    BY <1>6 DEF SendTestNo, SendRefused, SendLost, CommitLost, Exit
  <2> QED
    BY <2>1 DEF CacheTrue
<1>7. ASSUME OtherProgram PROVE CacheTrue'
  BY <1>7 DEF OtherProgram, CacheTrue
<1>8. CacheTrue'
  BY <1>3, <1>4, <1>5, <1>6, <1>7 DEF Next
<1>9. ExclInv'
  <2>1. CASE BuildOther
    <3>1. nlmsg'.excl = ("exist" \notin envopts) /\ envopts' = envopts
      BY <2>1 DEF BuildOther, NewMsg
    <3> QED
      BY <3>1 DEF ExclInv
  <2>2. CASE OtherProgram \/ UNCHANGED vars
    BY <2>2 DEF OtherProgram, vars, CacheInv, ExclInv
  <2>3. ASSUME ~BuildOther, ~OtherProgram, ~UNCHANGED vars PROVE pc' # "send"
    <3>1. ASSUME NEW l \in Menu,
                 ReadBlank(l) \/ ReadCommit(l) \/ ReadCommand(l) \/ ReadBad(l) \/ ReadQuit(l)
          PROVE  pc' # "send"
      BY <3>1 DEF ReadBlank, ReadCommit, ReadCommand, ReadBad, ReadQuit, Fgets, Exit
    <3>2. CASE EndOfFile \/ CreateTypeGet \/ AdtTypeGet \/ Aggregate \/ BuildAdt
      BY <3>2 DEF EndOfFile, CreateTypeGet, AdtTypeGet, Aggregate, BuildAdt, Exit
    <3>3. CASE CommitNothing \/ \E k \in 0 .. BatchMax : CommitBatch(k) \/ CommitLost(k)
      BY <3>3 DEF CommitNothing, CommitBatch, CommitLost, Committing, Resume, Exit
    <3>4. CASE SendDone \/ SendTestNo \/ SendRefused \/ SendLost
      BY <3>4 DEF SendDone, SendTestNo, SendRefused, SendLost, Exit
    <3> QED
      BY <2>3, <3>1, <3>2, <3>3, <3>4 DEF Next
  <2> QED
    BY <2>1, <2>2, <2>3 DEF ExclInv
<1> QED
  BY <1>8, <1>9 DEF CacheInv

\* As long as nobody else changes the sets and -exist is not given, the cache
\* of libdset holds only sets that exist, each of them once.
THEOREM CacheStaysTrue == Spec => []CacheTrue
<1>1. Init => CacheInv
  <2>1. DOMAIN <<>> = {}
    OBVIOUS
  <2>2. Init => cache = <<>> /\ pc = "read"
    BY DEF Init
  <2> QED
    BY <2>1, <2>2 DEF CacheInv, CacheTrue, ExclInv
<1>2. SessionInv /\ CacheInv /\ [Next]_vars => CacheInv'
  BY CacheStep
<1>3. CacheInv => CacheTrue
  BY DEF CacheInv
<1> QED
  BY <1>1, <1>2, <1>3, SessionAlways, PTL DEF Spec

=============================================================================

---------------------------- MODULE DsetSession -----------------------------
(***************************************************************************)
(* The restore mode of the dset program: dset_parse_stream reads a file    *)
(* line by line, dset_parse_argv parses each line, and the session of      *)
(* libdset turns the commands into netlink requests.  Consecutive add      *)
(* lines, or consecutive del lines, for the same set are collected in one  *)
(* message, which is sent when a line does not fit it, when it is full, at *)
(* a COMMIT line and at the end of the file.                               *)
(*                                                                         *)
(* The kernel serves one request at a time (the nfnl mutex), and another   *)
(* program may have its requests served between two of the session's.  Any *)
(* request may be refused for want of memory or because a rule refers to   *)
(* the set, so a refusal is always possible; success has its conditions.   *)
(* The socket may fail too: a request or the answer to it is lost.  The    *)
(* protocol versions agree, and all sets are made with the same options.   *)
(***************************************************************************)
EXTENDS Naturals, Sequences, SequencesExt

CONSTANTS
  Names,     \* set names
  Elems,     \* elements
  NoName, NoElem, Absent,
  Menu,      \* the lines a restore file can have
  MaxLines,  \* bound on the number of lines of the file
  BatchMax   \* number of elements that fit into session->buffer

Adt == {"add", "del"}

Commands == Adt \cup {"create", "destroy", "flush", "rename", "swap", "test"}

LineType ==
  [cmd : Commands \cup {"blank", "COMMIT", "bad", "quit"},
   set : Names \cup {NoName}, to : Names \cup {NoName},
   elem : Elems \cup {NoElem}, opts : SUBSET {"exist", "quiet"}]

\* The arguments that a line with a command has: those that dset_parse_argv
\* demands of it, and no others.
Complete(l) ==
  /\ l.cmd \in Commands \ {"destroy", "flush"} => l.set \in Names
  /\ l.to \in Names <=> l.cmd \in {"rename", "swap"}
  /\ l.elem \in Elems <=> l.cmd \in Adt \cup {"test"}

ASSUME SessionAssumption ==
  /\ Menu \subseteq LineType
  /\ \A l \in Menu : Complete(l)
  /\ MaxLines \in Nat /\ BatchMax \in Nat \ {0}
  /\ NoName \notin Names /\ NoElem \notin Elems
  /\ \A s \in SUBSET Elems : Absent # s

VARIABLES
  file,          \* the lines read so far; dset->restore_line is its length
  pc,            \* where the program is with the last of them
  envopts,       \* session->envopts
  cmd,           \* session->cmd
  saved_setname, \* session->saved_setname
  nlmsg,         \* session->buffer
  cache,         \* setlist in types.c
  checked,       \* kernel_check of the set type is DSET_KERNEL_OK
  exit,          \* exit status, line of the error message, who objected
  sets,          \* the kernel's sets
  executed,      \* history: what the kernel executed for the session
  disturbed      \* history: another program changed the kernel's sets

vars == <<file, pc, envopts, cmd, saved_setname, nlmsg, cache, checked, exit,
          sets, executed, disturbed>>

-----------------------------------------------------------------------------
(* The state of the session.                                               *)

\* An empty buffer has nlmsg_len 0.
NoMsg == [cmd |-> "none", excl |-> TRUE, set |-> NoName, to |-> NoName,
          adt |-> <<>>]

\* One DATA attribute of a message: an element with its line number.
DataType == [elem : Elems \cup {NoElem}, lineno : 1 .. MaxLines]

\* What the kernel does for one line.
OpType == [cmd : Commands, set : Names \cup {NoName}, to : Names \cup {NoName},
           elem : Elems \cup {NoElem}, lineno : 1 .. MaxLines]

\* A message.
MsgType == [cmd : Commands \cup {"none"}, excl : BOOLEAN, set : Names \cup {NoName},
            to : Names \cup {NoName}, adt : Seq(DataType)]

\* Every variable has its type.
TypeOK ==
  /\ file \in Seq(Menu) /\ Len(file) <= MaxLines
  /\ pc \in {"read", "type", "flush", "build", "full", "send", "commit", "eof",
             "done", "exit"}
  /\ envopts \subseteq {"exist", "quiet"}
  /\ cmd \in Commands \cup {"none"}
  /\ saved_setname \in Names \cup {NoName}
  /\ nlmsg \in MsgType /\ Len(nlmsg.adt) <= BatchMax
  /\ cache \in Seq(Names)
  /\ checked \in BOOLEAN
  /\ exit \in [code : {0, 1}, line : 0 .. MaxLines,
              by : {"none", "parser", "kernel", "socket"}]
  /\ sets \in [Names -> {Absent} \cup SUBSET Elems]
  /\ executed \in Seq(OpType)
  /\ disturbed \in BOOLEAN

Init ==
  /\ file = <<>>
  /\ pc = "read"
  /\ envopts = {}
  /\ cmd = "none"
  /\ saved_setname = NoName
  /\ nlmsg = NoMsg
  /\ cache = <<>>
  /\ checked = FALSE
  /\ exit = [code |-> 0, line |-> 0, by |-> "none"]
  /\ sets \in [Names -> {Absent, {}}]
  /\ executed = <<>>
  /\ disturbed = FALSE

\* dset->restore_line and the line it counts.
restore_line == Len(file)

Line == file[restore_line]

\* default_custom_error and default_standard_error: the program ends and the
\* buffer is dropped.
Exit(code, line, by) ==
  /\ pc' = "exit"
  /\ exit' = [code |-> code, line |-> line, by |-> by]

-----------------------------------------------------------------------------
(* dset_parse_stream and dset_parse_argv                                   *)

\* fgets returns a line.
Fgets(l) ==
  /\ pc = "read" /\ Len(file) < MaxLines
  /\ file' = Append(file, l)

\* Empty lines and comments are counted and skipped.
ReadBlank(l) ==
  /\ Fgets(l) /\ l.cmd = "blank"
  /\ UNCHANGED <<pc, envopts, cmd, saved_setname, nlmsg, cache, checked, exit,
                 sets, executed, disturbed>>

ReadCommit(l) ==
  /\ Fgets(l) /\ l.cmd = "COMMIT"
  /\ pc' = "commit"
  /\ UNCHANGED <<envopts, cmd, saved_setname, nlmsg, cache, checked, exit, sets,
                 executed, disturbed>>

\* The core options of a line stay in force for all lines after it.
CoreOptions(l) == envopts \cup l.opts

\* A line with a command.  The type of the set is looked up for the commands
\* that have options of their own.
ReadCommand(l) ==
  /\ Fgets(l) /\ l.cmd \in Commands
  /\ envopts' = CoreOptions(l)
  /\ pc' = IF l.cmd \in Adt \cup {"create", "test"} THEN "type" ELSE "flush"
  /\ UNCHANGED <<cmd, saved_setname, nlmsg, cache, checked, exit, sets, executed,
                 disturbed>>

\* A line that cannot be parsed, lacks a mandatory option or has one that is
\* not allowed: the line number is part of the message when
\* dset_err reports it and is not when custom_error does.
ReadBad(l) ==
  /\ Fgets(l) /\ l.cmd = "bad"
  /\ \E line \in {0, Len(file')} : Exit(1, line, "parser")
  /\ UNCHANGED <<envopts, cmd, saved_setname, nlmsg, cache, checked, sets, executed,
                 disturbed>>

\* The pseudo-command quit.
ReadQuit(l) ==
  /\ Fgets(l) /\ l.cmd = "quit"
  /\ Exit(0, 0, "parser")
  /\ UNCHANGED <<envopts, cmd, saved_setname, nlmsg, cache, checked, sets, executed,
                 disturbed>>

\* The implicit COMMIT at the end of the file.
EndOfFile ==
  /\ pc = "read"
  /\ pc' = "eof"
  /\ UNCHANGED <<file, envopts, cmd, saved_setname, nlmsg, cache, checked, exit,
                 sets, executed, disturbed>>

-----------------------------------------------------------------------------
(* dset_type_get                                                           *)

\* create_type_get: the kernel is asked for the type once.  The error of a
\* kernel without the type names the current line.
CreateTypeGet ==
  /\ pc = "type" /\ Line.cmd = "create"
  /\ \/ /\ pc' = "flush"
        /\ checked' = TRUE
        /\ UNCHANGED exit
     \/ /\ ~checked
        /\ Exit(1, restore_line, "parser")
        /\ UNCHANGED checked
  /\ UNCHANGED <<file, envopts, cmd, saved_setname, nlmsg, cache, sets, executed,
                 disturbed>>

\* The HEADER request finds the set; it has a buffer of its own.
Header(n) == sets[n] # Absent

\* adt_type_get: the type comes from the cache, or from a HEADER request,
\* which may also fail by itself.
AdtTypeGet ==
  /\ pc = "type" /\ Line.cmd # "create"
  /\ \/ /\ Contains(cache, Line.set)
        /\ pc' = "flush"
        /\ UNCHANGED <<checked, exit>>
     \/ /\ ~Contains(cache, Line.set) /\ Header(Line.set)
        /\ pc' = "flush"
        /\ checked' = TRUE
        /\ UNCHANGED exit
     \/ /\ ~Contains(cache, Line.set)
        /\ Exit(1, restore_line, "parser")
        /\ UNCHANGED checked
  /\ UNCHANGED <<file, envopts, cmd, saved_setname, nlmsg, cache, sets, executed,
                 disturbed>>

-----------------------------------------------------------------------------
(* dset_commit of a message with elements                                  *)

\* Mutant of MayAggregate: the name of the set is not compared.
MayAggregateAnySet == Line.cmd \in Adt /\ Line.cmd = cmd /\ nlmsg # NoMsg

\* may_aggregate_ad; the line number is never 0 in restore mode.
MayAggregate ==
  /\ Line.cmd \in Adt
  /\ Line.cmd = cmd
  /\ Line.set = saved_setname

\* Where the program goes on after dset_commit has succeeded.
Resume == [commit |-> "read", flush |-> "build", full |-> "build", eof |-> "done"]

\* dset_commit is called.
Committing == pc \in DOMAIN Resume /\ (pc = "flush" => ~MayAggregate)

\* The set of the message after the first k elements.
After(k) ==
  LET some == {nlmsg.adt[i].elem : i \in 1 .. k} IN
  IF nlmsg.cmd = "add" THEN sets[nlmsg.set] \cup some ELSE sets[nlmsg.set] \ some

\* call_ad: the kernel takes the i-th element.  Adding what is there, or
\* deleting what is not, is an error when NLM_F_EXCL is set.
Accepts(i) ==
  nlmsg.excl => (nlmsg.adt[i].elem \in After(i - 1)) = (nlmsg.cmd = "del")

\* What the first k elements of the message are for the kernel.
Served(k) ==
  [i \in 1 .. k |-> [cmd |-> nlmsg.cmd, set |-> nlmsg.set, to |-> nlmsg.to,
                     elem |-> nlmsg.adt[i].elem, lineno |-> nlmsg.adt[i].lineno]]

\* Mutant of ErrorLine: the line number in the header of the message is sent
\* back as it came.
ErrorLineOfHeader(k) == nlmsg.adt[1].lineno

\* call_ad puts the line of the failing element into the copy of the message
\* that it sends back; an error before the first element leaves the line of
\* the first one there, which is the same.
ErrorLine(k) == nlmsg.adt[k + 1].lineno

\* The end of dset_commit: the buffer is empty again.
ResetBuffer ==
  /\ nlmsg' = NoMsg
  /\ saved_setname' = NoName

\* Nothing to do.
CommitNothing ==
  /\ Committing /\ nlmsg = NoMsg
  /\ pc' = Resume[pc]
  /\ UNCHANGED <<file, envopts, cmd, saved_setname, nlmsg, cache, checked, exit,
                 sets, executed, disturbed>>

\* domain_set_ad serves the elements in order and stops at the first error:
\* k elements are served.
ServeBatch(k) ==
  /\ sets[nlmsg.set] = Absent => k = 0
  /\ \A i \in 1 .. k : Accepts(i)
  /\ sets' = IF k = 0 THEN sets ELSE [sets EXCEPT ![nlmsg.set] = After(k)]
  /\ executed' = executed \o Served(k)

CommitBatch(k) ==
  /\ Committing /\ nlmsg # NoMsg
  /\ ServeBatch(k)
  /\ ResetBuffer
  /\ \/ /\ k = Len(nlmsg.adt)
        /\ pc' = Resume[pc]
        /\ UNCHANGED exit
     \/ /\ k < Len(nlmsg.adt)
        /\ Exit(1, ErrorLine(k), "kernel")
  /\ UNCHANGED <<file, envopts, cmd, cache, checked, disturbed>>

\* session->lineno: the last line that dset_parse_argv has seen.
session_lineno ==
  IF pc \in {"commit", "eof"} THEN nlmsg.adt[Len(nlmsg.adt)].lineno ELSE restore_line

\* dset_mnl_query fails, before the kernel has the request or before the
\* answer is here: "Internal protocol error".
CommitLost(k) ==
  /\ Committing /\ nlmsg # NoMsg
  /\ ServeBatch(k)
  /\ ResetBuffer
  /\ Exit(1, session_lineno, "socket")
  /\ UNCHANGED <<file, envopts, cmd, cache, checked, disturbed>>

\* dset_cmd: the line joins the buffered ones.
Aggregate ==
  /\ pc = "flush" /\ MayAggregate
  /\ pc' = "build"
  /\ UNCHANGED <<file, envopts, cmd, saved_setname, nlmsg, cache, checked, exit,
                 sets, executed, disturbed>>

-----------------------------------------------------------------------------
(* build_msg                                                               *)

\* The DATA attribute of the current line.
Data == [elem |-> Line.elem, lineno |-> restore_line]

\* A new message; the flags of its header come from the options in force now.
NewMsg == [cmd |-> Line.cmd, excl |-> "exist" \notin envopts, set |-> Line.set,
           to |-> Line.to, adt |-> <<Data>>]

\* Mutant of BuildAdt: the room in the buffer is not tested.
BuildAdtUnbounded ==
  /\ pc = "build" /\ Line.cmd \in Adt
  /\ cmd' = Line.cmd
  /\ nlmsg' = IF nlmsg = NoMsg THEN NewMsg ELSE [nlmsg EXCEPT !.adt = Append(@, Data)]
  /\ saved_setname' = Line.set
  /\ pc' = "read"
  /\ UNCHANGED <<file, envopts, cache, checked, exit, sets, executed, disturbed>>

\* An add or a del: its element is buffered, after the buffered ones were sent
\* if there is no room for it.
BuildAdt ==
  /\ pc = "build" /\ Line.cmd \in Adt
  /\ cmd' = Line.cmd
  /\ \/ /\ Len(nlmsg.adt) < BatchMax
        /\ nlmsg' = IF nlmsg = NoMsg THEN NewMsg ELSE [nlmsg EXCEPT !.adt = Append(@, Data)]
        /\ saved_setname' = Line.set
        /\ pc' = "read"
     \/ /\ Len(nlmsg.adt) = BatchMax
        /\ pc' = "full"
        /\ UNCHANGED <<nlmsg, saved_setname>>
  /\ UNCHANGED <<file, envopts, cache, checked, exit, sets, executed, disturbed>>

\* Any other command is sent at once.
BuildOther ==
  /\ pc = "build" /\ Line.cmd \notin Adt
  /\ cmd' = Line.cmd
  /\ nlmsg' = NewMsg
  /\ pc' = "send"
  /\ UNCHANGED <<file, envopts, saved_setname, cache, checked, exit, sets, executed,
                 disturbed>>

-----------------------------------------------------------------------------
(* The commands that are sent at once: what the kernel does, and           *)
(* callback_error, which follows it in the cache.                          *)

Exists(n) == sets[n] # Absent

\* dset_cache_add appends the name unless it finds it before the last entry.
CacheAdd(n) ==
  IF \E i \in 1 .. Len(cache) - 1 : cache[i] = n THEN cache ELSE Append(cache, n)

\* The first entry with the name.
FirstAt(n) ==
  CHOOSE i \in DOMAIN cache : cache[i] = n /\ \A j \in 1 .. i - 1 : cache[j] # n

\* Mutant of CacheDel: dset_cache_del finds nothing.
CacheDelNothing(n) == IF n = NoName THEN <<>> ELSE cache

\* dset_cache_del removes all entries, or the first one with the name.
CacheDel(n) ==
  IF n = NoName THEN <<>>
  ELSE IF Contains(cache, n) THEN RemoveAt(cache, FirstAt(n)) ELSE cache

\* dset_cache_rename changes the first entry with the name.
CacheRename(n, m) ==
  IF Contains(cache, n) THEN [cache EXCEPT ![FirstAt(n)] = m] ELSE cache

\* dset_cache_swap changes the first entries with the names, if both exist.
CacheSwap(n, m) ==
  IF Contains(cache, n) /\ Contains(cache, m)
    THEN [cache EXCEPT ![FirstAt(n)] = m, ![FirstAt(m)] = n]
    ELSE cache

\* The kernel executes the command of the message.
Serve ==
  LET n == nlmsg.set
      m == nlmsg.to
  IN \/ /\ nlmsg.cmd = "create"
        /\ nlmsg.excl => ~Exists(n)
        /\ sets' = IF Exists(n) THEN sets ELSE [sets EXCEPT ![n] = {}]
     \/ /\ nlmsg.cmd = "destroy"
        /\ n # NoName => Exists(n)
        /\ sets' = [x \in Names |-> IF n \in {x, NoName} THEN Absent ELSE sets[x]]
     \/ /\ nlmsg.cmd = "flush"
        /\ n # NoName => Exists(n)
        /\ sets' = [x \in Names |-> IF n \in {x, NoName} /\ Exists(x) THEN {} ELSE sets[x]]
     \/ /\ nlmsg.cmd = "rename"
        /\ Exists(n) /\ ~Exists(m)
        /\ sets' = [sets EXCEPT ![n] = Absent, ![m] = sets[n]]
     \/ /\ nlmsg.cmd = "swap"
        /\ Exists(n) /\ Exists(m)
        /\ sets' = [sets EXCEPT ![n] = sets[m], ![m] = sets[n]]
     \/ /\ nlmsg.cmd = "test"
        /\ Exists(n) /\ nlmsg.adt[1].elem \in sets[n]
        /\ UNCHANGED sets

\* callback_error at an ACK: the cache follows the kernel.
CacheAfter ==
  CASE nlmsg.cmd = "create" -> CacheAdd(nlmsg.set)
    [] nlmsg.cmd = "destroy" -> CacheDel(nlmsg.set)
    [] nlmsg.cmd = "rename" -> CacheRename(nlmsg.set, nlmsg.to)
    [] nlmsg.cmd = "swap" -> CacheSwap(nlmsg.set, nlmsg.to)
    [] OTHER -> cache

\* The ACK.  "is in set" is a warning, and dset_parse_argv hands every report
\* to standard_error, which ends the program unless it is interactive.
SendDone ==
  /\ pc = "send"
  /\ Serve
  /\ cache' = CacheAfter
  /\ executed' = executed \o Served(1)
  /\ ResetBuffer
  /\ \/ /\ nlmsg.cmd # "test" \/ "quiet" \in envopts
        /\ pc' = "read"
        /\ UNCHANGED exit
     \/ /\ nlmsg.cmd = "test" /\ "quiet" \notin envopts
        /\ Exit(0, 0, "kernel")
  /\ UNCHANGED <<file, envopts, cmd, checked, disturbed>>

\* The element is not in the set: a notice, or an error without a text of its
\* own when nothing is to be printed.
SendTestNo ==
  /\ pc = "send" /\ nlmsg.cmd = "test"
  /\ Exists(nlmsg.set) /\ nlmsg.adt[1].elem \notin sets[nlmsg.set]
  /\ executed' = executed \o Served(1)
  /\ ResetBuffer
  /\ Exit(1, IF "quiet" \in envopts THEN restore_line ELSE 0, "parser")
  /\ UNCHANGED <<file, envopts, cmd, cache, checked, sets, disturbed>>

\* The kernel refuses the command.
SendRefused ==
  /\ pc = "send"
  /\ ResetBuffer
  /\ Exit(1, restore_line, "kernel")
  /\ UNCHANGED <<file, envopts, cmd, cache, checked, sets, executed, disturbed>>

\* dset_mnl_query fails: the kernel may have executed the command.
SendLost ==
  /\ pc = "send"
  /\ \/ Serve /\ executed' = executed \o Served(1)
     \/ UNCHANGED <<sets, executed>>
  /\ ResetBuffer
  /\ Exit(1, restore_line, "socket")
  /\ UNCHANGED <<file, envopts, cmd, cache, checked, disturbed>>

-----------------------------------------------------------------------------
\* Another program destroys a set or empties it, once.
OtherProgram ==
  /\ ~disturbed /\ pc \notin {"done", "exit"}
  /\ \E n \in Names, s \in {Absent, {}} :
       /\ Exists(n)
       /\ sets' = [sets EXCEPT ![n] = s]
  /\ disturbed' = TRUE
  /\ UNCHANGED <<file, pc, envopts, cmd, saved_setname, nlmsg, cache, checked, exit,
                 executed>>

Next ==
  \/ \E l \in Menu :
       ReadBlank(l) \/ ReadCommit(l) \/ ReadCommand(l) \/ ReadBad(l) \/ ReadQuit(l)
  \/ EndOfFile
  \/ CreateTypeGet \/ AdtTypeGet
  \/ CommitNothing
  \/ \E k \in 0 .. BatchMax : k <= Len(nlmsg.adt) /\ (CommitBatch(k) \/ CommitLost(k))
  \/ Aggregate \/ BuildAdt \/ BuildOther
  \/ SendDone \/ SendTestNo \/ SendRefused \/ SendLost
  \/ OtherProgram

Spec == Init /\ [][Next]_vars

-----------------------------------------------------------------------------
(* Properties.                                                             *)

\* The lines read so far that have a command, and what line n asks for.
Asked == {n \in 1 .. Len(file) : file[n].cmd \in Commands}

Op(n) == [cmd |-> file[n].cmd, set |-> file[n].set, to |-> file[n].to,
          elem |-> file[n].elem, lineno |-> n]

\* The lines that a sequence of operations stems from.
LineNos(ops) == {ops[i].lineno : i \in DOMAIN ops}

\* ops is what the lines in N ask for, each line once, in the order of the
\* file.
InOrder(ops, N) ==
  /\ LineNos(ops) = N
  /\ \A i \in DOMAIN ops : ops[i] = Op(ops[i].lineno)
  /\ \A i, j \in DOMAIN ops : i < j => ops[i].lineno < ops[j].lineno

\* The number of commands that are neither executed nor in the buffer: the
\* current line until build_msg has taken it.
Unbuilt == IF pc \in {"type", "flush", "build", "full"} THEN 1 ELSE 0

\* The kernel executes exactly what the file says, in the order of the file,
\* although lines wait in the buffer while others are parsed: what was executed
\* and what is buffered are the commands of the file, none of them lost,
\* repeated, moved or applied to another set; and at the end all of them were
\* executed.
LinesInOrder ==
  /\ \E k \in 0 .. Len(file) : InOrder(executed, {n \in Asked : n <= k})
  /\ pc # "exit" =>
       InOrder(executed \o Served(Len(nlmsg.adt)), {n \in Asked : n <= restore_line - Unbuilt})
  /\ pc = "done" => InOrder(executed, Asked)

\* When the kernel refuses an element or a command, the line number that the
\* error message gives is that of the first command that was not executed, and
\* the exit status is not 0 ("for reporting error line back too").
RefusedLineReported ==
  LET missing == Asked \ LineNos(executed)
  IN exit.by = "kernel" /\ missing # {} =>
       exit.code # 0 /\ exit.line \in missing /\ \A n \in missing : exit.line <= n

\* As long as the program runs, nobody else changes the kernel's sets and
\* -exist is not given, the cache holds only sets that exist, each of them once.
CacheTrue ==
  pc # "exit" /\ ~disturbed /\ "exist" \notin envopts =>
    /\ \A i \in DOMAIN cache : Exists(cache[i])
    /\ \A i, j \in DOMAIN cache : cache[i] = cache[j] => i = j

\* However the program ends, at most one batch of lines before the current one
\* is lost without a word: the buffered lines that were not executed are all
\* adds or all dels of one set, and fit into one message.  (A line that cannot
\* be parsed ends the program without dset_commit, and its number is the one
\* that is reported.)
LostLinesAreOneBatch ==
  LET lost == {n \in Asked \ LineNos(executed) : n < restore_line}
  IN pc = "exit" =>
       /\ Cardinality(lost) <= BatchMax
       /\ \A m, n \in lost :
            file[n].cmd \in Adt /\ file[n].cmd = file[m].cmd /\ file[n].set = file[m].set
=============================================================================

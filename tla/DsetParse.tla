----------------------------- MODULE DsetParse ------------------------------
(***************************************************************************)
(* What one line leaves to the next.  dset_parse_argv parses a line into   *)
(* the data blob of the session, a record with a bit for every option that *)
(* is set, and dset_cmd builds the request from whatever is set there.     *)
(* The blob, the core options and the file name of -file live as long as   *)
(* the session: all lines of an interactive session or of a restore file   *)
(* share them.                                                             *)
(*                                                                         *)
(* There are two ways to refuse a line.  dset_err (syntax_err, errors of   *)
(* the kernel) fills the report and empties the blob; custom_error only    *)
(* prints.  Outside of the interactive mode both end the program.          *)
(*                                                                         *)
(* The words of a line are abstracted to what is there and what is wrong   *)
(* with it, the value of an option to the number of the line that gave it. *)
(* The aggregation of restore lines and the kernel are in DsetSession;     *)
(* here the kernel may accept or refuse any request.  help and version     *)
(* only print, and the output mode does not matter here.                   *)
(***************************************************************************)
EXTENDS Naturals, Sequences

CONSTANTS
  Menu,      \* the lines that can be entered
  MaxLines   \* bound on their number

Named == {"create", "add", "del", "test", "rename", "swap"}

Optional == {"destroy", "flush", "list", "save"}

\* What can be wrong with a line: an unknown output mode, a command without
\* its mandatory arguments, a bad name of a set or a type, a bad element, a
\* value out of range, and a word that is not an option of the command or
\* an option without its value.
Flaws == {"none", "output", "missing", "name", "elem", "value", "unknown"}

LineType ==
  [cmd  : Named \cup Optional \cup {"none", "-", "quit"},
   set  : BOOLEAN,                                \* a set name is given
   opts : SUBSET {"timeout", "hashsize", "ignored"},
   core : SUBSET {"quiet", "file"},
   flaw : Flaws]

\* The options of the type hash:domain that a command has.
Allowed(cmd) == CASE cmd = "create" -> {"timeout", "hashsize", "ignored"}
                  [] cmd = "add" -> {"timeout"}
                  [] OTHER -> {}

ASSUME ParseAssumption ==
  /\ Menu \subseteq LineType
  /\ \A l \in Menu : l.opts \subseteq Allowed(l.cmd)
  /\ MaxLines \in Nat

\* The options of the data blob.  ignored stands for data->ignored.
Opts == {"setname", "setname2", "typename", "type", "domain", "timeout", "hashsize",
         "ignored"}

VARIABLES
  interactive,  \* dset->interactive, or the lines are a restore file
  lines,        \* the lines so far
  pc,           \* where dset_parse_argv is with the last of them
  data,         \* session->data: the line that set each option, 0 for none
  warned,       \* session->err_type is DSET_WARNING
  quiet,        \* DSET_ENV_QUIET
  filename,     \* dset->filename: the line whose -file it is, 0 the command line
  input,        \* the stream of dset_parse_stream: "tty", "stdin", "file", "closed"
  sent,         \* history: the last request
  fate          \* history: how each line ended

vars == <<interactive, lines, pc, data, warned, quiet, filename, input, sent, fate>>

NoFile == MaxLines + 1

\* The value of an option that another one was written over.
Garbled == MaxLines + 1

Unset == [o \in Opts |-> 0]

Fates == {"done", "outside", "syntax", "soft", "idle"}

\* Every variable has its type.
TypeOK ==
  /\ interactive \in BOOLEAN
  /\ lines \in Seq(Menu) /\ Len(lines) <= MaxLines
  /\ pc \in {"prompt", "args", "type", "options", "file", "run", "exit0", "exit1",
             "end", "undefined"}
  /\ data \in [Opts -> 0 .. Garbled]
  /\ warned \in BOOLEAN /\ quiet \in BOOLEAN
  /\ filename \in 0 .. Len(lines) \cup {NoFile}
  /\ input \in {"tty", "stdin", "file", "closed"}
  /\ sent \in [cmd : Named \cup Optional \cup {"none"}, line : 0 .. MaxLines,
               attrs : [Opts -> 0 .. Garbled]]
  /\ fate \in Seq(Fates) /\ Len(fate) <= Len(lines)

\* dset -, or dset restore, with or without -file.
Init ==
  /\ interactive \in BOOLEAN
  /\ lines = <<>>
  /\ pc = "prompt"
  /\ data = Unset
  /\ warned = FALSE /\ quiet = FALSE
  /\ filename \in {0, NoFile}
  /\ input = IF interactive THEN "tty" ELSE IF filename = 0 THEN "file" ELSE "stdin"
  /\ sent = [cmd |-> "none", line |-> 0, attrs |-> Unset]
  /\ fate = <<>>

lineno == Len(lines)

Line == lines[lineno]

-----------------------------------------------------------------------------
(* The ends of a line                                                      *)

\* In struct dset_data the second set name of rename and swap shares its
\* memory with the options of create.
Overlaid(o) == CASE o = "setname2" -> {"hashsize"}
                 [] o = "hashsize" -> {"setname2"}
                 [] OTHER -> {}

\* dset_data_set for the options O.
Set(O) ==
  data' = [o \in Opts |->
             IF o \in O THEN lineno
             ELSE IF data[o] # 0 /\ Overlaid(o) \cap O # {} THEN Garbled ELSE data[o]]

\* Mutant of Reset: the report is filled, and that is all.
ResetNothing == UNCHANGED data

\* dset_data_reset
Reset == data' = Unset

\* The line is finished, in the interactive mode or without an error.
LineEnds(how) ==
  /\ fate' = Append(fate, how)
  /\ warned' = FALSE

\* dset_err: dset_session_report with DSET_ERROR empties the blob;
\* standard_error hands the message to custom_error.
Refuse(how) ==
  /\ Reset
  /\ LineEnds(how)
  /\ pc' = IF interactive THEN "prompt" ELSE "exit1"

\* default_custom_error ("Ignore errors in interactive mode"): the report is
\* reset, the blob is not.
CustomError ==
  /\ LineEnds("soft")
  /\ pc' = IF interactive THEN "prompt" ELSE "exit1"
  /\ UNCHANGED data

-----------------------------------------------------------------------------
(* dset_parse_argv, first to third: core options and the command           *)

\* dset_parse_output: neither plain nor xml nor save.
BadOutput(l) == l.flaw = "output"

\* dset_parse_filename: the option "can be used once only".
TakesFile(l) == "file" \in l.core /\ filename = NoFile

\* Mutant of CoreOptions: the file name is taken from the line to come.
CoreOptionsNext(l) ==
  /\ quiet' = (quiet \/ "quiet" \in l.core)
  /\ filename' = IF TakesFile(l) THEN lineno + 2 ELSE filename

\* -quiet is looked for before -file.
CoreOptions(l) ==
  /\ quiet' = (quiet \/ "quiet" \in l.core)
  /\ filename' = IF TakesFile(l) THEN lineno + 1 ELSE filename

\* The line has a command with its arguments.
Complete(l) == l.flaw # "missing" /\ ("file" \in l.core => TakesFile(l))

\* fgets, build_argv, and the first three parts of dset_parse_argv.  In a
\* restore file "-" starts the interactive mode.
Read(l) ==
  /\ pc = "prompt" /\ lineno < MaxLines /\ input # "closed"
  /\ lines' = Append(lines, l)
  /\ \/ /\ BadOutput(l)
        /\ Refuse("syntax")
        /\ UNCHANGED <<interactive, quiet, filename, input>>
     \/ /\ ~BadOutput(l)
        /\ CoreOptions(l)
        /\ ~Complete(l) \/ (l.cmd = "none" /\ ~interactive)
        /\ CustomError
        /\ UNCHANGED <<interactive, input>>
     \/ /\ ~BadOutput(l)
        /\ CoreOptions(l)
        /\ Complete(l)
        /\ \/ /\ l.cmd \in {"none", "-"} /\ interactive
              /\ pc' = "prompt" /\ LineEnds("idle")
              /\ UNCHANGED <<interactive, input>>
           \/ /\ l.cmd = "-" /\ ~interactive
              /\ interactive' = TRUE /\ input' = "tty"
              /\ pc' = "prompt" /\ LineEnds("idle")
           \/ /\ l.cmd = "quit"
              /\ pc' = "exit0" /\ LineEnds("done")
              /\ UNCHANGED <<interactive, input>>
           \/ /\ l.cmd \in Named \cup Optional
              /\ pc' = IF l.cmd \in {"list", "save"} THEN "file" ELSE "args"
              /\ UNCHANGED <<interactive, input, warned, fate>>
        /\ UNCHANGED data
  /\ UNCHANGED sent

\* The end of the input: custom_error without a problem, or the implicit
\* COMMIT.
EndOfInput ==
  /\ pc = "prompt" /\ input # "closed"
  /\ pc' = IF interactive THEN "exit0" ELSE "end"
  /\ UNCHANGED <<interactive, lines, data, warned, quiet, filename, input, sent, fate>>

\* fgets on a stream that was closed.
ReadClosed ==
  /\ pc = "prompt" /\ input = "closed"
  /\ pc' = "undefined"
  /\ UNCHANGED <<interactive, lines, data, warned, quiet, filename, input, sent, fate>>

-----------------------------------------------------------------------------
(* dset_parse_argv, fourth: the arguments of the command                   *)

\* list and save: dset_session_io_normal closes what is open, the input of a
\* restore included, and opens the file of -file for writing, or fails to.
\* The name is that of an earlier line if -file was given there, and
\* reset_argv has freed it by now: any file may be meant then.
OpenFile ==
  /\ pc = "file"
  /\ \/ /\ filename = NoFile
        /\ pc' = "args"
        /\ UNCHANGED <<data, warned, fate, input>>
     \/ /\ filename # NoFile
        /\ input' = IF input = "file" THEN "closed" ELSE input
        /\ \/ pc' = "args" /\ UNCHANGED <<data, warned, fate>>
           \/ Refuse("outside")
  /\ UNCHANGED <<interactive, lines, quiet, filename, sent>>

\* dset_parse_setname and dset_parse_typename: too long, or an unknown type.
BadName == Line.flaw = "name"

\* dset_parse_elem: an element separator, which hash:domain has none of.
BadElem == Line.flaw = "elem"

\* string_to_number_ll: not a number, or out of range.
BadValue == Line.flaw = "value"

\* The names of the sets and of the type.
Args ==
  /\ pc = "args"
  /\ \/ /\ BadName
        /\ Refuse("syntax")
     \/ /\ ~BadName
        /\ \/ /\ Line.cmd \in {"create", "add", "del", "test"}
              /\ Set(IF Line.cmd = "create" THEN {"setname", "typename"} ELSE {"setname"})
              /\ pc' = "type"
           \/ /\ Line.cmd \in {"rename", "swap"}
              /\ Set({"setname", "setname2"})
              /\ pc' = "run"
           \/ /\ Line.cmd \in Optional
              /\ Set(IF Line.set THEN {"setname"} ELSE {})
              /\ pc' = "run"
        /\ UNCHANGED <<warned, fate>>
  /\ UNCHANGED <<interactive, lines, quiet, filename, input, sent>>

\* dset_type_get.  create asks the kernel unless a type is set already, the
\* others ask the cache or the kernel, whose answer names the type, and go on
\* to the element.
TypeGet ==
  /\ pc = "type"
  /\ \/ /\ BadElem
        /\ Refuse("syntax")
     \/ /\ ~BadElem
        /\ Set({"type"} \cup (IF Line.cmd = "create" THEN {} ELSE {"domain"}))
        /\ pc' = "options"
        /\ UNCHANGED <<warned, fate>>
     \/ /\ ~BadElem /\ Line.cmd # "create"
        /\ Set({"type", "typename", "domain"})
        /\ pc' = "options"
        /\ UNCHANGED <<warned, fate>>
     \/ /\ Line.cmd = "create" => data["type"] = 0
        /\ Refuse("outside")
  /\ UNCHANGED <<interactive, lines, quiet, filename, input, sent>>

\* Mutant of ParsedFirst: create parses its options in one pass.
ParsedFirstAlways(l) == l.opts

\* The options that may have been parsed when call_parser comes to a word
\* that it does not know: it stands before or after them.  For create there
\* is a first pass that parses nothing.
ParsedFirst(l) == IF l.cmd = "create" THEN {} ELSE l.opts

\* dset_call_parser refuses an option whose bit is set.
Again == {o \in Line.opts \ {"ignored"} : data[o] # 0}

\* dset_parse_ignored warns once.
WarnsIgnored == "ignored" \in Line.opts /\ data["ignored"] = 0

\* call_parser, then check_mandatory and check_allowed, which in the
\* interactive mode print and go on.
CallParser ==
  /\ pc = "options"
  /\ \/ /\ Line.flaw = "unknown"
        /\ \E O \in SUBSET ParsedFirst(Line) :
             /\ O \cap Again = {}
             /\ LineEnds("soft")
             /\ pc' = IF interactive THEN "prompt" ELSE "exit1"
             /\ Set(O)
     \/ /\ \/ BadValue
           \/ Again # {} /\ (Line.flaw = "unknown" => ParsedFirst(Line) # {})
        /\ Refuse("syntax")
     \/ /\ Line.flaw = "none" /\ Again = {}
        /\ Set(Line.opts)
        /\ warned' = WarnsIgnored
        /\ pc' = "run"
        /\ UNCHANGED fate
  /\ UNCHANGED <<interactive, lines, quiet, filename, input, sent>>

-----------------------------------------------------------------------------
(* dset_cmd                                                                *)

\* The attributes that build_msg adds when they are set.
Carried(cmd) ==
  CASE cmd = "create" -> {"setname", "type", "domain", "timeout", "hashsize"}
    [] cmd \in {"add", "del", "test"} -> {"setname", "domain", "timeout"}
    [] cmd \in {"rename", "swap"} -> {"setname", "setname2"}
    [] OTHER -> {"setname"}

\* The values that dset_data_get finds for them.
Attrs(cmd) == [o \in Opts |-> IF o \in Carried(cmd) THEN data[o] ELSE 0]

\* Mutant of CleanUp: the blob is kept for a listing.
CleanUpUnlessListing == IF Line.cmd \in {"list", "save"} THEN UNCHANGED data ELSE Reset

\* cleanup: "The data field is cleared after this function call".
CleanUp == Reset

\* Mutant of Reported: every answer of the kernel leaves a report.
ReportedAlways == warned \/ ~quiet

\* A warning is left in the report: of an ignored option, or that an element
\* is in the set.
Reported == warned \/ (Line.cmd = "test" /\ ~quiet)

\* A word too many; the request is built and sent and the kernel accepts it,
\* or refuses it (test: the element is not there).  standard_error ends a
\* restore at any report, at a warning with status 0.
Run ==
  /\ pc = "run"
  /\ \/ /\ Line.flaw = "unknown"
        /\ CustomError
        /\ UNCHANGED sent
     \/ /\ Line.flaw = "none"
        /\ sent' = [cmd |-> Line.cmd, line |-> lineno, attrs |-> Attrs(Line.cmd)]
        /\ \/ /\ CleanUp
              /\ LineEnds("done")
              /\ pc' = IF Reported /\ ~interactive THEN "exit0" ELSE "prompt"
           \/ Refuse("outside")
  /\ UNCHANGED <<interactive, lines, quiet, filename, input>>

Next ==
  \/ \E l \in Menu : Read(l)
  \/ OpenFile \/ Args \/ TypeGet \/ CallParser \/ Run
  \/ EndOfInput \/ ReadClosed

Spec == Init /\ [][Next]_vars

-----------------------------------------------------------------------------
(* Properties                                                              *)

\* Line i was refused without emptying the blob, and so were the lines after
\* it up to j, or they did nothing.
SoftlyRefused(i, j) ==
  fate[i] = "soft" /\ \A k \in i .. j - 1 : fate[k] \in {"soft", "idle"}

\* A request carries only what its own line says: no option of another line
\* reaches it, in a restore file never, and in an interactive session only
\* from lines that custom_error refused directly before it.  (destroy
\* without a name then destroys the set of the refused line instead of all.)
OwnWords ==
  \A o \in Opts :
    \/ sent.attrs[o] \in {0, sent.line, Garbled}
    \/ SoftlyRefused(sent.attrs[o], sent.line)

\* No request carries an option whose place in the union of struct dset_data
\* another option has been written to, whatever lines were refused before:
\* of a bad create nothing is left that a rename or swap could overwrite,
\* because the first pass of call_parser refuses it.
NothingGarbledSent == \A o \in Opts : sent.attrs[o] # Garbled

\* A line without a flaw is called a syntax error only directly after lines
\* that custom_error refused ("already specified": by them), and never in a
\* restore file.
FaultlessLineParsed ==
  \A i \in DOMAIN fate :
    lines[i].flaw = "none" /\ fate[i] = "syntax"
      => \E j \in 1 .. i - 1 : SoftlyRefused(j, i)

\* A restore stops reading its file without an error only at quit, after a
\* warning (a test that found its element, a create with an ignored option:
\* the status is then 0), or when a list or save has closed the file; it
\* takes the file of the restore for its own -file.  ("All commands are
\* allowed in restore mode except list, help, version, interactive mode and
\* restore itself.")
RestoreCutShort ==
  /\ pc = "exit0" /\ ~interactive =>
       Line.cmd \in {"quit", "test"} \/ "ignored" \in Line.opts
  /\ pc = "undefined" => filename = 0 /\ Line.cmd \in {"list", "save"}
=============================================================================

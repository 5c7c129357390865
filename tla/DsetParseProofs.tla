-------------------------- MODULE DsetParseProofs ---------------------------
(***************************************************************************)
(* Theorems about DsetParse, for every set of lines that can be entered    *)
(* and for sessions and restore files of every length.                     *)
(***************************************************************************)
EXTENDS DsetParse, TLAPS

-----------------------------------------------------------------------------
(* The invariants.                                                         *)

\* dset_parse_argv is at work on the last line.
Midway == {"args", "type", "options", "file", "run"}

\* Which lines get how far.  A line gets its fate when it ends.
ShapeInv ==
  /\ Len(fate) = IF pc \in Midway THEN lineno - 1 ELSE lineno
  /\ pc \in Midway => lineno >= 1 /\ Line.cmd \in Named \cup Optional
  /\ pc = "file" => Line.cmd \in {"list", "save"}
  /\ pc \in {"type", "options"} => Line.cmd \in {"create", "add", "del", "test"}

\* Every option that is set in the blob was set by the line at hand or left
\* there by lines that custom_error refused directly before it.
BlobInv ==
  pc \in Midway \cup {"prompt"} =>
    \A o \in Opts :
      \/ data[o] \in {0, Garbled}
      \/ pc \in Midway /\ data[o] = lineno
      \/ data[o] \in 1 .. Len(fate) /\ SoftlyRefused(data[o], Len(fate) + 1)

\* hashsize is never left behind, and setname2 is written over only by a
\* create that is going to be sent.
UnionInv ==
  /\ \A o \in Opts \ {"setname2"} : data[o] # Garbled
  /\ data["hashsize"] # 0 \/ data["setname2"] = Garbled =>
       pc = "run" /\ Line.cmd = "create" /\ Line.flaw = "none"

\* No option of the line is set before call_parser comes to it.
TimeoutInv ==
  pc \in Midway \ {"run"} => data["timeout"] # lineno

\* What the last request carried.
SentInv ==
  /\ sent.line <= Len(fate)
  /\ \A o \in Opts :
       \/ sent.attrs[o] \in {0, sent.line, Garbled}
       \/ /\ sent.attrs[o] \in 1 .. sent.line - 1
          /\ SoftlyRefused(sent.attrs[o], sent.line)

\* A warning is that of an ignored option of the line at hand.
WarnInv == warned => pc = "run" /\ "ignored" \in Line.opts

\* Only the list or save at hand has closed the input.
InputInv ==
  /\ input \in {"file", "closed"} => filename = 0
  /\ input = "closed" => lineno >= 1 /\ Line.cmd \in {"list", "save"}
  /\ pc = "undefined" => input = "closed"

ParseInv ==
  /\ TypeOK /\ ShapeInv /\ BlobInv /\ UnionInv /\ TimeoutInv /\ SentInv
  /\ NothingGarbledSent /\ FaultlessLineParsed /\ WarnInv /\ InputInv /\ RestoreCutShort

-----------------------------------------------------------------------------
(* Lines, their ends and the blob.                                         *)

\* fgets appends a line to those read.
LEMMA Reading ==
  ASSUME TypeOK, NEW l \in Menu, Read(l)
  PROVE  /\ lines' \in Seq(Menu) /\ lineno \in Nat /\ lineno' = lineno + 1 /\ lineno' <= MaxLines
         /\ Line' = l /\ \A i \in 1 .. lineno : lines'[i] = lines[i]
         /\ pc = "prompt" /\ input # "closed"
<1>1. lines \in Seq(Menu) /\ lines' = Append(lines, l) /\ Len(lines) < MaxLines
  BY DEF TypeOK, Read, lineno
<1>2. Len(lines') = Len(lines) + 1 /\ lines'[Len(lines) + 1] = l
  BY <1>1
<1>3. Len(lines) + 1 <= MaxLines /\ Len(lines) \in Nat
  BY <1>1, ParseAssumption
<1> QED
  BY <1>1, <1>2, <1>3 DEF Read, lineno, Line

\* The line at hand.
LEMMA LineFacts ==
  ASSUME TypeOK, lineno >= 1
  PROVE  /\ lineno \in 1 .. MaxLines /\ lineno < Garbled
         /\ Line \in Menu /\ Line.opts \subseteq Allowed(Line.cmd) /\ Line.flaw \in Flaws
         /\ Line.opts \subseteq {"timeout", "hashsize", "ignored"}
<1>1. lineno \in Nat /\ lineno <= MaxLines /\ MaxLines \in Nat
  BY ParseAssumption DEF TypeOK, lineno
<1>2. Line \in Menu
  BY DEF TypeOK, Line, lineno
<1> QED
  BY <1>1, <1>2, ParseAssumption DEF LineType, Garbled

\* The end of a line appends its fate.
LEMMA Ending ==
  ASSUME TypeOK, NEW how \in Fates, LineEnds(how)
  PROVE  /\ fate' \in Seq(Fates) /\ Len(fate) \in Nat /\ Len(fate') = Len(fate) + 1
         /\ \A i \in 1 .. Len(fate) : fate'[i] = fate[i]
         /\ fate'[Len(fate) + 1] = how /\ warned' = FALSE
<1>1. fate \in Seq(Fates) /\ fate' = Append(fate, how) /\ warned' = FALSE
  BY DEF TypeOK, LineEnds
<1> QED
  BY <1>1

\* dset_data_set keeps the type of the blob.
LEMMA Setting ==
  ASSUME TypeOK, lineno >= 1, NEW O, Set(O)
  PROVE  /\ data' \in [Opts -> 0 .. Garbled]
         /\ \A o \in Opts :
              data'[o] = IF o \in O THEN lineno
                         ELSE IF data[o] # 0 /\ Overlaid(o) \cap O # {} THEN Garbled
                         ELSE data[o]
<1>1. lineno \in 1 .. MaxLines /\ MaxLines \in Nat
  BY LineFacts, ParseAssumption
<1>2. \A o \in Opts : data[o] \in 0 .. Garbled
  BY DEF TypeOK
<1>3. lineno \in 0 .. Garbled /\ Garbled \in 0 .. Garbled
  BY <1>1 DEF Garbled
<1>4. \A o \in Opts :
        data'[o] = IF o \in O THEN lineno
                   ELSE IF data[o] # 0 /\ Overlaid(o) \cap O # {} THEN Garbled ELSE data[o]
  BY DEF Set
<1>5. data' = [o \in Opts |-> data'[o]]
  BY DEF Set
<1> QED
  BY <1>2, <1>3, <1>4, <1>5

\* An empty blob.
LEMMA Resetting ==
  ASSUME TRUE
  PROVE  Unset \in [Opts -> 0 .. Garbled] /\ \A o \in Opts : Unset[o] = 0
<1>1. 0 \in 0 .. Garbled
  BY ParseAssumption DEF Garbled
<1> QED
  BY <1>1 DEF Unset

\* SoftlyRefused is about lines that have ended, and lasts; it goes on over
\* lines that are refused in the same way or do nothing.
LEMMA SoftLasts ==
  ASSUME TypeOK, NEW how \in Fates, LineEnds(how)
  PROVE  /\ \A i, j \in Nat : 1 <= i /\ i < j /\ j <= Len(fate) + 1 /\ SoftlyRefused(i, j)
              => SoftlyRefused(i, j)'
         /\ how \in {"soft", "idle"} =>
              \A i \in 1 .. Len(fate) : SoftlyRefused(i, Len(fate) + 1) =>
                \A n \in Nat : n = Len(fate) + 2 => SoftlyRefused(i, n)'
         /\ how = "soft" =>
              \A i, n \in Nat : i = Len(fate) + 1 /\ n = Len(fate) + 2 => SoftlyRefused(i, n)'
<1>1. /\ Len(fate) \in Nat /\ fate'[Len(fate) + 1] = how
      /\ \A i \in 1 .. Len(fate) : fate'[i] = fate[i]
  BY Ending
<1> DEFINE n == Len(fate)
<1>2. n \in Nat /\ fate'[n + 1] = how /\ \A i \in 1 .. n : fate'[i] = fate[i]
  BY <1>1
<1> HIDE DEF n
<1>3. ASSUME NEW i \in Nat, NEW j \in Nat, 1 <= i, i < j, j <= n + 1, SoftlyRefused(i, j)
      PROVE  SoftlyRefused(i, j)'
  <2>1. i \in 1 .. n /\ \A k \in i .. j - 1 : k \in 1 .. n
    BY <1>2, <1>3
  <2> QED
    BY <1>2, <1>3, <2>1 DEF SoftlyRefused
<1>4. ASSUME how \in {"soft", "idle"}, NEW i \in 1 .. n, SoftlyRefused(i, n + 1),
             NEW m \in Nat, m = n + 2
      PROVE  SoftlyRefused(i, m)'
  <2>1. \A k \in i .. m - 1 : k = n + 1 \/ (k \in 1 .. n /\ k \in i .. (n + 1) - 1)
    BY <1>2, <1>4
  <2> QED
    BY <1>2, <1>4, <2>1 DEF SoftlyRefused
<1>5. ASSUME how = "soft", NEW i \in Nat, NEW m \in Nat, i = n + 1, m = n + 2
      PROVE  SoftlyRefused(i, m)'
  <2>1. \A k \in i .. m - 1 : k = n + 1
    BY <1>2, <1>5
  <2> QED
    BY <1>2, <1>5, <2>1 DEF SoftlyRefused
<1> QED
  BY <1>3, <1>4, <1>5 DEF n

-----------------------------------------------------------------------------
(* How a step of dset_parse_argv or dset_cmd ends: the steps by what they  *)
(* do to the blob and to the line.                                         *)

Step == OpenFile \/ Args \/ TypeGet \/ CallParser \/ Run

\* The line is refused with dset_err.
Rejects ==
  \E how \in {"outside", "syntax"} :
    /\ Refuse(how)
    /\ how = "syntax" /\ Line.flaw = "none" => pc = "options" /\ Again # {}

\* The line is refused with custom_error.
Shrugs ==
  /\ Line.flaw = "unknown"
  /\ LineEnds("soft") /\ pc' \in {"prompt", "exit1"} /\ UNCHANGED sent
  /\ UNCHANGED data \/ \E O \in SUBSET {"timeout"} : Set(O)

\* The kernel has executed the command.
Finishes ==
  /\ pc = "run" /\ Reset /\ LineEnds("done")
  /\ pc' \in {"prompt", "exit0"} /\ (pc' = "exit0" => Line.cmd = "test" \/ warned)

\* The next part of the line.
ProceedsFile == pc = "file" /\ pc' = "args" /\ UNCHANGED <<data, warned, fate, sent>>

ProceedsArgs ==
  /\ pc \in {"args", "type"} /\ pc' \in {"type", "options", "run"}
  /\ \/ Line.cmd \in {"create", "add", "del", "test"} /\ pc' \in {"type", "options"}
     \/ Line.cmd \in {"rename", "swap"} \cup Optional /\ pc' = "run"
  /\ \E O \in SUBSET (Opts \ {"timeout", "hashsize", "ignored"}) :
       Set(O) /\ ("setname2" \in O => Line.cmd \in {"rename", "swap"})
  /\ UNCHANGED <<warned, fate, sent>>

ProceedsOptions ==
  /\ pc = "options" /\ pc' = "run" /\ Line.flaw = "none" /\ Again = {}
  /\ Set(Line.opts) /\ warned' = WarnsIgnored /\ UNCHANGED <<fate, sent>>

\* The request that a line sends.
Sends ==
  /\ pc = "run" /\ Line.flaw = "none"
  /\ sent' = [cmd |-> Line.cmd, line |-> lineno, attrs |-> Attrs(Line.cmd)]

LEMMA StepOutcome ==
  ASSUME TypeOK, ShapeInv, Step
  PROVE  /\ pc \in Midway /\ lineno >= 1 /\ UNCHANGED <<interactive, lines, quiet, filename>>
         /\ Rejects \/ Shrugs \/ Finishes \/ ProceedsFile \/ ProceedsArgs \/ ProceedsOptions
         /\ UNCHANGED sent \/ (Sends /\ (Rejects \/ Finishes))
         /\ UNCHANGED input \/
              (/\ pc = "file" /\ filename # NoFile /\ input = "file" /\ input' = "closed")
<1>1. pc \in Midway /\ UNCHANGED <<interactive, lines, quiet, filename>>
  BY DEF Step, OpenFile, Args, TypeGet, CallParser, Run, Midway
<1>2. lineno >= 1 /\ Line.cmd \in Named \cup Optional
  BY <1>1 DEF ShapeInv
<1>3. interactive \in BOOLEAN
  BY DEF TypeOK
<1>4. UNCHANGED input \/
        (/\ pc = "file" /\ filename # NoFile /\ input = "file" /\ input' = "closed")
  BY DEF Step, OpenFile, Args, TypeGet, CallParser, Run
<1>5. CASE OpenFile
  <2>1. CASE Refuse("outside")
    BY <1>1, <1>2, <1>4, <1>5, <2>1 DEF OpenFile, Rejects
  <2>2. CASE ~Refuse("outside")
    BY <1>1, <1>2, <1>4, <1>5, <2>2 DEF OpenFile, ProceedsFile
  <2> QED
    BY <2>1, <2>2
<1>6. CASE Args
  <2>1. CASE BadName /\ Refuse("syntax")
    BY <1>1, <1>2, <1>4, <1>6, <2>1 DEF Args, Rejects, BadName
  <2>2. CASE ~(BadName /\ Refuse("syntax"))
    <3>1. {"setname", "typename"} \subseteq Opts /\ {"setname", "setname2"} \subseteq Opts
      BY DEF Opts
    <3>2. pc = "args" /\ UNCHANGED <<warned, fate, sent>>
      BY <1>6, <2>2 DEF Args
    <3>3. CASE Line.cmd \in {"create", "add", "del", "test"}
      <4>1. PICK O \in {{"setname", "typename"}, {"setname"}} : Set(O) /\ pc' = "type"
        BY <1>6, <2>2, <3>3 DEF Args, Optional
      <4> QED
        BY <1>1, <1>2, <1>4, <3>1, <3>2, <3>3, <4>1 DEF ProceedsArgs
    <3>4. CASE Line.cmd \in {"rename", "swap"}
      BY <1>1, <1>2, <1>4, <1>6, <2>2, <3>1, <3>2, <3>4 DEF Args, ProceedsArgs, Optional
    <3>5. CASE Line.cmd \in Optional
      <4>1. PICK O \in {{"setname"}, {}} : Set(O) /\ pc' = "run"
        BY <1>6, <2>2, <3>5 DEF Args, Optional
      <4> QED
        BY <1>1, <1>2, <1>4, <3>1, <3>2, <3>5, <4>1 DEF ProceedsArgs
    <3> QED
      BY <1>2, <3>3, <3>4, <3>5 DEF Named
  <2> QED
    BY <2>1, <2>2
<1>7. CASE TypeGet
  <2>1. CASE BadElem /\ Refuse("syntax")
    BY <1>1, <1>2, <1>4, <1>7, <2>1 DEF TypeGet, Rejects, BadElem
  <2>2. CASE Refuse("outside")
    BY <1>1, <1>2, <1>4, <1>7, <2>2 DEF TypeGet, Rejects
  <2>3. CASE ~(BadElem /\ Refuse("syntax")) /\ ~Refuse("outside")
    <3>1. {"type", "typename", "domain"} \subseteq Opts
      BY DEF Opts
    <3>2. /\ pc = "type" /\ pc' = "options" /\ UNCHANGED <<warned, fate, sent>>
          /\ Line.cmd \in {"create", "add", "del", "test"}
      BY <1>7, <2>3 DEF TypeGet, ShapeInv
    <3>3. PICK O \in {{"type"} \cup (IF Line.cmd = "create" THEN {} ELSE {"domain"}),
                      {"type", "typename", "domain"}} : Set(O)
      BY <1>7, <2>3 DEF TypeGet
    <3> QED
      BY <1>1, <1>2, <1>4, <3>1, <3>2, <3>3 DEF ProceedsArgs
  <2> QED
    BY <2>1, <2>2, <2>3
<1>8. CASE CallParser
  <2>0. pc = "options" /\ UNCHANGED sent
    BY <1>8 DEF CallParser
  <2>1. CASE /\ Line.flaw = "unknown" 
             /\ \E O \in SUBSET ParsedFirst(Line) :
                  /\ LineEnds("soft") /\ Set(O)
                  /\ pc' = IF interactive THEN "prompt" ELSE "exit1"
    <3>1. ParsedFirst(Line) \subseteq {"timeout"}
      BY <1>2, <2>0, LineFacts DEF ParsedFirst, Allowed, ShapeInv
    <3> QED
      BY <1>1, <1>2, <1>3, <1>4, <2>0, <2>1, <3>1 DEF Shrugs
  <2>2. CASE /\ Refuse("syntax")
             /\ \/ BadValue
                \/ Again # {} /\ (Line.flaw = "unknown" => ParsedFirst(Line) # {})
    BY <1>1, <1>2, <1>4, <2>0, <2>2 DEF Rejects, BadValue
  <2>3. CASE /\ Line.flaw = "none" /\ Again = {}
             /\ Set(Line.opts)
             /\ warned' = WarnsIgnored
             /\ pc' = "run"
             /\ UNCHANGED fate
    BY <1>1, <1>2, <1>4, <2>0, <2>3 DEF ProceedsOptions
  <2> QED
    BY <1>8, <2>1, <2>2, <2>3 DEF CallParser
<1>9. CASE Run
  <2>0. pc = "run"
    BY <1>9 DEF Run
  <2>1. CASE Line.flaw = "unknown"
    BY <1>1, <1>2, <1>3, <1>4, <1>9, <2>1 DEF Run, Shrugs, CustomError
  <2>2. CASE Line.flaw # "unknown"
    <3>1. Sends
      BY <1>9, <2>2 DEF Run, Sends
    <3>2. CASE Refuse("outside")
      BY <1>1, <1>2, <1>4, <3>1, <3>2 DEF Rejects
    <3>3. CASE ~Refuse("outside")
      <4>1. /\ CleanUp /\ LineEnds("done")
            /\ pc' = IF Reported /\ ~interactive THEN "exit0" ELSE "prompt"
        BY <1>9, <2>2, <3>3 DEF Run
      <4>2. pc' \in {"prompt", "exit0"} /\ (pc' = "exit0" => Line.cmd = "test" \/ warned)
        BY <4>1 DEF Reported
      <4> QED
        BY <1>1, <1>2, <1>4, <2>0, <3>1, <4>1, <4>2 DEF Finishes, CleanUp
    <3> QED
      BY <3>2, <3>3
  <2> QED
    BY <2>1, <2>2
<1> QED
  BY <1>5, <1>6, <1>7, <1>8, <1>9 DEF Step

\* What becomes of a line when it is read: it is refused or done at once, or
\* dset_parse_argv goes on with it.
ReadRejects(l) == l.flaw = "output" /\ Refuse("syntax")

ReadEnds(l) ==
  /\ UNCHANGED data
  /\ \/ \E how \in {"soft", "idle"} : LineEnds(how) /\ pc' \in {"prompt", "exit1"}
     \/ l.cmd = "quit" /\ LineEnds("done") /\ pc' = "exit0"

ReadProceeds(l) ==
  /\ l.cmd \in Named \cup Optional /\ pc' \in {"file", "args"}
  /\ pc' = "file" => l.cmd \in {"list", "save"}
  /\ UNCHANGED <<data, warned, fate>>

LEMMA ReadOutcome ==
  ASSUME TypeOK, NEW l \in Menu, Read(l)
  PROVE  /\ UNCHANGED sent /\ input' \in {input, "tty"}
         /\ interactive' \in BOOLEAN /\ quiet' \in BOOLEAN
         /\ filename' = filename \/ (filename = NoFile /\ filename' = lineno + 1)
         /\ ReadRejects(l) \/ ReadEnds(l) \/ ReadProceeds(l)
<1>1. interactive \in BOOLEAN /\ quiet \in BOOLEAN
  BY DEF TypeOK
<1>2. CASE BadOutput(l)
  <2>1. Refuse("syntax") /\ UNCHANGED <<interactive, quiet, filename, input, sent>>
    BY <1>2 DEF Read
  <2> QED
    BY <1>1, <1>2, <2>1 DEF ReadRejects, BadOutput
<1>3. CASE ~BadOutput(l)
  <2>1. CoreOptions(l) /\ UNCHANGED sent
    BY <1>3 DEF Read
  <2>2. /\ quiet' \in BOOLEAN
        /\ filename' = filename \/ (filename = NoFile /\ filename' = lineno + 1)
    BY <1>1, <2>1 DEF CoreOptions, TakesFile
  <2>3. CASE CustomError /\ UNCHANGED <<interactive, input>>
    BY <1>1, <2>1, <2>2, <2>3 DEF CustomError, ReadEnds
  <2>4. CASE ~(CustomError /\ UNCHANGED <<interactive, input>>)
    <3>1. /\ UNCHANGED data
          /\ \/ /\ l.cmd \in {"none", "-"} /\ interactive
                /\ pc' = "prompt" /\ LineEnds("idle")
                /\ UNCHANGED <<interactive, input>>
             \/ /\ l.cmd = "-" /\ ~interactive
                /\ interactive' = TRUE /\ input' = "tty"
                /\ pc' = "prompt" /\ LineEnds("idle")
             \/ /\ l.cmd = "quit"
                /\ pc' = "exit0" /\ LineEnds("done")
                /\ UNCHANGED <<interactive, input>>
             \/ /\ l.cmd \in Named \cup Optional
                /\ pc' = IF l.cmd \in {"list", "save"} THEN "file" ELSE "args"
                /\ UNCHANGED <<interactive, input, warned, fate>>
      BY <1>3, <2>4 DEF Read
    <3>2. input' \in {input, "tty"} /\ interactive' \in BOOLEAN
      BY <1>1, <3>1
    <3>3. ReadEnds(l) \/ ReadProceeds(l)
      BY <3>1 DEF ReadEnds, ReadProceeds
    <3> QED
      BY <2>1, <2>2, <3>2, <3>3
  <2> QED
    BY <2>3, <2>4
<1> QED
  BY <1>2, <1>3

\* Every step.
LEMMA NextCases ==
  ASSUME Next
  PROVE  \/ \E l \in Menu : Read(l)
         \/ Step
         \/ /\ UNCHANGED <<interactive, lines, data, warned, quiet, filename, input, sent, fate>>
            /\ pc = "prompt"
            /\ \/ pc' = "exit0" /\ interactive = TRUE
               \/ pc' = "end"
               \/ pc' = "undefined" /\ input = "closed"
<1>1. ASSUME EndOfInput \/ ReadClosed
      PROVE  /\ UNCHANGED <<interactive, lines, data, warned, quiet, filename, input, sent, fate>>
             /\ pc = "prompt"
             /\ \/ pc' = "exit0" /\ interactive = TRUE
                \/ pc' = "end"
                \/ pc' = "undefined" /\ input = "closed"
  BY <1>1 DEF EndOfInput, ReadClosed
<1> QED
  BY <1>1 DEF Next, Step

-----------------------------------------------------------------------------
(* Types and shapes.                                                       *)

LEMMA ShapeStep ==
  ASSUME TypeOK, ShapeInv, Next
  PROVE  ShapeInv'
<1>0. /\ lineno \in Nat /\ Len(fate) \in Nat
      /\ Fates = {"done", "outside", "syntax", "soft", "idle"}
  BY DEF TypeOK, lineno, Fates
<1>1. ASSUME NEW l \in Menu, Read(l) PROVE ShapeInv'
  <2>1. lineno' = lineno + 1 /\ Line' = l /\ pc = "prompt"
    BY <1>1, Reading
  <2>2. Len(fate) = lineno
    BY <2>1 DEF ShapeInv, Midway
  <2>3. CASE ReadRejects(l) \/ ReadEnds(l)
    <3>1. PICK how \in Fates : LineEnds(how)
      BY <1>0, <2>3 DEF ReadRejects, ReadEnds, Refuse
    <3>2. Len(fate') = Len(fate) + 1
      BY <3>1, Ending
    <3>3. pc' \in {"prompt", "exit0", "exit1"}
      BY <2>3 DEF ReadRejects, ReadEnds, Refuse
    <3> QED
      BY <1>0, <2>1, <2>2, <3>2, <3>3 DEF ShapeInv, Midway
  <2>4. CASE ReadProceeds(l)
    BY <1>0, <2>1, <2>2, <2>4 DEF ReadProceeds, ShapeInv, Midway
  <2> QED
    BY <1>1, <2>3, <2>4, ReadOutcome
<1>2. ASSUME Step PROVE ShapeInv'
  <2>1. pc \in Midway /\ lineno >= 1 /\ UNCHANGED lines
    BY <1>2, StepOutcome
  <2>2. Len(fate) = lineno - 1 /\ lineno' = lineno /\ Line' = Line
        /\ Line.cmd \in Named \cup Optional
    BY <2>1 DEF ShapeInv, lineno, Line
  <2>3. CASE Rejects \/ Shrugs \/ Finishes
    <3>1. PICK how \in Fates : LineEnds(how)
      BY <1>0, <2>3 DEF Rejects, Shrugs, Finishes, Refuse
    <3>2. Len(fate') = Len(fate) + 1
      BY <3>1, Ending
    <3>3. pc' \in {"prompt", "exit0", "exit1"}
      BY <2>3 DEF Rejects, Shrugs, Finishes, Refuse
    <3> QED
      BY <1>0, <2>1, <2>2, <3>2, <3>3 DEF ShapeInv, Midway
  <2>4. CASE ProceedsFile \/ ProceedsArgs \/ ProceedsOptions
    <3>1. /\ UNCHANGED fate /\ pc' \in {"args", "type", "options", "run"}
          /\ pc' \in {"type", "options"} => Line.cmd \in {"create", "add", "del", "test"}
      BY <2>4 DEF ProceedsFile, ProceedsArgs, ProceedsOptions, Optional
    <3> QED
      BY <1>0, <2>1, <2>2, <3>1 DEF ShapeInv, Midway
  <2> QED
    BY <1>2, <2>3, <2>4, StepOutcome
<1>3. ASSUME UNCHANGED <<lines, fate>>, pc = "prompt", pc' \in {"exit0", "end", "undefined"}
      PROVE  ShapeInv'
  BY <1>3 DEF ShapeInv, Midway, lineno
<1> QED
  BY <1>1, <1>2, <1>3, NextCases

LEMMA TypeStep ==
  ASSUME TypeOK, ShapeInv, Next
  PROVE  TypeOK'
<1>0. /\ lineno \in Nat /\ Len(fate) \in Nat
      /\ Fates = {"done", "outside", "syntax", "soft", "idle"}
  BY DEF TypeOK, lineno, Fates
<1>1. lineno' \in Nat => Len(fate') <= lineno'
  BY ShapeStep DEF ShapeInv, lineno, Midway
<1>2. ASSUME NEW how \in Fates, LineEnds(how)
      PROVE  fate' \in Seq(Fates) /\ warned' \in BOOLEAN
  BY <1>2, Ending
<1>3. interactive \in BOOLEAN /\ warned \in BOOLEAN /\ fate \in Seq(Fates)
      /\ data \in [Opts -> 0 .. Garbled]
  BY DEF TypeOK
<1>4. ASSUME NEW l \in Menu, Read(l) PROVE TypeOK'
  <2>1. lines' \in Seq(Menu) /\ lineno' = lineno + 1 /\ lineno' <= MaxLines
    BY <1>4, Reading
  <2>2. /\ UNCHANGED sent /\ input' \in {input, "tty"}
        /\ interactive' \in BOOLEAN /\ quiet' \in BOOLEAN
        /\ filename' = filename \/ filename' = lineno + 1
    BY <1>4, ReadOutcome
  <2>3. filename' \in 0 .. Len(lines') \cup {NoFile}
    <3>1. filename \in 0 .. lineno \cup {NoFile} /\ Len(lines') = lineno + 1
      BY <2>1 DEF TypeOK, lineno
    <3>2. \A n \in Nat : n + 1 \in 0 .. n + 1 /\ \A f \in 0 .. n : f \in 0 .. n + 1
      OBVIOUS
    <3> QED
      BY <1>0, <2>2, <3>1, <3>2
  <2>4. /\ pc' \in {"prompt", "exit0", "exit1", "file", "args"} /\ warned' \in BOOLEAN
        /\ fate' \in Seq(Fates) /\ data' \in [Opts -> 0 .. Garbled]
    <3>1. CASE ReadRejects(l)
      BY <1>0, <1>2, <3>1, Resetting DEF ReadRejects, Refuse, Reset
    <3>2. CASE ReadEnds(l)
      BY <1>0, <1>2, <1>3, <3>2 DEF ReadEnds
    <3>3. CASE ReadProceeds(l)
      BY <1>0, <1>3, <3>3 DEF ReadProceeds
    <3> QED
      BY <1>4, <3>1, <3>2, <3>3, ReadOutcome
  <2>5. Len(fate') <= Len(lines') /\ Len(lines') <= MaxLines
    BY <1>0, <1>1, <2>1 DEF lineno
  <2>6. sent' \in [cmd : Named \cup Optional \cup {"none"}, line : 0 .. MaxLines,
                   attrs : [Opts -> 0 .. Garbled]]
        /\ input' \in {"tty", "stdin", "file", "closed"}
    BY <2>2 DEF TypeOK
  <2> QED
    BY <2>1, <2>2, <2>3, <2>4, <2>5, <2>6 DEF TypeOK
<1>5. ASSUME Step PROVE TypeOK'
  <2>1. /\ pc \in Midway /\ lineno >= 1 /\ UNCHANGED <<interactive, lines, quiet, filename>>
        /\ UNCHANGED sent \/ Sends
        /\ UNCHANGED input \/ input' = "closed"
    BY <1>5, StepOutcome
  <2>2. /\ pc' \in {"prompt", "exit0", "exit1", "args", "type", "options", "run"}
        /\ warned' \in BOOLEAN
        /\ fate' \in Seq(Fates) /\ data' \in [Opts -> 0 .. Garbled]
    <3>1. CASE Rejects
      BY <1>0, <1>2, <3>1, Resetting DEF Rejects, Refuse, Reset
    <3>2. CASE Shrugs
      BY <1>0, <1>2, <1>3, <2>1, <3>2, Setting DEF Shrugs
    <3>3. CASE Finishes
      BY <1>0, <1>2, <3>3, Resetting DEF Finishes, Reset
    <3>4. CASE ProceedsFile
      BY <1>0, <1>3, <3>4 DEF ProceedsFile
    <3>5. CASE ProceedsArgs
      BY <1>0, <1>3, <2>1, <3>5, Setting DEF ProceedsArgs
    <3>6. CASE ProceedsOptions
      BY <1>0, <1>3, <2>1, <3>6, Setting DEF ProceedsOptions, WarnsIgnored
    <3> QED
      BY <1>5, <3>1, <3>2, <3>3, <3>4, <3>5, <3>6, StepOutcome
  <2>3. sent' \in [cmd : Named \cup Optional \cup {"none"}, line : 0 .. MaxLines,
                   attrs : [Opts -> 0 .. Garbled]]
    <3>1. CASE UNCHANGED sent
      BY <3>1 DEF TypeOK
    <3>2. CASE Sends
      <4>1. lineno \in 0 .. MaxLines /\ Line.cmd \in Named \cup Optional
        BY <1>0, <2>1, LineFacts DEF ShapeInv
      <4>2. Attrs(Line.cmd) \in [Opts -> 0 .. Garbled]
        <5>1. 0 \in 0 .. Garbled
          BY ParseAssumption DEF Garbled
        <5> QED
          BY <1>3, <5>1 DEF Attrs
      <4> QED
        BY <3>2, <4>1, <4>2 DEF Sends
    <3> QED
      BY <2>1, <3>1, <3>2
  <2>4. Len(fate') <= Len(lines')
    BY <1>0, <1>1, <2>1 DEF lineno
  <2> QED
    BY <2>1, <2>2, <2>3, <2>4 DEF TypeOK
<1>6. ASSUME UNCHANGED <<interactive, lines, data, warned, quiet, filename, input, sent, fate>>,
             pc' \in {"exit0", "end", "undefined"}
      PROVE  TypeOK'
  BY <1>6 DEF TypeOK
<1> QED
  BY <1>4, <1>5, <1>6, NextCases

-----------------------------------------------------------------------------
(* What is left in the blob.                                               *)

LEMMA BlobStep ==
  ASSUME TypeOK, ShapeInv, BlobInv, Next
  PROVE  BlobInv'
<1>0. /\ lineno \in Nat /\ Len(fate) \in Nat
      /\ {"soft", "idle"} \subseteq Fates /\ \A o \in Opts : data[o] \in Nat
  BY ParseAssumption DEF TypeOK, lineno, Fates, Garbled
<1>1. ASSUME data' = Unset PROVE BlobInv'
  BY <1>1, Resetting DEF BlobInv
<1>2. ASSUME NEW how \in {"soft", "idle"}, LineEnds(how), pc \in Midway \cup {"prompt"},
             \A o \in Opts :
               \/ data'[o] \in {data[o], Garbled}
               \/ data'[o] = lineno /\ pc \in Midway,
             pc \in Midway => how = "soft",
             pc' \notin Midway
      PROVE  BlobInv'
  <2>1. Len(fate') = Len(fate) + 1
    BY <1>0, <1>2, Ending
  <2>2. pc \in Midway => lineno = Len(fate) + 1
    BY <1>0 DEF ShapeInv
  <2>3. ASSUME NEW o \in Opts, data'[o] \notin {0, Garbled}
        PROVE  /\ data'[o] \in 1 .. Len(fate')
               /\ fate'[data'[o]] = "soft"
               /\ \A k \in data'[o] .. Len(fate') : fate'[k] \in {"soft", "idle"}
    <3>1. CASE data'[o] = lineno /\ pc \in Midway
      <4>1. data'[o] = Len(fate) + 1 /\ how = "soft"
        BY <1>2, <2>2, <3>1
      <4>2. fate'[Len(fate) + 1] = "soft"
        BY <1>0, <1>2, <4>1, Ending
      <4>3. \A n \in Nat : n + 1 \in 1 .. n + 1 /\ \A k \in n + 1 .. n + 1 : k = n + 1
        OBVIOUS
      <4> QED
        BY <1>0, <2>1, <4>1, <4>2, <4>3
    <3>2. CASE data'[o] = data[o] /\ ~(data'[o] = lineno /\ pc \in Midway)
      <4>1. data[o] \in 1 .. Len(fate) /\ SoftlyRefused(data[o], Len(fate) + 1)
        BY <1>2, <2>3, <3>2 DEF BlobInv
      <4>2. /\ fate'[Len(fate) + 1] \in {"soft", "idle"}
            /\ \A i \in 1 .. Len(fate) : fate'[i] = fate[i]
        BY <1>0, <1>2, Ending
      <4>3. \A n \in Nat : \A i \in 1 .. n :
              /\ i \in 1 .. n + 1
              /\ \A k \in i .. n + 1 : k = n + 1 \/ (k \in 1 .. n /\ k \in i .. (n + 1) - 1)
        OBVIOUS
      <4> QED
        BY <1>0, <2>1, <3>2, <4>1, <4>2, <4>3 DEF SoftlyRefused
    <3> QED
      BY <1>2, <2>3, <3>1, <3>2
  <2>4. (Len(fate') + 1) - 1 = Len(fate')
    BY <1>0, <2>1
  <2> QED
    BY <1>2, <2>3, <2>4 DEF BlobInv, SoftlyRefused
<1>3. ASSUME UNCHANGED fate, pc \in Midway \cup {"prompt"}, pc' \in Midway,
             pc \in Midway => UNCHANGED lines,
             \A o \in Opts :
               \/ data'[o] \in {data[o], Garbled}
               \/ data'[o] = lineno /\ pc \in Midway
      PROVE  BlobInv'
  <2>1. pc \in Midway => lineno' = lineno
    BY <1>3 DEF lineno
  <2> QED
    BY <1>3, <2>1 DEF BlobInv, SoftlyRefused, Midway
<1>4. ASSUME NEW l \in Menu, Read(l) PROVE BlobInv'
  <2>1. pc = "prompt" /\ pc \notin Midway
    BY <1>4, Reading DEF Midway
  <2>2. CASE ReadRejects(l)
    BY <1>1, <2>2 DEF ReadRejects, Refuse, Reset
  <2>3. CASE ReadEnds(l)
    <3>1. CASE pc' = "exit0"
      BY <3>1 DEF BlobInv, Midway
    <3>2. CASE pc' # "exit0"
      <4>1. PICK how \in {"soft", "idle"} : LineEnds(how) /\ pc' \in {"prompt", "exit1"}
        BY <2>3, <3>2 DEF ReadEnds
      <4>2. UNCHANGED data /\ pc' \notin Midway
        BY <2>3, <4>1 DEF ReadEnds, Midway
      <4> QED
        BY <1>2, <2>1, <4>1, <4>2
    <3> QED
      BY <3>1, <3>2
  <2>4. CASE ReadProceeds(l)
    BY <1>3, <2>1, <2>4 DEF ReadProceeds, Midway
  <2> QED
    BY <1>4, <2>2, <2>3, <2>4, ReadOutcome
<1>5. ASSUME Step PROVE BlobInv'
  <2>1. pc \in Midway /\ lineno >= 1 /\ UNCHANGED lines
    BY <1>5, StepOutcome
  <2>2. ASSUME UNCHANGED data \/ \E O : Set(O)
        PROVE  \A o \in Opts : data'[o] \in {data[o], Garbled, lineno}
    BY <2>1, <2>2, Setting
  <2>3. CASE Rejects \/ Finishes
    BY <1>1, <2>3 DEF Rejects, Finishes, Refuse, Reset
  <2>4. CASE Shrugs
    <3>1. LineEnds("soft") /\ pc' \notin Midway /\ (UNCHANGED data \/ \E O : Set(O))
      BY <2>4 DEF Shrugs, Midway
    <3> QED
      BY <1>2, <2>1, <2>2, <3>1
  <2>5. CASE ProceedsFile \/ ProceedsArgs \/ ProceedsOptions
    <3>1. pc' \in Midway /\ UNCHANGED fate /\ (UNCHANGED data \/ \E O : Set(O))
      BY <2>5 DEF ProceedsFile, ProceedsArgs, ProceedsOptions, Midway
    <3> QED
      BY <1>3, <2>1, <2>2, <3>1
  <2> QED
    BY <1>5, <2>3, <2>4, <2>5, StepOutcome
<1>6. ASSUME pc' \in {"exit0", "end", "undefined"} PROVE BlobInv'
  BY <1>6 DEF BlobInv, Midway
<1> QED
  BY <1>4, <1>5, <1>6, NextCases

\* Only a create that is going to be sent uses the memory of setname2.
LEMMA UnionStep ==
  ASSUME TypeOK, ShapeInv, UnionInv, Next
  PROVE  UnionInv'
<1>0. Garbled # 0
  BY ParseAssumption DEF Garbled
<1>1. ASSUME data' = Unset PROVE UnionInv'
  BY <1>0, <1>1, Resetting DEF UnionInv, Opts
<1>2. ASSUME UNCHANGED data, pc # "run" PROVE UnionInv'
  BY <1>2 DEF UnionInv
<1>3. ASSUME NEW l \in Menu, Read(l) PROVE UnionInv'
  <2>1. pc = "prompt"
    BY <1>3, Reading
  <2>2. UNCHANGED data \/ data' = Unset
    BY <1>3, ReadOutcome DEF ReadRejects, ReadEnds, ReadProceeds, Refuse, Reset
  <2> QED
    BY <1>1, <1>2, <2>1, <2>2
<1>4. ASSUME Step PROVE UnionInv'
  <2>1. /\ pc \in Midway /\ lineno >= 1 /\ UNCHANGED lines
        /\ lineno < Garbled /\ lineno # Garbled /\ Line' = Line
        /\ Line.opts \subseteq Allowed(Line.cmd)
    BY <1>4, StepOutcome, LineFacts DEF Line, lineno
  <2>2. /\ Overlaid("setname2") = {"hashsize"} /\ Overlaid("hashsize") = {"setname2"}
        /\ \A o \in Opts \ {"setname2", "hashsize"} : Overlaid(o) = {}
    BY DEF Overlaid
  <2>3. "hashsize" \in Opts /\ "setname2" \in Opts
    BY DEF Opts
  <2>4. CASE Rejects \/ Finishes
    BY <1>1, <2>4 DEF Rejects, Finishes, Refuse, Reset
  <2>5. ASSUME NEW O, Set(O), data["hashsize"] = 0, data["setname2"] # Garbled,
               "hashsize" \notin O
        PROVE  UnionInv'
    <3>1. \A o \in Opts : data'[o] = IF o \in O THEN lineno ELSE data[o]
      BY <2>1, <2>2, <2>3, <2>5, Setting
    <3> QED
      BY <1>0, <2>1, <2>3, <2>5, <3>1 DEF UnionInv
  <2>6. pc # "run" => data["hashsize"] = 0 /\ data["setname2"] # Garbled
    BY DEF UnionInv
  <2>7. CASE Shrugs
    <3>1. data["hashsize"] = 0 /\ data["setname2"] # Garbled
      BY <2>7 DEF Shrugs, UnionInv
    <3>2. CASE UNCHANGED data
      BY <3>1, <3>2 DEF UnionInv
    <3>3. CASE \E O \in SUBSET {"timeout"} : Set(O)
      BY <2>5, <3>1, <3>3
    <3> QED
      BY <2>7, <3>2, <3>3 DEF Shrugs
  <2>8. CASE ProceedsFile
    BY <1>2, <2>8 DEF ProceedsFile
  <2>9. CASE ProceedsArgs
    BY <2>5, <2>6, <2>9 DEF ProceedsArgs
  <2>10. CASE ProceedsOptions
    <3>1. /\ pc = "options" /\ pc' = "run" /\ Line.flaw = "none" /\ Set(Line.opts)
          /\ data["hashsize"] = 0 /\ data["setname2"] # Garbled
      BY <2>6, <2>10 DEF ProceedsOptions
    <3>2. CASE "hashsize" \notin Line.opts
      BY <2>5, <3>1, <3>2
    <3>3. CASE "hashsize" \in Line.opts
      <4>1. Line.cmd = "create"
        BY <2>1, <3>3 DEF Allowed
      <4>2. data'["hashsize"] = lineno
        BY <2>1, <2>3, <3>1, <3>3, Setting
      <4>3. \A o \in Opts \ {"setname2", "hashsize"} : data'[o] \in {lineno, data[o]}
        BY <2>1, <2>2, <3>1, Setting
      <4> QED
        BY <2>1, <3>1, <4>1, <4>2, <4>3 DEF UnionInv
    <3> QED
      BY <3>2, <3>3
  <2> QED
    BY <1>4, <2>4, <2>7, <2>8, <2>9, <2>10, StepOutcome
<1>5. ASSUME UNCHANGED data, pc = "prompt" PROVE UnionInv'
  BY <1>2, <1>5
<1> QED
  BY <1>3, <1>4, <1>5, NextCases

LEMMA TimeoutStep ==
  ASSUME TypeOK, ShapeInv, BlobInv, TimeoutInv, Next
  PROVE  TimeoutInv'
<1>0. "timeout" \in Opts /\ Overlaid("timeout") = {}
  BY DEF Opts, Overlaid
<1>1. ASSUME NEW l \in Menu, Read(l) PROVE TimeoutInv'
  <2>1. /\ lineno' = lineno + 1 /\ lineno \in Nat /\ lineno' <= MaxLines /\ pc = "prompt"
    BY <1>1, Reading
  <2>2. Len(fate) = lineno
    BY <2>1 DEF ShapeInv, Midway
  <2>3. data["timeout"] \in {0, Garbled} \cup 1 .. lineno
    BY <1>0, <2>1, <2>2 DEF BlobInv, Midway
  <2>4. data["timeout"] # lineno'
    BY <2>1, <2>3, ParseAssumption DEF Garbled
  <2>5. CASE ReadRejects(l) \/ ReadEnds(l)
    BY <2>5 DEF ReadRejects, ReadEnds, Refuse, TimeoutInv, Midway
  <2>6. CASE ReadProceeds(l)
    BY <2>4, <2>6 DEF ReadProceeds, TimeoutInv
  <2> QED
    BY <1>1, <2>5, <2>6, ReadOutcome
<1>2. ASSUME Step PROVE TimeoutInv'
  <2>1. pc \in Midway /\ lineno >= 1 /\ lineno' = lineno
    BY <1>2, StepOutcome DEF lineno
  <2>2. CASE Rejects \/ Shrugs \/ Finishes \/ ProceedsOptions
    BY <2>2 DEF Rejects, Shrugs, Finishes, ProceedsOptions, Refuse, TimeoutInv, Midway
  <2>3. CASE ProceedsFile
    BY <2>1, <2>3 DEF ProceedsFile, TimeoutInv, Midway
  <2>4. CASE ProceedsArgs
    <3>1. data'["timeout"] = data["timeout"]
      BY <1>0, <2>1, <2>4, Setting DEF ProceedsArgs
    <3> QED
      BY <2>1, <2>4, <3>1 DEF ProceedsArgs, TimeoutInv, Midway
  <2> QED
    BY <1>2, <2>2, <2>3, <2>4, StepOutcome
<1>3. ASSUME pc' \in {"exit0", "end", "undefined"} PROVE TimeoutInv'
  BY <1>3 DEF TimeoutInv, Midway
<1> QED
  BY <1>1, <1>2, <1>3, NextCases

-----------------------------------------------------------------------------
(* What is sent, and what is refused.                                      *)

\* The fates of the lines before this step stay.
LEMMA FateGrows ==
  ASSUME TypeOK, ShapeInv, Next
  PROVE  /\ Len(fate) \in Nat /\ Len(fate') \in Nat /\ Len(fate') >= Len(fate)
         /\ \A i \in 1 .. Len(fate) : fate'[i] = fate[i]
<1>0. Len(fate) \in Nat /\ Fates = {"done", "outside", "syntax", "soft", "idle"}
  BY DEF TypeOK, Fates
<1>1. UNCHANGED fate \/ \E how \in Fates : LineEnds(how)
  <2>1. ASSUME NEW l \in Menu, Read(l) PROVE UNCHANGED fate \/ \E how \in Fates : LineEnds(how)
    BY <1>0, <2>1, ReadOutcome DEF ReadRejects, ReadEnds, ReadProceeds, Refuse
  <2>2. ASSUME Step PROVE UNCHANGED fate \/ \E how \in Fates : LineEnds(how)
    BY <1>0, <2>2, StepOutcome DEF Rejects, Shrugs, Finishes, ProceedsFile, ProceedsArgs,
         ProceedsOptions, Refuse
  <2> QED
    BY <2>1, <2>2, NextCases
<1>2. CASE UNCHANGED fate
  BY <1>0, <1>2
<1>3. CASE \E how \in Fates : LineEnds(how)
  <2>1. /\ Len(fate') = Len(fate) + 1 /\ \A i \in 1 .. Len(fate) : fate'[i] = fate[i]
    BY <1>3, Ending
  <2> QED
    BY <1>0, <2>1
<1> QED
  BY <1>1, <1>2, <1>3

LEMMA SentStep ==
  ASSUME TypeOK, ShapeInv, BlobInv, UnionInv, SentInv, NothingGarbledSent, Next
  PROVE  SentInv' /\ NothingGarbledSent'
<1>0. /\ Len(fate) \in Nat /\ Len(fate') \in Nat /\ Len(fate') >= Len(fate)
      /\ \A i \in 1 .. Len(fate) : fate'[i] = fate[i]
      /\ sent.line \in Nat
  BY FateGrows, ParseAssumption DEF TypeOK
<1>1. CASE UNCHANGED sent
  <2>1. sent.line <= Len(fate')
    BY <1>0 DEF SentInv
  <2>2. ASSUME NEW i \in 1 .. sent.line - 1, SoftlyRefused(i, sent.line)
        PROVE  /\ fate'[i] = "soft"
               /\ \A k \in i .. sent.line - 1 : fate'[k] \in {"soft", "idle"}
    <3>1. i \in 1 .. Len(fate) /\ \A k \in i .. sent.line - 1 : k \in 1 .. Len(fate)
      BY <1>0 DEF SentInv
    <3> QED
      BY <1>0, <2>2, <3>1 DEF SoftlyRefused
  <2>3. \A o \in Opts :
          \/ sent.attrs[o] \in {0, sent.line, Garbled}
          \/ /\ sent.attrs[o] \in 1 .. sent.line - 1
             /\ fate'[sent.attrs[o]] = "soft"
             /\ \A k \in sent.attrs[o] .. sent.line - 1 : fate'[k] \in {"soft", "idle"}
    BY <2>2 DEF SentInv
  <2> QED
    BY <1>1, <2>1, <2>3 DEF SentInv, NothingGarbledSent, SoftlyRefused
<1>2. CASE ~UNCHANGED sent
  <2>0. \A l \in Menu : ~Read(l)
    BY <1>2, ReadOutcome
  <2>1. Step
    BY <1>2, <2>0, NextCases
  <2>2. /\ pc \in Midway /\ lineno >= 1 /\ UNCHANGED lines /\ Sends
        /\ Rejects \/ Finishes
    BY <1>2, <2>1, StepOutcome
  <2>3. lineno = Len(fate) + 1 /\ lineno \in Nat
    BY <1>0, <2>2 DEF ShapeInv, TypeOK, lineno
  <2>4. Len(fate') = Len(fate) + 1
    <3>1. PICK how \in Fates : LineEnds(how)
      BY <2>2 DEF Rejects, Finishes, Refuse, Fates
    <3> QED
      BY <3>1, Ending
  <2>5. /\ sent'.line = lineno
        /\ \A o \in Opts : sent'.attrs[o] = IF o \in Carried(Line.cmd) THEN data[o] ELSE 0
    BY <2>2 DEF Sends, Attrs
  <2>6. ASSUME NEW o \in Opts, data[o] \notin {0, Garbled, lineno}
        PROVE  /\ data[o] \in 1 .. lineno - 1
               /\ fate'[data[o]] = "soft"
               /\ \A k \in data[o] .. lineno - 1 : fate'[k] \in {"soft", "idle"}
    <3>1. data[o] \in 1 .. Len(fate) /\ SoftlyRefused(data[o], Len(fate) + 1)
      BY <2>2, <2>6 DEF BlobInv
    <3>2. lineno - 1 = Len(fate) /\ (Len(fate) + 1) - 1 = Len(fate)
      BY <1>0, <2>3
    <3>3. \A k \in data[o] .. Len(fate) : k \in 1 .. Len(fate)
      BY <1>0, <3>1
    <3> QED
      BY <1>0, <3>1, <3>2, <3>3 DEF SoftlyRefused
  <2>7. SentInv'
    BY <1>0, <2>3, <2>4, <2>5, <2>6 DEF SentInv, SoftlyRefused
  <2>8. NothingGarbledSent'
    <3>1. Garbled # 0 /\ lineno # Garbled
      BY <2>2, LineFacts, ParseAssumption DEF Garbled
    <3>2. ASSUME NEW o \in Opts, o \in Carried(Line.cmd), data[o] = Garbled PROVE FALSE
      <4>1. o = "setname2" /\ Line.cmd = "create"
        BY <3>2 DEF UnionInv
      <4> QED
        BY <3>2, <4>1 DEF Carried
    <3> QED
      BY <2>5, <3>1, <3>2 DEF NothingGarbledSent
  <2> QED
    BY <2>7, <2>8
<1> QED
  BY <1>1, <1>2

\* Nothing but what is left in the blob makes a line without a flaw a
\* syntax error.
LEMMA FaultlessStep ==
  ASSUME TypeOK, ShapeInv, BlobInv, UnionInv, TimeoutInv, FaultlessLineParsed, Next
  PROVE  FaultlessLineParsed'
<1>0. /\ Len(fate) \in Nat /\ Len(fate') \in Nat /\ Len(fate') >= Len(fate)
      /\ \A i \in 1 .. Len(fate) : fate'[i] = fate[i]
      /\ lineno \in Nat /\ Len(fate) <= lineno
      /\ fate \in Seq(Fates) /\ fate' \in Seq(Fates)
      /\ {"syntax", "soft", "idle", "done", "outside"} \subseteq Fates
  BY FateGrows, TypeStep DEF TypeOK, lineno, Fates
<1>1. \A i \in 1 .. lineno : lines'[i] = lines[i]
  <2>1. ASSUME NEW l \in Menu, Read(l) PROVE \A i \in 1 .. lineno : lines'[i] = lines[i]
    BY <2>1, Reading
  <2>2. ASSUME Step PROVE UNCHANGED lines
    BY <2>2, StepOutcome
  <2> QED
    BY <2>1, <2>2, NextCases
<1>2. ASSUME NEW i \in Nat, NEW j \in 1 .. i - 1, i <= Len(fate) + 1, SoftlyRefused(j, i)
      PROVE  SoftlyRefused(j, i)'
  <2>1. j \in 1 .. Len(fate) /\ \A k \in j .. i - 1 : k \in 1 .. Len(fate)
    BY <1>0, <1>2
  <2> QED
    BY <1>0, <1>2, <2>1 DEF SoftlyRefused
<1>3. ASSUME NEW i \in 1 .. Len(fate), lines'[i].flaw = "none", fate'[i] = "syntax"
      PROVE  \E j \in 1 .. i - 1 : SoftlyRefused(j, i)'
  <2>1. i \in DOMAIN fate /\ lines[i].flaw = "none" /\ fate[i] = "syntax"
    BY <1>0, <1>1, <1>3
  <2>2. PICK j \in 1 .. i - 1 : SoftlyRefused(j, i)
    BY <2>1 DEF FaultlessLineParsed
  <2> QED
    BY <1>0, <1>2, <2>2
<1>4. ASSUME Len(fate') # Len(fate),
             lines'[Len(fate')].flaw = "none", fate'[Len(fate')] = "syntax"
      PROVE  /\ Len(fate') = Len(fate) + 1
             /\ \E j \in 1 .. Len(fate) : \A n \in Nat : n = Len(fate) + 1 => SoftlyRefused(j, n)'
  <2>1. ASSUME NEW l \in Menu, Read(l) PROVE FALSE
    <3>1. /\ lineno' = lineno + 1 /\ Line' = l /\ Len(fate) = lineno
      BY <2>1, Reading DEF ShapeInv, Midway
    <3>2. PICK how \in Fates :
            /\ LineEnds(how)
            /\ (how = "syntax" /\ l.flaw = "output") \/ how \in {"soft", "idle", "done"}
      BY <1>0, <1>4, <2>1, ReadOutcome DEF ReadRejects, ReadEnds, ReadProceeds, Refuse
    <3>3. Len(fate') = lineno' /\ fate'[Len(fate')] = how
      BY <1>0, <3>1, <3>2, Ending
    <3>4. lines'[Len(fate')] = l
      BY <3>1, <3>3 DEF Line, lineno
    <3> QED
      BY <1>4, <3>2, <3>3, <3>4
  <2>2. Step
    BY <1>4, <2>1, NextCases
  <2>3. pc \in Midway /\ lineno >= 1 /\ UNCHANGED lines /\ lineno = Len(fate) + 1
    BY <1>0, <2>2, StepOutcome DEF ShapeInv
  <2>4. PICK how \in Fates :
          /\ LineEnds(how)
          /\ \/ /\ how = "syntax"
                /\ Line.flaw = "none" => pc = "options" /\ Again # {}
             \/ how \in {"soft", "done", "outside"}
    BY <1>0, <1>4, <2>2, StepOutcome DEF Rejects, Shrugs, Finishes, ProceedsFile,
         ProceedsArgs, ProceedsOptions, Refuse
  <2>5. Len(fate') = lineno /\ fate'[lineno] = how
    BY <2>3, <2>4, Ending
  <2>6. pc = "options" /\ Again # {}
    BY <1>4, <2>3, <2>4, <2>5 DEF Line
  <2>7. PICK o \in Line.opts \ {"ignored"} : data[o] # 0
    BY <2>6 DEF Again
  <2>8. o = "timeout"
    BY <2>3, <2>6, <2>7, LineFacts DEF UnionInv
  <2>9. data["timeout"] \notin {0, Garbled, lineno} /\ "timeout" \in Opts
    BY <2>6, <2>7, <2>8 DEF UnionInv, TimeoutInv, Midway, Opts
  <2>10. data["timeout"] \in 1 .. Len(fate) /\ SoftlyRefused(data["timeout"], Len(fate) + 1)
    BY <2>3, <2>9 DEF BlobInv
  <2>11. PICK j \in 1 .. Len(fate) : SoftlyRefused(j, Len(fate) + 1)
    BY <2>10
  <2>12. ASSUME NEW n \in Nat, n = Len(fate) + 1 PROVE SoftlyRefused(j, n)'
    <3>1. SoftlyRefused(j, n) /\ j \in 1 .. n - 1
      BY <1>0, <2>11, <2>12
    <3> QED
      BY <1>2, <2>12, <3>1
  <2> QED
    BY <2>3, <2>5, <2>12
<1>5. ASSUME NEW i \in DOMAIN fate', lines'[i].flaw = "none", fate'[i] = "syntax"
      PROVE  \E j \in 1 .. i - 1 : SoftlyRefused(j, i)'
  <2>1. i \in 1 .. Len(fate')
    BY <1>0, <1>5
  <2>2. Len(fate') \in {Len(fate), Len(fate) + 1}
    BY FateGrows, NextCases, <1>0, ReadOutcome, StepOutcome, Ending
       DEF ReadRejects, ReadEnds, ReadProceeds, Refuse, Rejects, Shrugs, Finishes, ProceedsFile,
           ProceedsArgs, ProceedsOptions
  <2>3. CASE i \in 1 .. Len(fate)
    BY <1>3, <1>5, <2>3
  <2>4. CASE i \notin 1 .. Len(fate)
    <3>1. i = Len(fate') /\ Len(fate') # Len(fate) /\ i = Len(fate) + 1 /\ i \in Nat
      BY <1>0, <2>1, <2>2, <2>4
    <3>2. PICK j \in 1 .. Len(fate) : \A n \in Nat : n = Len(fate) + 1 => SoftlyRefused(j, n)'
      BY <1>4, <1>5, <3>1
    <3>3. j \in 1 .. i - 1
      BY <1>0, <3>1
    <3> QED
      BY <3>1, <3>2, <3>3
  <2> QED
    BY <2>3, <2>4
<1> QED
  BY <1>5 DEF FaultlessLineParsed

-----------------------------------------------------------------------------
(* The end of a restore.                                                   *)

LEMMA EndStep ==
  ASSUME TypeOK, ShapeInv, WarnInv, InputInv, RestoreCutShort, Next
  PROVE  WarnInv' /\ InputInv' /\ RestoreCutShort'
<1>0. /\ {"done", "outside", "syntax", "soft", "idle"} \subseteq Fates
      /\ MaxLines \in Nat /\ NoFile # 0
  BY ParseAssumption DEF Fates, NoFile
<1>1. ASSUME NEW how \in Fates, LineEnds(how) PROVE WarnInv'
  BY <1>1, Ending DEF WarnInv
<1>2. ASSUME NEW l \in Menu, Read(l) PROVE WarnInv' /\ InputInv' /\ RestoreCutShort'
  <2>1. /\ lineno \in Nat /\ lineno' = lineno + 1 /\ Line' = l
        /\ pc = "prompt" /\ input # "closed"
    BY <1>2, Reading
  <2>2. /\ input' \in {input, "tty"}
        /\ filename' = filename \/ (filename = NoFile /\ filename' = lineno + 1)
    BY <1>2, ReadOutcome
  <2>3. pc' \in {"prompt", "exit0", "exit1", "file", "args"} /\ (pc' = "exit0" => l.cmd = "quit")
    BY <1>2, ReadOutcome DEF ReadRejects, ReadEnds, ReadProceeds, Refuse
  <2>4. WarnInv'
    <3>1. CASE ReadRejects(l) \/ ReadEnds(l)
      BY <1>0, <1>1, <3>1 DEF ReadRejects, ReadEnds, Refuse
    <3>2. CASE ReadProceeds(l)
      BY <2>1, <3>2 DEF ReadProceeds, WarnInv
    <3> QED
      BY <1>2, <3>1, <3>2, ReadOutcome
  <2>5. InputInv'
    BY <1>0, <2>1, <2>2, <2>3 DEF InputInv
  <2>6. RestoreCutShort'
    BY <2>1, <2>3 DEF RestoreCutShort
  <2> QED
    BY <2>4, <2>5, <2>6
<1>3. ASSUME Step PROVE WarnInv' /\ InputInv' /\ RestoreCutShort'
  <2>1. /\ pc \in Midway /\ lineno >= 1 /\ UNCHANGED <<interactive, lines, filename>>
        /\ Line' = Line /\ lineno' = lineno
        /\ UNCHANGED input \/ (pc = "file" /\ input = "file" /\ input' = "closed")
    BY <1>3, StepOutcome DEF Line, lineno
  <2>2. WarnInv' /\ pc' # "undefined"
        /\ (pc' = "exit0" => Line.cmd = "test" \/ "ignored" \in Line.opts)
    <3>1. CASE Rejects \/ Shrugs
      BY <1>0, <1>1, <3>1 DEF Rejects, Shrugs, Refuse
    <3>2. CASE Finishes
      BY <1>0, <1>1, <3>2 DEF Finishes, WarnInv
    <3>3. CASE ProceedsFile \/ ProceedsArgs
      BY <2>1, <3>3 DEF ProceedsFile, ProceedsArgs, WarnInv
    <3>4. CASE ProceedsOptions
      BY <2>1, <3>4 DEF ProceedsOptions, WarnInv, WarnsIgnored
    <3> QED
      BY <1>3, <3>1, <3>2, <3>3, <3>4, StepOutcome
  <2>3. InputInv'
    BY <2>1, <2>2 DEF InputInv, ShapeInv
  <2>4. RestoreCutShort'
    BY <2>1, <2>2 DEF RestoreCutShort
  <2> QED
    BY <2>2, <2>3, <2>4
<1>4. ASSUME UNCHANGED <<interactive, lines, warned, filename, input>>, pc = "prompt",
             \/ pc' = "exit0" /\ interactive = TRUE
             \/ pc' = "end"
             \/ pc' = "undefined" /\ input = "closed"
      PROVE  WarnInv' /\ InputInv' /\ RestoreCutShort'
  <2>1. Line' = Line /\ lineno' = lineno
    BY <1>4 DEF Line, lineno
  <2> QED
    BY <1>4, <2>1 DEF WarnInv, InputInv, RestoreCutShort
<1> QED
  BY <1>2, <1>3, <1>4, NextCases

-----------------------------------------------------------------------------
(* The theorems.                                                           *)

LEMMA ParseInit == Init => ParseInv
<1> SUFFICES ASSUME Init PROVE ParseInv
  OBVIOUS
<1>0. MaxLines \in Nat /\ Garbled # 0 /\ NoFile # 0
  BY ParseAssumption DEF Garbled, NoFile
<1>1. lineno = 0 /\ Len(fate) = 0 /\ pc = "prompt" /\ fate = <<>>
  BY DEF Init, lineno
<1>2. \A o \in Opts : data[o] = 0 /\ sent.attrs[o] = 0
  BY Resetting DEF Init
<1>3. TypeOK
  <2>1. lines \in Seq(Menu) /\ fate \in Seq(Fates) /\ Len(lines) = 0
    BY DEF Init
  <2>2. filename \in 0 .. Len(lines) \cup {NoFile}
    BY <2>1 DEF Init
  <2>3. sent \in [cmd : Named \cup Optional \cup {"none"}, line : 0 .. MaxLines,
                  attrs : [Opts -> 0 .. Garbled]]
    BY <1>0, Resetting DEF Init
  <2>4. /\ interactive \in BOOLEAN /\ warned \in BOOLEAN /\ quiet \in BOOLEAN
        /\ input \in {"tty", "stdin", "file", "closed"} /\ data \in [Opts -> 0 .. Garbled]
    BY Resetting DEF Init
  <2> QED
    BY <1>0, <1>1, <2>1, <2>2, <2>3, <2>4 DEF TypeOK
<1>4. ShapeInv /\ BlobInv /\ TimeoutInv
  BY <1>1, <1>2 DEF ShapeInv, BlobInv, TimeoutInv, Midway
<1>5. UnionInv
  BY <1>0, <1>2 DEF UnionInv, Opts
<1>6. SentInv /\ NothingGarbledSent
  BY <1>0, <1>1, <1>2 DEF SentInv, NothingGarbledSent, Init
<1>7. FaultlessLineParsed
  BY <1>1 DEF FaultlessLineParsed
<1>8. WarnInv /\ InputInv /\ RestoreCutShort
  BY <1>1 DEF WarnInv, InputInv, RestoreCutShort, Init
<1> QED
  BY <1>3, <1>4, <1>5, <1>6, <1>7, <1>8 DEF ParseInv

LEMMA ParseStep == ParseInv /\ [Next]_vars => ParseInv'
<1> SUFFICES ASSUME ParseInv, [Next]_vars PROVE ParseInv'
  OBVIOUS
<1>1. CASE Next
  BY <1>1, TypeStep, ShapeStep, BlobStep, UnionStep, TimeoutStep, SentStep, FaultlessStep,
     EndStep DEF ParseInv
<1>2. CASE UNCHANGED vars
  <2> USE <1>2 DEF vars, lineno, Line
  <2>1. TypeOK' /\ ShapeInv'
    BY DEF ParseInv, TypeOK, ShapeInv
  <2>2. BlobInv' /\ UnionInv' /\ TimeoutInv'
    BY DEF ParseInv, BlobInv, UnionInv, TimeoutInv, SoftlyRefused
  <2>3. SentInv' /\ NothingGarbledSent' /\ FaultlessLineParsed'
    BY DEF ParseInv, SentInv, NothingGarbledSent, FaultlessLineParsed, SoftlyRefused
  <2>4. WarnInv' /\ InputInv' /\ RestoreCutShort'
    BY DEF ParseInv, WarnInv, InputInv, RestoreCutShort
  <2> QED
    BY <2>1, <2>2, <2>3, <2>4 DEF ParseInv
<1> QED
  BY <1>1, <1>2

LEMMA ParseSafe == Spec => []ParseInv
PROOF BY ParseInit, ParseStep, PTL DEF Spec

\* Every variable has its type: every line that ends gets one fate, and none
\* is sent to the kernel without a command.
THEOREM ParseTypeCorrect == Spec => []TypeOK
<1>1. ParseInv => TypeOK
  BY DEF ParseInv
<1> QED
  BY <1>1, ParseSafe, PTL

\* A request carries only what its own line says, or what lines that
\* custom_error refused directly before it have left in the blob, however
\* many lines the session has had.
THEOREM RequestsCarryOwnWords == Spec => []OwnWords
<1>1. ParseInv => OwnWords
  BY DEF ParseInv, SentInv, OwnWords
<1> QED
  BY <1>1, ParseSafe, PTL

\* No request carries an option whose place in the union of struct dset_data
\* was written over: hashsize never outlives its create, and the only line
\* that writes over a setname2 is one that does not send it.
THEOREM NoGarbledRequest == Spec => []NothingGarbledSent
<1>1. ParseInv => NothingGarbledSent
  BY DEF ParseInv
<1> QED
  BY <1>1, ParseSafe, PTL

\* dset_parse_argv refuses a line without a flaw as a syntax error only
\* because of lines that custom_error refused directly before it.
THEOREM FaultlessLinesPass == Spec => []FaultlessLineParsed
<1>1. ParseInv => FaultlessLineParsed
  BY DEF ParseInv
<1> QED
  BY <1>1, ParseSafe, PTL

\* A restore stops early without an error only at quit, after a warning, or
\* because a list or save took the restore's file for its own.
THEOREM RestoreEndsForAReason == Spec => []RestoreCutShort
<1>1. ParseInv => RestoreCutShort
  BY DEF ParseInv
<1> QED
  BY <1>1, ParseSafe, PTL

=============================================================================

----------------------------- MODULE MCSession ------------------------------
(* Instances of DsetSession for TLC: the lines that the file can have.     *)
EXTENDS DsetSession, TLC

CONSTANTS a, b, x, y

L(c, n, m, e, o) == [cmd |-> c, set |-> n, to |-> m, elem |-> e, opts |-> o]

\* The lines of a file that save could have written.
SavedLines ==
  {L("create", a, NoName, NoElem, {}), L("create", b, NoName, NoElem, {}),
   L("add", a, NoName, x, {}), L("add", a, NoName, y, {}), L("add", b, NoName, x, {})}

\* The other lines.
OtherLines ==
  {L("create", a, NoName, NoElem, {"exist"}), L("add", a, NoName, x, {"exist"}),
   L("del", a, NoName, x, {}),
   L("destroy", a, NoName, NoElem, {}), L("destroy", NoName, NoName, NoElem, {}),
   L("flush", a, NoName, NoElem, {}), L("rename", a, b, NoElem, {}),
   L("swap", a, b, NoElem, {}),
   L("test", a, NoName, x, {}), L("test", a, NoName, x, {"quiet"})}

Control == {L(c, NoName, NoName, NoElem, {}) : c \in {"blank", "COMMIT", "bad", "quit"}}

AllLines == SavedLines \cup OtherLines \cup Control
=============================================================================

------------------------------ MODULE MCParse -------------------------------
(***************************************************************************)
(* DsetParse with lines that have everything that can be stale, and        *)
(* everything that can be wrong, in them.                                  *)
(***************************************************************************)
EXTENDS DsetParse

A(cmd, set, opts, core, flaw) ==
  [cmd |-> cmd, set |-> set, opts |-> opts, core |-> core, flaw |-> flaw]

Lines ==
  {A("create", TRUE, {}, {}, "none"),
   A("create", TRUE, {"timeout", "hashsize"}, {}, "none"),
   A("create", TRUE, {"hashsize"}, {}, "unknown"),
   A("create", TRUE, {"ignored"}, {}, "none"),
   A("add", TRUE, {}, {}, "none"),
   A("add", TRUE, {"timeout"}, {}, "none"),
   A("add", TRUE, {"timeout"}, {}, "unknown"),
   A("add", TRUE, {"timeout"}, {}, "value"),
   A("add", TRUE, {}, {}, "name"),
   A("del", TRUE, {}, {}, "none"),
   A("del", TRUE, {}, {}, "elem"),
   A("test", TRUE, {}, {"quiet"}, "none"),
   A("test", TRUE, {}, {}, "none"),
   A("rename", TRUE, {}, {}, "none"),
   A("swap", TRUE, {}, {}, "unknown"),
   A("destroy", FALSE, {}, {}, "none"),
   A("flush", TRUE, {}, {}, "unknown"),
   A("list", FALSE, {}, {"file"}, "none"),
   A("save", TRUE, {}, {}, "none"),
   A("list", FALSE, {}, {}, "output"),
   A("add", FALSE, {}, {}, "missing"),
   A("none", FALSE, {}, {}, "none"),
   A("-", FALSE, {}, {}, "none"),
   A("quit", FALSE, {}, {}, "none")}
=============================================================================

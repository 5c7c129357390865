------------------------------ MODULE DsetSet ------------------------------
(***************************************************************************)
(* What a set of type hash:domain promises to its users: a map from        *)
(* domains to the state of their timeout.  An element is "out" of the set, *)
(* in it for good ("perm"), or in it until its time is over ("live").      *)
(* There is no hash table here: buckets, holes, resizing and the garbage   *)
(* collector do not show.  DsetHash implements this specification.         *)
(*                                                                         *)
(* A command is called and answered in two steps; in between, elements may *)
(* time out.  Commands on one set are serialized by the nfnl mutex.        *)
(***************************************************************************)
EXTENDS Integers, FiniteSets

CONSTANTS
  Domains,  \* the domain names in use
  NoElem,
  MaxElem,  \* h->maxelem
  Timeouts, \* what an add may ask for: a subset of {"perm", "live"}
  CanFail   \* whether memory may run out

VARIABLES
  members,  \* the map
  call,     \* the command that waits for its answer
  ret       \* the answer to the last command, "none" while one waits

absvars == <<members, call, ret>>

NoCall == [cmd |-> "idle", elem |-> NoElem, exist |-> FALSE, timeout |-> "perm"]

In(d) == members[d] # "out"

Size == Cardinality({d \in Domains : In(d)})

AbsInit ==
  /\ members = [d \in Domains |-> "out"]
  /\ call = NoCall
  /\ ret = "ok"

Call(c) ==
  /\ call = NoCall
  /\ call' = c
  /\ ret' = "none"
  /\ UNCHANGED members

AddCall(d, exist, t) == Call([cmd |-> "add", elem |-> d, exist |-> exist, timeout |-> t])

DelCall(d) == Call([NoCall EXCEPT !.cmd = "del", !.elem = d])

TestCall(d) == Call([NoCall EXCEPT !.cmd = "test", !.elem = d])

\* An element that is in the set is an error unless -exist was given, a new
\* one may be refused only by a full set, and a refused add changes nothing.
AddAnswer ==
  LET d == call.elem IN
  /\ call.cmd = "add"
  /\ call' = NoCall
  /\ \/ /\ ~In(d) \/ call.exist
        /\ members' = [members EXCEPT ![d] = call.timeout]
        /\ ret' = "ok"
     \/ /\ In(d) /\ ~call.exist
        /\ ret' = "exist"
        /\ UNCHANGED members
     \/ /\ ~In(d) /\ Size >= MaxElem
        /\ ret' = "full"
        /\ UNCHANGED members
     \/ /\ CanFail
        /\ ret' = "nomem"
        /\ UNCHANGED members

DelAnswer ==
  /\ call.cmd = "del"
  /\ IF In(call.elem)
     THEN ret' = "ok" /\ members' = [members EXCEPT ![call.elem] = "out"]
     ELSE ret' = "exist" /\ UNCHANGED members
  /\ call' = NoCall

TestAnswer ==
  /\ call.cmd = "test"
  /\ ret' = IF In(call.elem) THEN "ok" ELSE "exist"
  /\ call' = NoCall
  /\ UNCHANGED members

FlushAnswer ==
  /\ call = NoCall
  /\ members' = [d \in Domains |-> "out"]
  /\ ret' = "ok"
  /\ UNCHANGED call

\* Nobody removes an element but its own timeout.
TimeOut(d) ==
  /\ members[d] = "live"
  /\ members' = [members EXCEPT ![d] = "out"]
  /\ UNCHANGED <<call, ret>>

AbsNext ==
  \/ \E d \in Domains, exist \in BOOLEAN, t \in Timeouts : AddCall(d, exist, t)
  \/ \E d \in Domains : DelCall(d) \/ TestCall(d) \/ TimeOut(d)
  \/ AddAnswer \/ DelAnswer \/ TestAnswer
  \/ FlushAnswer

AbsSpec == AbsInit /\ [][AbsNext]_absvars
=============================================================================

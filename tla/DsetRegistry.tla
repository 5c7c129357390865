---------------------------- MODULE DsetRegistry ----------------------------
(***************************************************************************)
(* The set registry of one network namespace: domain_set_core.c with the   *)
(* two kinds of rule that refer to a set, xt_dset.c and em_dset.c.         *)
(*                                                                         *)
(* Sets are found by NAME by the netlink commands and by INDEX by the      *)
(* rules and the packets.  The commands are serialized by the nfnl mutex;  *)
(* three kinds of actor do not take it and interleave with a command:      *)
(*   - a packet that a rule matches (domain_set_test), which keeps the set *)
(*     pointer it read from domain_set_list until its verdict is known;    *)
(*   - the callbacks of a dump, which only the first time run inside the   *)
(*     LIST command, and keep a set between two callbacks by ref_netlink;  *)
(*   - the loading and unloading of the module of the set type.            *)
(*                                                                         *)
(* A command that fails (-ENOENT, -EEXIST, BUSY, REFERENCED, ...) changes  *)
(* nothing, so a failure is a disabled action and not an action of its     *)
(* own.  kfree makes an object available again at once: a pointer held by  *)
(* someone else shows as an owner of an object whose state is "free".      *)
(*                                                                         *)
(* All sets have the one type of the repository, hash:domain, whose create *)
(* function refuses every family but NFPROTO_UNSPEC: the test for equal    *)
(* features and family in domain_set_swap and the family test of           *)
(* domain_set_test always succeed.  No type has the feature DUMP_LAST.     *)
(***************************************************************************)
EXTENDS Integers, FiniteSets

CONSTANTS
  Sets,      \* the addresses kzalloc can return for a struct domain_set
  Names,     \* set names
  Rules,     \* matches of xt_dset and ematches of em_dset
  Packets,   \* packets that can be in flight at once
  Dumps,     \* netlink sockets that can run a dump
  Threads,   \* threads that issue netlink commands
  NoSet, NoName, NoRule, NoOne,
  IdLimit,   \* number of values of domain_set_id_t (2^16)
  InitMax,   \* inst->domain_set_max after domain_set_net_init
  Inc        \* DOMAIN_SET_INC

InvalidId == IdLimit - 1

Ids == 0 .. IdLimit - 1

ASSUME RegistryAssumption ==
  /\ IdLimit \in Nat /\ InitMax \in Nat /\ Inc \in Nat
  /\ 0 < InitMax /\ InitMax < InvalidId
  /\ 0 < Inc /\ Inc < IdLimit
  /\ IsFiniteSet(Sets) /\ IsFiniteSet(Rules) /\ IsFiniteSet(Dumps)
  /\ NoSet \notin Sets /\ NoName \notin Names
  /\ NoRule \notin Rules
  /\ NoOne \notin Threads \cup Dumps
  /\ Threads \cap Dumps = {}

VARIABLES
  list,         \* inst->domain_set_list
  max,          \* inst->domain_set_max
  is_destroyed, \* inst->is_destroyed
  is_deleted,   \* inst->is_deleted
  state,        \* life of each struct domain_set
  name,         \* set->name
  ref,          \* set->ref
  ref_netlink,  \* set->ref_netlink
  module,       \* the module of the set type
  modref,       \* its use count
  mutex,        \* who holds the nfnl mutex
  cmd,          \* progress of each command thread
  rule,         \* the rules that refer to a set
  pkt,          \* the packets inside domain_set_test
  dump          \* the netlink_callback of each dump

setvars == <<state, name, ref, ref_netlink>>

modvars == <<module, modref>>

flags == <<is_destroyed, is_deleted>>

vars == <<list, max, flags, setvars, modvars, mutex, cmd, rule, pkt, dump>>

-----------------------------------------------------------------------------
(* The values of the records.                                              *)

Idle == [pc |-> "idle", set |-> NoSet, idx |-> 0]

NoRef == [id |-> InvalidId, checked |-> FALSE]

NoPkt == [rule |-> NoRule, set |-> NoSet]

NoDump == [pc |-> "off", kind |-> "all", index |-> 0, limit |-> 0,
           arg0 |-> FALSE, set |-> NoSet]

CmdType == [pc : {"idle", "load", "create", "use", "free", "all"},
            set : Sets \cup {NoSet}, idx : Ids]

RuleType == [id : Ids, checked : BOOLEAN]

PktType == [rule : Rules \cup {NoRule}, set : Sets \cup {NoSet}]

DumpType == [pc : {"off", "ready", "scan", "list"}, kind : {"one", "all", "last"},
             index : Ids, limit : Ids, arg0 : BOOLEAN, set : Sets \cup {NoSet}]

\* Every variable has its type.  The counters are integers here: that they
\* never go below zero is RefsCountRules, NetlinkRefsCountDumps and
\* ModulePinned.
TypeOK ==
  /\ list \in [Ids -> Sets \cup {NoSet}]
  /\ max \in 1 .. InvalidId - 1
  /\ is_destroyed \in BOOLEAN
  /\ is_deleted \in BOOLEAN
  /\ state \in [Sets -> {"free", "new", "live", "dying"}]
  /\ name \in [Sets -> Names \cup {NoName}]
  /\ ref \in [Sets -> Int]
  /\ ref_netlink \in [Sets -> Int]
  /\ module \in {"absent", "live", "going"}
  /\ modref \in Int
  /\ mutex \in Threads \cup Dumps \cup {NoOne}
  /\ cmd \in [Threads -> CmdType]
  /\ rule \in [Rules -> RuleType]
  /\ pkt \in [Packets -> PktType]
  /\ dump \in [Dumps -> DumpType]

Init ==
  /\ list = [i \in Ids |-> NoSet]
  /\ max = InitMax
  /\ is_destroyed = FALSE
  /\ is_deleted = FALSE
  /\ state = [s \in Sets |-> "free"]
  /\ name = [s \in Sets |-> NoName]
  /\ ref = [s \in Sets |-> 0]
  /\ ref_netlink = [s \in Sets |-> 0]
  /\ module = "absent"
  /\ modref = 0
  /\ mutex = NoOne
  /\ cmd = [c \in Threads |-> Idle]
  /\ rule = [r \in Rules |-> NoRef]
  /\ pkt = [p \in Packets |-> NoPkt]
  /\ dump = [d \in Dumps |-> NoDump]

-----------------------------------------------------------------------------
(* Lookups.                                                                *)

\* The indices domain_set_list has room for.
Slots == 0 .. max - 1

\* Mutant of Bears: the search ends one index too early.
BearsBelowLast(i, n) == i < max - 1 /\ list[i] # NoSet /\ name[list[i]] = n

\* find_set_and_id: the set at index i bears the name n.
Bears(i, n) == i < max /\ list[i] # NoSet /\ name[list[i]] = n

\* Mutant of CanRun: the handler runs without the mutex.
CanRunUnlocked(c) == cmd[c].pc = "idle" /\ ~is_deleted

\* A command can start: nfnetlink takes the mutex before the handler.
CanRun(c) == mutex = NoOne /\ cmd[c].pc = "idle" /\ ~is_deleted

\* Mutants of Unreferenced: one of the two counters is forgotten.
NoRuleRefers(s) == ref[s] = 0

NoDumpRefers(s) == ref_netlink[s] = 0

Unreferenced(s) == ref[s] = 0 /\ ref_netlink[s] = 0

\* kfree(set); the fields are given their kzalloc values here and not at
\* the next allocation.
Kfree(s) ==
  /\ state' = [state EXCEPT ![s] = "free"]
  /\ name' = [name EXCEPT ![s] = NoName]
  /\ ref' = [ref EXCEPT ![s] = 0]
  /\ ref_netlink' = [ref_netlink EXCEPT ![s] = 0]

-----------------------------------------------------------------------------
(* The module of the set type.  Loading it registers the type; unloading   *)
(* stops it first, when nothing uses it, and unregisters the type next.    *)

LoadModule ==
  /\ module = "absent"
  /\ module' = "live"
  /\ UNCHANGED <<list, max, flags, setvars, modref, mutex, cmd, rule, pkt, dump>>

StopModule ==
  /\ module = "live" /\ modref = 0
  /\ module' = "going"
  /\ UNCHANGED <<list, max, flags, setvars, modref, mutex, cmd, rule, pkt, dump>>

UnloadModule ==
  /\ module = "going"
  /\ module' = "absent"
  /\ UNCHANGED <<list, max, flags, setvars, modref, mutex, cmd, rule, pkt, dump>>

-----------------------------------------------------------------------------
(* create                                                                  *)

\* domain_set_create up to find_set_type_get.  The type is not registered:
\* load_settype gives the mutex up while modprobe runs.  A module that is
\* going refuses try_module_get and the command fails.
CreateStart(c, n) ==
  /\ CanRun(c)
  /\ \E s \in Sets :
       /\ state[s] = "free"
       /\ state' = [state EXCEPT ![s] = "new"]
       /\ name' = [name EXCEPT ![s] = n]
       /\ \/ /\ module = "live"
             /\ modref' = modref + 1
             /\ mutex' = c
             /\ cmd' = [cmd EXCEPT ![c] = [Idle EXCEPT !.pc = "create", !.set = s]]
          \/ /\ module = "absent"
             /\ cmd' = [cmd EXCEPT ![c] = [Idle EXCEPT !.pc = "load", !.set = s]]
             /\ UNCHANGED <<modref, mutex>>
  /\ UNCHANGED <<list, max, flags, ref, ref_netlink, module, rule, pkt, dump>>

\* load_settype returns with the mutex taken again: find_set_type_get looks
\* a second and last time.
CreateRetry(c) ==
  /\ cmd[c].pc = "load" /\ mutex = NoOne /\ ~is_deleted
  /\ \/ /\ module = "live"
        /\ modref' = modref + 1
        /\ mutex' = c
        /\ cmd' = [cmd EXCEPT ![c].pc = "create"]
        /\ UNCHANGED setvars
     \/ /\ module # "live"
        /\ Kfree(cmd[c].set)
        /\ cmd' = [cmd EXCEPT ![c] = Idle]
        /\ UNCHANGED <<modref, mutex>>
  /\ UNCHANGED <<list, max, flags, module, rule, pkt, dump>>

\* Mutant of CreateFail: the cleanup forgets module_put.
CreateFailNoModulePut(c) ==
  /\ cmd[c].pc = "create"
  /\ Kfree(cmd[c].set)
  /\ mutex' = NoOne
  /\ cmd' = [cmd EXCEPT ![c] = Idle]
  /\ UNCHANGED <<list, max, flags, modvars, rule, pkt, dump>>

\* domain_set_create gives up: type->create fails, the name is taken (also
\* when -exist turns the clash into success) or no index is to be had.
CreateFail(c) ==
  /\ cmd[c].pc = "create"
  /\ Kfree(cmd[c].set)
  /\ modref' = modref - 1
  /\ mutex' = NoOne
  /\ cmd' = [cmd EXCEPT ![c] = Idle]
  /\ UNCHANGED <<list, max, flags, module, rule, pkt, dump>>

\* find_free_id: the first free index, or else the first index of a list
\* that is Inc longer.  The new length is computed in domain_set_id_t.
Grown == (max + Inc) % IdLimit

\* Mutant of FreeSlot: the new length is not tested.
FreeSlotAnyLength(i) ==
  \/ /\ i < max /\ list[i] = NoSet
     /\ \A j \in 0 .. i - 1 : list[j] # NoSet
     /\ max' = max
  \/ /\ \A j \in Slots : list[j] # NoSet
     /\ i = max
     /\ max' = Grown

FreeSlot(i) ==
  \/ /\ i < max /\ list[i] = NoSet
     /\ \A j \in 0 .. i - 1 : list[j] # NoSet
     /\ max' = max
  \/ /\ \A j \in Slots : list[j] # NoSet
     /\ ~(Grown < max \/ Grown = InvalidId)
     /\ i = max
     /\ max' = Grown

\* domain_set_create succeeds: the set enters domain_set_list.
CreateLink(c) ==
  LET s == cmd[c].set IN
  /\ cmd[c].pc = "create"
  /\ \A i \in Slots : ~Bears(i, name[s])
  /\ \E i \in Ids :
       /\ FreeSlot(i)
       /\ list' = [list EXCEPT ![i] = s]
  /\ state' = [state EXCEPT ![s] = "live"]
  /\ mutex' = NoOne
  /\ cmd' = [cmd EXCEPT ![c] = Idle]
  /\ UNCHANGED <<flags, name, ref, ref_netlink, modvars, rule, pkt, dump>>

-----------------------------------------------------------------------------
(* destroy                                                                 *)

\* domain_set_destroy with a name: the reference check and the unlinking
\* are one section of domain_set_ref_lock.
Destroy(c, i) ==
  /\ CanRun(c)
  /\ i < max /\ list[i] # NoSet
  /\ Unreferenced(list[i])
  /\ list' = [list EXCEPT ![i] = NoSet]
  /\ state' = [state EXCEPT ![list[i]] = "dying"]
  /\ mutex' = c
  /\ cmd' = [cmd EXCEPT ![c] = [Idle EXCEPT !.pc = "free", !.set = list[i]]]
  /\ UNCHANGED <<max, flags, name, ref, ref_netlink, modvars, rule, pkt, dump>>

\* domain_set_destroy_set, outside the lock.
DestroyFree(c) ==
  /\ cmd[c].pc = "free"
  /\ Kfree(cmd[c].set)
  /\ modref' = modref - 1
  /\ mutex' = NoOne
  /\ cmd' = [cmd EXCEPT ![c] = Idle]
  /\ UNCHANGED <<list, max, flags, module, rule, pkt, dump>>

\* domain_set_destroy without a name: no set may be referenced, and
\* is_destroyed keeps new dumps away while the sets go one by one.
DestroyAll(c) ==
  /\ CanRun(c)
  /\ \A i \in Slots : list[i] # NoSet => Unreferenced(list[i])
  /\ is_destroyed' = TRUE
  /\ mutex' = c
  /\ cmd' = [cmd EXCEPT ![c] = [Idle EXCEPT !.pc = "all"]]
  /\ UNCHANGED <<list, max, is_deleted, setvars, modvars, rule, pkt, dump>>

DestroyAllNext(c) ==
  LET i == cmd[c].idx IN
  /\ cmd[c].pc = "all" /\ i < max
  /\ \/ list[i] = NoSet /\ UNCHANGED <<list, setvars, modref>>
     \/ /\ list[i] # NoSet
        /\ list' = [list EXCEPT ![i] = NoSet]
        /\ Kfree(list[i])
        /\ modref' = modref - 1
  /\ cmd' = [cmd EXCEPT ![c].idx = i + 1]
  /\ UNCHANGED <<max, flags, module, mutex, rule, pkt, dump>>

DestroyAllEnd(c) ==
  /\ cmd[c].pc = "all" /\ cmd[c].idx >= max
  /\ is_destroyed' = FALSE
  /\ mutex' = NoOne
  /\ cmd' = [cmd EXCEPT ![c] = Idle]
  /\ UNCHANGED <<list, max, is_deleted, setvars, modvars, rule, pkt, dump>>

-----------------------------------------------------------------------------
(* rename, swap and the commands that only use a set                       *)

Rename(c, i, n) ==
  /\ CanRun(c)
  /\ i < max /\ list[i] # NoSet
  /\ Unreferenced(list[i])
  /\ \A j \in Slots : ~Bears(j, n)
  /\ name' = [name EXCEPT ![list[i]] = n]
  /\ UNCHANGED <<list, max, flags, state, ref, ref_netlink, modvars,
                 mutex, cmd, rule, pkt, dump>>

\* Mutant of Swap: the references stay with the sets.
SwapKeepsRefs(c, i, j) ==
  LET from == list[i]
      to   == list[j] IN
  /\ CanRun(c)
  /\ i < max /\ j < max
  /\ from # NoSet /\ to # NoSet
  /\ ref_netlink[from] = 0 /\ ref_netlink[to] = 0
  /\ name' = [name EXCEPT ![from] = name[to], ![to] = name[from]]
  /\ list' = [list EXCEPT ![i] = to, ![j] = from]
  /\ UNCHANGED <<max, flags, state, ref, ref_netlink, modvars, mutex, cmd,
                 rule, pkt, dump>>

\* domain_set_swap: names, references and places in the list change hands,
\* so that name and index keep pointing to each other.
Swap(c, i, j) ==
  LET from == list[i]
      to   == list[j] IN
  /\ CanRun(c)
  /\ i < max /\ j < max
  /\ from # NoSet /\ to # NoSet
  /\ ref_netlink[from] = 0 /\ ref_netlink[to] = 0
  /\ name' = [name EXCEPT ![from] = name[to], ![to] = name[from]]
  /\ ref' = [ref EXCEPT ![from] = ref[to], ![to] = ref[from]]
  /\ list' = [list EXCEPT ![i] = to, ![j] = from]
  /\ UNCHANGED <<max, flags, state, ref_netlink, modvars, mutex, cmd,
                 rule, pkt, dump>>

\* flush, add, del, test, header: find_set, and work on the set with the
\* mutex held (a resize may sleep).
UseSet(c, i) ==
  /\ CanRun(c)
  /\ i < max /\ list[i] # NoSet
  /\ mutex' = c
  /\ cmd' = [cmd EXCEPT ![c] = [Idle EXCEPT !.pc = "use", !.set = list[i]]]
  /\ UNCHANGED <<list, max, flags, setvars, modvars, rule, pkt, dump>>

UseEnd(c) ==
  /\ cmd[c].pc = "use"
  /\ mutex' = NoOne
  /\ cmd' = [cmd EXCEPT ![c] = Idle]
  /\ UNCHANGED <<list, max, flags, setvars, modvars, rule, pkt, dump>>

-----------------------------------------------------------------------------
(* Rules and packets                                                       *)

\* domain_set_nfnl_get_byindex, called by checkentry and em_dset_change.
RuleGet(r, i) ==
  /\ mutex = NoOne /\ ~is_deleted
  /\ rule[r] = NoRef
  /\ i < max /\ list[i] # NoSet
  /\ ref' = [ref EXCEPT ![list[i]] = @ + 1]
  /\ rule' = [rule EXCEPT ![r] = [id |-> i, checked |-> FALSE]]
  /\ UNCHANGED <<list, max, flags, state, name, ref_netlink, modvars,
                 mutex, cmd, pkt, dump>>

\* The rest of checkentry (the dimension test) or of em_dset_change
\* (kmemdup) succeeds: packets see the rule.
RuleAccept(r) ==
  /\ rule[r] # NoRef /\ ~rule[r].checked
  /\ rule' = [rule EXCEPT ![r].checked = TRUE]
  /\ UNCHANGED <<list, max, flags, setvars, modvars, mutex, cmd, pkt, dump>>

\* domain_set_nfnl_put: the failure path of checkentry and em_dset_change
\* for a rule that is not checked, dset_match_v0_destroy and
\* em_dset_destroy for one that is.  A rule is destroyed when no packet is
\* in it any more.
RulePut(r) ==
  LET s == list[rule[r].id] IN
  /\ rule[r] # NoRef /\ mutex = NoOne
  /\ \A p \in Packets : pkt[p].rule # r
  /\ rule' = [rule EXCEPT ![r] = NoRef]
  /\ \/ /\ ~is_deleted /\ s # NoSet
        /\ ref' = [ref EXCEPT ![s] = @ - 1]
     \/ /\ is_deleted \/ s = NoSet
        /\ UNCHANGED ref
  /\ UNCHANGED <<list, max, flags, state, name, ref_netlink, modvars,
                 mutex, cmd, pkt, dump>>

\* domain_set_test: domain_set_rcu_get reads the list without any lock.
PacketEnter(p, r) ==
  /\ pkt[p] = NoPkt
  /\ rule[r] # NoRef /\ rule[r].checked /\ ~is_deleted
  /\ pkt' = [pkt EXCEPT ![p] = [rule |-> r, set |-> list[rule[r].id]]]
  /\ UNCHANGED <<list, max, flags, setvars, modvars, mutex, cmd, rule, dump>>

\* The verdict is known and the pointer forgotten.
PacketLeave(p) ==
  /\ pkt[p] # NoPkt
  /\ pkt' = [pkt EXCEPT ![p] = NoPkt]
  /\ UNCHANGED <<list, max, flags, setvars, modvars, mutex, cmd, rule, dump>>

-----------------------------------------------------------------------------
(* Dumps                                                                   *)

\* The callback returns: the first one runs inside the LIST command.
Unlock(d) == mutex' = IF mutex = d THEN NoOne ELSE mutex

\* domain_set_dump and dump_init.  An index selects DUMP_ONE.
DumpStart(d, kind, i) ==
  /\ mutex = NoOne /\ ~is_deleted
  /\ dump[d].pc = "off"
  /\ \/ kind = "one" /\ i < max /\ list[i] # NoSet
     \/ kind = "all" /\ i = 0
  /\ dump' = [dump EXCEPT ![d] = [NoDump EXCEPT !.pc = "ready", !.kind = kind,
                                                !.index = i]]
  /\ mutex' = d
  /\ UNCHANGED <<list, max, flags, setvars, modvars, cmd, rule, pkt>>

\* Mutant of DumpLimit: the last index is not looked at.
DumpLimitShort(d) == IF dump[d].kind = "one" THEN dump[d].index + 1 ELSE max - 1

\* Where the loop of domain_set_dump_start ends.
DumpLimit(d) == IF dump[d].kind = "one" THEN dump[d].index + 1 ELSE max

\* domain_set_dump_start begins; with the index past the list it returns no
\* data, which ends the dump.
DumpCall(d) ==
  /\ dump[d].pc = "ready"
  /\ \/ /\ dump[d].index < max
        /\ dump' = [dump EXCEPT ![d].pc = "scan", ![d].limit = DumpLimit(d)]
        /\ UNCHANGED mutex
     \/ /\ dump[d].index >= max
        /\ dump' = [dump EXCEPT ![d] = NoDump]
        /\ Unlock(d)
  /\ UNCHANGED <<list, max, flags, setvars, modvars, cmd, rule, pkt>>

\* One turn of the loop of domain_set_dump_start: one section of
\* domain_set_ref_lock.
DumpScan(d) ==
  LET i == dump[d].index
      s == list[i]
      skip == s = NoSet \/ is_destroyed IN
  /\ dump[d].pc = "scan" /\ i < dump[d].limit
  /\ \/ /\ skip /\ (dump[d].kind = "one" \/ is_destroyed)
        /\ dump' = [dump EXCEPT ![d] = NoDump]
        /\ Unlock(d)
        /\ UNCHANGED ref_netlink
     \/ /\ \/ skip /\ dump[d].kind # "one" /\ ~is_destroyed
           \/ ~skip /\ dump[d].kind = "last"
        /\ dump' = [dump EXCEPT ![d].index = i + 1]
        /\ UNCHANGED <<mutex, ref_netlink>>
     \/ /\ ~skip /\ dump[d].kind # "last"
        /\ ref_netlink' = IF dump[d].arg0 THEN ref_netlink
                          ELSE [ref_netlink EXCEPT ![s] = @ + 1]
        /\ dump' = [dump EXCEPT ![d].pc = "list", ![d].set = s]
        /\ UNCHANGED mutex
  /\ UNCHANGED <<list, max, flags, state, name, ref, modvars, cmd, rule, pkt>>

\* The loop runs out: from the first pass to the pass for DUMP_LAST sets,
\* from that one (or from a single set) to the end of the dump.
DumpLast(d) ==
  /\ dump[d].pc = "scan" /\ dump[d].index >= dump[d].limit
  /\ \/ /\ dump[d].kind = "all"
        /\ dump' = [dump EXCEPT ![d].kind = "last", ![d].index = 0]
        /\ UNCHANGED mutex
     \/ /\ dump[d].kind # "all"
        /\ dump' = [dump EXCEPT ![d] = NoDump]
        /\ Unlock(d)
  /\ UNCHANGED <<list, max, flags, setvars, modvars, cmd, rule, pkt>>

\* The message is full: the set stays referenced until the next callback.
DumpMore(d) ==
  /\ dump[d].pc = "list"
  /\ dump' = [dump EXCEPT ![d].pc = "ready", ![d].arg0 = TRUE, ![d].set = NoSet]
  /\ Unlock(d)
  /\ UNCHANGED <<list, max, flags, setvars, modvars, cmd, rule, pkt>>

\* Mutant of PutNetlink: the reference is not given back.
PutNothing(i) == UNCHANGED ref_netlink

\* __domain_set_put_netlink on the set that is at the index now.
PutNetlink(i) == ref_netlink' = [ref_netlink EXCEPT ![list[i]] = @ - 1]

\* The set is listed to its end, or only its name or header was asked for.
DumpNextSet(d) ==
  /\ dump[d].pc = "list"
  /\ PutNetlink(dump[d].index)
  /\ dump' = [dump EXCEPT ![d].pc = "ready", ![d].arg0 = FALSE, ![d].set = NoSet,
                ![d].index = IF dump[d].kind = "one" THEN InvalidId ELSE @ + 1]
  /\ Unlock(d)
  /\ UNCHANGED <<list, max, flags, state, name, ref, modvars, cmd, rule, pkt>>

\* Nothing fits into the message: the error ends the dump.
DumpError(d) ==
  /\ dump[d].pc = "list"
  /\ PutNetlink(dump[d].index)
  /\ dump' = [dump EXCEPT ![d] = NoDump]
  /\ Unlock(d)
  /\ UNCHANGED <<list, max, flags, state, name, ref, modvars, cmd, rule, pkt>>

\* domain_set_dump_done: the socket is closed before the dump is complete.
DumpDone(d) ==
  /\ dump[d].pc = "ready" /\ mutex # d
  /\ IF dump[d].arg0 THEN PutNetlink(dump[d].index) ELSE UNCHANGED ref_netlink
  /\ dump' = [dump EXCEPT ![d] = NoDump]
  /\ UNCHANGED <<list, max, flags, state, name, ref, modvars, mutex, cmd,
                 rule, pkt>>

-----------------------------------------------------------------------------
(* The end of the namespace: no command, packet or dump of it is left, but *)
(* rules may still be there and are destroyed later.                       *)

NetExit ==
  LET gone == {list[i] : i \in {j \in Slots : list[j] # NoSet}} IN
  /\ ~is_deleted /\ mutex = NoOne
  /\ \A c \in Threads : cmd[c] = Idle
  /\ \A p \in Packets : pkt[p] = NoPkt
  /\ \A d \in Dumps : dump[d] = NoDump
  /\ is_deleted' = TRUE
  /\ list' = [i \in Ids |-> NoSet]
  /\ state' = [s \in Sets |-> IF s \in gone THEN "free" ELSE state[s]]
  /\ name' = [s \in Sets |-> IF s \in gone THEN NoName ELSE name[s]]
  /\ ref' = [s \in Sets |-> IF s \in gone THEN 0 ELSE ref[s]]
  /\ modref' = modref - Cardinality(gone)
  /\ UNCHANGED <<max, is_destroyed, ref_netlink, module, mutex, cmd, rule, pkt, dump>>

-----------------------------------------------------------------------------
Command(c) ==
  \/ \E n \in Names : CreateStart(c, n)
  \/ CreateRetry(c) \/ CreateFail(c) \/ CreateLink(c)
  \/ \E i \in Slots : Destroy(c, i)
  \/ DestroyFree(c)
  \/ DestroyAll(c) \/ DestroyAllNext(c) \/ DestroyAllEnd(c)
  \/ \E i \in Slots, n \in Names : Rename(c, i, n)
  \/ \E i, j \in Slots : Swap(c, i, j)
  \/ \E i \in Slots : UseSet(c, i)
  \/ UseEnd(c)

Match(r) ==
  \/ \E i \in Slots : RuleGet(r, i)
  \/ RuleAccept(r) \/ RulePut(r)

Packet(p) ==
  \/ \E r \in Rules : PacketEnter(p, r)
  \/ PacketLeave(p)

Dump(d) ==
  \/ \E kind \in {"one", "all"}, i \in Slots : DumpStart(d, kind, i)
  \/ DumpCall(d) \/ DumpScan(d) \/ DumpLast(d)
  \/ DumpMore(d) \/ DumpNextSet(d) \/ DumpError(d) \/ DumpDone(d)

Next ==
  \/ LoadModule \/ StopModule \/ UnloadModule
  \/ \E c \in Threads : Command(c)
  \/ \E r \in Rules : Match(r)
  \/ \E p \in Packets : Packet(p)
  \/ \E d \in Dumps : Dump(d)
  \/ NetExit

Spec == Init /\ [][Next]_vars

-----------------------------------------------------------------------------
(* Properties                                                              *)

\* The rules whose reference is on index i.
RulesAt(i) == {r \in Rules : rule[r].id = i}

\* Dump d keeps set s by ref_netlink: while it lists the set, and between
\* two callbacks when the set is not finished.
Holds(d, s) ==
  \/ dump[d].pc = "list" /\ dump[d].set = s
  \/ dump[d].pc \in {"ready", "scan"} /\ dump[d].arg0 /\ list[dump[d].index] = s

HoldersOf(s) == {d \in Dumps : Holds(d, s)}

\* A set is in domain_set_list exactly while it is live, at one index only,
\* and no two sets of the list bear the same name: find_set finds THE set,
\* whatever creates, renames and swaps interleave (create gives up the
\* mutex while the type is loaded).
NamesUnique ==
  /\ \A i \in Ids : list[i] # NoSet => i < max /\ state[list[i]] = "live"
  /\ \A i, j \in Ids :
       /\ list[i] # NoSet /\ list[j] # NoSet
       /\ list[i] = list[j] \/ name[list[i]] = name[list[j]]
       => i = j

\* set->ref counts the rules that refer to the INDEX of the set, through
\* every swap: domain_set_nfnl_put never meets ref = 0 (its BUG_ON), and the
\* index of a rule always has a set (the BUG_ON of domain_set_test).
RefsCountRules ==
  ~is_deleted =>
    /\ \A i \in Slots : list[i] # NoSet => ref[list[i]] = Cardinality(RulesAt(i))
    /\ \A r \in Rules : rule[r] # NoRef =>
         rule[r].id < max /\ list[rule[r].id] # NoSet

\* set->ref_netlink counts the dumps that keep the set, on every way a dump
\* can end (all listed, error, socket closed between two callbacks): the
\* BUG_ON of __domain_set_put_netlink is never met and no set stays busy
\* after its last dump.
NetlinkRefsCountDumps ==
  \A s \in Sets : ref_netlink[s] = Cardinality(HoldersOf(s))

\* A dump that keeps a set finds it again at its index, alive, in the next
\* callback and when it releases it (the lookup there takes no lock).
DumpedSetStays ==
  \A d \in Dumps :
    /\ dump[d].pc = "list" => list[dump[d].index] = dump[d].set /\ dump[d].set # NoSet
    /\ dump[d].arg0 => list[dump[d].index] # NoSet

\* The module of the set type is counted once for every set that exists and
\* cannot go while there is one.
ModulePinned ==
  /\ modref = Cardinality({s \in Sets : state[s] # "free"}
               \ {cmd[c].set : c \in {t \in Threads : cmd[t].pc = "load"}})
  /\ modref > 0 => module = "live"

\* A command works on a set that is not freed under it: the mutex is not
\* given up between the lookup and the last use.
CommandSetAlive ==
  \A c \in Threads : cmd[c].set # NoSet =>
    /\ state[cmd[c].set] # "free"
    /\ cmd[c].pc = "use" => \E i \in Slots : list[i] = cmd[c].set

\* A packet in domain_set_test has a set, and the set is not freed while the
\* packet works on it ("The set behind the index must exist and must be
\* referenced so it can't be destroyed (or changed) under our foot").
PacketSetAlive ==
  \A p \in Packets : pkt[p] # NoPkt =>
    /\ pkt[p].set # NoSet
    /\ state[pkt[p].set] # "free"

\* Name and index stay together: an index that has a set before and after a
\* step has the same name, unless the step is a rename, which then found
\* the set without references.  Rules keep matching the name they were
\* written for.
IndexKeepsName ==
  [][\A i \in Ids :
       list[i] # NoSet /\ list'[i] # NoSet /\ name'[list'[i]] # name[list[i]]
         => RulesAt(i) = {}]_vars
=============================================================================

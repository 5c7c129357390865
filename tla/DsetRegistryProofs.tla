------------------------- MODULE DsetRegistryProofs -------------------------
(***************************************************************************)
(* Theorems about DsetRegistry, for every number of sets, names, rules,    *)
(* packets, dumps and command threads, and every width of domain_set_id_t. *)
(***************************************************************************)
EXTENDS DsetRegistry, FiniteSetTheorems, TLAPS

-----------------------------------------------------------------------------
(* Types.                                                                  *)

\* A dump that is listing a set has not reached the end of its loop: the
\* index that domain_set_dump_start stores for the next callback fits into
\* domain_set_id_t.
DumpInRange == \A d \in Dumps : dump[d].pc = "list" => dump[d].index < dump[d].limit

TypeInv == TypeOK /\ DumpInRange

\* The indices have a value for DOMAIN_SET_INVALID_ID, which is none of the
\* indices of the list.
LEMMA IdFacts ==
  /\ IdLimit \in Nat /\ InvalidId \in Ids /\ 0 \in Ids
  /\ InvalidId = IdLimit - 1 /\ InvalidId > 1
  /\ \A i \in Ids : i \in Int
PROOF BY RegistryAssumption DEF InvalidId, Ids

\* The records of threads, rules, packets and dumps that are at rest have
\* their types.
LEMMA RestTypes ==
  Idle \in CmdType /\ NoRef \in RuleType /\ NoPkt \in PktType /\ NoDump \in DumpType
PROOF
  BY IdFacts DEF Idle, NoRef, NoPkt, NoDump, CmdType, RuleType, PktType, DumpType

\* The initial state has the types.
LEMMA TypeInit == Init => TypeInv
<1> SUFFICES ASSUME Init PROVE TypeInv
  OBVIOUS
<1>1. max \in 1 .. InvalidId - 1
  BY RegistryAssumption, IdFacts DEF Init
<1>2. DumpInRange
  BY DEF Init, DumpInRange, NoDump
<1> QED
  BY <1>1, <1>2, RestTypes, IdFacts DEF Init, TypeInv, TypeOK

\* An assignment to one place of a function keeps its type, wherever the
\* place is.
LEMMA ExceptType ==
  ASSUME NEW S, NEW M, NEW f \in [S -> M], NEW s, NEW y \in M
  PROVE  [f EXCEPT ![s] = y] \in [S -> M]
PROOF OBVIOUS

\* Freeing a set keeps the types of its fields.
LEMMA KfreeTypes ==
  ASSUME TypeOK, NEW s, Kfree(s)
  PROVE  /\ state' \in [Sets -> {"free", "new", "live", "dying"}]
         /\ name' \in [Sets -> Names \cup {NoName}]
         /\ ref' \in [Sets -> Int]
         /\ ref_netlink' \in [Sets -> Int]
<1>1. state' \in [Sets -> {"free", "new", "live", "dying"}]
  BY DEF TypeOK, Kfree
<1>2. name' \in [Sets -> Names \cup {NoName}]
  BY DEF TypeOK, Kfree
<1>3. ref' \in [Sets -> Int]
  BY 0 \in Int, ExceptType, Zenon DEF TypeOK, Kfree
<1>4. ref_netlink' \in [Sets -> Int]
  BY 0 \in Int, ExceptType, Zenon DEF TypeOK, Kfree
<1> QED
  BY <1>1, <1>2, <1>3, <1>4

\* The record of a thread that begins or continues a command has its type.
LEMMA CmdTypes ==
  ASSUME TypeOK, NEW c \in Threads
  PROVE  /\ \A s \in Sets \cup {NoSet}, pc \in {"load", "create", "use", "free", "all"} :
              [Idle EXCEPT !.pc = pc, !.set = s] \in CmdType
         /\ [Idle EXCEPT !.pc = "all"] \in CmdType
         /\ [cmd EXCEPT ![c].pc = "create"] \in [Threads -> CmdType]
         /\ \A i \in Ids : [cmd EXCEPT ![c].idx = i] \in [Threads -> CmdType]
         /\ cmd[c].set \in Sets \cup {NoSet} /\ cmd[c].idx \in Ids
PROOF BY IdFacts DEF TypeOK, CmdType, Idle

\* Every step of a command keeps the types.
LEMMA TypeCommand ==
  ASSUME TypeInv, NEW c \in Threads, Command(c)
  PROVE  TypeInv'
<1> USE IdFacts, RestTypes
<1>1. ASSUME NEW n \in Names, CreateStart(c, n) PROVE TypeInv'
  <2>1. PICK s \in Sets :
          /\ state' = [state EXCEPT ![s] = "new"]
          /\ name' = [name EXCEPT ![s] = n]
          /\ \/ /\ modref' = modref + 1 /\ mutex' = c
                /\ cmd' = [cmd EXCEPT ![c] = [Idle EXCEPT !.pc = "create", !.set = s]]
             \/ /\ UNCHANGED <<modref, mutex>>
                /\ cmd' = [cmd EXCEPT ![c] = [Idle EXCEPT !.pc = "load", !.set = s]]
    BY <1>1 DEF CreateStart
  <2>2. cmd' \in [Threads -> CmdType]
    <3>1. /\ [Idle EXCEPT !.pc = "create", !.set = s] \in CmdType
          /\ [Idle EXCEPT !.pc = "load", !.set = s] \in CmdType
      BY CmdTypes DEF TypeInv
    <3> QED
      BY <2>1, <3>1 DEF TypeInv, TypeOK
  <2>3. modref' \in Int /\ mutex' \in Threads \cup Dumps \cup {NoOne}
    BY <2>1 DEF TypeInv, TypeOK
  <2>4. /\ state' \in [Sets -> {"free", "new", "live", "dying"}]
        /\ name' \in [Sets -> Names \cup {NoName}]
    BY <2>1 DEF TypeInv, TypeOK
  <2> QED
    BY <1>1, <2>2, <2>3, <2>4 DEF CreateStart, TypeInv, TypeOK, DumpInRange, flags
<1>2. CASE CreateRetry(c)
  <2>1. cmd' \in [Threads -> CmdType]
    BY <1>2, CmdTypes DEF CreateRetry, TypeInv, TypeOK
  <2> QED
    BY <1>2, <2>1, KfreeTypes DEF CreateRetry, TypeInv, TypeOK, DumpInRange, flags, setvars
<1>3. CASE CreateFail(c)
  BY <1>3, KfreeTypes DEF CreateFail, TypeInv, TypeOK, DumpInRange, flags
<1>4. CASE CreateLink(c)
  <2>1. Grown \in 0 .. InvalidId
    BY RegistryAssumption DEF Grown, TypeInv, TypeOK
  <2>2. max' \in 1 .. InvalidId - 1
    BY <1>4, <2>1 DEF CreateLink, FreeSlot, TypeInv, TypeOK
  <2>3. list' \in [Ids -> Sets \cup {NoSet}]
    BY <1>4, CmdTypes DEF CreateLink, TypeInv, TypeOK
  <2> QED
    BY <1>4, <2>2, <2>3 DEF CreateLink, TypeInv, TypeOK, DumpInRange, flags, modvars
<1>5. ASSUME NEW i \in Slots, Destroy(c, i) PROVE TypeInv'
  <2>1. i \in Ids /\ list[i] \in Sets
    BY <1>5 DEF Destroy, Slots, Ids, TypeInv, TypeOK
  <2>2. cmd' \in [Threads -> CmdType]
    BY <1>5, <2>1, CmdTypes DEF Destroy, TypeInv, TypeOK
  <2> QED
    BY <1>5, <2>1, <2>2 DEF Destroy, TypeInv, TypeOK, DumpInRange, flags, modvars
<1>6. CASE DestroyFree(c)
  BY <1>6, KfreeTypes DEF DestroyFree, TypeInv, TypeOK, DumpInRange, flags
<1>7. CASE DestroyAll(c)
  <2>1. cmd' \in [Threads -> CmdType]
    BY <1>7, CmdTypes DEF DestroyAll, TypeInv, TypeOK
  <2> QED
    BY <1>7, <2>1 DEF DestroyAll, TypeInv, TypeOK, DumpInRange, setvars, modvars
<1>8. CASE DestroyAllNext(c)
  <2>1. cmd[c].idx \in Ids /\ cmd[c].idx + 1 \in Ids
    <3>1. cmd[c].idx \in Ids /\ cmd[c].idx < max
      BY <1>8, CmdTypes DEF DestroyAllNext, TypeInv
    <3>2. max \in 1 .. InvalidId - 1
      BY DEF TypeInv, TypeOK
    <3> QED
      BY <3>1, <3>2 DEF Ids
  <2>2. cmd' \in [Threads -> CmdType]
    BY <1>8, <2>1, CmdTypes DEF DestroyAllNext, TypeInv, TypeOK
  <2>3. list' \in [Ids -> Sets \cup {NoSet}] /\ modref' \in Int
    BY <1>8, <2>1 DEF DestroyAllNext, TypeInv, TypeOK
  <2> QED
    BY <1>8, <2>2, <2>3, KfreeTypes
       DEF DestroyAllNext, TypeInv, TypeOK, DumpInRange, flags, setvars
<1>9. CASE DestroyAllEnd(c)
  BY <1>9 DEF DestroyAllEnd, TypeInv, TypeOK, DumpInRange, setvars, modvars
<1>10. ASSUME NEW i \in Slots, NEW n \in Names, Rename(c, i, n) PROVE TypeInv'
  BY <1>10 DEF Rename, TypeInv, TypeOK, DumpInRange, flags, modvars
<1>11. ASSUME NEW i \in Slots, NEW j \in Slots, Swap(c, i, j) PROVE TypeInv'
  <2>1. i \in Ids /\ j \in Ids /\ list[i] \in Sets /\ list[j] \in Sets
    BY <1>11 DEF Swap, Slots, Ids, InvalidId, TypeInv, TypeOK
  <2>2. list' \in [Ids -> Sets \cup {NoSet}]
    BY <1>11, <2>1 DEF Swap, TypeInv, TypeOK
  <2>3. name' \in [Sets -> Names \cup {NoName}] /\ ref' \in [Sets -> Int]
    BY <1>11, <2>1 DEF Swap, TypeInv, TypeOK
  <2> QED
    BY <1>11, <2>2, <2>3 DEF Swap, TypeInv, TypeOK, DumpInRange, flags, modvars
<1>12. ASSUME NEW i \in Slots, UseSet(c, i) PROVE TypeInv'
  <2>1. i \in Ids /\ list[i] \in Sets
    BY <1>12 DEF UseSet, Slots, Ids, InvalidId, TypeInv, TypeOK
  <2>2. cmd' \in [Threads -> CmdType]
    BY <1>12, <2>1, CmdTypes DEF UseSet, TypeInv, TypeOK
  <2> QED
    BY <1>12, <2>2 DEF UseSet, TypeInv, TypeOK, DumpInRange, flags, setvars, modvars
<1>13. CASE UseEnd(c)
  BY <1>13 DEF UseEnd, TypeInv, TypeOK, DumpInRange, flags, setvars, modvars
<1> QED
  BY <1>1, <1>2, <1>3, <1>4, <1>5, <1>6, <1>7, <1>8, <1>9, <1>10, <1>11, <1>12,
     <1>13 DEF Command
\* Every step of a rule keeps the types.
LEMMA TypeMatch ==
  ASSUME TypeInv, NEW r \in Rules, Match(r)
  PROVE  TypeInv'
<1> USE IdFacts, RestTypes
<1>1. ASSUME NEW i \in Slots, RuleGet(r, i) PROVE TypeInv'
  <2>1. i \in Ids /\ list[i] \in Sets
    BY <1>1 DEF RuleGet, Slots, Ids, TypeInv, TypeOK
  <2>2. ref' \in [Sets -> Int]
    BY <1>1, <2>1 DEF RuleGet, TypeInv, TypeOK
  <2>3. rule' \in [Rules -> RuleType]
    BY <1>1, <2>1 DEF RuleGet, TypeInv, TypeOK, RuleType
  <2> QED
    BY <1>1, <2>2, <2>3 DEF RuleGet, TypeInv, TypeOK, DumpInRange, flags, modvars
<1>2. CASE RuleAccept(r)
  <2>1. rule' \in [Rules -> RuleType]
    BY <1>2 DEF RuleAccept, TypeInv, TypeOK, RuleType
  <2> QED
    BY <1>2, <2>1 DEF RuleAccept, TypeInv, TypeOK, DumpInRange, flags, setvars, modvars
<1>3. CASE RulePut(r)
  <2>1. rule[r].id \in Ids /\ list[rule[r].id] \in Sets \cup {NoSet}
    BY DEF TypeInv, TypeOK, RuleType
  <2>2. ref' \in [Sets -> Int]
    BY <1>3, <2>1 DEF RulePut, TypeInv, TypeOK
  <2>3. rule' \in [Rules -> RuleType]
    BY <1>3 DEF RulePut, TypeInv, TypeOK
  <2> QED
    BY <1>3, <2>2, <2>3 DEF RulePut, TypeInv, TypeOK, DumpInRange, flags, modvars
<1> QED
  BY <1>1, <1>2, <1>3 DEF Match

\* Every step of a packet keeps the types.
LEMMA TypePacket ==
  ASSUME TypeInv, NEW p \in Packets, Packet(p)
  PROVE  TypeInv'
<1> USE IdFacts, RestTypes
<1>1. ASSUME NEW r \in Rules, PacketEnter(p, r) PROVE TypeInv'
  <2>1. list[rule[r].id] \in Sets \cup {NoSet}
    BY DEF TypeInv, TypeOK, RuleType
  <2>2. pkt' \in [Packets -> PktType]
    BY <1>1, <2>1 DEF PacketEnter, TypeInv, TypeOK, PktType
  <2> QED
    BY <1>1, <2>2 DEF PacketEnter, TypeInv, TypeOK, DumpInRange, flags, setvars, modvars
<1>2. CASE PacketLeave(p)
  BY <1>2 DEF PacketLeave, TypeInv, TypeOK, DumpInRange, flags, setvars, modvars
<1> QED
  BY <1>1, <1>2 DEF Packet

\* Every step of a dump keeps the types.
LEMMA TypeDump ==
  ASSUME TypeInv, NEW d \in Dumps, Dump(d)
  PROVE  TypeInv'
<1> USE IdFacts, RestTypes
<1>a. /\ dump \in [Dumps -> DumpType] /\ dump[d] \in DumpType
      /\ dump[d].index \in Ids /\ dump[d].limit \in Ids
      /\ list[dump[d].index] \in Sets \cup {NoSet}
      /\ max \in Ids /\ max < InvalidId
  BY DEF TypeInv, TypeOK, DumpType, Ids
<1>b. ASSUME Unlock(d) PROVE mutex' \in Threads \cup Dumps \cup {NoOne}
  BY <1>b DEF Unlock, TypeInv, TypeOK
<1>c. ASSUME NEW i \in Ids, PutNetlink(i) PROVE ref_netlink' \in [Sets -> Int]
  <2>1. list[i] \in Sets \cup {NoSet}
    BY DEF TypeInv, TypeOK
  <2>2. CASE list[i] \in Sets
    BY <1>c, <2>2 DEF PutNetlink, TypeInv, TypeOK
  <2>3. CASE list[i] \notin Sets
    BY <1>c, <2>3 DEF PutNetlink, TypeInv, TypeOK
  <2> QED
    BY <2>2, <2>3
<1>1. ASSUME NEW kind \in {"one", "all"}, NEW i \in Slots, DumpStart(d, kind, i)
      PROVE TypeInv'
  <2>1. [NoDump EXCEPT !.pc = "ready", !.kind = kind, !.index = i] \in DumpType
    <3>1. i \in Ids
      BY <1>a DEF Slots, Ids
    <3> QED
      BY <3>1 DEF DumpType, NoDump
  <2>2. dump' \in [Dumps -> DumpType]
    BY <1>1, <1>a, <2>1 DEF DumpStart
  <2>3. DumpInRange'
    BY <1>1, <1>a DEF DumpStart, NoDump, DumpInRange, TypeInv
  <2> QED
    BY <1>1, <2>2, <2>3 DEF DumpStart, TypeInv, TypeOK, flags, setvars, modvars
<1>2. CASE DumpCall(d)
  <2>1. dump[d].index < max => DumpLimit(d) \in Ids
    <3>1. dump[d].index < max => dump[d].index + 1 \in Ids
      BY <1>a DEF Ids
    <3> QED
      BY <3>1, <1>a DEF DumpLimit
  <2>2. dump' \in [Dumps -> DumpType]
    BY <1>2, <1>a, <2>1 DEF DumpCall, DumpType
  <2>3. DumpInRange'
    <3> SUFFICES ASSUME NEW e \in Dumps, dump'[e].pc = "list"
                 PROVE  dump'[e].index < dump'[e].limit
      BY DEF DumpInRange
    <3>1. CASE e = d
      BY <1>2, <1>a, <3>1 DEF DumpCall, NoDump, DumpType
    <3>2. CASE e # d
      BY <1>2, <1>a, <3>2 DEF DumpCall, DumpInRange, TypeInv
    <3> QED
      BY <3>1, <3>2
  <2> QED
    BY <1>2, <1>b, <2>2, <2>3 DEF DumpCall, TypeInv, TypeOK, flags, setvars, modvars
<1>3. CASE DumpScan(d)
  <2>1. dump[d].index + 1 \in Ids
    BY <1>3, <1>a DEF DumpScan, Ids
  <2>2. dump' \in [Dumps -> DumpType]
    BY <1>3, <1>a, <2>1 DEF DumpScan, DumpType
  <2>3. DumpInRange'
    <3> SUFFICES ASSUME NEW e \in Dumps, dump'[e].pc = "list"
                 PROVE  dump'[e].index < dump'[e].limit
      BY DEF DumpInRange
    <3>1. CASE e = d
      BY <1>3, <1>a, <3>1 DEF DumpScan, NoDump, DumpType
    <3>2. CASE e # d
      BY <1>3, <1>a, <3>2 DEF DumpScan, DumpInRange, TypeInv
    <3> QED
      BY <3>1, <3>2
  <2>4. ref_netlink' \in [Sets -> Int]
    BY <1>3, <1>a DEF DumpScan, TypeInv, TypeOK
  <2> QED
    BY <1>3, <1>b, <2>2, <2>3, <2>4 DEF DumpScan, TypeInv, TypeOK, flags, modvars
<1>4. CASE DumpLast(d)
  <2>2. dump' \in [Dumps -> DumpType]
    BY <1>4, <1>a DEF DumpLast, DumpType
  <2>3. DumpInRange'
    <3> SUFFICES ASSUME NEW e \in Dumps, dump'[e].pc = "list"
                 PROVE  dump'[e].index < dump'[e].limit
      BY DEF DumpInRange
    <3>1. CASE e = d
      BY <1>4, <1>a, <3>1 DEF DumpLast, NoDump, DumpType
    <3>2. CASE e # d
      BY <1>4, <1>a, <3>2 DEF DumpLast, DumpInRange, TypeInv
    <3> QED
      BY <3>1, <3>2
  <2> QED
    BY <1>4, <1>b, <2>2, <2>3 DEF DumpLast, TypeInv, TypeOK, flags, setvars, modvars
<1>5. CASE DumpMore(d)
  <2>2. dump' \in [Dumps -> DumpType]
    BY <1>5, <1>a DEF DumpMore, DumpType
  <2>3. DumpInRange'
    BY <1>5, <1>a DEF DumpMore, DumpInRange, TypeInv
  <2> QED
    BY <1>5, <1>b, <2>2, <2>3 DEF DumpMore, TypeInv, TypeOK, flags, setvars, modvars
<1>6. CASE DumpNextSet(d)
  <2>1. dump[d].index + 1 \in Ids
    BY <1>6, <1>a DEF DumpNextSet, DumpInRange, TypeInv, Ids
  <2>2. dump' \in [Dumps -> DumpType]
    BY <1>6, <1>a, <2>1 DEF DumpNextSet, DumpType
  <2>3. DumpInRange'
    BY <1>6, <1>a DEF DumpNextSet, DumpInRange, TypeInv
  <2>4. ref_netlink' \in [Sets -> Int]
    BY <1>6, <1>a, <1>c DEF DumpNextSet
  <2> QED
    BY <1>6, <1>b, <2>2, <2>3, <2>4 DEF DumpNextSet, TypeInv, TypeOK, flags, modvars
<1>7. CASE DumpError(d)
  <2>2. dump' \in [Dumps -> DumpType]
    BY <1>7, <1>a DEF DumpError
  <2>3. DumpInRange'
    BY <1>7, <1>a DEF DumpError, NoDump, DumpInRange, TypeInv
  <2>4. ref_netlink' \in [Sets -> Int]
    BY <1>7, <1>a, <1>c DEF DumpError
  <2> QED
    BY <1>7, <1>b, <2>2, <2>3, <2>4 DEF DumpError, TypeInv, TypeOK, flags, modvars
<1>8. CASE DumpDone(d)
  <2>2. dump' \in [Dumps -> DumpType]
    BY <1>8, <1>a DEF DumpDone
  <2>3. DumpInRange'
    BY <1>8, <1>a DEF DumpDone, NoDump, DumpInRange, TypeInv
  <2>4. ref_netlink' \in [Sets -> Int]
    BY <1>8, <1>a, <1>c DEF DumpDone, TypeInv, TypeOK
  <2> QED
    BY <1>8, <2>2, <2>3, <2>4 DEF DumpDone, TypeInv, TypeOK, flags, modvars
<1> QED
  BY <1>1, <1>2, <1>3, <1>4, <1>5, <1>6, <1>7, <1>8 DEF Dump

\* The sets that domain_set_net_exit destroys are finitely many.
LEMMA GoneFinite ==
  ASSUME TypeInv, NEW gone, gone = {list[i] : i \in {j \in Slots : list[j] # NoSet}}
  PROVE  gone \subseteq Sets /\ IsFiniteSet(gone) /\ Cardinality(gone) \in Nat
<1>1. gone \subseteq Sets
  BY IdFacts DEF TypeInv, TypeOK, Slots, Ids
<1> QED
  BY <1>1, RegistryAssumption, FS_Subset, FS_CardinalityType

\* Every step keeps the types.
LEMMA TypeStep == TypeInv /\ [Next]_vars => TypeInv'
<1> SUFFICES ASSUME TypeInv, [Next]_vars PROVE TypeInv'
  OBVIOUS
<1>1. CASE LoadModule \/ StopModule \/ UnloadModule
  BY <1>1 DEF LoadModule, StopModule, UnloadModule, TypeInv, TypeOK, DumpInRange, flags,
              setvars
<1>2. CASE NetExit
  <2> DEFINE gone == {list[i] : i \in {j \in Slots : list[j] # NoSet}}
  <2>1. modref' \in Int
    BY <1>2, GoneFinite DEF NetExit, TypeInv, TypeOK
  <2>2. /\ list' \in [Ids -> Sets \cup {NoSet}]
        /\ state' \in [Sets -> {"free", "new", "live", "dying"}]
        /\ name' \in [Sets -> Names \cup {NoName}]
        /\ ref' \in [Sets -> Int]
    <3> HIDE DEF gone
    <3> QED
      BY <1>2 DEF NetExit, TypeInv, TypeOK, gone
  <2> QED
    BY <1>2, <2>1, <2>2 DEF NetExit, TypeInv, TypeOK, DumpInRange
<1>3. CASE UNCHANGED vars
  BY <1>3 DEF vars, TypeInv, TypeOK, DumpInRange, flags, setvars, modvars
<1> QED
  BY <1>1, <1>2, <1>3, TypeCommand, TypeMatch, TypePacket, TypeDump DEF Next

\* Every variable keeps its type: in particular domain_set_max stays below
\* DOMAIN_SET_INVALID_ID however often the list grows, and no index that a
\* dump or the destruction of all sets computes wraps around.
THEOREM TypeCorrect == Spec => []TypeOK
<1>1. TypeInv => TypeOK
  BY DEF TypeInv
<1> QED
  BY <1>1, TypeInit, TypeStep, PTL DEF Spec

-----------------------------------------------------------------------------
(* Names, and the sets that commands work on.                              *)

\* A thread is inside a handler exactly while it holds the nfnl mutex: a
\* create that loads the type has given it up.
MutexInv ==
  \A c \in Threads : cmd[c].pc \in {"create", "use", "free", "all"} <=> mutex = c

\* The set of a create is its own until it is linked, the set of a destroy
\* is in no list any more, and the set of any other command is in the list.
CmdInv ==
  /\ \A c \in Threads :
       /\ cmd[c].pc \in {"load", "create"} =>
            cmd[c].set \in Sets /\ state[cmd[c].set] = "new"
       /\ cmd[c].pc = "free" => cmd[c].set \in Sets /\ state[cmd[c].set] = "dying"
       /\ cmd[c].pc = "use" => \E i \in Slots : list[i] = cmd[c].set
       /\ cmd[c].pc \in {"idle", "all"} => cmd[c].set = NoSet
  /\ \A c, e \in Threads :
       /\ cmd[c].pc \in {"load", "create"} /\ cmd[e].pc \in {"load", "create"}
       /\ cmd[c].set = cmd[e].set
       => c = e

LinkInv == MutexInv /\ CmdInv /\ NamesUnique

\* LinkInv holds at first.
LEMMA LinkInit == Init => LinkInv
<1> SUFFICES ASSUME Init PROVE LinkInv
  OBVIOUS
<1>1. MutexInv
  BY RegistryAssumption DEF Init, MutexInv, Idle
<1>2. CmdInv
  BY DEF Init, CmdInv, Idle
<1>3. NamesUnique
  BY DEF Init, NamesUnique
<1> QED
  BY <1>1, <1>2, <1>3 DEF LinkInv

\* A step that leaves the sets, the list and the commands alone, and no
\* thread's hold on the mutex, keeps LinkInv.
LEMMA LinkQuiet ==
  ASSUME LinkInv, UNCHANGED <<list, max, state, name, cmd>>,
         \A c \in Threads : mutex' = c <=> mutex = c
  PROVE  LinkInv'
<1>1. MutexInv'
  BY DEF LinkInv, MutexInv
<1>2. CmdInv'
  BY DEF LinkInv, CmdInv, Slots
<1>3. NamesUnique'
  BY DEF LinkInv, NamesUnique
<1> QED
  BY <1>1, <1>2, <1>3 DEF LinkInv

\* The set at an index of the list, and what is known of it.
LEMMA Linked ==
  ASSUME TypeInv, LinkInv, NEW i \in Slots, list[i] # NoSet
  PROVE  i \in Ids /\ list[i] \in Sets /\ state[list[i]] = "live"
<1>1. i \in Ids
  BY IdFacts DEF Slots, Ids, TypeInv, TypeOK
<1> QED
  BY <1>1 DEF TypeInv, TypeOK, LinkInv, NamesUnique

\* create keeps names unique, also when the mutex was given up meanwhile.
LEMMA LinkCreate ==
  ASSUME TypeInv, LinkInv, NEW c \in Threads,
         \/ \E n \in Names : CreateStart(c, n)
         \/ CreateRetry(c) \/ CreateFail(c) \/ CreateLink(c)
  PROVE  LinkInv'
<1> USE RegistryAssumption
<1>a. /\ cmd \in [Threads -> CmdType] /\ state \in [Sets -> {"free", "new", "live", "dying"}]
      /\ name \in [Sets -> Names \cup {NoName}]
      /\ list \in [Ids -> Sets \cup {NoSet}]
  BY DEF TypeInv, TypeOK
<1>b. \A i \in Ids : list[i] # NoSet => list[i] \in Sets /\ state[list[i]] = "live"
  BY <1>a DEF LinkInv, NamesUnique
<1>1. ASSUME NEW n \in Names, CreateStart(c, n) PROVE LinkInv'
  <2>1. PICK s \in Sets :
          /\ state[s] = "free"
          /\ state' = [state EXCEPT ![s] = "new"]
          /\ name' = [name EXCEPT ![s] = n]
          /\ \/ /\ mutex' = c
                /\ cmd' = [cmd EXCEPT ![c] = [Idle EXCEPT !.pc = "create", !.set = s]]
             \/ /\ mutex' = mutex
                /\ cmd' = [cmd EXCEPT ![c] = [Idle EXCEPT !.pc = "load", !.set = s]]
    BY <1>1 DEF CreateStart
  <2>2. /\ mutex = NoOne /\ cmd[c].pc = "idle"
        /\ list' = list /\ max' = max
    BY <1>1 DEF CreateStart, CanRun
  <2>3. /\ cmd'[c].set = s /\ cmd'[c].pc \in {"load", "create"}
        /\ cmd'[c].pc = "create" <=> mutex' = c
        /\ \A e \in Threads : e # c => cmd'[e] = cmd[e] /\ mutex' # e
    BY <1>a, <2>1, <2>2 DEF Idle, LinkInv, MutexInv
  <2>4. MutexInv'
    BY <2>2, <2>3 DEF LinkInv, MutexInv
  <2>5. CmdInv'
    BY <1>a, <2>1, <2>2, <2>3 DEF LinkInv, CmdInv, Slots
  <2>6. NamesUnique'
    BY <1>a, <1>b, <2>1, <2>2 DEF LinkInv, NamesUnique
  <2> QED
    BY <2>4, <2>5, <2>6 DEF LinkInv
<1>2. CASE CreateRetry(c)
  <2>1. cmd[c].pc = "load" /\ mutex = NoOne /\ list' = list /\ max' = max
    BY <1>2 DEF CreateRetry
  <2>2. cmd[c].set \in Sets /\ state[cmd[c].set] = "new"
    BY <2>1 DEF LinkInv, CmdInv
  <2>3. CASE /\ mutex' = c /\ cmd' = [cmd EXCEPT ![c].pc = "create"]
             /\ UNCHANGED setvars
    <3>1. MutexInv'
      BY <1>a, <2>1, <2>3 DEF LinkInv, MutexInv, CmdType
    <3>2. CmdInv'
      BY <1>a, <2>1, <2>2, <2>3 DEF LinkInv, CmdInv, Slots, CmdType, setvars
    <3>3. NamesUnique'
      BY <2>1, <2>3 DEF LinkInv, NamesUnique, setvars
    <3> QED
      BY <3>1, <3>2, <3>3 DEF LinkInv
  <2>4. CASE /\ Kfree(cmd[c].set) /\ cmd' = [cmd EXCEPT ![c] = Idle]
             /\ UNCHANGED mutex
    <3>1. MutexInv'
      BY <1>a, <2>1, <2>4 DEF LinkInv, MutexInv, Idle
    <3>2. CmdInv'
      BY <1>a, <2>1, <2>2, <2>4 DEF LinkInv, CmdInv, Slots, Idle, Kfree
    <3>3. NamesUnique'
      BY <1>a, <1>b, <2>1, <2>2, <2>4 DEF LinkInv, NamesUnique, Kfree
    <3> QED
      BY <3>1, <3>2, <3>3 DEF LinkInv
  <2> QED
    BY <1>2, <2>3, <2>4 DEF CreateRetry
<1>3. CASE CreateFail(c)
  <2>1. /\ cmd[c].pc = "create" /\ list' = list /\ max' = max
        /\ mutex' = NoOne /\ cmd' = [cmd EXCEPT ![c] = Idle]
    BY <1>3 DEF CreateFail
  <2>2. cmd[c].set \in Sets /\ state[cmd[c].set] = "new" /\ mutex = c
    BY <2>1 DEF LinkInv, CmdInv, MutexInv
  <2>3. MutexInv'
    BY <1>a, <2>1, <2>2 DEF LinkInv, MutexInv, Idle
  <2>4. CmdInv'
    BY <1>a, <1>3, <2>1, <2>2 DEF CreateFail, LinkInv, CmdInv, Slots, Idle, Kfree
  <2>5. NamesUnique'
    BY <1>a, <1>b, <1>3, <2>1, <2>2 DEF CreateFail, LinkInv, NamesUnique, Kfree
  <2> QED
    BY <2>3, <2>4, <2>5 DEF LinkInv
<1>4. CASE CreateLink(c)
  <2> DEFINE s == cmd[c].set
  <2>1. /\ cmd[c].pc = "create"
        /\ state' = [state EXCEPT ![s] = "live"] /\ name' = name
        /\ mutex' = NoOne /\ cmd' = [cmd EXCEPT ![c] = Idle]
    BY <1>4 DEF CreateLink
  <2>2. s \in Sets /\ state[s] = "new" /\ mutex = c
    BY <2>1 DEF LinkInv, CmdInv, MutexInv
  <2>3. PICK i \in Ids : FreeSlot(i) /\ list' = [list EXCEPT ![i] = s]
    BY <1>4 DEF CreateLink
  <2>4. /\ list[i] = NoSet /\ i < max' /\ max <= max'
        /\ max \in Int /\ max' \in Int
    <3>1. max \in Int /\ max' \in Int /\ (\A j \in Ids : list[j] # NoSet => j < max)
      BY RegistryAssumption, <2>3, IdFacts DEF FreeSlot, Grown, TypeInv, TypeOK, LinkInv, NamesUnique
    <3>2. Inc \in Nat /\ Inc > 0 /\ Inc < IdLimit /\ max \in 1 .. IdLimit - 2
      BY RegistryAssumption DEF TypeInv, TypeOK, InvalidId
    <3>3. Grown # max
      BY <3>2, RegistryAssumption DEF Grown
    <3> QED
      BY <2>3, <3>1, <3>2, <3>3 DEF FreeSlot, Grown
  <2>5. \A j \in Ids : list[j] # NoSet => name[list[j]] # name[s]
    BY <1>4 DEF CreateLink, Bears, Slots, Ids, LinkInv, NamesUnique, TypeInv, TypeOK
  <2>6. MutexInv'
    BY <1>a, <2>1, <2>2 DEF LinkInv, MutexInv, Idle
  <2>7. CmdInv'
    BY <1>a, <2>1, <2>2 DEF LinkInv, MutexInv, CmdInv, Slots, Idle
  <2>8. NamesUnique'
    <3>1. \A j \in Ids : list'[j] # NoSet => j < max' /\ state'[list'[j]] = "live"
      <4> SUFFICES ASSUME NEW j \in Ids, list'[j] # NoSet
                   PROVE  j < max' /\ state'[list'[j]] = "live"
        OBVIOUS
      <4>1. CASE j = i
        BY <1>a, <2>1, <2>2, <2>3, <2>4, <4>1
      <4>2. CASE j # i
        <5>1. list'[j] = list[j] /\ j < max /\ state[list[j]] = "live" /\ list[j] \in Sets
          BY <1>a, <1>b, <2>3, <4>2 DEF LinkInv, NamesUnique
        <5> QED
          BY <1>a, <2>1, <2>2, <2>4, <5>1, IdFacts
      <4> QED
        BY <4>1, <4>2
    <3>2. ASSUME NEW j \in Ids, NEW k \in Ids, list'[j] # NoSet, list'[k] # NoSet,
                 list'[j] = list'[k] \/ name'[list'[j]] = name'[list'[k]]
          PROVE  j = k
      BY <1>a, <1>b, <2>1, <2>2, <2>3, <2>5, <3>2 DEF LinkInv, NamesUnique
    <3> QED
      BY <3>1, <3>2 DEF NamesUnique
  <2> QED
    BY <2>6, <2>7, <2>8 DEF LinkInv
<1> QED
  BY <1>1, <1>2, <1>3, <1>4

\* destroy of one set and of all sets keeps names unique.
LEMMA LinkDestroy ==
  ASSUME TypeInv, LinkInv, NEW c \in Threads,
         \/ \E i \in Slots : Destroy(c, i)
         \/ DestroyFree(c) \/ DestroyAll(c) \/ DestroyAllNext(c) \/ DestroyAllEnd(c)
  PROVE  LinkInv'
<1> USE RegistryAssumption
<1>a. /\ cmd \in [Threads -> CmdType] /\ state \in [Sets -> {"free", "new", "live", "dying"}]
      /\ name \in [Sets -> Names \cup {NoName}]
      /\ list \in [Ids -> Sets \cup {NoSet}]
  BY DEF TypeInv, TypeOK
<1>b. \A i \in Ids : list[i] # NoSet => list[i] \in Sets /\ state[list[i]] = "live"
  BY <1>a DEF LinkInv, NamesUnique
<1>1. ASSUME NEW i \in Slots, Destroy(c, i) PROVE LinkInv'
  <2>1. /\ mutex = NoOne /\ cmd[c].pc = "idle" /\ list[i] # NoSet
        /\ list' = [list EXCEPT ![i] = NoSet] /\ max' = max /\ name' = name
        /\ state' = [state EXCEPT ![list[i]] = "dying"]
        /\ mutex' = c
        /\ cmd' = [cmd EXCEPT ![c] = [Idle EXCEPT !.pc = "free", !.set = list[i]]]
    BY <1>1 DEF Destroy, CanRun
  <2>2. i \in Ids /\ list[i] \in Sets /\ state[list[i]] = "live"
    BY <2>1, Linked
  <2>3. MutexInv'
    BY <1>a, <2>1 DEF LinkInv, MutexInv, Idle
  <2>4. CmdInv'
    BY <1>a, <2>1, <2>2 DEF LinkInv, MutexInv, CmdInv, Slots, Idle
  <2>5. NamesUnique'
    BY <1>a, <1>b, <2>1, <2>2 DEF LinkInv, NamesUnique
  <2> QED
    BY <2>3, <2>4, <2>5 DEF LinkInv
<1>2. CASE DestroyFree(c)
  <2>1. /\ cmd[c].pc = "free" /\ list' = list /\ max' = max
        /\ mutex' = NoOne /\ cmd' = [cmd EXCEPT ![c] = Idle]
    BY <1>2 DEF DestroyFree
  <2>2. cmd[c].set \in Sets /\ state[cmd[c].set] = "dying" /\ mutex = c
    BY <2>1 DEF LinkInv, CmdInv, MutexInv
  <2>3. MutexInv'
    BY <1>a, <2>1, <2>2 DEF LinkInv, MutexInv, Idle
  <2>4. CmdInv'
    BY <1>a, <1>2, <2>1, <2>2 DEF DestroyFree, LinkInv, MutexInv, CmdInv, Slots, Idle, Kfree
  <2>5. NamesUnique'
    BY <1>a, <1>b, <1>2, <2>1, <2>2 DEF DestroyFree, LinkInv, NamesUnique, Kfree
  <2> QED
    BY <2>3, <2>4, <2>5 DEF LinkInv
<1>3. CASE DestroyAll(c)
  <2>1. /\ mutex = NoOne /\ cmd[c].pc = "idle"
        /\ UNCHANGED <<list, max, state, name>>
        /\ mutex' = c /\ cmd' = [cmd EXCEPT ![c] = [Idle EXCEPT !.pc = "all"]]
    BY <1>3 DEF DestroyAll, CanRun, setvars
  <2>2. MutexInv'
    BY <1>a, <2>1 DEF LinkInv, MutexInv, Idle
  <2>3. CmdInv'
    BY <1>a, <2>1 DEF LinkInv, CmdInv, Slots, Idle
  <2>4. NamesUnique'
    BY <2>1 DEF LinkInv, NamesUnique
  <2> QED
    BY <2>2, <2>3, <2>4 DEF LinkInv
<1>4. CASE DestroyAllNext(c)
  <2> DEFINE i == cmd[c].idx
  <2>1. /\ cmd[c].pc = "all" /\ i < max /\ mutex' = mutex /\ max' = max
        /\ cmd' = [cmd EXCEPT ![c].idx = i + 1]
    BY <1>4 DEF DestroyAllNext
  <2>2. /\ \A e \in Threads : cmd'[e].pc = cmd[e].pc /\ cmd'[e].set = cmd[e].set
        /\ mutex = c /\ i \in Ids /\ i \in Slots
    BY <1>a, <2>1, IdFacts DEF LinkInv, MutexInv, CmdType, Ids, Slots, TypeInv, TypeOK
  <2>3. MutexInv'
    BY <2>1, <2>2 DEF LinkInv, MutexInv
  <2>4. CASE list[i] = NoSet /\ UNCHANGED <<list, setvars>>
    <3>1. CmdInv'
      BY <2>1, <2>2, <2>4 DEF LinkInv, CmdInv, Slots, setvars
    <3>2. NamesUnique'
      BY <2>1, <2>4 DEF LinkInv, NamesUnique, setvars
    <3> QED
      BY <2>3, <3>1, <3>2 DEF LinkInv
  <2>5. CASE list[i] # NoSet /\ list' = [list EXCEPT ![i] = NoSet] /\ Kfree(list[i])
    <3>1. list[i] \in Sets /\ state[list[i]] = "live"
      BY <1>b, <2>2, <2>5
    <3>2. CmdInv'
      BY <1>a, <2>1, <2>2, <2>5, <3>1 DEF LinkInv, MutexInv, CmdInv, Slots, Kfree
    <3>3. NamesUnique'
      BY <1>a, <1>b, <2>1, <2>2, <2>5, <3>1 DEF LinkInv, NamesUnique, Kfree
    <3> QED
      BY <2>3, <3>2, <3>3 DEF LinkInv
  <2> QED
    BY <1>4, <2>4, <2>5 DEF DestroyAllNext
<1>5. CASE DestroyAllEnd(c)
  <2>1. /\ cmd[c].pc = "all" /\ UNCHANGED <<list, max, state, name>>
        /\ mutex' = NoOne /\ cmd' = [cmd EXCEPT ![c] = Idle]
    BY <1>5 DEF DestroyAllEnd, setvars
  <2>2. MutexInv'
    BY <1>a, <2>1 DEF LinkInv, MutexInv, Idle
  <2>3. CmdInv'
    BY <1>a, <2>1 DEF LinkInv, CmdInv, Slots, Idle
  <2>4. NamesUnique'
    BY <2>1 DEF LinkInv, NamesUnique
  <2> QED
    BY <2>2, <2>3, <2>4 DEF LinkInv
<1> QED
  BY <1>1, <1>2, <1>3, <1>4, <1>5

\* rename, swap and the commands that use a set keep names unique.
LEMMA LinkOther ==
  ASSUME TypeInv, LinkInv, NEW c \in Threads,
         \/ \E i \in Slots, n \in Names : Rename(c, i, n)
         \/ \E i, j \in Slots : Swap(c, i, j)
         \/ \E i \in Slots : UseSet(c, i)
         \/ UseEnd(c)
  PROVE  LinkInv'
<1> USE RegistryAssumption
<1>a. /\ cmd \in [Threads -> CmdType] /\ state \in [Sets -> {"free", "new", "live", "dying"}]
      /\ name \in [Sets -> Names \cup {NoName}]
      /\ list \in [Ids -> Sets \cup {NoSet}]
  BY DEF TypeInv, TypeOK
<1>b. \A i \in Ids : list[i] # NoSet => list[i] \in Sets /\ state[list[i]] = "live"
  BY <1>a DEF LinkInv, NamesUnique
<1>1. ASSUME NEW i \in Slots, NEW n \in Names, Rename(c, i, n) PROVE LinkInv'
  <2>1. /\ list[i] # NoSet /\ name' = [name EXCEPT ![list[i]] = n]
        /\ UNCHANGED <<list, max, state, mutex, cmd>>
    BY <1>1 DEF Rename
  <2>2. \A j \in Ids : list[j] # NoSet => name[list[j]] # n
    BY <1>1 DEF Rename, Bears, Slots, Ids, LinkInv, NamesUnique, TypeInv, TypeOK
  <2>3. i \in Ids /\ list[i] \in Sets
    BY <2>1, Linked
  <2>4. MutexInv' /\ CmdInv'
    BY <2>1 DEF LinkInv, MutexInv, CmdInv, Slots
  <2>5. NamesUnique'
    BY <1>a, <1>b, <2>1, <2>2, <2>3 DEF LinkInv, NamesUnique
  <2> QED
    BY <2>4, <2>5 DEF LinkInv
<1>2. ASSUME NEW i \in Slots, NEW j \in Slots, Swap(c, i, j) PROVE LinkInv'
  <2>1. /\ list[i] # NoSet /\ list[j] # NoSet /\ mutex = NoOne
        /\ name' = [name EXCEPT ![list[i]] = name[list[j]], ![list[j]] = name[list[i]]]
        /\ list' = [list EXCEPT ![i] = list[j], ![j] = list[i]]
        /\ UNCHANGED <<max, state, mutex, cmd>>
    BY <1>2 DEF Swap, CanRun
  <2>2. /\ i \in Ids /\ j \in Ids /\ list[i] \in Sets /\ list[j] \in Sets
        /\ i < max /\ j < max
    BY <2>1, Linked DEF LinkInv, NamesUnique
  <2>3. MutexInv'
    BY <2>1 DEF LinkInv, MutexInv
  <2>4. CmdInv'
    BY <2>1 DEF LinkInv, MutexInv, CmdInv, Slots
  <2>5. \A k \in Ids : /\ list'[k] # NoSet <=> list[k] # NoSet
                       /\ list[k] # NoSet => /\ list'[k] \in Sets
                                             /\ state'[list'[k]] = "live"
                                             /\ name'[list'[k]] = name[list[k]]
    BY <1>a, <1>b, <2>1, <2>2 DEF LinkInv, NamesUnique
  <2>6. NamesUnique'
    BY <1>a, <1>b, <2>1, <2>5 DEF LinkInv, NamesUnique
  <2> QED
    BY <2>3, <2>4, <2>6 DEF LinkInv
<1>3. ASSUME NEW i \in Slots, UseSet(c, i) PROVE LinkInv'
  <2>1. /\ mutex = NoOne /\ cmd[c].pc = "idle" /\ list[i] # NoSet
        /\ UNCHANGED <<list, max, state, name>>
        /\ mutex' = c
        /\ cmd' = [cmd EXCEPT ![c] = [Idle EXCEPT !.pc = "use", !.set = list[i]]]
    BY <1>3 DEF UseSet, CanRun, setvars
  <2>2. MutexInv'
    BY <1>a, <2>1 DEF LinkInv, MutexInv, Idle
  <2>3. CmdInv'
    BY <1>a, <2>1 DEF LinkInv, CmdInv, Slots, Idle
  <2>4. NamesUnique'
    BY <2>1 DEF LinkInv, NamesUnique
  <2> QED
    BY <2>2, <2>3, <2>4 DEF LinkInv
<1>4. CASE UseEnd(c)
  <2>1. /\ cmd[c].pc = "use" /\ UNCHANGED <<list, max, state, name>>
        /\ mutex' = NoOne /\ cmd' = [cmd EXCEPT ![c] = Idle]
    BY <1>4 DEF UseEnd, setvars
  <2>2. MutexInv'
    BY <1>a, <2>1 DEF LinkInv, MutexInv, Idle
  <2>3. CmdInv'
    BY <1>a, <2>1 DEF LinkInv, CmdInv, Slots, Idle
  <2>4. NamesUnique'
    BY <2>1 DEF LinkInv, NamesUnique
  <2> QED
    BY <2>2, <2>3, <2>4 DEF LinkInv
<1> QED
  BY <1>1, <1>2, <1>3, <1>4

\* The end of the namespace empties the list.
LEMMA LinkNetExit ==
  ASSUME TypeInv, LinkInv, NetExit
  PROVE  LinkInv'
<1>1. UNCHANGED <<max, mutex, cmd>> /\ \A c \in Threads : cmd[c] = Idle
  BY DEF NetExit
<1>2. list' = [i \in Ids |-> NoSet]
  BY DEF NetExit
<1>3. MutexInv'
  BY <1>1 DEF LinkInv, MutexInv
<1>4. CmdInv'
  BY <1>1 DEF CmdInv, Idle
<1>5. NamesUnique'
  BY <1>2 DEF NamesUnique
<1> QED
  BY <1>3, <1>4, <1>5 DEF LinkInv

\* Every step keeps LinkInv.
LEMMA LinkStep == TypeInv /\ LinkInv /\ [Next]_vars => LinkInv'
<1> SUFFICES ASSUME TypeInv, LinkInv, [Next]_vars PROVE LinkInv'
  OBVIOUS
<1>1. CASE LoadModule \/ StopModule \/ UnloadModule
  BY <1>1, LinkQuiet DEF LoadModule, StopModule, UnloadModule, setvars
<1>2. ASSUME NEW c \in Threads, Command(c) PROVE LinkInv'
  BY <1>2, LinkCreate, LinkDestroy, LinkOther DEF Command
<1>3. ASSUME NEW r \in Rules, Match(r) PROVE LinkInv'
  BY <1>3, LinkQuiet DEF Match, RuleGet, RuleAccept, RulePut, setvars
<1>4. ASSUME NEW p \in Packets, Packet(p) PROVE LinkInv'
  BY <1>4, LinkQuiet DEF Packet, PacketEnter, PacketLeave, setvars
<1>5. ASSUME NEW d \in Dumps, Dump(d) PROVE LinkInv'
  <2>1. UNCHANGED <<list, max, state, name, cmd>>
    BY <1>5 DEF Dump, DumpStart, DumpCall, DumpScan, DumpLast, DumpMore, DumpNextSet,
                DumpError, DumpDone, setvars
  <2>2. \/ mutex' = mutex
        \/ mutex \in {NoOne, d} /\ mutex' \in {NoOne, d}
    BY <1>5 DEF Dump, DumpStart, DumpCall, DumpScan, DumpLast, DumpMore, DumpNextSet,
                DumpError, DumpDone, Unlock
  <2>3. \A c \in Threads : c # NoOne /\ c # d
    BY RegistryAssumption
  <2> QED
    BY <2>1, <2>2, <2>3, LinkQuiet
<1>6. CASE NetExit
  BY <1>6, LinkNetExit
<1>7. CASE UNCHANGED vars
  BY <1>7, LinkQuiet DEF vars, setvars
<1> QED
  BY <1>1, <1>2, <1>3, <1>4, <1>5, <1>6, <1>7 DEF Next

\* The names in domain_set_list are unique and find_set finds the one live
\* set that bears the name, whatever commands, dumps, rules and module
\* loads interleave.
THEOREM NamesStayUnique == Spec => []NamesUnique
<1>1. LinkInv => NamesUnique
  BY DEF LinkInv
<1> QED
  BY <1>1, TypeInit, TypeStep, LinkInit, LinkStep, PTL DEF Spec

\* A command never works on a set that was freed under it, although create
\* gives the mutex up while it owns a set.
THEOREM CommandsWorkOnLiveSets == Spec => []CommandSetAlive
<1>1. TypeInv /\ LinkInv => CommandSetAlive
  <2> SUFFICES ASSUME TypeInv, LinkInv, NEW c \in Threads, cmd[c].set # NoSet
               PROVE  /\ state[cmd[c].set] # "free"
                      /\ cmd[c].pc = "use" => \E i \in Slots : list[i] = cmd[c].set
    BY DEF CommandSetAlive
  <2>1. cmd[c].pc \in {"load", "create", "use", "free"}
    BY DEF LinkInv, CmdInv, TypeInv, TypeOK, CmdType
  <2>2. CASE cmd[c].pc = "use"
    BY <2>2, Linked DEF LinkInv, CmdInv
  <2>3. CASE cmd[c].pc # "use"
    BY <2>1, <2>3 DEF LinkInv, CmdInv
  <2> QED
    BY <2>2, <2>3
<1> QED
  BY <1>1, TypeInit, TypeStep, LinkInit, LinkStep, PTL DEF Spec

-----------------------------------------------------------------------------
(* References.                                                             *)

\* Only a set of the list is referenced by rules, and none is while all
\* sets are being destroyed: domain_set_nfnl_get_byindex waits for the
\* mutex.
RefInv ==
  /\ RefsCountRules
  /\ \A s \in Sets : state[s] # "live" => ref[s] = 0
  /\ \A c \in Threads : cmd[c].pc = "all" =>
       \A i \in Slots : list[i] # NoSet => ref[list[i]] = 0

\* The rules at an index are finitely many, and no index of the list is
\* that of a rule at rest.
LEMMA RulesAtFacts ==
  ASSUME TypeInv, NEW i \in Slots
  PROVE  /\ IsFiniteSet(RulesAt(i)) /\ Cardinality(RulesAt(i)) \in Nat
         /\ i \in Ids /\ i # InvalidId
         /\ Cardinality(RulesAt(i)) = 0 <=> RulesAt(i) = {}
         /\ \A r \in RulesAt(i) : rule[r] # NoRef
<1>1. IsFiniteSet(RulesAt(i))
  BY RegistryAssumption, FS_Subset DEF RulesAt
<1>2. i \in Ids /\ i # InvalidId
  BY IdFacts DEF Slots, Ids, TypeInv, TypeOK
<1> QED
  BY <1>1, <1>2, FS_CardinalityType, FS_EmptySet DEF RulesAt, NoRef

\* RefInv holds at first.
LEMMA RefInit == Init => RefInv
<1> SUFFICES ASSUME Init PROVE RefInv
  OBVIOUS
<1>1. \A i \in Slots : list[i] = NoSet
  BY RegistryAssumption, IdFacts DEF Init, Slots, Ids
<1>2. RefsCountRules
  BY <1>1 DEF Init, RefsCountRules
<1> QED
  BY <1>1, <1>2 DEF Init, RefInv

\* A step that leaves the list, the sets, the rules and the commands alone
\* keeps RefInv.
LEMMA RefQuiet ==
  ASSUME RefInv, UNCHANGED <<list, max, is_deleted, state, ref, rule, cmd>>
  PROVE  RefInv'
<1>1. RefsCountRules'
  BY DEF RefInv, RefsCountRules, RulesAt, Slots
<1> QED
  BY <1>1 DEF RefInv, Slots

\* An index below the length of the list is not DOMAIN_SET_INVALID_ID.
LEMMA IndexBelow ==
  ASSUME NEW m, m \in 1 .. InvalidId - 1
  PROVE  \A j \in 0 .. m - 1 : j \in Ids /\ j # InvalidId
PROOF BY IdFacts DEF Ids

\* create: the new index had no rule, the new set has no reference.
LEMMA RefCreate ==
  ASSUME TypeInv, TypeInv', LinkInv, RefInv, NEW c \in Threads,
         \/ \E n \in Names : CreateStart(c, n)
         \/ CreateRetry(c) \/ CreateFail(c) \/ CreateLink(c)
  PROVE  RefInv'
<1>a. /\ cmd \in [Threads -> CmdType] /\ state \in [Sets -> {"free", "new", "live", "dying"}]
      /\ ref \in [Sets -> Int] /\ list \in [Ids -> Sets \cup {NoSet}]
  BY DEF TypeInv, TypeOK
<1>b. ASSUME NEW s \in Sets, state[s] = "new", Kfree(s),
             UNCHANGED <<list, max, is_deleted, rule>>,
             cmd' = [cmd EXCEPT ![c] = Idle]
      PROVE  RefInv'
  <2>1. \A i \in Slots : list[i] # NoSet => ref'[list[i]] = ref[list[i]]
    BY <1>a, <1>b, Linked DEF Kfree
  <2>2. RefsCountRules'
    BY <1>b, <2>1 DEF RefInv, RefsCountRules, RulesAt, Slots
  <2>3. \A t \in Sets : state'[t] # "live" => ref'[t] = 0
    BY <1>a, <1>b DEF Kfree, RefInv
  <2>4. \A e \in Threads : cmd'[e].pc = "all" => cmd[e].pc = "all"
    BY <1>a, <1>b DEF Idle
  <2> QED
    BY <1>b, <2>1, <2>2, <2>3, <2>4 DEF RefInv, Slots
<1>1. ASSUME NEW n \in Names, CreateStart(c, n) PROVE RefInv'
  <2>1. /\ UNCHANGED <<list, max, is_deleted, ref, rule>>
        /\ \E s \in Sets : state[s] = "free" /\ state' = [state EXCEPT ![s] = "new"]
    BY <1>1 DEF CreateStart, flags
  <2>2. \A e \in Threads : cmd'[e].pc = "all" => cmd[e].pc = "all"
    <3>1. \E s \in Sets, pc \in {"create", "load"} :
             cmd' = [cmd EXCEPT ![c] = [Idle EXCEPT !.pc = pc, !.set = s]]
      BY <1>1 DEF CreateStart
    <3> QED
      BY <1>a, <3>1 DEF Idle
  <2>3. RefsCountRules'
    BY <2>1 DEF RefInv, RefsCountRules, RulesAt, Slots
  <2>4. \A t \in Sets : state'[t] # "live" => ref'[t] = 0
    BY <1>a, <2>1 DEF RefInv
  <2> QED
    BY <2>1, <2>2, <2>3, <2>4 DEF RefInv, Slots
<1>2. CASE CreateRetry(c)
  <2>1. cmd[c].set \in Sets /\ state[cmd[c].set] = "new"
    BY <1>2 DEF CreateRetry, LinkInv, CmdInv
  <2>2. CASE cmd' = [cmd EXCEPT ![c].pc = "create"] /\ UNCHANGED setvars
    <3>1. \A e \in Threads : cmd'[e].pc = "all" => cmd[e].pc = "all"
      BY <1>a, <2>2 DEF CmdType
    <3>2. UNCHANGED <<list, max, is_deleted, state, ref, rule>>
      BY <1>2, <2>2 DEF CreateRetry, flags, setvars
    <3>3. RefsCountRules'
      BY <3>2 DEF RefInv, RefsCountRules, RulesAt, Slots
    <3> QED
      BY <3>1, <3>2, <3>3 DEF RefInv, Slots
  <2>3. CASE Kfree(cmd[c].set) /\ cmd' = [cmd EXCEPT ![c] = Idle]
    BY <1>2, <1>b, <2>1, <2>3 DEF CreateRetry, flags
  <2> QED
    BY <1>2, <2>2, <2>3 DEF CreateRetry
<1>3. CASE CreateFail(c)
  <2>1. cmd[c].set \in Sets /\ state[cmd[c].set] = "new"
    BY <1>3 DEF CreateFail, LinkInv, CmdInv
  <2> QED
    BY <1>3, <1>b, <2>1 DEF CreateFail, flags
<1>4. CASE CreateLink(c)
  <2> DEFINE s == cmd[c].set
  <2>1. s \in Sets /\ state[s] = "new" /\ ref[s] = 0
    BY <1>4 DEF CreateLink, LinkInv, CmdInv, RefInv
  <2>2. PICK i \in Ids : FreeSlot(i) /\ list' = [list EXCEPT ![i] = s]
    BY <1>4 DEF CreateLink
  <2>3. /\ state' = [state EXCEPT ![s] = "live"]
        /\ cmd' = [cmd EXCEPT ![c] = Idle]
        /\ UNCHANGED <<is_deleted, ref, rule>>
    BY <1>4 DEF CreateLink, flags
  <2>4. /\ list[i] = NoSet /\ max' \in Int /\ max \in Int /\ max <= max'
        /\ (\A j \in Ids : list[j] # NoSet => j < max)
    BY <2>2, IdFacts DEF FreeSlot, LinkInv, NamesUnique, TypeInv, TypeOK
  <2>5. \A j \in 0 .. max' - 1 : j \in Ids /\ j # InvalidId
    <3>1. max' \in 1 .. InvalidId - 1
      BY DEF TypeInv, TypeOK
    <3> QED
      BY <3>1, IndexBelow
  <2>6. RefsCountRules'
    <3> SUFFICES ASSUME ~is_deleted PROVE RefsCountRules'
      BY <2>3 DEF RefsCountRules
    <3>1. ASSUME NEW r \in Rules, rule'[r] # NoRef
          PROVE  rule'[r].id < max' /\ list'[rule'[r].id] # NoSet
      <4>1. rule[r].id \in Ids /\ rule[r].id < max /\ list[rule[r].id] # NoSet
        BY <2>3, <3>1 DEF RefInv, RefsCountRules, TypeInv, TypeOK, RuleType
      <4> QED
        <5> HIDE DEF s
        <5>0. s # NoSet /\ list \in [Ids -> Sets \cup {NoSet}]
          BY <2>1, RegistryAssumption DEF TypeInv, TypeOK
        <5>1. list'[rule[r].id] # NoSet
          <6>1. list'[rule[r].id] = IF rule[r].id = i THEN s ELSE list[rule[r].id]
            BY <2>2, <4>1, <5>0, Zenon
          <6> QED
            BY <4>1, <5>0, <6>1
        <5>2. rule[r].id < max'
          <6>1. rule[r].id \in Int /\ rule[r].id < max
            BY <4>1, IdFacts
          <6>2. max' \in Int /\ max \in Int /\ max <= max'
            BY <2>4
          <6> QED
            BY <6>1, <6>2
        <5> QED
          BY <2>3, <5>1, <5>2
    <3>2. ASSUME NEW j \in 0 .. max' - 1, list'[j] # NoSet
          PROVE  ref'[list'[j]] = Cardinality(RulesAt(j)')
      <4>1. RulesAt(j)' = RulesAt(j)
        BY <2>3 DEF RulesAt
      <4>2. CASE j = i
        <5>1. RulesAt(j) = {}
          <6>1. j # InvalidId /\ list[j] = NoSet
            BY <4>2, <2>4, <2>5
          <6> QED
            BY <6>1 DEF RulesAt, RefInv, RefsCountRules, NoRef
        <5>2. list'[j] = s
          BY <1>a, <2>2, <4>2
        <5> QED
          BY <2>1, <2>3, <4>1, <5>1, <5>2, FS_EmptySet
      <4>3. CASE j # i
        <5>1. list'[j] = list[j] /\ j < max
          BY <1>a, <2>2, <2>4, <2>5, <3>2, <4>3
        <5>2. j \in Slots
          BY <2>4, <5>1 DEF Slots
        <5> QED
          BY <2>3, <3>2, <4>1, <5>1, <5>2 DEF RefInv, RefsCountRules
      <4> QED
        BY <4>2, <4>3
    <3> QED
      BY <3>1, <3>2 DEF RefsCountRules, Slots
  <2>7. \A t \in Sets : state'[t] # "live" => ref'[t] = 0
    BY <1>a, <2>1, <2>3 DEF RefInv
  <2>8. \A e \in Threads : cmd'[e].pc # "all"
    <3>1. mutex = c /\ cmd[c].pc # "all"
      BY <1>4 DEF CreateLink, LinkInv, MutexInv
    <3> QED
      BY <1>a, <2>3, <3>1 DEF LinkInv, MutexInv, Idle
  <2> QED
    BY <2>6, <2>7, <2>8 DEF RefInv
<1> QED
  BY <1>1, <1>2, <1>3, <1>4

\* Taking a set without references out of the list loses no reference.
LEMMA RefUnlink ==
  ASSUME TypeInv, LinkInv, RefInv, NEW i \in Slots, list[i] # NoSet, ref[list[i]] = 0,
         list' = [list EXCEPT ![i] = NoSet], ref' = [ref EXCEPT ![list[i]] = 0],
         UNCHANGED <<max, is_deleted, rule>>
  PROVE  RefsCountRules'
<1>1. list \in [Ids -> Sets \cup {NoSet}] /\ ref \in [Sets -> Int]
  BY DEF TypeInv, TypeOK
<1>2. i \in Ids /\ list[i] \in Sets
  BY Linked
<1> SUFFICES ASSUME ~is_deleted PROVE RefsCountRules'
  BY DEF RefsCountRules
<1>3. RulesAt(i) = {}
  BY RulesAtFacts DEF RefInv, RefsCountRules
<1>4. ASSUME NEW r \in Rules, rule'[r] # NoRef
      PROVE  rule'[r].id < max' /\ list'[rule'[r].id] # NoSet
  <2>1. rule[r].id \in Ids /\ rule[r].id < max /\ list[rule[r].id] # NoSet
    BY <1>4 DEF RefInv, RefsCountRules, TypeInv, TypeOK, RuleType
  <2>2. rule[r].id # i
    BY <1>3 DEF RulesAt
  <2> QED
    BY <1>1, <1>2, <2>1, <2>2
<1>5. ASSUME NEW j \in Slots, list'[j] # NoSet
      PROVE  ref'[list'[j]] = Cardinality(RulesAt(j)')
  <2>1. j # i /\ list'[j] = list[j] /\ list[j] # list[i]
    BY <1>1, <1>2, <1>5, RulesAtFacts, RegistryAssumption DEF LinkInv, NamesUnique
  <2>2. ref'[list[j]] = ref[list[j]]
    BY <1>1, <1>2, <2>1, RulesAtFacts
  <2>3. RulesAt(j)' = RulesAt(j)
    BY DEF RulesAt
  <2> QED
    BY <1>5, <2>1, <2>2, <2>3 DEF RefInv, RefsCountRules
<1> QED
  BY <1>4, <1>5 DEF RefsCountRules, Slots

\* destroy: only a set without references goes.
LEMMA RefDestroy ==
  ASSUME TypeInv, LinkInv, RefInv, NEW c \in Threads,
         \/ \E i \in Slots : Destroy(c, i)
         \/ DestroyFree(c) \/ DestroyAll(c) \/ DestroyAllNext(c) \/ DestroyAllEnd(c)
  PROVE  RefInv'
<1>a. /\ cmd \in [Threads -> CmdType] /\ state \in [Sets -> {"free", "new", "live", "dying"}]
      /\ ref \in [Sets -> Int] /\ list \in [Ids -> Sets \cup {NoSet}]
  BY DEF TypeInv, TypeOK
<1>1. ASSUME NEW i \in Slots, Destroy(c, i) PROVE RefInv'
  <2>1. /\ list[i] # NoSet /\ ref[list[i]] = 0 /\ mutex = NoOne
        /\ list' = [list EXCEPT ![i] = NoSet]
        /\ state' = [state EXCEPT ![list[i]] = "dying"]
        /\ cmd' = [cmd EXCEPT ![c] = [Idle EXCEPT !.pc = "free", !.set = list[i]]]
        /\ UNCHANGED <<max, is_deleted, ref, rule>>
    BY <1>1 DEF Destroy, CanRun, Unreferenced, flags
  <2>2. ref' = [ref EXCEPT ![list[i]] = 0]
    BY <1>a, <2>1
  <2>3. RefsCountRules'
    BY <2>1, <2>2, RefUnlink
  <2>4. \A s \in Sets : state'[s] # "live" => ref'[s] = 0
    BY <1>a, <2>1 DEF RefInv
  <2>5. \A e \in Threads : cmd'[e].pc # "all"
    BY <1>a, <2>1, RegistryAssumption DEF LinkInv, MutexInv, Idle
  <2> QED
    BY <2>3, <2>4, <2>5 DEF RefInv
<1>2. CASE DestroyFree(c)
  <2>1. /\ cmd[c].pc = "free" /\ Kfree(cmd[c].set)
        /\ cmd' = [cmd EXCEPT ![c] = Idle]
        /\ UNCHANGED <<list, max, is_deleted, rule>>
    BY <1>2 DEF DestroyFree, flags
  <2>2. cmd[c].set \in Sets /\ state[cmd[c].set] = "dying" /\ mutex = c
    BY <2>1 DEF LinkInv, CmdInv, MutexInv
  <2>3. ref' = ref
    BY <1>a, <2>1, <2>2 DEF Kfree, RefInv
  <2>4. RefsCountRules'
    BY <2>1, <2>3 DEF RefInv, RefsCountRules, RulesAt, Slots
  <2>5. \A s \in Sets : state'[s] # "live" => ref'[s] = 0
    BY <1>a, <2>1, <2>2, <2>3 DEF Kfree, RefInv
  <2>6. \A e \in Threads : cmd'[e].pc # "all"
    BY <1>a, <2>1, <2>2 DEF LinkInv, MutexInv, Idle
  <2> QED
    BY <2>4, <2>5, <2>6 DEF RefInv
<1>3. CASE DestroyAll(c)
  <2>1. /\ \A i \in Slots : list[i] # NoSet => ref[list[i]] = 0
        /\ UNCHANGED <<list, max, is_deleted, state, ref, rule>>
    BY <1>3 DEF DestroyAll, Unreferenced, setvars
  <2>2. RefsCountRules'
    BY <2>1 DEF RefInv, RefsCountRules, RulesAt, Slots
  <2> QED
    BY <2>1, <2>2 DEF RefInv, Slots
<1>4. CASE DestroyAllNext(c)
  <2> DEFINE i == cmd[c].idx
  <2>1. /\ cmd[c].pc = "all" /\ i < max
        /\ cmd' = [cmd EXCEPT ![c].idx = i + 1]
        /\ UNCHANGED <<max, is_deleted, rule>>
    BY <1>4 DEF DestroyAllNext, flags
  <2>2. i \in Slots /\ \A e \in Threads : cmd'[e].pc = cmd[e].pc
    BY <1>a, <2>1, IdFacts DEF CmdType, Ids, Slots, TypeInv, TypeOK
  <2>3. CASE UNCHANGED <<list, state, ref>>
    <3>1. RefsCountRules'
      BY <2>1, <2>3 DEF RefInv, RefsCountRules, RulesAt, Slots
    <3> QED
      BY <2>1, <2>2, <2>3, <3>1 DEF RefInv, Slots
  <2>4. CASE list[i] # NoSet /\ list' = [list EXCEPT ![i] = NoSet] /\ Kfree(list[i])
    <3>1. ref[list[i]] = 0 /\ i \in Ids /\ list[i] \in Sets
      BY <2>1, <2>2, <2>4, Linked DEF RefInv
    <3>2. ref' = [ref EXCEPT ![list[i]] = 0] /\ ref' = ref
      BY <1>a, <2>4, <3>1 DEF Kfree
    <3>3. RefsCountRules'
      BY <2>1, <2>2, <2>4, <3>1, <3>2, RefUnlink
    <3>4. \A s \in Sets : state'[s] # "live" => ref'[s] = 0
      BY <1>a, <2>4, <3>1, <3>2 DEF Kfree, RefInv
    <3>5. \A j \in Slots : list'[j] # NoSet => list'[j] = list[j]
      BY <1>a, <2>4, <3>1, RulesAtFacts
    <3> QED
      BY <2>1, <2>2, <3>2, <3>3, <3>4, <3>5 DEF RefInv, Slots
  <2> QED
    BY <1>4, <2>3, <2>4 DEF DestroyAllNext, setvars
<1>5. CASE DestroyAllEnd(c)
  <2>1. /\ cmd' = [cmd EXCEPT ![c] = Idle]
        /\ UNCHANGED <<list, max, is_deleted, state, ref, rule>>
    BY <1>5 DEF DestroyAllEnd, setvars
  <2>2. \A e \in Threads : cmd'[e].pc = "all" => cmd[e].pc = "all"
    BY <1>a, <2>1 DEF Idle
  <2>3. RefsCountRules'
    BY <2>1 DEF RefInv, RefsCountRules, RulesAt, Slots
  <2> QED
    BY <2>1, <2>2, <2>3 DEF RefInv, Slots
<1> QED
  BY <1>1, <1>2, <1>3, <1>4, <1>5

\* rename and use do not touch references; swap gives each index the
\* references it had.
LEMMA RefOther ==
  ASSUME TypeInv, LinkInv, RefInv, NEW c \in Threads,
         \/ \E i \in Slots, n \in Names : Rename(c, i, n)
         \/ \E i, j \in Slots : Swap(c, i, j)
         \/ \E i \in Slots : UseSet(c, i)
         \/ UseEnd(c)
  PROVE  RefInv'
<1>a. /\ cmd \in [Threads -> CmdType] /\ state \in [Sets -> {"free", "new", "live", "dying"}]
      /\ ref \in [Sets -> Int] /\ list \in [Ids -> Sets \cup {NoSet}]
  BY DEF TypeInv, TypeOK
<1>1. ASSUME NEW i \in Slots, NEW n \in Names, Rename(c, i, n) PROVE RefInv'
  BY <1>1, RefQuiet DEF Rename, flags
<1>2. ASSUME NEW i \in Slots, NEW j \in Slots, Swap(c, i, j) PROVE RefInv'
  <2>1. /\ list[i] # NoSet /\ list[j] # NoSet /\ mutex = NoOne
        /\ ref' = [ref EXCEPT ![list[i]] = ref[list[j]], ![list[j]] = ref[list[i]]]
        /\ list' = [list EXCEPT ![i] = list[j], ![j] = list[i]]
        /\ UNCHANGED <<max, is_deleted, state, rule, cmd>>
    BY <1>2 DEF Swap, CanRun, flags
  <2>2. /\ i \in Ids /\ list[i] \in Sets /\ state[list[i]] = "live"
        /\ j \in Ids /\ list[j] \in Sets /\ state[list[j]] = "live"
    BY <2>1, Linked
  <2>3. \A k \in Ids : /\ list'[k] # NoSet <=> list[k] # NoSet
                       /\ list[k] # NoSet => ref'[list'[k]] = ref[list[k]]
    BY <1>a, <2>1, <2>2 DEF LinkInv, NamesUnique
  <2>4. \A k \in Slots : k \in Ids
    BY RulesAtFacts
  <2>5. RefsCountRules'
    <3>1. \A r \in Rules : rule[r].id \in Ids
      BY DEF TypeInv, TypeOK, RuleType
    <3>2. \A k \in Slots : RulesAt(k)' = RulesAt(k)
      BY <2>1 DEF RulesAt
    <3>3. Slots' = Slots
      BY <2>1 DEF Slots
    <3>4. ASSUME ~is_deleted, NEW k \in Slots, list'[k] # NoSet
          PROVE  ref'[list'[k]] = Cardinality(RulesAt(k)')
      BY <2>3, <2>4, <3>2, <3>4 DEF RefInv, RefsCountRules
    <3>5. ASSUME ~is_deleted, NEW r \in Rules, rule'[r] # NoRef
          PROVE  rule'[r].id < max' /\ list'[rule'[r].id] # NoSet
      BY <2>1, <2>3, <3>1, <3>5 DEF RefInv, RefsCountRules
    <3> QED
      BY <2>1, <3>3, <3>4, <3>5 DEF RefsCountRules
  <2>6. \A s \in Sets : state'[s] # "live" => ref'[s] = 0
    BY <1>a, <2>1, <2>2 DEF RefInv
  <2>7. \A e \in Threads : cmd'[e].pc # "all"
    BY <2>1, RegistryAssumption DEF LinkInv, MutexInv
  <2> QED
    BY <2>5, <2>6, <2>7 DEF RefInv
<1>3. ASSUME cmd'[c].pc \in {"use", "idle"}, \A e \in Threads : e # c => cmd'[e] = cmd[e],
             UNCHANGED <<list, max, is_deleted, state, ref, rule>>
      PROVE  RefInv'
  <2>1. RefsCountRules'
    BY <1>3 DEF RefInv, RefsCountRules, RulesAt, Slots
  <2> QED
    BY <1>3, <2>1 DEF RefInv, Slots
<1>4. ASSUME NEW i \in Slots, UseSet(c, i) PROVE RefInv'
  BY <1>4, <1>3, <1>a DEF UseSet, flags, setvars, Idle
<1>5. CASE UseEnd(c)
  BY <1>5, <1>3, <1>a DEF UseEnd, flags, setvars, Idle
<1> QED
  BY <1>1, <1>2, <1>4, <1>5

\* A rule that is added or goes away moves the counter of its index by one.
LEMMA RefMatch ==
  ASSUME TypeInv, LinkInv, RefInv, NEW r \in Rules, Match(r)
  PROVE  RefInv'
<1>a. /\ rule \in [Rules -> RuleType] /\ state \in [Sets -> {"free", "new", "live", "dying"}]
      /\ ref \in [Sets -> Int] /\ list \in [Ids -> Sets \cup {NoSet}]
  BY DEF TypeInv, TypeOK
<1>1. ASSUME NEW i \in Slots, RuleGet(r, i) PROVE RefInv'
  <2>1. /\ mutex = NoOne /\ rule[r] = NoRef /\ list[i] # NoSet /\ ~is_deleted
        /\ i < max
        /\ ref' = [ref EXCEPT ![list[i]] = @ + 1]
        /\ rule' = [rule EXCEPT ![r] = [id |-> i, checked |-> FALSE]]
        /\ UNCHANGED <<list, max, is_deleted, state, cmd>>
    BY <1>1 DEF RuleGet, flags
  <2>2. i \in Ids /\ i # InvalidId /\ list[i] \in Sets /\ state[list[i]] = "live"
    BY <2>1, Linked, RulesAtFacts
  <2>3. RulesAt(i)' = RulesAt(i) \cup {r} /\ r \notin RulesAt(i)
    BY <1>a, <2>1, <2>2 DEF RulesAt, NoRef
  <2>4. ASSUME NEW j \in Slots, list[j] # NoSet
        PROVE  ref'[list[j]] = Cardinality(RulesAt(j)')
    <3>1. CASE j = i
      BY <1>a, <2>1, <2>2, <2>3, <3>1, RulesAtFacts, FS_AddElement DEF RefInv, RefsCountRules
    <3>2. CASE j # i
      <4>1. list[j] # list[i] /\ j \in Ids /\ j # InvalidId
        BY <2>1, <2>2, <2>4, <3>2, RulesAtFacts DEF LinkInv, NamesUnique
      <4>2. RulesAt(j)' = RulesAt(j)
        BY <1>a, <2>1, <3>2, <4>1 DEF RulesAt, NoRef
      <4>3. ref'[list[j]] = ref[list[j]]
        BY <1>a, <2>1, <2>2, <4>1
      <4> QED
        BY <2>1, <2>4, <4>2, <4>3 DEF RefInv, RefsCountRules
    <3> QED
      BY <3>1, <3>2
  <2>5. \A q \in Rules : rule'[q] # NoRef => rule'[q].id < max' /\ list'[rule'[q].id] # NoSet
    BY <1>a, <2>1 DEF RefInv, RefsCountRules
  <2>6. RefsCountRules'
    BY <2>1, <2>4, <2>5 DEF RefsCountRules, Slots
  <2>7. \A s \in Sets : state'[s] # "live" => ref'[s] = 0
    BY <1>a, <2>1, <2>2 DEF RefInv
  <2>8. \A c \in Threads : cmd'[c].pc # "all"
    BY <2>1, RegistryAssumption DEF LinkInv, MutexInv
  <2> QED
    BY <2>6, <2>7, <2>8 DEF RefInv
<1>2. CASE RuleAccept(r)
  <2>1. /\ rule[r] # NoRef /\ rule' = [rule EXCEPT ![r].checked = TRUE]
        /\ UNCHANGED <<list, max, is_deleted, state, ref, cmd>>
    BY <1>2 DEF RuleAccept, flags, setvars
  <2>2. \A q \in Rules : rule'[q].id = rule[q].id /\ (rule'[q] # NoRef => rule[q] # NoRef)
    BY <1>a, <2>1 DEF RuleType
  <2>3. \A i \in Slots : RulesAt(i)' = RulesAt(i)
    BY <2>2 DEF RulesAt
  <2>4. Slots' = Slots
    BY <2>1 DEF Slots
  <2>5. RefsCountRules'
    BY <2>1, <2>2, <2>3, <2>4 DEF RefInv, RefsCountRules
  <2> QED
    BY <2>1, <2>4, <2>5 DEF RefInv
<1>3. CASE RulePut(r)
  <2> PICK i : i = rule[r].id
    OBVIOUS
  <2>1. /\ mutex = NoOne /\ rule[r] # NoRef
        /\ rule' = [rule EXCEPT ![r] = NoRef]
        /\ UNCHANGED <<list, max, is_deleted, state, cmd>>
        /\ \/ /\ ~is_deleted /\ list[i] # NoSet
              /\ ref' = [ref EXCEPT ![list[i]] = @ - 1]
           \/ (is_deleted \/ list[i] = NoSet) /\ ref' = ref
    BY <1>3 DEF RulePut, flags
  <2>2. \A c \in Threads : cmd'[c].pc # "all"
    BY <2>1, RegistryAssumption DEF LinkInv, MutexInv
  <2>3. CASE is_deleted
    BY <2>1, <2>2, <2>3 DEF RefInv, RefsCountRules
  <2>4. CASE ~is_deleted
    <3>1. i \in Ids /\ i < max /\ list[i] # NoSet
      BY <1>a, <2>1, <2>4 DEF RefInv, RefsCountRules, RuleType
    <3>2. i \in Slots
      BY <3>1 DEF Slots, Ids, TypeInv, TypeOK
    <3>3. i # InvalidId /\ list[i] \in Sets /\ state[list[i]] = "live"
      BY <3>1, <3>2, Linked, RulesAtFacts
    <3>4. ref' = [ref EXCEPT ![list[i]] = @ - 1]
      BY <2>1, <2>4, <3>1
    <3>5. RulesAt(i)' = RulesAt(i) \ {r} /\ r \in RulesAt(i)
      BY <1>a, <2>1, <3>1, <3>3 DEF RulesAt, NoRef
    <3>6. ASSUME NEW j \in Slots, list[j] # NoSet
          PROVE  ref'[list[j]] = Cardinality(RulesAt(j)')
      <4>1. CASE j = i
        <5>1. Cardinality(RulesAt(i)') = Cardinality(RulesAt(i)) - 1
          BY <3>2, <3>5, RulesAtFacts, FS_RemoveElement
        <5> QED
          BY <1>a, <2>4, <3>1, <3>2, <3>3, <3>4, <4>1, <5>1 DEF RefInv, RefsCountRules
      <4>2. CASE j # i
        <5>1. list[j] # list[i] /\ j \in Ids /\ j # InvalidId
          BY <3>1, <3>6, <4>2, RulesAtFacts DEF LinkInv, NamesUnique
        <5>2. RulesAt(j)' = RulesAt(j)
          BY <1>a, <2>1, <4>2, <5>1 DEF RulesAt, NoRef
        <5>3. ref'[list[j]] = ref[list[j]]
          BY <1>a, <3>3, <3>4, <5>1
        <5> QED
          BY <2>4, <3>6, <5>2, <5>3 DEF RefInv, RefsCountRules
      <4> QED
        BY <4>1, <4>2
    <3>7. \A q \in Rules : rule'[q] # NoRef =>
             rule'[q].id < max' /\ list'[rule'[q].id] # NoSet
      BY <1>a, <2>1, <2>4 DEF RefInv, RefsCountRules
    <3>8. RefsCountRules'
      BY <2>1, <3>6, <3>7 DEF RefsCountRules, Slots
    <3>9. \A s \in Sets : state'[s] # "live" => ref'[s] = 0
      BY <1>a, <2>1, <3>3, <3>4 DEF RefInv
    <3> QED
      BY <2>2, <3>8, <3>9 DEF RefInv
  <2> QED
    BY <2>3, <2>4
<1> QED
  BY <1>1, <1>2, <1>3 DEF Match

\* Every step keeps RefInv.
LEMMA RefStep == TypeInv /\ LinkInv /\ RefInv /\ [Next]_vars => RefInv'
<1> SUFFICES ASSUME TypeInv, LinkInv, RefInv, [Next]_vars PROVE RefInv'
  OBVIOUS
<1>1. CASE LoadModule \/ StopModule \/ UnloadModule
  BY <1>1, RefQuiet DEF LoadModule, StopModule, UnloadModule, setvars, flags
<1>2. ASSUME NEW c \in Threads, Command(c) PROVE RefInv'
  BY <1>2, TypeCommand, RefCreate, RefDestroy, RefOther DEF Command
<1>3. ASSUME NEW r \in Rules, Match(r) PROVE RefInv'
  BY <1>3, RefMatch
<1>4. ASSUME NEW p \in Packets, Packet(p) PROVE RefInv'
  BY <1>4, RefQuiet DEF Packet, PacketEnter, PacketLeave, setvars, flags
<1>5. ASSUME NEW d \in Dumps, Dump(d) PROVE RefInv'
  BY <1>5, RefQuiet DEF Dump, DumpStart, DumpCall, DumpScan, DumpLast, DumpMore,
                        DumpNextSet, DumpError, DumpDone, setvars, flags
<1>6. CASE NetExit
  <2>1. /\ is_deleted' /\ \A c \in Threads : cmd'[c].pc # "all"
    BY <1>6 DEF NetExit, Idle
  <2>2. \A s \in Sets : state'[s] # "live" => ref'[s] = 0
    BY <1>6 DEF NetExit, RefInv
  <2> QED
    BY <2>1, <2>2 DEF RefInv, RefsCountRules
<1>7. CASE UNCHANGED vars
  BY <1>7, RefQuiet DEF vars, setvars, flags
<1> QED
  BY <1>1, <1>2, <1>3, <1>4, <1>5, <1>6, <1>7 DEF Next

\* set->ref is the number of rules that refer to the index of the set, and
\* every rule's index has a set: the BUG_ONs of domain_set_nfnl_put and
\* domain_set_rcu_get are never met, however rules come and go between
\* swaps, renames and destroys.
THEOREM RefsAlwaysCountRules == Spec => []RefsCountRules
<1>1. RefInv => RefsCountRules
  BY DEF RefInv
<1> QED
  BY <1>1, TypeInit, TypeStep, LinkInit, LinkStep, RefInit, RefStep, PTL DEF Spec

=============================================================================

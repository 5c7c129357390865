-------------------------- MODULE DsetHolderProofs --------------------------
(***************************************************************************)
(* Theorems about those who hold something of the registry between two     *)
(* steps: a set holds the module of its type, a rule the index it was      *)
(* written for, a dump the set it lists, a packet the set it read.  The    *)
(* invariants TypeInv, LinkInv and RefInv of DsetRegistryProofs are used.  *)
(***************************************************************************)
EXTENDS MCRegistry, DsetRegistryProofs

-----------------------------------------------------------------------------
(* The module of the set type.                                             *)

\* The sets whose type has been found: all but those of a create that waits
\* for the module to be loaded.
Pinned ==
  {s \in Sets : state[s] # "free"}
    \ {cmd[c].set : c \in {t \in Threads : cmd[t].pc = "load"}}

\* Pinned, set by set.
LEMMA PinnedFacts ==
  /\ IsFiniteSet(Pinned)
  /\ Cardinality(Pinned) \in Nat
  /\ \A s : s \in Pinned <=>
       /\ s \in Sets /\ state[s] # "free"
       /\ \A t \in Threads : cmd[t].pc = "load" => cmd[t].set # s
<1>1. Pinned \subseteq Sets
  BY DEF Pinned
<1>2. \A s : s \in Pinned <=>
       /\ s \in Sets /\ state[s] # "free"
       /\ \A t \in Threads : cmd[t].pc = "load" => cmd[t].set # s
  BY DEF Pinned
<1> QED
  BY <1>1, <1>2, RegistryAssumption, FS_Subset, FS_CardinalityType

\* The step leaves the sets that are counted and the module alone.
LEMMA PinSame ==
  ASSUME ModulePinned, \A s : s \in Pinned' <=> s \in Pinned,
         modref' = modref, module' = module
  PROVE  ModulePinned'
<1>1. Pinned' = Pinned
  <2> HIDE DEF Pinned
  <2> QED
    BY Zenon
<1> QED
  BY <1>1 DEF ModulePinned, Pinned

\* One more set is counted: try_module_get succeeds only on a live module.
LEMMA PinMore ==
  ASSUME ModulePinned, NEW s, s \notin Pinned, Pinned' = Pinned \cup {s},
         modref' = modref + 1, module = "live", module' = module
  PROVE  ModulePinned'
<1>1. Cardinality(Pinned') = Cardinality(Pinned) + 1
  BY PinnedFacts, FS_AddElement
<1> QED
  BY <1>1 DEF ModulePinned, Pinned

\* One set less is counted.
LEMMA PinLess ==
  ASSUME ModulePinned, NEW s \in Pinned, Pinned' = Pinned \ {s},
         modref' = modref - 1, module' = module
  PROVE  ModulePinned'
<1>1. Cardinality(Pinned') = Cardinality(Pinned) - 1
  BY PinnedFacts, FS_RemoveElement
<1>2. modref = Cardinality(Pinned) /\ Cardinality(Pinned) \in Nat
  BY PinnedFacts DEF ModulePinned, Pinned
<1>3. modref' = Cardinality(Pinned')
  BY <1>1, <1>2
<1>4. modref' > 0 => module' = "live"
  BY <1>2 DEF ModulePinned
<1> QED
  BY <1>3, <1>4 DEF ModulePinned, Pinned

\* The commands take one count for each set they make and give it back with
\* the set.
LEMMA PinCommand ==
  ASSUME TypeInv, LinkInv, ModulePinned, NEW c \in Threads, Command(c)
  PROVE  ModulePinned'
<1> USE RegistryAssumption
<1>a. /\ cmd \in [Threads -> CmdType] /\ state \in [Sets -> {"free", "new", "live", "dying"}]
      /\ list \in [Ids -> Sets \cup {NoSet}]
  BY DEF TypeInv, TypeOK
<1>b. \A t \in Threads : cmd[t].pc = "load" => cmd[t].set \in Sets /\ state[cmd[t].set] = "new"
  BY DEF LinkInv, CmdInv
<1>c. \A s : s \in Pinned' <=>
        /\ s \in Sets /\ state'[s] # "free"
        /\ \A t \in Threads : cmd'[t].pc = "load" => cmd'[t].set # s
  BY DEF Pinned
<1>d. \A s : s \in Pinned <=>
        /\ s \in Sets /\ state[s] # "free"
        /\ \A t \in Threads : cmd[t].pc = "load" => cmd[t].set # s
  BY PinnedFacts
<1>1. ASSUME NEW n \in Names, CreateStart(c, n) PROVE ModulePinned'
  <2>1. PICK s \in Sets :
          /\ state[s] = "free" /\ state' = [state EXCEPT ![s] = "new"]
          /\ \/ /\ module = "live" /\ modref' = modref + 1
                /\ cmd' = [cmd EXCEPT ![c] = [Idle EXCEPT !.pc = "create", !.set = s]]
             \/ /\ modref' = modref
                /\ cmd' = [cmd EXCEPT ![c] = [Idle EXCEPT !.pc = "load", !.set = s]]
    BY <1>1 DEF CreateStart
  <2>2. cmd[c].pc = "idle" /\ module' = module
    BY <1>1 DEF CreateStart, CanRun
  <2>3. s \notin Pinned
    BY <2>1, <1>d
  <2>4. CASE /\ module = "live" /\ modref' = modref + 1
             /\ cmd' = [cmd EXCEPT ![c] = [Idle EXCEPT !.pc = "create", !.set = s]]
    <3>1. \A t \in Threads : (cmd'[t].pc = "load" <=> cmd[t].pc = "load")
                             /\ (cmd[t].pc = "load" => cmd'[t] = cmd[t])
      BY <1>a, <2>2, <2>4 DEF Idle
    <3>2. Pinned' = Pinned \cup {s}
      BY <1>a, <1>b, <1>c, <1>d, <2>1, <3>1
    <3> QED
      BY <2>2, <2>3, <2>4, <3>2, PinMore
  <2>5. CASE /\ modref' = modref
             /\ cmd' = [cmd EXCEPT ![c] = [Idle EXCEPT !.pc = "load", !.set = s]]
    <3>1. /\ \A t \in Threads : t # c => cmd'[t] = cmd[t]
          /\ cmd'[c].pc = "load" /\ cmd'[c].set = s
      BY <1>a, <2>5 DEF Idle
    <3>2. \A u : u \in Pinned' <=> u \in Pinned
      BY <1>a, <1>c, <1>d, <2>1, <2>2, <2>3, <3>1
    <3> QED
      BY <2>2, <2>5, <3>2, PinSame
  <2> QED
    BY <2>1, <2>4, <2>5
<1>2. CASE CreateRetry(c)
  <2> DEFINE s == cmd[c].set
  <2>1. cmd[c].pc = "load" /\ s \in Sets /\ state[s] = "new" /\ module' = module
    BY <1>2, <1>b DEF CreateRetry
  <2>2. s \notin Pinned /\ \A t \in Threads : cmd[t].pc = "load" /\ t # c => cmd[t].set # s
    BY <1>d, <2>1 DEF LinkInv, CmdInv
  <2>3. CASE /\ module = "live" /\ modref' = modref + 1 /\ UNCHANGED setvars
             /\ cmd' = [cmd EXCEPT ![c].pc = "create"]
    <3>1. (\A t \in Threads : t # c => cmd'[t] = cmd[t]) /\ cmd'[c].pc = "create"
      BY <1>a, <2>3 DEF CmdType
    <3>2. Pinned' = Pinned \cup {s}
      BY <1>c, <1>d, <2>1, <2>2, <2>3, <3>1 DEF setvars
    <3> QED
      BY <2>1, <2>2, <2>3, <3>2, PinMore
  <2>4. CASE /\ Kfree(s) /\ modref' = modref
             /\ cmd' = [cmd EXCEPT ![c] = Idle]
    <3>1. (\A t \in Threads : t # c => cmd'[t] = cmd[t]) /\ cmd'[c].pc = "idle"
      BY <1>a, <2>4 DEF Idle
    <3>2. \A u : u \in Pinned' <=> u \in Pinned
      BY <1>a, <1>c, <1>d, <2>1, <2>2, <2>4, <3>1 DEF Kfree
    <3> QED
      BY <2>1, <2>4, <3>2, PinSame
  <2> QED
    BY <1>2, <2>3, <2>4 DEF CreateRetry
<1>3. CASE CreateFail(c) \/ DestroyFree(c)
  <2> DEFINE s == cmd[c].set
  <2>1. /\ cmd[c].pc \in {"create", "free"} /\ Kfree(s) /\ modref' = modref - 1
        /\ cmd' = [cmd EXCEPT ![c] = Idle] /\ module' = module
    BY <1>3 DEF CreateFail, DestroyFree
  <2>2. s \in Sets /\ state[s] \in {"new", "dying"}
    BY <2>1 DEF LinkInv, CmdInv
  <2>3. \A t \in Threads : cmd[t].pc = "load" => cmd[t].set # s
    BY <1>b, <2>1, <2>2 DEF LinkInv, CmdInv
  <2>4. (\A t \in Threads : t # c => cmd'[t] = cmd[t]) /\ cmd'[c].pc = "idle"
    BY <1>a, <2>1 DEF Idle
  <2>5. s \in Pinned /\ Pinned' = Pinned \ {s}
    BY <1>a, <1>c, <1>d, <2>1, <2>2, <2>3, <2>4 DEF Kfree
  <2> QED
    BY <2>1, <2>5, PinLess
<1>4. ASSUME NEW s \in Sets, state[s] \in {"new", "live"}, NEW w \in {"live", "dying"},
             state' = [state EXCEPT ![s] = w], UNCHANGED <<modref, module>>,
             cmd[c].pc # "load", cmd'[c].pc # "load",
             \A t \in Threads : t # c => cmd'[t] = cmd[t]
      PROVE  ModulePinned'
  <2>1. \A u : u \in Pinned' <=> u \in Pinned
    BY <1>a, <1>c, <1>d, <1>4
  <2> QED
    BY <1>4, <2>1, PinSame
<1>5. CASE CreateLink(c)
  <2>1. /\ cmd[c].pc = "create" /\ state' = [state EXCEPT ![cmd[c].set] = "live"]
        /\ cmd' = [cmd EXCEPT ![c] = Idle] /\ UNCHANGED <<modref, module>>
    BY <1>5 DEF CreateLink, modvars
  <2>2. cmd[c].set \in Sets /\ state[cmd[c].set] = "new"
    BY <2>1 DEF LinkInv, CmdInv
  <2>3. (\A t \in Threads : t # c => cmd'[t] = cmd[t]) /\ cmd'[c].pc # "load"
    BY <1>a, <2>1 DEF Idle
  <2> QED
    BY <1>4, <2>1, <2>2, <2>3
<1>6. ASSUME NEW i \in Slots, Destroy(c, i) PROVE ModulePinned'
  <2>1. /\ cmd[c].pc = "idle" /\ list[i] # NoSet
        /\ state' = [state EXCEPT ![list[i]] = "dying"]
        /\ cmd' = [cmd EXCEPT ![c] = [Idle EXCEPT !.pc = "free", !.set = list[i]]]
        /\ UNCHANGED <<modref, module>>
    BY <1>6 DEF Destroy, CanRun, modvars
  <2>2. list[i] \in Sets /\ state[list[i]] = "live"
    BY <2>1, Linked
  <2>3. (\A t \in Threads : t # c => cmd'[t] = cmd[t]) /\ cmd'[c].pc # "load"
    BY <1>a, <2>1 DEF Idle
  <2> QED
    BY <1>4, <2>1, <2>2, <2>3
<1>7. ASSUME state' = state, UNCHANGED <<modref, module>>,
             cmd[c].pc # "load", cmd'[c].pc # "load",
             \A t \in Threads : t # c => cmd'[t] = cmd[t]
      PROVE  ModulePinned'
  <2>1. \A u : u \in Pinned' <=> u \in Pinned
    BY <1>c, <1>d, <1>7
  <2> QED
    BY <1>7, <2>1, PinSame
<1>8. CASE DestroyAllNext(c)
  <2> DEFINE i == cmd[c].idx
  <2>1. /\ cmd[c].pc = "all" /\ i < max /\ module' = module
        /\ cmd' = [cmd EXCEPT ![c].idx = i + 1]
    BY <1>8 DEF DestroyAllNext
  <2>2. (\A t \in Threads : t # c => cmd'[t] = cmd[t]) /\ cmd'[c].pc = "all"
    BY <1>a, <2>1 DEF CmdType
  <2>3. i \in Slots
    BY <1>a, <2>1, IdFacts DEF CmdType, Ids, Slots, TypeInv, TypeOK
  <2>4. CASE UNCHANGED <<setvars, modref>>
    BY <1>7, <2>1, <2>2, <2>4 DEF setvars
  <2>5. CASE list[i] # NoSet /\ Kfree(list[i]) /\ modref' = modref - 1
    <3>1. list[i] \in Sets /\ state[list[i]] = "live"
      BY <2>3, <2>5, Linked
    <3>2. list[i] \in Pinned /\ Pinned' = Pinned \ {list[i]}
      BY <1>a, <1>b, <1>c, <1>d, <2>1, <2>2, <2>5, <3>1 DEF Kfree
    <3> QED
      BY <2>1, <2>5, <3>2, PinLess
  <2> QED
    BY <1>8, <2>4, <2>5 DEF DestroyAllNext
<1>9. CASE DestroyAll(c) \/ DestroyAllEnd(c) \/ UseEnd(c) \/ \E i \in Slots : UseSet(c, i)
  <2>1. state' = state /\ UNCHANGED <<modref, module>> /\ cmd[c].pc # "load"
    BY <1>9 DEF DestroyAll, DestroyAllEnd, UseEnd, UseSet, CanRun, setvars, modvars
  <2>2. (\A t \in Threads : t # c => cmd'[t] = cmd[t]) /\ cmd'[c].pc # "load"
    <3>1. CASE \E i \in Slots : UseSet(c, i)
      BY <3>1, <1>a DEF UseSet, Idle
    <3>2. CASE DestroyAll(c)
      BY <3>2, <1>a DEF DestroyAll, Idle
    <3>3. CASE DestroyAllEnd(c) \/ UseEnd(c)
      BY <3>3, <1>a DEF DestroyAllEnd, UseEnd, Idle
    <3> QED
      BY <1>9, <3>1, <3>2, <3>3
  <2> QED
    BY <1>7, <2>1, <2>2
<1>10. CASE (\E i \in Slots, n \in Names : Rename(c, i, n)) \/ (\E i, j \in Slots : Swap(c, i, j))
  <2>1. UNCHANGED <<state, cmd, modref, module>>
    BY <1>10 DEF Rename, Swap, modvars
  <2>2. Pinned' = Pinned
    BY <2>1 DEF Pinned
  <2> QED
    BY <2>1, <2>2, PinSame
<1> QED
  BY <1>1, <1>2, <1>3, <1>5, <1>6, <1>8, <1>9, <1>10 DEF Command

\* The end of the namespace gives all counts back at once.
LEMMA PinNetExit ==
  ASSUME TypeInv, LinkInv, ModulePinned, NetExit
  PROVE  ModulePinned'
<1> DEFINE gone == {list[i] : i \in {j \in Slots : list[j] # NoSet}}
<1>1. gone \subseteq Sets /\ IsFiniteSet(gone) /\ Cardinality(gone) \in Nat
  BY GoneFinite
<1>2. \A s \in gone : state[s] = "live"
  BY Linked
<1>3. /\ \A c \in Threads : cmd[c].pc = "idle" /\ cmd'[c].pc = "idle"
      /\ state' = [s \in Sets |-> IF s \in gone THEN "free" ELSE state[s]]
      /\ modref' = modref - Cardinality(gone) /\ module' = module
  BY DEF NetExit, Idle
<1> HIDE DEF gone
<1>4. gone \subseteq Pinned
  BY <1>1, <1>2, <1>3, PinnedFacts
<1>5. Pinned' = Pinned \ gone
  BY <1>1, <1>3, <1>4 DEF Pinned
<1>6. Cardinality(Pinned') = Cardinality(Pinned) - Cardinality(gone)
  <2>1. Cardinality(Pinned \ gone) = Cardinality(Pinned) - Cardinality(Pinned \cap gone)
    BY PinnedFacts, FS_Difference
  <2>2. Pinned \cap gone = gone
    BY <1>4
  <2> QED
    BY <1>5, <2>1, <2>2
<1>7. modref = Cardinality(Pinned) /\ Cardinality(Pinned) \in Nat
  BY PinnedFacts DEF ModulePinned, Pinned
<1>8. modref' = Cardinality(Pinned')
  BY <1>3, <1>6, <1>7
<1>9. modref' > 0 => module' = "live"
  BY <1>1, <1>3, <1>7 DEF ModulePinned
<1> QED
  BY <1>8, <1>9 DEF ModulePinned, Pinned

\* Every step keeps the count of the module.
LEMMA PinStep == TypeInv /\ LinkInv /\ ModulePinned /\ [Next]_vars => ModulePinned'
<1> SUFFICES ASSUME TypeInv, LinkInv, ModulePinned, [Next]_vars PROVE ModulePinned'
  OBVIOUS
<1>1. ASSUME UNCHANGED <<state, cmd, modref>>,
             module' = module \/ modref = 0
      PROVE  ModulePinned'
  <2>1. Pinned' = Pinned
    BY <1>1 DEF Pinned
  <2> QED
    BY <1>1, <2>1 DEF ModulePinned, Pinned
<1>2. CASE LoadModule \/ StopModule \/ UnloadModule
  <2>1. UNCHANGED <<state, cmd, modref>> /\ (module # "live" \/ modref = 0)
    BY <1>2 DEF LoadModule, StopModule, UnloadModule, setvars
  <2>2. modref \in Nat /\ (modref > 0 => module = "live")
    BY PinnedFacts DEF ModulePinned, Pinned
  <2> QED
    BY <1>1, <2>1, <2>2
<1>3. ASSUME NEW r \in Rules, Match(r) PROVE ModulePinned'
  BY <1>3, <1>1 DEF Match, RuleGet, RuleAccept, RulePut, setvars, modvars
<1>4. ASSUME NEW p \in Packets, Packet(p) PROVE ModulePinned'
  BY <1>4, <1>1 DEF Packet, PacketEnter, PacketLeave, setvars, modvars
<1>5. ASSUME NEW d \in Dumps, Dump(d) PROVE ModulePinned'
  BY <1>5, <1>1 DEF Dump, DumpStart, DumpCall, DumpScan, DumpLast, DumpMore, DumpNextSet,
                    DumpError, DumpDone, setvars, modvars
<1>6. CASE UNCHANGED vars
  BY <1>6, <1>1 DEF vars, setvars, modvars
<1> QED
  BY <1>2, <1>3, <1>4, <1>5, <1>6, PinCommand, PinNetExit DEF Next

\* The use count of the module is the number of sets whose type was found,
\* on every way a create can fail, a destroy can go and the namespace can
\* end, and the module is never unloaded under a set.
THEOREM ModuleStaysPinned == Spec => []ModulePinned
<1>1. Init => ModulePinned
  <2> SUFFICES ASSUME Init PROVE ModulePinned
    OBVIOUS
  <2>1. Pinned = {}
    BY DEF Init, Pinned
  <2> QED
    BY <2>1, FS_EmptySet DEF Init, ModulePinned, Pinned
<1> QED
  BY <1>1, TypeInit, TypeStep, LinkInit, LinkStep, PinStep, PTL DEF Spec

-----------------------------------------------------------------------------
(* Name and index.                                                         *)

\* Every index that has a set before and after the step keeps the name.
NamesKept ==
  \A i \in Ids : list[i] # NoSet /\ list'[i] # NoSet => name'[list'[i]] = name[list[i]]

\* Only rename gives an index another name.
LEMMA OnlyRenameRenames ==
  ASSUME TypeInv, LinkInv, [Next]_vars
  PROVE  \/ NamesKept
         \/ \E c \in Threads, i \in Slots, n \in Names : Rename(c, i, n)
<1> USE RegistryAssumption
<1>a. /\ cmd \in [Threads -> CmdType] /\ state \in [Sets -> {"free", "new", "live", "dying"}]
      /\ name \in [Sets -> Names \cup {NoName}]
      /\ list \in [Ids -> Sets \cup {NoSet}]
  BY DEF TypeInv, TypeOK
<1>b. \A i \in Ids : list[i] # NoSet => list[i] \in Sets /\ state[list[i]] = "live"
  BY <1>a DEF LinkInv, NamesUnique
<1>c. ASSUME NEW s \in Sets, state[s] # "live", NEW n, name' = [name EXCEPT ![s] = n],
             list' = list
      PROVE  NamesKept
  BY <1>a, <1>b, <1>c DEF NamesKept
<1>d. ASSUME list' = list, name' = name PROVE NamesKept
  BY <1>d DEF NamesKept
<1>1. ASSUME NEW c \in Threads, Command(c)
      PROVE  NamesKept \/ \E i \in Slots, n \in Names : Rename(c, i, n)
  <2>1. ASSUME NEW n \in Names, CreateStart(c, n) PROVE NamesKept
    BY <2>1, <1>c DEF CreateStart
  <2>2. CASE CreateRetry(c)
    <3>1. cmd[c].set \in Sets /\ state[cmd[c].set] = "new"
      BY <2>2 DEF CreateRetry, LinkInv, CmdInv
    <3> QED
      BY <2>2, <3>1, <1>c, <1>d DEF CreateRetry, Kfree, setvars
  <2>3. CASE CreateFail(c) \/ DestroyFree(c)
    <3>1. cmd[c].set \in Sets /\ state[cmd[c].set] # "live"
      BY <2>3 DEF CreateFail, DestroyFree, LinkInv, CmdInv
    <3> QED
      BY <2>3, <3>1, <1>c DEF CreateFail, DestroyFree, Kfree
  <2>4. CASE CreateLink(c)
    <3>1. PICK i \in Ids : FreeSlot(i) /\ list' = [list EXCEPT ![i] = cmd[c].set]
      BY <2>4 DEF CreateLink
    <3>2. list[i] = NoSet
      BY <3>1 DEF FreeSlot, LinkInv, NamesUnique, TypeInv, TypeOK
    <3> QED
      BY <1>a, <2>4, <3>1, <3>2 DEF CreateLink, NamesKept
  <2>5. ASSUME NEW i \in Slots, Destroy(c, i) PROVE NamesKept
    <3>1. i \in Ids /\ list' = [list EXCEPT ![i] = NoSet] /\ name' = name
      BY <2>5, Linked DEF Destroy
    <3> QED
      BY <1>a, <3>1 DEF NamesKept
  <2>6. CASE DestroyAllNext(c)
    <3> DEFINE i == cmd[c].idx
    <3>1. i \in Slots
      BY <1>a, <2>6, IdFacts DEF DestroyAllNext, CmdType, Ids, Slots, TypeInv, TypeOK
    <3>2. CASE UNCHANGED <<list, setvars>>
      BY <3>2, <1>d DEF setvars
    <3>3. CASE list[i] # NoSet /\ list' = [list EXCEPT ![i] = NoSet] /\ Kfree(list[i])
      <4>1. i \in Ids /\ list[i] \in Sets
        BY <3>1, <3>3, Linked
      <4> QED
        BY <1>a, <1>b, <3>3, <4>1 DEF Kfree, NamesKept, LinkInv, NamesUnique
    <3> QED
      BY <2>6, <3>2, <3>3 DEF DestroyAllNext
  <2>7. ASSUME NEW i \in Slots, NEW j \in Slots, Swap(c, i, j) PROVE NamesKept
    <3>1. /\ list[i] # NoSet /\ list[j] # NoSet
          /\ name' = [name EXCEPT ![list[i]] = name[list[j]], ![list[j]] = name[list[i]]]
          /\ list' = [list EXCEPT ![i] = list[j], ![j] = list[i]]
      BY <2>7 DEF Swap
    <3>2. i \in Ids /\ j \in Ids /\ list[i] \in Sets /\ list[j] \in Sets
      BY <3>1, Linked
    <3> QED
      BY <1>a, <1>b, <3>1, <3>2 DEF NamesKept, LinkInv, NamesUnique
  <2>8. CASE DestroyAll(c) \/ DestroyAllEnd(c) \/ UseEnd(c) \/ \E i \in Slots : UseSet(c, i)
    BY <2>8, <1>d DEF DestroyAll, DestroyAllEnd, UseEnd, UseSet, setvars
  <2> QED
    BY <1>1, <2>1, <2>2, <2>3, <2>4, <2>5, <2>6, <2>7, <2>8 DEF Command
<1>2. CASE LoadModule \/ StopModule \/ UnloadModule
  BY <1>2, <1>d DEF LoadModule, StopModule, UnloadModule, setvars
<1>3. ASSUME NEW r \in Rules, Match(r) PROVE NamesKept
  BY <1>3, <1>d DEF Match, RuleGet, RuleAccept, RulePut, setvars
<1>4. ASSUME NEW p \in Packets, Packet(p) PROVE NamesKept
  BY <1>4, <1>d DEF Packet, PacketEnter, PacketLeave, setvars
<1>5. ASSUME NEW d \in Dumps, Dump(d) PROVE NamesKept
  BY <1>5, <1>d DEF Dump, DumpStart, DumpCall, DumpScan, DumpLast, DumpMore, DumpNextSet,
                    DumpError, DumpDone, setvars
<1>6. CASE NetExit
  BY <1>6 DEF NetExit, NamesKept
<1>7. CASE UNCHANGED vars
  BY <1>7, <1>d DEF vars, setvars
<1> QED
  BY <1>1, <1>2, <1>3, <1>4, <1>5, <1>6, <1>7 DEF Next

\* A rule keeps matching the set name it was written for: an index changes
\* its name only when no rule refers to it.
THEOREM RulesKeepTheirNames == Spec => IndexKeepsName
<1>1. ASSUME TypeInv, LinkInv, RefInv, [Next]_vars
      PROVE  [\A i \in Ids :
               list[i] # NoSet /\ list'[i] # NoSet /\ name'[list'[i]] # name[list[i]]
                 => RulesAt(i) = {}]_vars
  <2>1. CASE NamesKept
    BY <2>1 DEF NamesKept
  <2>2. ASSUME NEW c \in Threads, NEW j \in Slots, NEW n \in Names, Rename(c, j, n),
               NEW i \in Ids, list[i] # NoSet, name'[list'[i]] # name[list[i]]
        PROVE  RulesAt(i) = {}
    <3>1. /\ ~is_deleted /\ list[j] # NoSet /\ ref[list[j]] = 0
          /\ list' = list /\ name' = [name EXCEPT ![list[j]] = n]
      BY <2>2 DEF Rename, CanRun, Unreferenced
    <3>2. list[i] = list[j] /\ j \in Ids
      BY <1>1, <2>2, <3>1, Linked DEF TypeInv, TypeOK
    <3>3. i = j
      BY <1>1, <2>2, <3>1, <3>2 DEF LinkInv, NamesUnique
    <3>4. Cardinality(RulesAt(j)) = 0
      BY <1>1, <3>1 DEF RefInv, RefsCountRules
    <3> QED
      BY <1>1, <3>3, <3>4, RulesAtFacts
  <2> QED
    BY <1>1, <2>1, <2>2, OnlyRenameRenames
<1> QED
  BY <1>1, TypeInit, TypeStep, LinkInit, LinkStep, RefInit, RefStep, PTL
     DEF Spec, IndexKeepsName

-----------------------------------------------------------------------------
(* Dumps.                                                                  *)

\* Dump d has a reference on the set at its index.
Keeping(d) == dump[d].pc = "list" \/ dump[d].arg0

\* What a dump knows between two of its steps.  A dump that keeps a set has
\* not reached the end of its loop, so that it cannot go on without giving
\* the set back, and is not in the pass for DUMP_LAST sets.
DumpLocal ==
  \A d \in Dumps :
    /\ dump[d].pc = "list" =>
         list[dump[d].index] = dump[d].set /\ dump[d].set # NoSet
    /\ dump[d].arg0 => dump[d].pc # "off" /\ list[dump[d].index] # NoSet
    /\ dump[d].arg0 /\ dump[d].pc = "scan" => dump[d].index < dump[d].limit
    /\ dump[d].kind = "last" => ~Keeping(d)

\* While all sets are being destroyed no dump keeps one: is_destroyed is set
\* after the references were looked at, and a dump that finds it set stops
\* without giving anything back.
DestroyedInv ==
  /\ is_destroyed => \E c \in Threads : cmd[c].pc = "all"
  /\ \A c \in Threads : cmd[c].pc = "all" =>
       /\ is_destroyed
       /\ \A i \in Slots : list[i] # NoSet => ref_netlink[list[i]] = 0

DumpInv == DumpLocal /\ NetlinkRefsCountDumps /\ DestroyedInv

\* In these states Holds says: the dump keeps the set at its index.
LEMMA HoldsFacts ==
  ASSUME TypeInv, DumpLocal
  PROVE  \A d \in Dumps, s \in Sets :
           Holds(d, s) <=> Keeping(d) /\ list[dump[d].index] = s
PROOF BY DEF Holds, Keeping, DumpLocal, TypeInv, TypeOK, DumpType

\* The same after a step.
LEMMA HoldsFactsNext ==
  ASSUME TypeInv', DumpLocal'
  PROVE  \A d \in Dumps, s \in Sets :
           Holds(d, s)' <=> Keeping(d)' /\ list'[dump'[d].index] = s
PROOF BY DEF Holds, Keeping, DumpLocal, TypeInv, TypeOK, DumpType

\* The dumps that keep a set are finitely many.
LEMMA HoldersFacts ==
  ASSUME NEW s
  PROVE  /\ IsFiniteSet(HoldersOf(s)) /\ Cardinality(HoldersOf(s)) \in Nat
         /\ Cardinality(HoldersOf(s)) = 0 <=> HoldersOf(s) = {}
<1>1. IsFiniteSet(HoldersOf(s))
  BY RegistryAssumption, FS_Subset DEF HoldersOf
<1> QED
  BY <1>1, FS_CardinalityType, FS_EmptySet

\* The index of a dump that keeps a set, and the set.
LEMMA KeepingFacts ==
  ASSUME TypeInv, LinkInv, DumpInv, NEW d \in Dumps, Keeping(d)
  PROVE  /\ dump[d].index \in Ids /\ dump[d].index \in Slots
         /\ list[dump[d].index] \in Sets /\ state[list[dump[d].index]] = "live"
         /\ ref_netlink[list[dump[d].index]] # 0
         /\ ~is_destroyed
<1>1. dump[d].index \in Ids /\ list[dump[d].index] \in Sets
  BY DEF TypeInv, TypeOK, DumpType, DumpInv, DumpLocal, Keeping
<1>2. dump[d].index < max /\ state[list[dump[d].index]] = "live"
  BY <1>1, RegistryAssumption DEF LinkInv, NamesUnique
<1>3. dump[d].index \in Slots
  BY <1>1, <1>2 DEF Slots, Ids, TypeInv, TypeOK
<1>4. ref_netlink[list[dump[d].index]] # 0
  <2>1. d \in HoldersOf(list[dump[d].index])
    BY <1>1, HoldsFacts DEF HoldersOf, DumpInv
  <2>2. Cardinality(HoldersOf(list[dump[d].index])) # 0
    BY <2>1, HoldersFacts
  <2> QED
    BY <1>1, <2>2 DEF DumpInv, NetlinkRefsCountDumps
<1>5. ~is_destroyed
  BY <1>1, <1>3, <1>4, RegistryAssumption DEF DumpInv, DestroyedInv
<1> QED
  BY <1>1, <1>2, <1>3, <1>4, <1>5

\* No dump keeps a set that is not in the list.
LEMMA UnlistedUnheld ==
  ASSUME TypeInv, LinkInv, DumpInv, NEW s \in Sets, state[s] # "live"
  PROVE  ref_netlink[s] = 0
<1>1. HoldersOf(s) = {}
  BY HoldsFacts, KeepingFacts DEF HoldersOf, DumpInv
<1> QED
  BY <1>1, HoldersFacts DEF DumpInv, NetlinkRefsCountDumps

\* kfree of a set that no dump keeps changes no counter.
LEMMA KfreeUnheld ==
  ASSUME TypeInv, NEW s \in Sets, ref_netlink[s] = 0, Kfree(s)
  PROVE  ref_netlink' = ref_netlink
PROOF BY DEF TypeInv, TypeOK, Kfree

\* A step of someone else that leaves alone the index of every dump that
\* keeps a set.
LEMMA DumpQuiet ==
  ASSUME TypeInv, TypeInv', LinkInv, DumpInv, UNCHANGED <<dump, ref_netlink>>,
         \A d \in Dumps : Keeping(d) => list'[dump[d].index] = list[dump[d].index]
  PROVE  DumpLocal' /\ NetlinkRefsCountDumps'
<1>1. \A d \in Dumps : Keeping(d)' <=> Keeping(d)
  BY DEF Keeping
<1>2. DumpLocal'
  BY DEF DumpLocal, DumpInv, Keeping
<1>3. \A d \in Dumps, s \in Sets : Holds(d, s)' <=> Holds(d, s)
  BY <1>1, <1>2, HoldsFacts, HoldsFactsNext DEF DumpInv
<1>4. \A s \in Sets : HoldersOf(s)' = HoldersOf(s)
  BY <1>3 DEF HoldersOf
<1> QED
  BY <1>2, <1>4 DEF DumpInv, NetlinkRefsCountDumps

\* Nobody destroys all sets while the mutex is free or someone else's.
LEMMA NobodyDestroysAll ==
  ASSUME LinkInv, DumpInv, NEW c \in Threads, mutex = NoOne \/ mutex = c,
         cmd[c].pc # "all"
  PROVE  ~is_destroyed /\ \A e \in Threads : cmd[e].pc # "all"
<1>1. \A e \in Threads : cmd[e].pc # "all"
  BY RegistryAssumption DEF LinkInv, MutexInv
<1>2. ~is_destroyed
  BY <1>1 DEF DumpInv, DestroyedInv
<1> QED
  BY <1>1, <1>2

\* A command takes no set away from a dump that keeps it.
LEMMA DumpCommand ==
  ASSUME TypeInv, TypeInv', LinkInv, DumpInv, NEW c \in Threads, Command(c)
  PROVE  DumpInv'
<1> USE RegistryAssumption
<1>a. /\ cmd \in [Threads -> CmdType] /\ state \in [Sets -> {"free", "new", "live", "dying"}]
      /\ list \in [Ids -> Sets \cup {NoSet}] /\ dump' = dump
  BY DEF TypeInv, TypeOK, Command, CreateStart, CreateRetry, CreateFail, CreateLink,
         Destroy, DestroyFree, DestroyAll, DestroyAllNext, DestroyAllEnd, Rename, Swap,
         UseSet, UseEnd
<1>b. ASSUME NEW v, cmd' = [cmd EXCEPT ![c] = v], v.pc # "all",
             mutex = NoOne \/ mutex = c, cmd[c].pc # "all", is_destroyed' = is_destroyed
      PROVE  DestroyedInv'
  <2>1. ~is_destroyed /\ \A e \in Threads : cmd[e].pc # "all"
    BY <1>b, NobodyDestroysAll
  <2>2. \A e \in Threads : cmd'[e].pc # "all"
    BY <1>a, <1>b, <2>1
  <2> QED
    BY <1>b, <2>1, <2>2 DEF DestroyedInv
<1>c. ASSUME list' = list, ref_netlink' = ref_netlink, DestroyedInv'
      PROVE  DumpInv'
  BY <1>a, <1>c, DumpQuiet DEF DumpInv
<1>d. /\ Idle.pc # "all"
      /\ \A s : /\ [Idle EXCEPT !.pc = "use", !.set = s].pc # "all"
               /\ [Idle EXCEPT !.pc = "free", !.set = s].pc # "all"
  BY DEF Idle
<1>1. ASSUME NEW n \in Names, CreateStart(c, n) PROVE DumpInv'
  <2>1. /\ mutex = NoOne /\ cmd[c].pc = "idle" /\ is_destroyed' = is_destroyed
        /\ list' = list /\ ref_netlink' = ref_netlink
    BY <1>1 DEF CreateStart, CanRun, flags
  <2>2. PICK s \in Sets, pc \in {"create", "load"} :
          cmd' = [cmd EXCEPT ![c] = [Idle EXCEPT !.pc = pc, !.set = s]]
    BY <1>1 DEF CreateStart
  <2>3. [Idle EXCEPT !.pc = pc, !.set = s].pc # "all"
    BY DEF Idle
  <2>4. DestroyedInv'
    BY <1>b, <2>1, <2>2, <2>3
  <2> QED
    BY <1>c, <2>1, <2>4
<1>2. CASE CreateRetry(c)
  <2>1. cmd[c].pc = "load" /\ mutex = NoOne /\ list' = list /\ is_destroyed' = is_destroyed
    BY <1>2 DEF CreateRetry, flags
  <2>2. cmd[c].set \in Sets /\ state[cmd[c].set] = "new"
    BY <2>1 DEF LinkInv, CmdInv
  <2>3. ref_netlink' = ref_netlink
    BY <1>2, <2>2, UnlistedUnheld, KfreeUnheld DEF CreateRetry, setvars
  <2>4. \A e \in Threads : cmd'[e].pc = "all" => cmd[e].pc = "all"
    BY <1>2, <1>a DEF CreateRetry, CmdType, Idle
  <2>5. DestroyedInv'
    BY <2>1, <2>4, NobodyDestroysAll DEF DestroyedInv
  <2> QED
    BY <1>c, <2>1, <2>3, <2>5
<1>3. CASE CreateFail(c) \/ DestroyFree(c)
  <2>1. /\ cmd[c].pc \in {"create", "free"} /\ Kfree(cmd[c].set) /\ list' = list
        /\ cmd' = [cmd EXCEPT ![c] = Idle] /\ is_destroyed' = is_destroyed
    BY <1>3 DEF CreateFail, DestroyFree, flags
  <2>2. cmd[c].set \in Sets /\ state[cmd[c].set] # "live" /\ mutex = c
    BY <2>1 DEF LinkInv, CmdInv, MutexInv
  <2>3. ref_netlink' = ref_netlink
    BY <2>1, <2>2, UnlistedUnheld, KfreeUnheld
  <2>4. DestroyedInv'
    BY <1>b, <1>d, <2>1, <2>2
  <2> QED
    BY <1>c, <2>1, <2>3, <2>4
<1>4. CASE CreateLink(c)
  <2>1. /\ cmd[c].pc = "create" /\ mutex = c /\ is_destroyed' = is_destroyed
        /\ cmd' = [cmd EXCEPT ![c] = Idle] /\ ref_netlink' = ref_netlink
    BY <1>4 DEF CreateLink, flags, LinkInv, MutexInv
  <2>2. PICK i \in Ids : FreeSlot(i) /\ list' = [list EXCEPT ![i] = cmd[c].set]
    BY <1>4 DEF CreateLink
  <2>3. list[i] = NoSet
    BY <2>2 DEF FreeSlot, LinkInv, NamesUnique, TypeInv, TypeOK
  <2>4. \A d \in Dumps : Keeping(d) => list'[dump[d].index] = list[dump[d].index]
    BY <1>a, <2>2, <2>3, KeepingFacts
  <2>5. DestroyedInv'
    BY <1>b, <1>d, <2>1
  <2> QED
    BY <1>a, <2>1, <2>4, <2>5, DumpQuiet DEF DumpInv
<1>5. ASSUME NEW i \in Slots, Destroy(c, i) PROVE DumpInv'
  <2>1. /\ mutex = NoOne /\ cmd[c].pc = "idle" /\ list[i] # NoSet /\ ref_netlink[list[i]] = 0
        /\ list' = [list EXCEPT ![i] = NoSet]
        /\ cmd' = [cmd EXCEPT ![c] = [Idle EXCEPT !.pc = "free", !.set = list[i]]]
        /\ is_destroyed' = is_destroyed /\ ref_netlink' = ref_netlink
    BY <1>5 DEF Destroy, CanRun, Unreferenced, flags
  <2>2. \A d \in Dumps : Keeping(d) => list'[dump[d].index] = list[dump[d].index]
    BY <1>a, <2>1, KeepingFacts
  <2>3. DestroyedInv'
    BY <1>b, <1>d, <2>1
  <2> QED
    BY <1>a, <2>1, <2>2, <2>3, DumpQuiet DEF DumpInv
<1>6. CASE DestroyAll(c)
  <2>1. /\ mutex = NoOne /\ cmd[c].pc = "idle" /\ is_destroyed' = TRUE
        /\ \A i \in Slots : list[i] # NoSet => ref_netlink[list[i]] = 0
        /\ cmd' = [cmd EXCEPT ![c] = [Idle EXCEPT !.pc = "all"]]
        /\ UNCHANGED <<list, max, ref_netlink>>
    BY <1>6 DEF DestroyAll, CanRun, Unreferenced, setvars
  <2>2. cmd'[c].pc = "all"
    BY <1>a, <2>1 DEF Idle
  <2>3. DestroyedInv'
    BY <2>1, <2>2 DEF DestroyedInv, Slots
  <2> QED
    BY <1>c, <2>1, <2>3
<1>7. CASE DestroyAllNext(c)
  <2> DEFINE i == cmd[c].idx
  <2>1. /\ cmd[c].pc = "all" /\ i < max
        /\ cmd' = [cmd EXCEPT ![c].idx = i + 1]
        /\ UNCHANGED <<max, is_destroyed>>
    BY <1>7 DEF DestroyAllNext, flags
  <2>2. i \in Slots /\ i \in Ids /\ \A e \in Threads : cmd'[e].pc = cmd[e].pc
    BY <1>a, <2>1, IdFacts DEF CmdType, Ids, Slots, TypeInv, TypeOK
  <2>3. is_destroyed /\ \A j \in Slots : list[j] # NoSet => ref_netlink[list[j]] = 0
    BY <2>1 DEF DumpInv, DestroyedInv
  <2>4. \A d \in Dumps : ~Keeping(d)
    BY <2>3, KeepingFacts
  <2>5. ref_netlink' = ref_netlink /\ \A j \in Slots : list'[j] # NoSet => list'[j] = list[j]
    <3>1. CASE UNCHANGED <<list, setvars>>
      BY <3>1 DEF setvars
    <3>2. CASE list[i] # NoSet /\ list' = [list EXCEPT ![i] = NoSet] /\ Kfree(list[i])
      <4>1. list[i] \in Sets /\ ref_netlink[list[i]] = 0 /\ \A j \in Slots : j \in Ids
        BY <2>2, <2>3, <3>2, Linked, RulesAtFacts
      <4> QED
        BY <1>a, <2>2, <3>2, <4>1, KfreeUnheld
    <3> QED
      BY <1>7, <3>1, <3>2 DEF DestroyAllNext
  <2>6. DestroyedInv'
    BY <2>1, <2>2, <2>3, <2>5 DEF DumpInv, DestroyedInv, Slots
  <2> QED
    BY <1>a, <2>4, <2>5, <2>6, DumpQuiet DEF DumpInv
<1>8. CASE DestroyAllEnd(c)
  <2>1. /\ cmd[c].pc = "all" /\ is_destroyed' = FALSE /\ mutex = c
        /\ cmd' = [cmd EXCEPT ![c] = Idle] /\ UNCHANGED <<list, ref_netlink>>
    BY <1>8 DEF DestroyAllEnd, setvars, LinkInv, MutexInv
  <2>2. \A e \in Threads : cmd'[e].pc # "all"
    BY <1>a, <2>1 DEF Idle, LinkInv, MutexInv
  <2>3. DestroyedInv'
    BY <2>1, <2>2 DEF DestroyedInv
  <2> QED
    BY <1>c, <2>1, <2>3
<1>9. ASSUME NEW i \in Slots, NEW n \in Names, Rename(c, i, n) PROVE DumpInv'
  <2>1. UNCHANGED <<list, max, cmd, is_destroyed, ref_netlink>>
    BY <1>9 DEF Rename, flags
  <2>2. DestroyedInv'
    BY <2>1 DEF DumpInv, DestroyedInv, Slots
  <2> QED
    BY <1>c, <2>1, <2>2
<1>10. ASSUME NEW i \in Slots, NEW j \in Slots, Swap(c, i, j) PROVE DumpInv'
  <2>1. /\ list[i] # NoSet /\ list[j] # NoSet /\ mutex = NoOne /\ cmd[c].pc = "idle"
        /\ ref_netlink[list[i]] = 0 /\ ref_netlink[list[j]] = 0
        /\ list' = [list EXCEPT ![i] = list[j], ![j] = list[i]]
        /\ UNCHANGED <<cmd, is_destroyed, ref_netlink>>
    BY <1>10 DEF Swap, CanRun, flags
  <2>2. \A d \in Dumps : Keeping(d) => list'[dump[d].index] = list[dump[d].index]
    BY <1>a, <2>1, KeepingFacts
  <2>3. DestroyedInv'
    BY <2>1, NobodyDestroysAll DEF DestroyedInv
  <2> QED
    BY <1>a, <2>1, <2>2, <2>3, DumpQuiet DEF DumpInv
<1>11. ASSUME NEW i \in Slots, UseSet(c, i) PROVE DumpInv'
  <2>1. /\ mutex = NoOne /\ cmd[c].pc = "idle"
        /\ cmd' = [cmd EXCEPT ![c] = [Idle EXCEPT !.pc = "use", !.set = list[i]]]
        /\ UNCHANGED <<list, is_destroyed, ref_netlink>>
    BY <1>11 DEF UseSet, CanRun, flags, setvars
  <2>2. DestroyedInv'
    BY <1>b, <1>d, <2>1
  <2> QED
    BY <1>c, <2>1, <2>2
<1>12. CASE UseEnd(c)
  <2>1. /\ cmd[c].pc = "use" /\ mutex = c /\ cmd' = [cmd EXCEPT ![c] = Idle]
        /\ UNCHANGED <<list, is_destroyed, ref_netlink>>
    BY <1>12 DEF UseEnd, flags, setvars, LinkInv, MutexInv
  <2>2. DestroyedInv'
    BY <1>b, <1>d, <2>1
  <2> QED
    BY <1>c, <2>1, <2>2
<1> QED
  BY <1>1, <1>2, <1>3, <1>4, <1>5, <1>6, <1>7, <1>8, <1>9, <1>10, <1>11, <1>12 DEF Command

\* A step of one dump moves the counter of one set at most, by the one
\* reference that the dump takes or gives back.
LEMMA DumpCount ==
  ASSUME TypeInv, TypeInv', LinkInv, DumpInv, DumpLocal', NEW d \in Dumps, list' = list,
         \A e \in Dumps : e # d => dump'[e] = dump[e],
         \/ /\ Keeping(d)' <=> Keeping(d)
            /\ Keeping(d) => dump'[d].index = dump[d].index
            /\ ref_netlink' = ref_netlink
         \/ /\ ~Keeping(d) /\ Keeping(d)' /\ dump'[d].index = dump[d].index
            /\ ref_netlink' = [ref_netlink EXCEPT ![list[dump[d].index]] = @ + 1]
         \/ /\ Keeping(d) /\ ~Keeping(d)'
            /\ ref_netlink' = [ref_netlink EXCEPT ![list[dump[d].index]] = @ - 1]
  PROVE  NetlinkRefsCountDumps'
<1>a. ref_netlink \in [Sets -> Int] /\ list \in [Ids -> Sets \cup {NoSet}]
  BY DEF TypeInv, TypeOK
<1>b. \A e \in Dumps, s \in Sets : e # d => (Holds(e, s)' <=> Holds(e, s))
  BY HoldsFacts, HoldsFactsNext DEF DumpInv, Keeping
<1>c. \A s \in Sets : /\ Holds(d, s) <=> Keeping(d) /\ list[dump[d].index] = s
                      /\ Holds(d, s)' <=> Keeping(d)' /\ list[dump'[d].index] = s
  BY HoldsFacts, HoldsFactsNext DEF DumpInv
<1>d. \A s \in Sets : /\ ref_netlink[s] = Cardinality(HoldersOf(s))
                      /\ IsFiniteSet(HoldersOf(s)) /\ Cardinality(HoldersOf(s)) \in Nat
  BY HoldersFacts DEF DumpInv, NetlinkRefsCountDumps
<1> SUFFICES ASSUME NEW s \in Sets PROVE ref_netlink'[s] = Cardinality(HoldersOf(s)')
  BY DEF NetlinkRefsCountDumps
<1>1. ASSUME Holds(d, s)' <=> Holds(d, s) PROVE HoldersOf(s)' = HoldersOf(s)
  BY <1>1, <1>b DEF HoldersOf
<1>2. CASE /\ Keeping(d)' <=> Keeping(d)
           /\ Keeping(d) => dump'[d].index = dump[d].index
           /\ ref_netlink' = ref_netlink
  BY <1>1, <1>2, <1>c, <1>d
<1>3. CASE /\ ~Keeping(d) /\ Keeping(d)' /\ dump'[d].index = dump[d].index
           /\ ref_netlink' = [ref_netlink EXCEPT ![list[dump[d].index]] = @ + 1]
  <2>1. CASE list[dump[d].index] = s
    <3>1. HoldersOf(s)' = HoldersOf(s) \cup {d} /\ d \notin HoldersOf(s)
      BY <1>3, <1>b, <1>c, <2>1 DEF HoldersOf
    <3>2. Cardinality(HoldersOf(s)') = Cardinality(HoldersOf(s)) + 1
      BY <1>d, <3>1, FS_AddElement
    <3> QED
      BY <1>3, <1>a, <1>d, <2>1, <3>2
  <2>2. CASE list[dump[d].index] # s
    BY <1>1, <1>3, <1>a, <1>c, <1>d, <2>2
  <2> QED
    BY <2>1, <2>2
<1>4. CASE /\ Keeping(d) /\ ~Keeping(d)'
           /\ ref_netlink' = [ref_netlink EXCEPT ![list[dump[d].index]] = @ - 1]
  <2>1. CASE list[dump[d].index] = s
    <3>1. HoldersOf(s)' = HoldersOf(s) \ {d} /\ d \in HoldersOf(s)
      BY <1>4, <1>b, <1>c, <2>1 DEF HoldersOf
    <3>2. Cardinality(HoldersOf(s)') = Cardinality(HoldersOf(s)) - 1
      BY <1>d, <3>1, FS_RemoveElement
    <3> QED
      BY <1>4, <1>a, <1>d, <2>1, <3>2
  <2>2. CASE list[dump[d].index] # s
    BY <1>1, <1>4, <1>a, <1>c, <1>d, <2>2
  <2> QED
    BY <2>1, <2>2
<1> QED
  BY <1>2, <1>3, <1>4

\* Every step of a dump keeps the count of its reference.
LEMMA DumpDump ==
  ASSUME TypeInv, TypeInv', LinkInv, DumpInv, NEW d \in Dumps, Dump(d)
  PROVE  DumpInv'
<1>a. /\ dump \in [Dumps -> DumpType] /\ dump[d] \in DumpType /\ dump[d].index \in Ids
      /\ max \in Int
  BY IdFacts DEF TypeInv, TypeOK, DumpType
<1>b. UNCHANGED <<list, max, cmd, is_destroyed>>
  BY DEF Dump, DumpStart, DumpCall, DumpScan, DumpLast, DumpMore, DumpNextSet, DumpError,
         DumpDone, setvars, flags
<1>c. ASSUME NEW v, dump' = [dump EXCEPT ![d] = v],
             /\ v.pc = "list" => list[v.index] = v.set /\ v.set # NoSet
             /\ v.arg0 => v.pc # "off" /\ list[v.index] # NoSet
             /\ v.arg0 /\ v.pc = "scan" => v.index < v.limit
             /\ v.kind = "last" => v.pc # "list" /\ ~v.arg0
      PROVE  /\ DumpLocal' /\ (\A e \in Dumps : e # d => dump'[e] = dump[e])
             /\ dump'[d] = v /\ (Keeping(d)' <=> v.pc = "list" \/ v.arg0)
  <2>1. dump'[d] = v /\ \A e \in Dumps : e # d => dump'[e] = dump[e]
    BY <1>a, <1>c
  <2>2. DumpLocal'
    <3> SUFFICES ASSUME NEW e \in Dumps
                 PROVE  /\ dump'[e].pc = "list" =>
                             list[dump'[e].index] = dump'[e].set /\ dump'[e].set # NoSet
                        /\ dump'[e].arg0 => dump'[e].pc # "off" /\ list[dump'[e].index] # NoSet
                        /\ dump'[e].arg0 /\ dump'[e].pc = "scan" =>
                             dump'[e].index < dump'[e].limit
                        /\ dump'[e].kind = "last" => dump'[e].pc # "list" /\ ~dump'[e].arg0
      BY <1>b DEF DumpLocal, Keeping
    <3>1. CASE e = d
      BY <1>c, <2>1, <3>1
    <3>2. CASE e # d
      BY <2>1, <3>2 DEF DumpInv, DumpLocal, Keeping
    <3> QED
      BY <3>1, <3>2
  <2> QED
    BY <2>1, <2>2 DEF Keeping
<1>d. ASSUME NEW v, dump' = [dump EXCEPT ![d] = v], ref_netlink' = ref_netlink,
             /\ v.pc # "list" /\ (v.arg0 <=> Keeping(d))
             /\ Keeping(d) => v.index = dump[d].index /\ v.pc # "off" /\ v.kind # "last"
             /\ v.arg0 /\ v.pc = "scan" => v.index < v.limit
      PROVE  DumpInv'
  <2>1. Keeping(d) => list[dump[d].index] # NoSet
    BY KeepingFacts, RegistryAssumption
  <2>2. /\ DumpLocal' /\ (\A e \in Dumps : e # d => dump'[e] = dump[e])
        /\ dump'[d] = v /\ (Keeping(d)' <=> v.pc = "list" \/ v.arg0)
    BY <1>c, <1>d, <2>1
  <2>3. NetlinkRefsCountDumps'
    BY <1>b, <1>d, <2>2, DumpCount
  <2>4. DestroyedInv'
    BY <1>b, <1>d DEF DumpInv, DestroyedInv, Slots
  <2> QED
    BY <2>2, <2>3, <2>4 DEF DumpInv
<1>e. ASSUME NEW v, dump' = [dump EXCEPT ![d] = v], v.pc # "list", ~v.arg0,
             Keeping(d), PutNetlink(dump[d].index)
      PROVE  DumpInv'
  <2>1. /\ DumpLocal' /\ (\A e \in Dumps : e # d => dump'[e] = dump[e])
        /\ dump'[d] = v /\ (Keeping(d)' <=> v.pc = "list" \/ v.arg0)
    BY <1>c, <1>e
  <2>2. NetlinkRefsCountDumps'
    BY <1>b, <1>e, <2>1, DumpCount DEF PutNetlink
  <2>3. ~is_destroyed
    BY <1>e, KeepingFacts
  <2>4. DestroyedInv'
    BY <1>b, <2>3 DEF DumpInv, DestroyedInv
  <2> QED
    BY <2>1, <2>2, <2>4 DEF DumpInv
<1>f. NoDump.pc = "off" /\ ~NoDump.arg0 /\ NoDump.kind = "all"
  BY DEF NoDump
<1>1. ASSUME NEW kind \in {"one", "all"}, NEW i \in Slots, DumpStart(d, kind, i)
      PROVE  DumpInv'
  <2> DEFINE v == [NoDump EXCEPT !.pc = "ready", !.kind = kind, !.index = i]
  <2>1. v.pc = "ready" /\ ~v.arg0
    BY DEF NoDump
  <2>2. dump[d].pc = "off" /\ dump' = [dump EXCEPT ![d] = v] /\ ref_netlink' = ref_netlink
    BY <1>1 DEF DumpStart, setvars
  <2>3. ~Keeping(d)
    BY <2>2 DEF Keeping, DumpInv, DumpLocal
  <2> HIDE DEF v
  <2> QED
    BY <1>d, <2>1, <2>2, <2>3
<1>2. CASE DumpCall(d)
  <2>1. dump[d].pc = "ready" /\ ref_netlink' = ref_netlink
    BY <1>2 DEF DumpCall, setvars
  <2>2. CASE /\ dump[d].index < max
             /\ dump' = [dump EXCEPT ![d].pc = "scan", ![d].limit = DumpLimit(d)]
    <3> DEFINE v == [dump[d] EXCEPT !.pc = "scan", !.limit = DumpLimit(d)]
    <3>1. /\ v.pc = "scan" /\ v.arg0 = dump[d].arg0 /\ v.index = dump[d].index
          /\ v.kind = dump[d].kind /\ v.limit = DumpLimit(d)
      BY <1>a DEF DumpType
    <3>2. dump' = [dump EXCEPT ![d] = v]
      BY <1>a, <2>2
    <3>3. dump[d].index < DumpLimit(d)
      BY <1>a, <2>2, IdFacts DEF DumpLimit
    <3>4. Keeping(d) <=> dump[d].arg0
      BY <2>1 DEF Keeping
    <3>5. Keeping(d) => dump[d].kind # "last"
      BY DEF DumpInv, DumpLocal
    <3> HIDE DEF v
    <3> QED
      BY <1>d, <2>1, <3>1, <3>2, <3>3, <3>4, <3>5
  <2>3. CASE dump[d].index >= max /\ dump' = [dump EXCEPT ![d] = NoDump]
    <3>1. ~Keeping(d)
      BY <1>a, <2>3, KeepingFacts DEF Slots
    <3> QED
      BY <1>d, <1>f, <2>1, <2>3, <3>1
  <2> QED
    BY <1>2, <2>2, <2>3 DEF DumpCall
<1>3. CASE DumpScan(d)
  <2> DEFINE i == dump[d].index
  <2>1. dump[d].pc = "scan" /\ (Keeping(d) <=> dump[d].arg0)
    BY <1>3 DEF DumpScan, Keeping
  <2>2. CASE /\ list[i] = NoSet \/ is_destroyed
             /\ dump' = [dump EXCEPT ![d] = NoDump] /\ ref_netlink' = ref_netlink
    <3>1. ~Keeping(d)
      BY <2>2, KeepingFacts, RegistryAssumption
    <3> QED
      BY <1>d, <1>f, <2>2, <3>1
  <2>3. CASE /\ (list[i] = NoSet \/ is_destroyed) \/ dump[d].kind = "last"
             /\ dump' = [dump EXCEPT ![d].index = i + 1] /\ ref_netlink' = ref_netlink
    <3> DEFINE v == [dump[d] EXCEPT !.index = i + 1]
    <3>1. ~Keeping(d)
      BY <2>3, KeepingFacts, RegistryAssumption DEF DumpInv, DumpLocal
    <3>2. v.pc = "scan" /\ v.arg0 = dump[d].arg0 /\ dump' = [dump EXCEPT ![d] = v]
      BY <1>a, <2>1, <2>3 DEF DumpType
    <3> HIDE DEF v
    <3> QED
      BY <1>d, <2>1, <2>3, <3>1, <3>2
  <2>4. CASE /\ list[i] # NoSet /\ ~is_destroyed /\ dump[d].kind # "last"
             /\ ref_netlink' = IF dump[d].arg0 THEN ref_netlink
                               ELSE [ref_netlink EXCEPT ![list[i]] = @ + 1]
             /\ dump' = [dump EXCEPT ![d].pc = "list", ![d].set = list[i]]
    <3> DEFINE v == [dump[d] EXCEPT !.pc = "list", !.set = list[i]]
    <3>1. /\ v.pc = "list" /\ v.arg0 = dump[d].arg0 /\ v.index = i /\ v.set = list[i]
          /\ v.kind = dump[d].kind
      BY <1>a DEF DumpType
    <3>2. dump' = [dump EXCEPT ![d] = v]
      BY <1>a, <2>4
    <3>3. v.arg0 => v.pc # "off" /\ list[v.index] # NoSet
      BY <2>4, <3>1
    <3> HIDE DEF v
    <3>4. /\ DumpLocal' /\ (\A e \in Dumps : e # d => dump'[e] = dump[e])
          /\ dump'[d] = v /\ Keeping(d)'
      BY <1>c, <2>4, <3>1, <3>2, <3>3
    <3>5. NetlinkRefsCountDumps'
      BY <1>b, <2>1, <2>4, <3>1, <3>4, DumpCount
    <3>6. DestroyedInv'
      BY <1>b, <2>4 DEF DumpInv, DestroyedInv
    <3> QED
      BY <3>4, <3>5, <3>6 DEF DumpInv
  <2> QED
    BY <1>3, <2>2, <2>3, <2>4 DEF DumpScan
<1>4. CASE DumpLast(d)
  <2>1. /\ dump[d].pc = "scan" /\ dump[d].index >= dump[d].limit /\ ref_netlink' = ref_netlink
    BY <1>4 DEF DumpLast, setvars
  <2>2. ~Keeping(d)
    <3>1. dump[d].index \in Int /\ dump[d].limit \in Int
      BY <1>a, IdFacts DEF DumpType
    <3> QED
      BY <2>1, <3>1 DEF DumpInv, DumpLocal, Keeping
  <2>3. CASE dump' = [dump EXCEPT ![d].kind = "last", ![d].index = 0]
    <3> DEFINE v == [dump[d] EXCEPT !.kind = "last", !.index = 0]
    <3>1. v.pc = "scan" /\ v.arg0 = dump[d].arg0 /\ dump' = [dump EXCEPT ![d] = v]
      BY <1>a, <2>1, <2>3 DEF DumpType
    <3>2. ~dump[d].arg0
      BY <2>2 DEF Keeping
    <3> HIDE DEF v
    <3> QED
      BY <1>d, <2>1, <2>2, <3>1, <3>2
  <2>4. CASE dump' = [dump EXCEPT ![d] = NoDump]
    BY <1>d, <1>f, <2>1, <2>2, <2>4
  <2> QED
    BY <1>4, <2>3, <2>4 DEF DumpLast
<1>5. CASE DumpMore(d)
  <2> DEFINE v == [dump[d] EXCEPT !.pc = "ready", !.arg0 = TRUE, !.set = NoSet]
  <2>1. dump[d].pc = "list" /\ ref_netlink' = ref_netlink /\ dump' = [dump EXCEPT ![d] = v]
    BY <1>5, <1>a DEF DumpMore, setvars
  <2>2. /\ v.pc = "ready" /\ v.arg0 /\ v.index = dump[d].index /\ v.kind = dump[d].kind
    BY <1>a DEF DumpType
  <2>3. Keeping(d) /\ dump[d].kind # "last"
    BY <2>1 DEF Keeping, DumpInv, DumpLocal
  <2> HIDE DEF v
  <2> QED
    BY <1>d, <2>1, <2>2, <2>3
<1>6. CASE DumpNextSet(d)
  <2> DEFINE v == [dump[d] EXCEPT !.pc = "ready", !.arg0 = FALSE, !.set = NoSet,
                     !.index = IF dump[d].kind = "one" THEN InvalidId ELSE @ + 1]
  <2>1. /\ dump[d].pc = "list" /\ PutNetlink(dump[d].index) /\ dump' = [dump EXCEPT ![d] = v]
    BY <1>6, <1>a DEF DumpNextSet
  <2>2. v.pc = "ready" /\ ~v.arg0
    BY <1>a DEF DumpType
  <2>3. Keeping(d)
    BY <2>1 DEF Keeping
  <2> HIDE DEF v
  <2> QED
    BY <1>e, <2>1, <2>2, <2>3
<1>7. CASE DumpError(d)
  <2>1. Keeping(d) /\ PutNetlink(dump[d].index) /\ dump' = [dump EXCEPT ![d] = NoDump]
    BY <1>7 DEF DumpError, Keeping
  <2> QED
    BY <1>e, <1>f, <2>1
<1>8. CASE DumpDone(d)
  <2>1. /\ dump[d].pc = "ready" /\ dump' = [dump EXCEPT ![d] = NoDump]
        /\ IF dump[d].arg0 THEN PutNetlink(dump[d].index) ELSE ref_netlink' = ref_netlink
    BY <1>8 DEF DumpDone
  <2>2. Keeping(d) <=> dump[d].arg0
    BY <2>1 DEF Keeping
  <2> QED
    BY <1>d, <1>e, <1>f, <2>1, <2>2
<1> QED
  BY <1>1, <1>2, <1>3, <1>4, <1>5, <1>6, <1>7, <1>8 DEF Dump

\* DumpInv holds at first.
LEMMA DumpInit == Init => DumpInv
<1> SUFFICES ASSUME Init PROVE DumpInv
  OBVIOUS
<1>1. \A d \in Dumps : dump[d].pc = "off" /\ ~dump[d].arg0 /\ dump[d].kind = "all"
  BY DEF Init, NoDump
<1>2. DumpLocal
  BY <1>1 DEF DumpLocal, Keeping
<1>3. \A s \in Sets : HoldersOf(s) = {}
  BY <1>1 DEF HoldersOf, Holds
<1>4. NetlinkRefsCountDumps
  BY <1>3, FS_EmptySet DEF Init, NetlinkRefsCountDumps
<1>5. DestroyedInv
  BY DEF Init, DestroyedInv, Idle
<1> QED
  BY <1>2, <1>4, <1>5 DEF DumpInv

\* Every step keeps DumpInv.
LEMMA DumpStep == TypeInv /\ LinkInv /\ DumpInv /\ [Next]_vars => DumpInv'
<1> SUFFICES ASSUME TypeInv, LinkInv, DumpInv, [Next]_vars PROVE DumpInv'
  OBVIOUS
<1>0. TypeInv'
  BY TypeStep
<1>1. ASSUME UNCHANGED <<list, max, cmd, is_destroyed, dump, ref_netlink>> PROVE DumpInv'
  <2>1. DestroyedInv'
    BY <1>1 DEF DumpInv, DestroyedInv, Slots
  <2> QED
    BY <1>0, <1>1, <2>1, DumpQuiet DEF DumpInv
<1>2. CASE LoadModule \/ StopModule \/ UnloadModule
  BY <1>2, <1>1 DEF LoadModule, StopModule, UnloadModule, setvars, flags
<1>3. ASSUME NEW r \in Rules, Match(r) PROVE DumpInv'
  BY <1>3, <1>1 DEF Match, RuleGet, RuleAccept, RulePut, setvars, flags
<1>4. ASSUME NEW p \in Packets, Packet(p) PROVE DumpInv'
  BY <1>4, <1>1 DEF Packet, PacketEnter, PacketLeave, setvars, flags
<1>5. CASE NetExit
  <2>1. /\ UNCHANGED <<dump, ref_netlink, is_destroyed>>
        /\ \A d \in Dumps : dump[d] = NoDump
        /\ \A c \in Threads : cmd[c].pc # "all" /\ cmd'[c].pc # "all"
    BY <1>5 DEF NetExit, Idle
  <2>2. \A d \in Dumps : ~Keeping(d)
    BY <2>1 DEF Keeping, NoDump
  <2>3. DestroyedInv'
    BY <2>1 DEF DumpInv, DestroyedInv
  <2> QED
    BY <1>0, <2>1, <2>2, <2>3, DumpQuiet DEF DumpInv
<1>6. CASE UNCHANGED vars
  BY <1>6, <1>1 DEF vars, setvars, flags
<1> QED
  BY <1>0, <1>2, <1>3, <1>4, <1>5, <1>6, DumpCommand, DumpDump DEF Next

\* set->ref_netlink is the number of dumps that keep the set, on every way a
\* dump can end: no set stays busy for ever and the BUG_ON of
\* __domain_set_put_netlink is never met.
THEOREM DumpRefsAlwaysCounted == Spec => []NetlinkRefsCountDumps
<1>1. DumpInv => NetlinkRefsCountDumps
  BY DEF DumpInv
<1> QED
  BY <1>1, TypeInit, TypeStep, LinkInit, LinkStep, DumpInit, DumpStep, PTL DEF Spec

\* A dump finds the set it keeps at its index again, in the next callback
\* and when it gives the set back without a lock.
THEOREM DumpsKeepTheirSets == Spec => []DumpedSetStays
<1>1. DumpInv => DumpedSetStays
  BY DEF DumpInv, DumpLocal, DumpedSetStays
<1> QED
  BY <1>1, TypeInit, TypeStep, LinkInit, LinkStep, DumpInit, DumpStep, PTL DEF Spec

-----------------------------------------------------------------------------
(* Packets.                                                                *)

\* A packet is in a rule that is there until the packet leaves, and works on
\* the set at the index of the rule unless a swap has moved the set.
PacketInv ==
  \A p \in Packets : pkt[p] # NoPkt =>
    /\ ~is_deleted /\ pkt[p].rule \in Rules /\ rule[pkt[p].rule] # NoRef
    /\ pkt[p].set \in Sets
    /\ moved[p] \/ list[rule[pkt[p].rule].id] = pkt[p].set

\* A set whose index has a rule stays at the index, unless a swap moves it
\* to another one.
LEMMA RuledIndexKept ==
  ASSUME TypeInv, LinkInv, RefInv, [Next]_vars, ~is_deleted, ~is_deleted',
         NEW i \in Slots, list[i] # NoSet, RulesAt(i) # {}
  PROVE  list'[i] = list[i] \/ \E j \in Slots : j # i /\ list'[j] = list[i]
<1> DEFINE Kept == list'[i] = list[i] \/ \E j \in Slots : j # i /\ list'[j] = list[i]
<1>a. list \in [Ids -> Sets \cup {NoSet}] /\ i \in Ids /\ cmd \in [Threads -> CmdType]
  BY Linked DEF TypeInv, TypeOK
<1>b. ref[list[i]] # 0
  BY RulesAtFacts DEF RefInv, RefsCountRules
<1>1. CASE list' = list
  BY <1>1
<1>2. ASSUME NEW c \in Threads, Command(c) PROVE Kept
  <2>1. CASE CreateLink(c)
    <3>1. PICK k \in Ids : FreeSlot(k) /\ list' = [list EXCEPT ![k] = cmd[c].set]
      BY <2>1 DEF CreateLink
    <3>2. list[k] = NoSet
      BY <3>1 DEF FreeSlot, LinkInv, NamesUnique, TypeInv, TypeOK
    <3> QED
      BY <1>a, <3>1, <3>2
  <2>2. ASSUME NEW k \in Slots, Destroy(c, k) PROVE Kept
    BY <2>2, <1>a, <1>b DEF Destroy, Unreferenced
  <2>3. CASE DestroyAllNext(c)
    <3>1. \A k \in Slots : list[k] # NoSet => ref[list[k]] = 0
      BY <2>3 DEF DestroyAllNext, RefInv
    <3> QED
      BY <1>b, <3>1
  <2>4. ASSUME NEW j \in Slots, NEW k \in Slots, Swap(c, j, k) PROVE Kept
    <3>1. /\ list' = [list EXCEPT ![j] = list[k], ![k] = list[j]]
          /\ j \in Ids /\ k \in Ids
      BY <2>4, Linked DEF Swap
    <3>2. list'[k] = list[j] /\ (j # k => list'[j] = list[k])
          /\ (i # j /\ i # k => list'[i] = list[i])
      BY <1>a, <3>1
    <3> QED
      BY <3>2
  <2>5. CASE \/ \E n \in Names : CreateStart(c, n)
             \/ CreateRetry(c) \/ CreateFail(c) \/ DestroyFree(c) \/ DestroyAll(c)
             \/ DestroyAllEnd(c) \/ UseEnd(c) \/ \E k \in Slots : UseSet(c, k)
             \/ \E k \in Slots, n \in Names : Rename(c, k, n)
    BY <2>5, <1>1 DEF CreateStart, CreateRetry, CreateFail, DestroyFree, DestroyAll,
                      DestroyAllEnd, UseEnd, UseSet, Rename
  <2> QED
    BY <1>2, <2>1, <2>2, <2>3, <2>4, <2>5 DEF Command
<1>3. CASE LoadModule \/ StopModule \/ UnloadModule
  BY <1>3, <1>1 DEF LoadModule, StopModule, UnloadModule
<1>4. ASSUME NEW r \in Rules, Match(r) PROVE Kept
  BY <1>4, <1>1 DEF Match, RuleGet, RuleAccept, RulePut
<1>5. ASSUME NEW p \in Packets, Packet(p) PROVE Kept
  BY <1>5, <1>1 DEF Packet, PacketEnter, PacketLeave
<1>6. ASSUME NEW d \in Dumps, Dump(d) PROVE Kept
  BY <1>6, <1>1 DEF Dump, DumpStart, DumpCall, DumpScan, DumpLast, DumpMore, DumpNextSet,
                    DumpError, DumpDone
<1>7. CASE NetExit
  BY <1>7 DEF NetExit
<1>8. CASE UNCHANGED vars
  BY <1>8, <1>1 DEF vars
<1> QED
  BY <1>2, <1>3, <1>4, <1>5, <1>6, <1>7, <1>8 DEF Next

\* Who may change the packets, the rules they are in and is_deleted.
LEMMA PacketAround ==
  ASSUME TypeInv, [Next]_vars, NEW p \in Packets, pkt'[p] # NoPkt
  PROVE  \/ /\ pkt'[p] = pkt[p]
            /\ is_deleted' = is_deleted
            /\ pkt[p].rule \in Rules /\ rule[pkt[p].rule] # NoRef =>
                 /\ rule'[pkt[p].rule].id = rule[pkt[p].rule].id
                 /\ rule'[pkt[p].rule] # NoRef
         \/ /\ \E r \in Rules : PacketEnter(p, r)
            /\ UNCHANGED <<is_deleted, rule, list>>
<1>a. rule \in [Rules -> RuleType] /\ pkt \in [Packets -> PktType]
  BY DEF TypeInv, TypeOK
<1> DEFINE Around ==
      /\ pkt'[p] = pkt[p] /\ is_deleted' = is_deleted
      /\ pkt[p].rule \in Rules /\ rule[pkt[p].rule] # NoRef =>
           /\ rule'[pkt[p].rule].id = rule[pkt[p].rule].id
           /\ rule'[pkt[p].rule] # NoRef
<1>1. CASE UNCHANGED <<pkt, is_deleted, rule>>
  BY <1>1
<1>2. CASE LoadModule \/ StopModule \/ UnloadModule
  BY <1>2, <1>1 DEF LoadModule, StopModule, UnloadModule, flags
<1>3. ASSUME NEW c \in Threads, Command(c) PROVE Around
  BY <1>3, <1>1 DEF Command, CreateStart, CreateRetry, CreateFail, CreateLink, Destroy,
                    DestroyFree, DestroyAll, DestroyAllNext, DestroyAllEnd, Rename, Swap,
                    UseSet, UseEnd, flags
<1>4. ASSUME NEW r \in Rules, Match(r) PROVE Around
  <2>1. pkt' = pkt /\ is_deleted' = is_deleted
    BY <1>4 DEF Match, RuleGet, RuleAccept, RulePut, flags
  <2>2. ASSUME NEW i \in Slots, RuleGet(r, i) PROVE Around
    <3>1. rule[r] = NoRef /\ \A q \in Rules : q # r => rule'[q] = rule[q]
      BY <2>2, <1>a DEF RuleGet
    <3> QED
      BY <2>1, <3>1
  <2>3. CASE RuleAccept(r)
    <3>1. /\ \A q \in Rules : q # r => rule'[q] = rule[q]
          /\ rule'[r].id = rule[r].id /\ rule'[r].checked
      BY <2>3, <1>a DEF RuleAccept, RuleType
    <3>2. rule'[r] # NoRef
      BY <3>1 DEF NoRef
    <3> QED
      BY <2>1, <3>1, <3>2
  <2>4. CASE RulePut(r)
    <3>1. pkt[p].rule # r /\ \A q \in Rules : q # r => rule'[q] = rule[q]
      BY <2>4, <1>a DEF RulePut
    <3> QED
      BY <2>1, <3>1
  <2> QED
    BY <1>4, <2>2, <2>3, <2>4 DEF Match
<1>5. ASSUME NEW q \in Packets, Packet(q)
      PROVE  \/ Around
             \/ (\E r \in Rules : PacketEnter(p, r)) /\ UNCHANGED <<is_deleted, rule, list>>
  <2>1. UNCHANGED <<is_deleted, rule, list>>
    BY <1>5 DEF Packet, PacketEnter, PacketLeave, flags
  <2>2. CASE q # p
    <3>1. pkt'[p] = pkt[p]
      BY <1>5, <1>a, <2>2 DEF Packet, PacketEnter, PacketLeave
    <3> QED
      BY <2>1, <3>1
  <2>3. CASE q = p
    <3>1. ~PacketLeave(p)
      BY <1>a DEF PacketLeave
    <3> QED
      BY <1>5, <2>1, <2>3, <3>1 DEF Packet
  <2> QED
    BY <2>2, <2>3
<1>6. ASSUME NEW d \in Dumps, Dump(d) PROVE Around
  BY <1>6, <1>1 DEF Dump, DumpStart, DumpCall, DumpScan, DumpLast, DumpMore, DumpNextSet,
                    DumpError, DumpDone, flags
<1>7. ~NetExit
  BY DEF NetExit
<1>8. CASE UNCHANGED vars
  BY <1>8, <1>1 DEF vars, flags
<1> QED
  BY <1>2, <1>3, <1>4, <1>5, <1>6, <1>7, <1>8 DEF Next

\* A step of MCNext is a step of the registry.
LEMMA HistoryOnly == [MCNext]_<<vars, histvars>> => [Next]_vars
PROOF BY DEF MCNext

\* Every step keeps PacketInv.
LEMMA PacketStep ==
  TypeInv /\ LinkInv /\ RefInv /\ PacketInv /\ [MCNext]_<<vars, histvars>> => PacketInv'
<1> SUFFICES ASSUME TypeInv, LinkInv, RefInv, PacketInv, MCNext PROVE PacketInv'
  BY DEF PacketInv, vars, histvars, flags
<1>a. [Next]_vars
  BY DEF MCNext
<1> SUFFICES ASSUME NEW p \in Packets, pkt'[p] # NoPkt
             PROVE  /\ ~is_deleted' /\ pkt'[p].rule \in Rules
                    /\ rule'[pkt'[p].rule] # NoRef
                    /\ pkt'[p].set \in Sets
                    /\ moved'[p] \/ list'[rule'[pkt'[p].rule].id] = pkt'[p].set
  BY DEF PacketInv
<1>b. \A r \in Rules : rule[r] # NoRef /\ ~is_deleted =>
        /\ rule[r].id \in Slots /\ list[rule[r].id] \in Sets /\ r \in RulesAt(rule[r].id)
  <2> SUFFICES ASSUME NEW r \in Rules, rule[r] # NoRef, ~is_deleted
               PROVE  /\ rule[r].id \in Slots /\ list[rule[r].id] \in Sets
                      /\ r \in RulesAt(rule[r].id)
    OBVIOUS
  <2>1. rule[r].id \in Ids /\ rule[r].id < max /\ list[rule[r].id] # NoSet
    BY DEF RefInv, RefsCountRules, TypeInv, TypeOK, RuleType
  <2> QED
    BY <2>1 DEF Slots, Ids, RulesAt, TypeInv, TypeOK
<1>1. ASSUME NEW r \in Rules, PacketEnter(p, r), UNCHANGED <<is_deleted, rule, list>>
      PROVE  /\ ~is_deleted' /\ pkt'[p].rule \in Rules
             /\ rule'[pkt'[p].rule] # NoRef
             /\ pkt'[p].set \in Sets
             /\ list'[rule'[pkt'[p].rule].id] = pkt'[p].set
  <2>1. pkt'[p].rule = r /\ pkt'[p].set = list[rule[r].id]
    BY <1>1 DEF PacketEnter, TypeInv, TypeOK
  <2>2. rule[r] # NoRef /\ ~is_deleted
    BY <1>1 DEF PacketEnter
  <2> QED
    BY <1>1, <1>b, <2>1, <2>2
<1>2. CASE /\ pkt'[p] = pkt[p]
           /\ is_deleted' = is_deleted
           /\ pkt[p].rule \in Rules /\ rule[pkt[p].rule] # NoRef =>
                /\ rule'[pkt[p].rule].id = rule[pkt[p].rule].id
                /\ rule'[pkt[p].rule] # NoRef
  <2> DEFINE i == rule[pkt[p].rule].id
  <2>1. /\ ~is_deleted /\ pkt[p].rule \in Rules /\ rule[pkt[p].rule] # NoRef
        /\ pkt[p].set \in Sets /\ (moved[p] \/ list[i] = pkt[p].set)
    BY <1>2 DEF PacketInv
  <2>2. moved[p] => moved'[p]
    BY DEF MCNext, HistNext
  <2>3. ASSUME ~moved[p] PROVE moved'[p] \/ list'[i] = pkt[p].set
    <3>1. i \in Slots /\ list[i] # NoSet /\ RulesAt(i) # {} /\ list[i] = pkt[p].set
      BY <1>b, <2>1, <2>3, RegistryAssumption
    <3>2. list'[i] = list[i] \/ \E j \in Slots : j # i /\ list'[j] = list[i]
      BY <1>a, <1>2, <2>1, <3>1, RuledIndexKept
    <3>3. (\E j \in Slots : j # i /\ list'[j] = list[i]) => moved'[p]
      BY <1>2, <3>1 DEF MCNext, HistNext
    <3> QED
      BY <3>1, <3>2, <3>3
  <2> QED
    BY <1>2, <2>1, <2>2, <2>3
<1> QED
  BY <1>a, <1>1, <1>2, PacketAround

\* The reference of a rule protects the packets in the rule: a packet meets
\* a set that is no longer live only when swap has moved the set to another
\* index since the packet read it.
THEOREM PacketsProtectedButForSwap == MCSpec => []FreedOnlyAfterSwap
<1>1. MCInit => TypeInv /\ LinkInv /\ RefInv /\ PacketInv
  BY TypeInit, LinkInit, RefInit DEF MCInit, Init, PacketInv
<1>2. TypeInv /\ LinkInv /\ RefInv /\ PacketInv => FreedOnlyAfterSwap
  <2> SUFFICES ASSUME TypeInv, LinkInv, RefInv, PacketInv, NEW p \in Packets, pkt[p] # NoPkt
               PROVE  pkt[p].set # NoSet /\ (moved[p] \/ state[pkt[p].set] = "live")
    BY DEF FreedOnlyAfterSwap
  <2>1. rule[pkt[p].rule].id \in Ids /\ pkt[p].set # NoSet
    BY RegistryAssumption DEF PacketInv, TypeInv, TypeOK, RuleType
  <2> QED
    BY <2>1 DEF PacketInv, LinkInv, NamesUnique
<1> QED
  BY <1>1, <1>2, HistoryOnly, TypeStep, LinkStep, RefStep, PacketStep, PTL DEF MCSpec

-----------------------------------------------------------------------------
(* What a dump of all sets reports.                                        *)

\* A set that a create owns or that is in the list has a name.
NamedInv == \A s \in Sets : state[s] \in {"new", "live"} => name[s] \in Names

\* Dump d has reported the set at index i.
Reported(d, i) ==
  dump[d].kind = "last" \/ i < dump[d].index \/ (i = dump[d].index /\ Keeping(d))

\* A name that has been in the list since dump d began is at an index that
\* the loop reaches, and has been reported once if the dump is past the
\* index and not at all before.
ReportedOnce(d) ==
  dump[d].pc # "off" /\ dump[d].kind # "one" =>
    \A i \in Slots : list[i] # NoSet /\ name[list[i]] \in through[d] =>
      /\ seen[d][name[list[i]]] = IF Reported(d, i) THEN 1 ELSE 0
      /\ dump[d].pc = "scan" => i < dump[d].limit

ReportInv ==
  \A d \in Dumps :
    /\ seen[d] \in [Names -> Nat]
    /\ dump[d].pc = "off" => seen[d] = NotSeen
    /\ \A n \in through[d] : \E i \in Slots : Bears(i, n)
    /\ ReportedOnce(d)

\* A set gets its name when it is made, and keeps one until it is freed.
LEMMA NamedStep == TypeInv /\ LinkInv /\ NamedInv /\ [Next]_vars => NamedInv'
<1> SUFFICES ASSUME TypeInv, LinkInv, NamedInv, [Next]_vars PROVE NamedInv'
  OBVIOUS
<1>a. /\ state \in [Sets -> {"free", "new", "live", "dying"}]
      /\ name \in [Sets -> Names \cup {NoName}]
      /\ list \in [Ids -> Sets \cup {NoSet}] /\ cmd \in [Threads -> CmdType]
  BY DEF TypeInv, TypeOK
<1>b. ASSUME state' = state, name' = name PROVE NamedInv'
  BY <1>b DEF NamedInv
<1>c. ASSUME NEW s, Kfree(s) PROVE NamedInv'
  BY <1>a, <1>c DEF Kfree, NamedInv
<1>1. ASSUME NEW c \in Threads, Command(c) PROVE NamedInv'
  <2>1. ASSUME NEW n \in Names, CreateStart(c, n) PROVE NamedInv'
    BY <2>1, <1>a DEF CreateStart, NamedInv
  <2>2. CASE CreateRetry(c) \/ CreateFail(c) \/ DestroyFree(c) \/ DestroyAllNext(c)
    BY <2>2, <1>b, <1>c DEF CreateRetry, CreateFail, DestroyFree, DestroyAllNext, setvars
  <2>3. CASE CreateLink(c)
    <3>1. cmd[c].set \in Sets /\ state[cmd[c].set] = "new"
      BY <2>3 DEF CreateLink, LinkInv, CmdInv
    <3> QED
      BY <2>3, <1>a, <3>1 DEF CreateLink, NamedInv
  <2>4. ASSUME NEW i \in Slots, Destroy(c, i) PROVE NamedInv'
    BY <2>4, <1>a DEF Destroy, NamedInv
  <2>5. ASSUME NEW i \in Slots, NEW n \in Names, Rename(c, i, n) PROVE NamedInv'
    BY <2>5, <1>a DEF Rename, NamedInv
  <2>6. ASSUME NEW i \in Slots, NEW j \in Slots, Swap(c, i, j) PROVE NamedInv'
    <3>1. /\ list[i] \in Sets /\ state[list[i]] = "live"
          /\ list[j] \in Sets /\ state[list[j]] = "live"
      BY <2>6, Linked DEF Swap
    <3> QED
      BY <2>6, <1>a, <3>1 DEF Swap, NamedInv
  <2>7. CASE DestroyAll(c) \/ DestroyAllEnd(c) \/ UseEnd(c) \/ \E i \in Slots : UseSet(c, i)
    BY <2>7, <1>b DEF DestroyAll, DestroyAllEnd, UseEnd, UseSet, setvars
  <2> QED
    BY <1>1, <2>1, <2>2, <2>3, <2>4, <2>5, <2>6, <2>7 DEF Command
<1>2. CASE LoadModule \/ StopModule \/ UnloadModule
  BY <1>2, <1>b DEF LoadModule, StopModule, UnloadModule, setvars
<1>3. ASSUME NEW r \in Rules, Match(r) PROVE NamedInv'
  BY <1>3, <1>b DEF Match, RuleGet, RuleAccept, RulePut, setvars
<1>4. ASSUME NEW p \in Packets, Packet(p) PROVE NamedInv'
  BY <1>4, <1>b DEF Packet, PacketEnter, PacketLeave, setvars
<1>5. ASSUME NEW d \in Dumps, Dump(d) PROVE NamedInv'
  BY <1>5, <1>b DEF Dump, DumpStart, DumpCall, DumpScan, DumpLast, DumpMore, DumpNextSet,
                    DumpError, DumpDone, setvars
<1>6. CASE NetExit
  BY <1>6, <1>a DEF NetExit, NamedInv
<1>7. CASE UNCHANGED vars
  BY <1>7, <1>b DEF vars, setvars
<1> QED
  BY <1>1, <1>2, <1>3, <1>4, <1>5, <1>6, <1>7 DEF Next

\* No step takes one set out of the list and puts another one in.
LEMMA GrowsOrShrinks ==
  ASSUME TypeInv, LinkInv, [Next]_vars
  PROVE  \/ \A i \in Ids : list[i] # NoSet => list'[i] # NoSet
         \/ \A i \in Ids : list'[i] # NoSet => list[i] # NoSet
<1> DEFINE Grows == \A i \in Ids : list[i] # NoSet => list'[i] # NoSet
           Shrinks == \A i \in Ids : list'[i] # NoSet => list[i] # NoSet
<1>a. list \in [Ids -> Sets \cup {NoSet}] /\ cmd \in [Threads -> CmdType]
  BY DEF TypeInv, TypeOK
<1>1. CASE list' = list
  BY <1>1
<1>2. ASSUME NEW c \in Threads, Command(c) PROVE Grows \/ Shrinks
  <2>1. CASE CreateLink(c)
    <3>1. cmd[c].set \in Sets /\ \E i \in Ids : list' = [list EXCEPT ![i] = cmd[c].set]
      BY <2>1 DEF CreateLink, LinkInv, CmdInv
    <3> QED
      BY <1>a, <3>1, RegistryAssumption
  <2>2. CASE (\E i \in Slots : Destroy(c, i)) \/ DestroyAllNext(c)
    <3>1. list' = list \/ \E i : list' = [list EXCEPT ![i] = NoSet]
      BY <2>2 DEF Destroy, DestroyAllNext
    <3> QED
      BY <1>a, <3>1
  <2>3. ASSUME NEW i \in Slots, NEW j \in Slots, Swap(c, i, j) PROVE Grows
    BY <2>3, <1>a DEF Swap
  <2>4. CASE \/ \E n \in Names : CreateStart(c, n)
             \/ CreateRetry(c) \/ CreateFail(c) \/ DestroyFree(c) \/ DestroyAll(c)
             \/ DestroyAllEnd(c) \/ UseEnd(c) \/ \E k \in Slots : UseSet(c, k)
             \/ \E k \in Slots, n \in Names : Rename(c, k, n)
    BY <2>4, <1>1 DEF CreateStart, CreateRetry, CreateFail, DestroyFree, DestroyAll,
                      DestroyAllEnd, UseEnd, UseSet, Rename
  <2> QED
    BY <1>2, <2>1, <2>2, <2>3, <2>4 DEF Command
<1>3. CASE LoadModule \/ StopModule \/ UnloadModule
  BY <1>3, <1>1 DEF LoadModule, StopModule, UnloadModule
<1>4. ASSUME NEW r \in Rules, Match(r) PROVE Grows
  BY <1>4, <1>1 DEF Match, RuleGet, RuleAccept, RulePut
<1>5. ASSUME NEW p \in Packets, Packet(p) PROVE Grows
  BY <1>5, <1>1 DEF Packet, PacketEnter, PacketLeave
<1>6. ASSUME NEW d \in Dumps, Dump(d) PROVE Grows
  BY <1>6, <1>1 DEF Dump, DumpStart, DumpCall, DumpScan, DumpLast, DumpMore, DumpNextSet,
                    DumpError, DumpDone
<1>7. CASE NetExit
  BY <1>7 DEF NetExit
<1>8. CASE UNCHANGED vars
  BY <1>8, <1>1 DEF vars
<1> QED
  BY <1>2, <1>3, <1>4, <1>5, <1>6, <1>7, <1>8 DEF Next

\* A name that is in the list before and after a step is at the same index.
LEMMA SameIndex ==
  ASSUME TypeInv, LinkInv, LinkInv', [Next]_vars,
         NEW i \in Ids, NEW j \in Ids, list[i] # NoSet, list'[j] # NoSet,
         name'[list'[j]] = name[list[i]]
  PROVE  i = j
<1>1. CASE NamesKept
  <2>1. CASE list'[i] # NoSet
    BY <1>1, <2>1 DEF NamesKept, LinkInv, NamesUnique
  <2>2. CASE list'[i] = NoSet
    <3>1. list[j] # NoSet
      BY <2>2, GrowsOrShrinks
    <3> QED
      BY <1>1, <3>1 DEF NamesKept, LinkInv, NamesUnique
  <2> QED
    BY <2>1, <2>2
<1>2. ASSUME NEW c \in Threads, NEW k \in Slots, NEW n \in Names, Rename(c, k, n)
      PROVE  i = j
  <2>1. /\ list' = list /\ name' = [name EXCEPT ![list[k]] = n] /\ list[k] # NoSet
    BY <1>2 DEF Rename
  <2>2. name[list[i]] # n
    BY <1>2 DEF Rename, Bears, Slots, Ids, LinkInv, NamesUnique, TypeInv, TypeOK
  <2>3. name'[list[j]] = name[list[j]]
    BY <2>1, <2>2, Linked DEF TypeInv, TypeOK
  <2> QED
    BY <2>1, <2>3 DEF LinkInv, NamesUnique
<1> QED
  BY <1>1, <1>2, OnlyRenameRenames

\* A dump only moves by its own steps, which leave the list alone.
LEMMA DumpFrame ==
  ASSUME TypeInv, [Next]_vars, NEW d \in Dumps
  PROVE  dump'[d] = dump[d] \/ (Dump(d) /\ UNCHANGED <<list, max, name, is_destroyed>>)
<1>1. CASE dump' = dump
  BY <1>1
<1>2. ASSUME NEW c \in Threads, Command(c) PROVE dump' = dump
  <2>1. CASE (\E n \in Names : CreateStart(c, n)) \/ CreateRetry(c) \/ CreateFail(c)
             \/ CreateLink(c)
    BY <2>1 DEF CreateStart, CreateRetry, CreateFail, CreateLink
  <2>2. CASE (\E i \in Slots : Destroy(c, i)) \/ DestroyFree(c) \/ DestroyAll(c)
             \/ DestroyAllNext(c) \/ DestroyAllEnd(c)
    BY <2>2 DEF Destroy, DestroyFree, DestroyAll, DestroyAllNext, DestroyAllEnd
  <2>3. CASE (\E i \in Slots, n \in Names : Rename(c, i, n))
             \/ (\E i, j \in Slots : Swap(c, i, j))
             \/ (\E i \in Slots : UseSet(c, i)) \/ UseEnd(c)
    BY <2>3 DEF Rename, Swap, UseSet, UseEnd
  <2> QED
    BY <1>2, <2>1, <2>2, <2>3 DEF Command
<1>3. CASE \/ LoadModule \/ StopModule \/ UnloadModule \/ NetExit \/ UNCHANGED vars
           \/ \E r \in Rules : Match(r)
           \/ \E p \in Packets : Packet(p)
  BY <1>3, <1>1 DEF LoadModule, StopModule, UnloadModule, NetExit, vars, Match, RuleGet,
                    RuleAccept, RulePut, Packet, PacketEnter, PacketLeave
<1>4. ASSUME NEW e \in Dumps, Dump(e)
      PROVE  dump'[d] = dump[d] \/ (Dump(d) /\ UNCHANGED <<list, max, name, is_destroyed>>)
  <2>1. UNCHANGED <<list, max, name, is_destroyed>>
    BY <1>4 DEF Dump, DumpStart, DumpCall, DumpScan, DumpLast, DumpMore, DumpNextSet,
                DumpError, DumpDone, setvars, flags
  <2>2. CASE e # d
    <3>1. dump \in [Dumps -> DumpType]
      BY DEF TypeInv, TypeOK
    <3>2. CASE \/ \E kind \in {"one", "all"}, i \in Slots : DumpStart(e, kind, i)
               \/ DumpError(e) \/ DumpDone(e)
      BY <2>2, <3>1, <3>2 DEF DumpStart, DumpError, DumpDone
    <3>3. CASE DumpCall(e) \/ DumpLast(e)
      BY <2>2, <3>1, <3>3 DEF DumpCall, DumpLast
    <3>4. CASE DumpScan(e)
      BY <2>2, <3>1, <3>4 DEF DumpScan
    <3>5. CASE DumpMore(e) \/ DumpNextSet(e)
      BY <2>2, <3>1, <3>5 DEF DumpMore, DumpNextSet
    <3> QED
      BY <1>4, <3>2, <3>3, <3>4, <3>5 DEF Dump
  <2> QED
    BY <1>4, <2>1, <2>2
<1> QED
  BY <1>1, <1>2, <1>3, <1>4 DEF Next

\* The histories of one dump after a step.
LEMMA HistFacts ==
  ASSUME TypeInv', HistNext, NEW d \in Dumps
  PROVE  /\ dump'[d].pc = "off" => seen'[d] = NotSeen /\ through'[d] = {}
         /\ is_destroyed' => through'[d] = {}
         /\ ~Started(d) => through'[d] \subseteq through[d]
         /\ dump'[d].pc # "off" /\ ~Reports(d) => seen'[d] = seen[d]
         /\ dump'[d].pc # "off" /\ Reports(d) =>
              seen'[d] = [seen[d] EXCEPT ![name[list[dump[d].index]]] = @ + 1]
         /\ \A n \in through'[d] : \E i \in Slots' : Bears(i, n)'
<1>0. \A i \in 0 .. max' - 1 : i < max'
  <2>1. max' \in Int
    BY IdFacts DEF TypeInv, TypeOK
  <2>2. \A m \in Int : \A i \in 0 .. m - 1 : i < m
    OBVIOUS
  <2> QED
    BY <2>1, <2>2
<1>1. through'[d] \subseteq NamesIn(list', max', name')
  BY DEF HistNext
<1>2. \A n \in NamesIn(list', max', name') : \E i \in Slots' : Bears(i, n)'
  <2> SUFFICES ASSUME NEW n \in NamesIn(list', max', name') PROVE \E i \in Slots' : Bears(i, n)'
    OBVIOUS
  <2>1. PICK i \in 0 .. max' - 1 : list'[i] # NoSet /\ n = name'[list'[i]]
    BY DEF NamesIn
  <2>2. i \in Slots' /\ i < max'
    BY <1>0 DEF Slots
  <2> QED
    BY <2>1, <2>2 DEF Bears
<1> QED
  BY <1>1, <1>2 DEF HistNext

\* Whatever the others do, a name in through[d] stays where it is.
LEMMA ReportQuiet ==
  ASSUME TypeInv, TypeInv', LinkInv, LinkInv', ReportInv, [Next]_vars, HistNext,
         NEW d \in Dumps, dump'[d] = dump[d]
  PROVE  ReportedOnce(d)'
<1> SUFFICES ASSUME dump[d].pc # "off", dump[d].kind # "one",
                    NEW i \in Slots', list'[i] # NoSet, name'[list'[i]] \in through'[d]
             PROVE  /\ seen'[d][name'[list'[i]]] = IF Reported(d, i)' THEN 1 ELSE 0
                    /\ dump[d].pc = "scan" => i < dump[d].limit
  BY DEF ReportedOnce
<1> DEFINE n == name'[list'[i]]
<1>1. ~Started(d) /\ ~Reports(d)
  BY DEF Started, Reports
<1>2. seen'[d] = seen[d] /\ n \in through[d]
  BY <1>1, HistFacts
<1>3. PICK j \in Slots : Bears(j, n)
  BY <1>2 DEF ReportInv
<1>4. i \in Ids /\ j \in Ids
  <2>1. max \in 1 .. InvalidId - 1 /\ max' \in 1 .. InvalidId - 1
    BY DEF TypeInv, TypeOK
  <2> QED
    BY <2>1, IndexBelow DEF Slots
<1>5. j = i
  BY <1>3, <1>4, SameIndex DEF Bears
<1>6. list[i] # NoSet /\ name[list[i]] = n /\ i \in Slots
  BY <1>3, <1>5 DEF Bears
<1>7. /\ seen[d][n] = IF Reported(d, i) THEN 1 ELSE 0
      /\ dump[d].pc = "scan" => i < dump[d].limit
  BY <1>2, <1>6 DEF ReportInv, ReportedOnce
<1>8. Reported(d, i)' <=> Reported(d, i)
  BY DEF Reported, Keeping
<1> QED
  BY <1>2, <1>7, <1>8

\* The dump itself reports each set once on its way.
LEMMA ReportDump ==
  ASSUME TypeInv, TypeInv', LinkInv, DumpInv, NamedInv, ReportInv, HistNext,
         NEW d \in Dumps, Dump(d), UNCHANGED <<list, max, name, is_destroyed>>
  PROVE  ReportedOnce(d)'
<1>a. /\ dump \in [Dumps -> DumpType] /\ dump[d] \in DumpType
      /\ dump[d].index \in Int /\ dump[d].limit \in Int /\ max \in Int
      /\ \A i \in Slots : i \in Ids /\ i \in Int /\ i < max
  <2>1. max \in 1 .. InvalidId - 1
    BY DEF TypeInv, TypeOK
  <2>2. \A i \in Slots : i \in Ids /\ i < max
    <3>1. max \in Int
      BY <2>1, IdFacts
    <3>2. \A m \in Int : \A i \in 0 .. m - 1 : i < m
      OBVIOUS
    <3> QED
      BY <2>1, <3>1, <3>2, IndexBelow DEF Slots
  <2>3. dump \in [Dumps -> DumpType] /\ dump[d] \in DumpType
    BY DEF TypeInv, TypeOK
  <2>4. dump[d].index \in Ids /\ dump[d].limit \in Ids
    BY <2>3 DEF DumpType
  <2>5. max \in Int
    BY <2>1, IdFacts
  <2> QED
    BY <2>2, <2>3, <2>4, <2>5, IdFacts
<1> SUFFICES ASSUME dump'[d].pc # "off", dump'[d].kind # "one",
                    NEW i \in Slots, list[i] # NoSet, name[list[i]] \in through'[d]
             PROVE  /\ seen'[d][name[list[i]]] = IF Reported(d, i)' THEN 1 ELSE 0
                    /\ dump'[d].pc = "scan" => i < dump'[d].limit
  BY DEF ReportedOnce, Slots
<1> DEFINE n == name[list[i]]
<1>b. n \in Names
  BY Linked DEF NamedInv
<1>c. ~is_destroyed
  BY HistFacts
<1>d. ASSUME dump[d].pc # "off", dump[d].kind # "one"
      PROVE  /\ seen[d][n] = IF Reported(d, i) THEN 1 ELSE 0
             /\ dump[d].pc = "scan" => i < dump[d].limit
  <2>1. n \in through[d]
    BY <1>d, HistFacts DEF Started
  <2> QED
    BY <1>d, <2>1 DEF ReportInv, ReportedOnce
<1>1. ASSUME NEW kind \in {"one", "all"}, NEW k \in Slots, DumpStart(d, kind, k)
      PROVE  /\ seen'[d][n] = IF Reported(d, i)' THEN 1 ELSE 0
             /\ dump'[d].pc = "scan" => i < dump'[d].limit
  <2>1. /\ dump[d].pc = "off" /\ dump'[d].pc = "ready" /\ ~dump'[d].arg0
        /\ dump'[d].kind = kind /\ dump'[d].index = k /\ (kind = "all" => k = 0)
    BY <1>1, <1>a DEF DumpStart, NoDump
  <2>2. seen'[d] = NotSeen
    BY <2>1, HistFacts DEF Reports, ReportInv
  <2>3. ~Reported(d, i)'
    BY <1>a, <2>1 DEF Reported, Keeping, Slots
  <2> QED
    BY <1>b, <2>1, <2>2, <2>3 DEF NotSeen
<1>2. CASE DumpCall(d)
  <2>1. /\ dump[d].pc = "ready" /\ dump'[d].pc = "scan" /\ dump'[d].arg0 = dump[d].arg0
        /\ dump'[d].kind = dump[d].kind /\ dump'[d].index = dump[d].index
        /\ dump'[d].limit = DumpLimit(d)
    BY <1>2, <1>a DEF DumpCall, NoDump, DumpType
  <2>2. DumpLimit(d) = max
    BY <2>1 DEF DumpLimit
  <2>3. seen'[d] = seen[d]
    BY <2>1, HistFacts DEF Reports
  <2>4. Reported(d, i)' <=> Reported(d, i)
    BY <2>1 DEF Reported, Keeping
  <2> QED
    BY <1>a, <1>d, <2>1, <2>2, <2>3, <2>4
<1>3. CASE DumpScan(d)
  <2>1. dump[d].pc = "scan"
    BY <1>3 DEF DumpScan
  <2>2. CASE /\ list[dump[d].index] = NoSet \/ dump[d].kind = "last"
             /\ dump' = [dump EXCEPT ![d].index = dump[d].index + 1]
    <3>1. /\ dump'[d].pc = "scan" /\ dump'[d].kind = dump[d].kind
          /\ dump'[d].index = dump[d].index + 1 /\ dump'[d].arg0 = dump[d].arg0
          /\ dump'[d].limit = dump[d].limit
      BY <1>a, <2>1, <2>2 DEF DumpType
    <3>2. seen'[d] = seen[d]
      BY <3>1, HistFacts DEF Reports
    <3>3. Reported(d, i)' <=> Reported(d, i)
      <4>1. CASE dump[d].kind = "last"
        BY <3>1, <4>1 DEF Reported
      <4>2. CASE dump[d].kind # "last"
        <5>1. i # dump[d].index /\ ~Keeping(d)
          BY <2>2, <4>2, KeepingFacts, RegistryAssumption
        <5>2. ~Keeping(d)'
          BY <3>1, <5>1 DEF Keeping
        <5>3. i < dump[d].index + 1 <=> i < dump[d].index
          BY <1>a, <5>1
        <5> QED
          BY <3>1, <4>2, <5>1, <5>2, <5>3 DEF Reported
      <4> QED
        BY <4>1, <4>2
    <3> QED
      BY <1>d, <2>1, <3>1, <3>2, <3>3
  <2>3. CASE /\ list[dump[d].index] # NoSet /\ dump[d].kind # "last"
             /\ dump' = [dump EXCEPT ![d].pc = "list", ![d].set = list[dump[d].index]]
    <3>1. /\ dump'[d].pc = "list" /\ dump'[d].kind = dump[d].kind
          /\ dump'[d].index = dump[d].index /\ dump'[d].arg0 = dump[d].arg0
      BY <1>a, <2>3 DEF DumpType
    <3>2. Keeping(d)' /\ (Keeping(d) <=> dump[d].arg0) /\ (Reports(d) <=> ~dump[d].arg0)
      BY <2>1, <3>1 DEF Keeping, Reports
    <3>3. CASE dump[d].arg0
      <4>1. seen'[d] = seen[d]
        BY <3>1, <3>2, <3>3, HistFacts
      <4>2. Reported(d, i)' <=> Reported(d, i)
        BY <3>1, <3>2, <3>3 DEF Reported
      <4> QED
        BY <1>d, <2>1, <3>1, <4>1, <4>2
    <3>4. CASE ~dump[d].arg0
      <4> DEFINE m == name[list[dump[d].index]]
      <4>1. seen'[d] = [seen[d] EXCEPT ![m] = @ + 1]
        BY <3>1, <3>2, <3>4, HistFacts
      <4>2. seen[d] \in [Names -> Nat]
        BY DEF ReportInv
      <4>3. CASE i = dump[d].index
        <5>1. seen[d][n] = 0
          BY <1>a, <1>d, <2>1, <2>3, <3>1, <3>2, <3>4, <4>3 DEF Reported
        <5>2. Reported(d, i)'
          BY <3>1, <3>2, <4>3 DEF Reported
        <5>3. seen'[d][n] = 1
          <6>1. seen'[d][n] = seen[d][n] + 1
            BY <1>b, <4>1, <4>2, <4>3
          <6> QED
            BY <5>1, <6>1
        <5> QED
          BY <3>1, <5>2, <5>3
      <4>4. CASE i # dump[d].index
        <5>1. m # n
          <6>1. dump[d].index \in Ids
            BY <1>a DEF DumpType
          <6> QED
            BY <1>a, <2>3, <4>4, <6>1 DEF LinkInv, NamesUnique
        <5>2. seen'[d][n] = seen[d][n]
          BY <1>b, <4>1, <4>2, <5>1
        <5>3. Reported(d, i)' <=> Reported(d, i)
          BY <3>1, <4>4 DEF Reported
        <5> QED
          BY <1>d, <2>1, <3>1, <5>2, <5>3
      <4> QED
        BY <4>3, <4>4
    <3> QED
      BY <3>3, <3>4
  <2>4. \/ /\ list[dump[d].index] = NoSet \/ dump[d].kind = "last"
           /\ dump' = [dump EXCEPT ![d].index = dump[d].index + 1]
        \/ /\ list[dump[d].index] # NoSet /\ dump[d].kind # "last"
           /\ dump' = [dump EXCEPT ![d].pc = "list", ![d].set = list[dump[d].index]]
        \/ dump' = [dump EXCEPT ![d] = NoDump]
    BY <1>3, <1>c DEF DumpScan
  <2>5. dump' # [dump EXCEPT ![d] = NoDump]
    BY <1>a DEF NoDump
  <2> QED
    BY <2>2, <2>3, <2>4, <2>5
<1>4. CASE DumpLast(d)
  <2>1. /\ dump[d].pc = "scan" /\ dump[d].index >= dump[d].limit
        /\ dump[d].kind = "all" /\ dump'[d].kind = "last"
        /\ dump'[d].pc = "scan" /\ dump'[d].limit = dump[d].limit
    BY <1>4, <1>a DEF DumpLast, NoDump, DumpType
  <2>2. i < dump[d].limit /\ seen[d][n] = IF Reported(d, i) THEN 1 ELSE 0
    BY <1>d, <2>1
  <2>3. Reported(d, i) /\ Reported(d, i)'
    BY <1>a, <2>1, <2>2 DEF Reported
  <2>4. seen'[d] = seen[d]
    BY <2>1, HistFacts DEF Reports
  <2> QED
    BY <2>1, <2>2, <2>3, <2>4
<1>5. CASE DumpMore(d)
  <2>1. /\ dump[d].pc = "list" /\ dump'[d].pc = "ready" /\ dump'[d].arg0
        /\ dump'[d].kind = dump[d].kind /\ dump'[d].index = dump[d].index
    BY <1>5, <1>a DEF DumpMore, DumpType
  <2>2. seen'[d] = seen[d]
    BY <2>1, HistFacts DEF Reports
  <2>3. Reported(d, i)' <=> Reported(d, i)
    BY <2>1 DEF Reported, Keeping
  <2> QED
    BY <1>d, <2>1, <2>2, <2>3
<1>6. CASE DumpNextSet(d)
  <2>1. /\ dump[d].pc = "list" /\ dump'[d].pc = "ready" /\ ~dump'[d].arg0
        /\ dump'[d].kind = dump[d].kind
        /\ dump'[d].index = IF dump[d].kind = "one" THEN InvalidId ELSE dump[d].index + 1
    BY <1>6, <1>a DEF DumpNextSet, DumpType
  <2>2. seen'[d] = seen[d]
    BY <2>1, HistFacts DEF Reports
  <2>3. Reported(d, i)' <=> Reported(d, i)
    <3>1. Keeping(d) /\ ~Keeping(d)' /\ dump'[d].index = dump[d].index + 1
      BY <2>1 DEF Keeping
    <3>2. i < dump[d].index + 1 <=> i < dump[d].index \/ i = dump[d].index
      BY <1>a
    <3> QED
      BY <2>1, <3>1, <3>2 DEF Reported
  <2> QED
    BY <1>d, <2>1, <2>2, <2>3
<1>7. ~DumpError(d) /\ ~DumpDone(d)
  BY <1>a DEF DumpError, DumpDone, NoDump
<1> QED
  BY <1>1, <1>2, <1>3, <1>4, <1>5, <1>6, <1>7 DEF Dump

\* Every step keeps what the dumps have reported.
LEMMA ReportStep ==
  TypeInv /\ LinkInv /\ DumpInv /\ NamedInv /\ ReportInv /\ [MCNext]_<<vars, histvars>>
    => ReportInv'
<1> SUFFICES ASSUME TypeInv, LinkInv, DumpInv, NamedInv, ReportInv, MCNext PROVE ReportInv'
  <2>1. CASE UNCHANGED <<vars, histvars>>
    <3>1. UNCHANGED <<list, max, name, dump, seen, through>>
      BY <2>1 DEF vars, histvars, setvars
    <3> QED
      BY <3>1 DEF ReportInv, ReportedOnce, Reported, Keeping, Bears, Slots
  <2> QED
    BY <2>1
<1>a. [Next]_vars /\ HistNext
  BY DEF MCNext
<1>b. TypeInv' /\ LinkInv'
  BY <1>a, TypeStep, LinkStep
<1> SUFFICES ASSUME NEW d \in Dumps
             PROVE  /\ seen'[d] \in [Names -> Nat]
                    /\ dump'[d].pc = "off" => seen'[d] = NotSeen
                    /\ \A n \in through'[d] : \E i \in Slots' : Bears(i, n)'
                    /\ ReportedOnce(d)'
  BY DEF ReportInv
<1>1. ReportedOnce(d)'
  BY <1>a, <1>b, DumpFrame, ReportQuiet, ReportDump
<1>2. seen'[d] \in [Names -> Nat]
  <2>1. seen[d] \in [Names -> Nat] /\ NotSeen \in [Names -> Nat]
    BY DEF ReportInv, NotSeen
  <2>2. CASE dump'[d].pc = "off" \/ ~Reports(d)
    BY <1>a, <1>b, <2>1, <2>2, HistFacts
  <2>3. CASE dump'[d].pc # "off" /\ Reports(d)
    <3>1. seen'[d] = [seen[d] EXCEPT ![name[list[dump[d].index]]] = @ + 1]
      BY <1>a, <1>b, <2>3, HistFacts
    <3>2. CASE name[list[dump[d].index]] \in Names
      BY <2>1, <3>1, <3>2
    <3>3. CASE name[list[dump[d].index]] \notin Names
      BY <2>1, <3>1, <3>3
    <3> QED
      BY <3>2, <3>3
  <2> QED
    BY <2>2, <2>3
<1> QED
  BY <1>a, <1>b, <1>1, <1>2, HistFacts

\* A dump of all sets that runs to its end has reported every name that was
\* in the list all the time, and none of them twice, whatever is created,
\* destroyed, swapped and renamed between its callbacks.
THEOREM DumpsReportAllOnce == MCSpec => DumpAllComplete
<1>1. MCInit => TypeInv /\ LinkInv /\ DumpInv /\ NamedInv /\ ReportInv
  <2> SUFFICES ASSUME MCInit PROVE TypeInv /\ LinkInv /\ DumpInv /\ NamedInv /\ ReportInv
    OBVIOUS
  <2>1. NamedInv
    BY DEF MCInit, Init, NamedInv
  <2>2. ReportInv
    BY DEF MCInit, Init, HistInit, ReportInv, ReportedOnce, NotSeen, NoDump
  <2> QED
    BY <2>1, <2>2, TypeInit, LinkInit, DumpInit DEF MCInit
<1>2. TypeInv /\ ReportInv =>
      [\A d \in Dumps :
         /\ dump[d].pc \in {"ready", "scan"} /\ dump[d].kind # "one"
         /\ dump'[d].pc = "off"
         /\ dump[d].index >= (IF dump[d].pc = "ready" THEN max ELSE dump[d].limit)
         => \A n \in through[d] : seen[d][n] = 1]_<<vars, histvars>>
  <2> SUFFICES ASSUME TypeInv, ReportInv, NEW d \in Dumps,
                      dump[d].pc \in {"ready", "scan"}, dump[d].kind # "one",
                      dump[d].index >= (IF dump[d].pc = "ready" THEN max ELSE dump[d].limit),
                      NEW n \in through[d]
               PROVE  seen[d][n] = 1
    OBVIOUS
  <2>1. PICK i \in Slots : Bears(i, n)
    BY DEF ReportInv
  <2>2. /\ seen[d][n] = IF Reported(d, i) THEN 1 ELSE 0
        /\ dump[d].pc = "scan" => i < dump[d].limit
    BY <2>1 DEF Bears, ReportInv, ReportedOnce
  <2>3. i < max /\ i \in Int /\ max \in Int /\ dump[d].index \in Int /\ dump[d].limit \in Int
    <3>1. dump[d].index \in Ids /\ dump[d].limit \in Ids /\ max \in Int
      BY IdFacts DEF TypeInv, TypeOK, DumpType
    <3>2. i \in Int
      BY <3>1 DEF Slots
    <3> QED
      BY <2>1, <3>1, <3>2, IdFacts DEF Bears
  <2>4. Reported(d, i)
    BY <2>2, <2>3 DEF Reported
  <2> QED
    BY <2>2, <2>4
<1> QED
  BY <1>1, <1>2, HistoryOnly, TypeStep, LinkStep, DumpStep, NamedStep, ReportStep, PTL
     DEF MCSpec, DumpAllComplete

=============================================================================

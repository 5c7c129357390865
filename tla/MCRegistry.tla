----------------------------- MODULE MCRegistry -----------------------------
(***************************************************************************)
(* DsetRegistry on small instances, with three history variables that no   *)
(* action reads: the names each dump has reported, the names that have     *)
(* been in the list since the dump began, and whether the set a packet     *)
(* works on has been moved by a swap since the packet read it.             *)
(***************************************************************************)
EXTENDS DsetRegistry, TLC

VARIABLES seen, through, moved

histvars == <<seen, through, moved>>

NamesIn(l, m, n) == {n[l[i]] : i \in {j \in 0 .. m - 1 : l[j] # NoSet}}

Started(d) == dump[d].pc = "off" /\ dump'[d].pc # "off"

\* Dump d begins the listing of one more set in this step.
Reports(d) == dump[d].pc = "scan" /\ dump'[d].pc = "list" /\ ~dump[d].arg0

NotSeen == [n \in Names |-> 0]

HistInit ==
  /\ seen = [d \in Dumps |-> NotSeen]
  /\ through = [d \in Dumps |-> {}]
  /\ moved = [p \in Packets |-> FALSE]

HistNext ==
  /\ seen' = [d \in Dumps |->
       IF dump'[d].pc = "off" THEN NotSeen
       ELSE IF Reports(d) THEN [seen[d] EXCEPT ![name[list[dump[d].index]]] = @ + 1]
       ELSE seen[d]]
  /\ through' = [d \in Dumps |->
       IF dump'[d].pc = "off" \/ is_destroyed' THEN {}
       ELSE IF Started(d) THEN NamesIn(list', max', name')
       ELSE through[d] \cap NamesIn(list', max', name')]
  /\ moved' = [p \in Packets |->
       /\ pkt'[p] # NoPkt
       /\ \/ moved[p]
          \/ \E i, j \in Slots :
               i # j /\ list[i] = pkt'[p].set /\ list'[j] = pkt'[p].set]

MCInit == Init /\ HistInit

MCNext == Next /\ HistNext

MCSpec == MCInit /\ [][MCNext]_<<vars, histvars>>

Symmetry ==
  Permutations(Sets) \cup Permutations(Names) \cup Permutations(Rules)
    \cup Permutations(Packets) \cup Permutations(Dumps) \cup Permutations(Threads)

-----------------------------------------------------------------------------
\* A packet meets a freed set only if a swap has moved the set away from the
\* index the packet read: a rule's reference does protect its packets from
\* destroy and from everything else.
FreedOnlyAfterSwap ==
  \A p \in Packets : pkt[p] # NoPkt =>
    /\ pkt[p].set # NoSet
    /\ moved[p] \/ state[pkt[p].set] = "live"

\* A dump of all sets that ends by itself has reported every name that was
\* in the list from its beginning to its end, and none of them twice, also
\* when sets are swapped, created, renamed or destroyed between callbacks.
DumpAllComplete ==
  [][\A d \in Dumps :
       /\ dump[d].pc \in {"ready", "scan"} /\ dump[d].kind # "one"
       /\ dump'[d].pc = "off"
       /\ dump[d].index >= (IF dump[d].pc = "ready" THEN max ELSE dump[d].limit)
       => \A n \in through[d] : seen[d][n] = 1]_<<vars, histvars>>
=============================================================================

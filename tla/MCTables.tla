------------------------------ MODULE MCTables ------------------------------
(***************************************************************************)
(* DsetTables with a record of the one kind of interleaving under which    *)
(* its tables are not safe.                                                *)
(***************************************************************************)
EXTENDS DsetTables, TLC

VARIABLE overlap  \* the end of a listing ran into the start of a resize

MCInit == Init /\ overlap = FALSE

\* A listing drops the last uref of the table at hand while a resize stands
\* between its ref and its uref, or a resize sets ref while such a listing
\* has not yet looked at it.
Overlapping ==
  \E d \in Dumpers : dump'[d].pc = "check" /\ dump'[d].table = table' /\ resize'.pc = "ref"

MCNext == Next /\ overlap' = (overlap \/ Overlapping)

MCSpec == MCInit /\ [][MCNext]_<<tablevars, overlap>>

\* Unless the end of a listing overlaps the start of a resize, nobody works
\* on a freed table: ref, uref and RCU together protect packets, the resize
\* and listings of old tables.
AliveWithoutOverlap == ~overlap => TablesAlive

Symmetry == Permutations(Readers) \cup Permutations(Dumpers)
=============================================================================

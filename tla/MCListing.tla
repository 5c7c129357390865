----------------------------- MODULE MCListing ------------------------------
(***************************************************************************)
(* DsetListing for TLC.  The lists of up to MaxSorted elements show that   *)
(* the merge sort of list_sort.c returns what DsetListing prints: five     *)
(* elements fill and empty three places of part[].                         *)
(***************************************************************************)
EXTENDS DsetListing

MaxSorted == 5

\* The set behind index 0 has room for both elements; the one behind index 1 is empty,
\* and its listing shows what a second section does.
TwoThenNone == [i \in 0 .. MaxIndex - 1 |-> 2 - 2 * i]

ASSUME ListSortSorts == \A s \in BoundedSeq(1 .. 3, MaxSorted) : ListSort(s) = Ascending(s)
=============================================================================

------------------------------- MODULE MCHash -------------------------------
(***************************************************************************)
(* DsetHash with hash values that make the domains collide.                *)
(***************************************************************************)
EXTENDS DsetHash, TLC

CONSTANTS d1, d2, d3

\* With one bit d1, d2 and d3 still collide; a resize that makes room for the third
\* of them doubles twice.
TwiceCollide ==
  [d \in Domains |-> CASE d \in {d1, d3} -> 0 [] d = d2 -> 2 [] OTHER -> 1]

\* Two buckets from the first bit on, one of them with a single domain.
OnceCollide == [d \in Domains |-> IF d = d1 THEN 0 ELSE 1]

\* All domains but d1 are subdomains of d1.
BelowD1 == [d \in Domains |-> IF d = d1 THEN NoElem ELSE d1]

\* Domains with the same hash and the same parent can be exchanged.
Symmetry == Permutations(Domains \ {d1})
=============================================================================

------------------------------ MODULE MCLookup ------------------------------
(* DsetLookup for TLC: the domains and the packets.                        *)
EXTENDS DsetLookup

\* When <<1, 1>> is written over <<2, 2>>, the third can be seen half-way.
ThreeDomains == {<<1, 1>>, <<2, 2>>, <<1, 2>>}

\* A name with two suffixes that just fits the buffer, one that does not, one
\* without any label, and two with a length byte above 127, the second behind a
\* label that does not fit.
FewPackets ==
  {[label |-> <<2, 2>>, suffix |-> <<<<1, 2>>, <<1, 1>>>>],
   [label |-> <<2, 3>>, suffix |-> <<<<1, 2>>, <<1, 1>>>>],
   [label |-> <<>>, suffix |-> <<>>],
   [label |-> <<2, 200>>, suffix |-> <<>>],
   [label |-> <<2, 3, 255>>, suffix |-> <<>>]}
=============================================================================

------------------------------ MODULE MCChain ------------------------------
(***************************************************************************)
(* Instances of Chain for TLC.                                             *)
(***************************************************************************)
EXTENDS Chain, TLC

CONSTANTS n1, n2, t1, t2

Blocks3 == 1 .. 3
Symmetry == Permutations({n1, n2}) \cup Permutations({t1, t2})

\* Bound on the messages in flight.
FewMessages == Cardinality(net) <= 2
=============================================================================

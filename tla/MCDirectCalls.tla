--------------------------- MODULE MCDirectCalls ----------------------------
(* DirectCalls on a few carriers. *)
EXTENDS DirectCalls, TLC

CONSTANTS g1, g2, a1, a2, a3

Names == Permutations({g1, g2}) \union Permutations({a1, a2, a3})
=============================================================================

----------------------------- MODULE MCRegistry -----------------------------
(* Registry on small instances. *)
EXTENDS Registry, TLC

CONSTANTS g1, g2, g3, common, pay, c1, c2

Callers   == Permutations({g1, g2, g3}) \union Permutations({c1, c2})
=============================================================================

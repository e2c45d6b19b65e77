---------------------------- MODULE MCThreeFlow -----------------------------
(* ThreeFlow on one value of each kind. *)
EXTENDS ThreeFlow, MCFlows
=============================================================================

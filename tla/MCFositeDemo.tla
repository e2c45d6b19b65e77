---------------------------- MODULE MCFositeDemo ----------------------------
(* FositeDemo on one value of each kind. *)
EXTENDS FositeDemo, MCFlows

SentForms == {Array(Marshal(Elements(ds))) : ds \in SomeDetails}
=============================================================================

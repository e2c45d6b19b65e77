---------------------------- MODULE BuiltinCodec ----------------------------
(* Package rar as the examples use it: no type registered beyond "common", *)
(* a whole array decoded or encoded in one step, which nothing else in     *)
(* those programs can interrupt.  Module Codec takes one element a step.   *)
EXTENDS Details

\* What such a program holds: no consumer codec, and nothing of the reserved
\* name in the carrier that Parse keeps for unregistered ones.
LocalDetail == {d \in AuthorizationDetail :
                  d.carrier # "payment" /\ (d.type = "common" => d.carrier # "unknown")}

Array(q) == [kind |-> "array", elems |-> q]

Carrier(w) == IF StringOf(w, "type") = "common" THEN "common" ELSE "unknown"

\* DecodeForm = ParseArray.
DecodeFormOK(f) ==
  /\ f.kind # "other"
  /\ \A i \in DOMAIN f.elems :
       LET w == f.elems[i]
       IN /\ UnmarshalOK("unknown", w) /\ StringOf(w, "type") # Empty
          /\ UnmarshalOK(Carrier(w), w)

DecodeForm(f) ==
  [i \in DOMAIN f.elems |-> UnmarshalJSON(Carrier(f.elems[i]), f.elems[i])]

\* Mutant: with the toggle on, the verdict is not looked at.
StrictRefusesAll(ds, b) == \A i \in DOMAIN ds : ~(ConsultsToggle(ds[i]) /\ b)

\* json.Marshal of a slice, with the toggle at b.
MarshalOK(ds, b) ==
  \A i \in DOMAIN ds : ConsultsToggle(ds[i]) /\ b => Validate(ds[i]) = WellFormed

Marshal(ds) == [i \in DOMAIN ds |-> Compact(MarshalJSON(ds[i]))]

\* EncodeForm writes the nil slice as the empty one.
Elements(ds) == IF ds = Nil THEN <<>> ELSE ds
=============================================================================

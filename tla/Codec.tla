------------------------------- MODULE Codec --------------------------------
(***************************************************************************)
(* One authorization_details value on its way through package rar:         *)
(* DecodeForm (= ParseArray), ValidateAll, EncodeForm, and again, up to    *)
(* MaxHops times, as it passes from client to authorization server to      *)
(* resource server.  A step is one element parsed or marshalled, because   *)
(* the package reads its two process-wide variables once per element: the  *)
(* type registry in Parse, the strict-marshal toggle in MarshalJSON.       *)
(* Other goroutines change both at any time (RegisterType,                 *)
(* SetStrictMarshal); everything else belongs to the caller.               *)
(*                                                                         *)
(* RegisterType and lookup are atomic here: module Registry shows they are.*)
(***************************************************************************)
EXTENDS Details, FiniteSets

CONSTANTS
  Names,      \* values of the type member that occur
  Forms,      \* JSON texts the application receives
  Built,      \* details the application constructs itself
  Edits,      \* [member, value]: slices it may put into a §2 member
  MaxHops     \* bound: times a value is decoded

CommonName == "common"
NoCtor == "none"
ConsumerCtors == {"extension", "payment"}

\* Elements and details that have one of these types, or none.
NamedElement == {w \in Element : StringOf(w, "type") \in Names \union {Empty}}
NamedDetail  == {d \in AuthorizationDetail : d.type \in Names \union {Empty}}

ASSUME CodecAssumption ==
  /\ CommonName \in Names /\ Names \subseteq STRING \ {Empty}
  /\ MaxHops \in Nat \ {0}
  /\ Forms \subseteq [kind : {"array", "null", "other"}, elems : Seq(NamedElement)]
  /\ \A f \in Forms : f.kind # "array" => f.elems = <<>>
  /\ Built \subseteq {Nil} \union Seq(NamedDetail)
  /\ Edits \subseteq [member : SliceMembers, value : Seq(STRING \ {NullEntry})]

VARIABLES
  registry,   \* type name -> constructor, NoCtor when absent or nil
  strict,     \* strictMarshalEnabled
  pc,         \* what the caller is doing
  form,       \* the JSON text being decoded
  details,    \* the AuthorizationDetails slice
  out,        \* elements EncodeForm has written
  verdict,    \* ValidateAll's violations, Nil before it is called
  err,        \* the error returned, if any
  hop         \* how often the value has been decoded or built

(* History, for the properties only. *)
VARIABLES
  sent,       \* the elements as they first appeared
  carried,    \* carried[i]: the carriers element i has been in
  seen,       \* seen[n]: constructors n had while the last decode ran
  toggles,    \* values the toggle had while this encode ran
  prev,       \* the details of the previous hop
  stable      \* no registration since the previous hop's decode began

process == <<registry, strict>>
codec   == <<form, details, out, verdict, err, hop>>
history == <<sent, carried, seen, toggles, prev, stable>>
vars    == <<process, pc, codec, history>>

-----------------------------------------------------------------------------
NoErr == [op |-> "none", index |-> 0, rule |-> "none", chain |-> {}]

\* An error and the targets errors.Is / errors.As find in its chain.
Failure(op, i, rule, chain) == [op |-> op, index |-> i, rule |-> rule, chain |-> chain]

NothingSeen == [n \in Names |-> {}]

\* Parse: the registered constructor, or *UnknownType.
Dispatch(n) == IF registry[n] = NoCtor THEN "unknown" ELSE registry[n]

Init ==
  /\ registry = [n \in Names |-> IF n = CommonName THEN "common" ELSE NoCtor]
  /\ strict = FALSE
  /\ pc = "idle"
  /\ form = [kind |-> "array", elems |-> <<>>]
  /\ details = <<>> /\ out = <<>> /\ verdict = Nil /\ err = NoErr /\ hop = 0
  /\ sent = <<>> /\ carried = <<>> /\ prev = <<>> /\ stable = TRUE
  /\ seen = NothingSeen /\ toggles = {}

-----------------------------------------------------------------------------
(* Other goroutines *)

\* A reserved name is refused; a nil constructor unregisters.
RegisterType(n, c) ==
  /\ registry' = IF n = CommonName THEN registry ELSE [registry EXCEPT ![n] = c]
  /\ seen' = IF pc = "decoding" THEN [seen EXCEPT ![n] = @ \union {registry'[n]}]
             ELSE seen
  /\ stable' = (stable /\ registry' = registry)
  /\ UNCHANGED <<strict, pc, codec, sent, carried, toggles, prev>>

SetStrictMarshal(b) ==
  /\ strict' = b
  /\ toggles' = IF pc = "encoding" THEN toggles \union {b} ELSE toggles
  /\ UNCHANGED <<registry, pc, codec, sent, carried, seen, prev, stable>>

-----------------------------------------------------------------------------
(* Decoding *)

\* ParseArray up to its loop.  A JSON null decodes into a nil element slice.
Decode(f) ==
  /\ form' = f
  /\ details' = <<>> /\ out' = <<>> /\ verdict' = Nil
  /\ seen' = [n \in Names |-> {registry[n]}]
  /\ \/ /\ f.kind = "other"
        /\ pc' = "failed" /\ err' = Failure("decode", 0, "json", {"Err"})
     \/ /\ f.kind # "other"
        /\ pc' = IF f.elems = <<>> THEN "decoded" ELSE "decoding"
        /\ err' = NoErr

\* The application receives a form value or a JSON member.
Receive ==
  /\ pc = "idle"
  /\ \E f \in Forms :
       /\ Decode(f)
       /\ sent' = f.elems
       /\ carried' = [i \in DOMAIN f.elems |-> {}]
  /\ hop' = 1
  /\ prev' = <<>> /\ stable' = TRUE
  /\ UNCHANGED <<process, toggles>>

\* The next hop decodes what this one encoded.
Forward ==
  /\ pc = "encoded" /\ hop < MaxHops
  /\ Decode([kind |-> "array", elems |-> out])
  /\ hop' = hop + 1
  /\ prev' = details /\ toggles' = {}
  /\ UNCHANGED <<process, sent, carried, stable>>

NextElement == form.elems[Len(details) + 1]

\* Parse, error exits: probe, empty type, the carrier's UnmarshalJSON.
ParseFails ==
  LET w == NextElement
      type == StringOf(w, "type")
      Fail(rule, chain) ==
        err' = Failure("decode", Len(details) + 1, rule, chain)
  IN /\ pc = "decoding"
     /\ \/ ~UnmarshalOK("unknown", w) /\ Fail("json", {"Err"})
        \/ /\ UnmarshalOK("unknown", w) /\ type = Empty
           /\ Fail("type-required", {"Err", "ValidationError"})
        \/ /\ UnmarshalOK("unknown", w) /\ type # Empty
           /\ ~UnmarshalOK(Dispatch(type), w) /\ Fail("json", {"Err"})
     /\ pc' = "failed"
     /\ details' = <<>>
     /\ UNCHANGED <<process, form, out, verdict, hop, history>>

\* Mutant: the loop runs once too often.
ParseOffByOne ==
  LET w == NextElement
      carrier == Dispatch(StringOf(w, "type"))
  IN /\ pc = "decoding"
     /\ UnmarshalOK("unknown", w) /\ StringOf(w, "type") # Empty
     /\ UnmarshalOK(carrier, w)
     /\ details' = Append(details, UnmarshalJSON(carrier, w))
     /\ pc' = IF Len(details) = Len(form.elems) THEN "decoded" ELSE "decoding"
     /\ UNCHANGED <<process, form, out, verdict, err, hop, history>>

\* Mutant: the constructor is looked up for the first element and then reused.
ParseHoistsLookup ==
  LET w == NextElement
      i == Len(details) + 1
      carrier == IF i = 1 THEN Dispatch(StringOf(w, "type")) ELSE details[1].carrier
  IN /\ pc = "decoding"
     /\ UnmarshalOK("unknown", w)
     /\ StringOf(w, "type") # Empty
     /\ UnmarshalOK(carrier, w)
     /\ details' = Append(details, UnmarshalJSON(carrier, w))
     /\ carried' = [carried EXCEPT ![i] = @ \union {carrier}]
     /\ pc' = IF i = Len(form.elems) THEN "decoded" ELSE "decoding"
     /\ UNCHANGED <<process, form, out, verdict, err, hop,
                    sent, seen, toggles, prev, stable>>

Parse ==
  LET w == NextElement
      i == Len(details) + 1
      carrier == Dispatch(StringOf(w, "type"))
  IN /\ pc = "decoding"
     /\ UnmarshalOK("unknown", w)
     /\ StringOf(w, "type") # Empty
     /\ UnmarshalOK(carrier, w)
     /\ details' = Append(details, UnmarshalJSON(carrier, w))
     /\ carried' = [carried EXCEPT ![i] = @ \union {carrier}]
     /\ pc' = IF i = Len(form.elems) THEN "decoded" ELSE "decoding"
     /\ UNCHANGED <<process, form, out, verdict, err, hop,
                    sent, seen, toggles, prev, stable>>

\* json.Unmarshal on a carrier of the application's choice: no dispatch, no
\* type check, and errors that are not wrapped.
CallUnmarshalJSON ==
  /\ pc = "idle"
  /\ \E f \in Forms, carrier \in {"common", "extension", "unknown"} :
       LET w == f.elems[1]
       IN /\ f.kind = "array" /\ Len(f.elems) = 1
          /\ form' = f /\ sent' = f.elems /\ carried' = <<{carrier}>>
          /\ \/ /\ UnmarshalOK(carrier, w)
                /\ details' = <<UnmarshalJSON(carrier, w)>>
                /\ pc' = "decoded" /\ err' = NoErr
             \/ /\ ~UnmarshalOK(carrier, w)
                /\ details' = <<>>
                /\ pc' = "failed" /\ err' = Failure("unmarshal", 1, "json", {})
  /\ hop' = 1 /\ out' = <<>> /\ verdict' = Nil
  /\ prev' = <<>> /\ stable' = TRUE
  /\ UNCHANGED <<process, seen, toggles>>

\* The application builds the details in Go.
Build ==
  /\ pc = "idle"
  /\ \E ds \in Built :
       /\ details' = ds
       /\ sent' = IF ds = Nil THEN <<>> ELSE [i \in DOMAIN ds |-> MarshalJSON(ds[i])]
       /\ carried' = IF ds = Nil THEN <<>> ELSE [i \in DOMAIN ds |-> {ds[i].carrier}]
  /\ pc' = "decoded" /\ hop' = 1
  /\ form' = [kind |-> "array", elems |-> <<>>]
  /\ out' = <<>> /\ verdict' = Nil /\ err' = NoErr
  /\ prev' = <<>> /\ stable' = TRUE
  /\ UNCHANGED <<process, seen, toggles>>

\* The nil slice has no elements either.
Elements == IF details = Nil THEN <<>> ELSE details

\* A write through the pointer Common() returns, nil for *UnknownType.  An
\* earlier verdict is no longer about this value.
EditCommon ==
  /\ pc \in {"decoded", "validated"}
  /\ hop = 1 /\ Len(Elements) = 1   \* bound: the first hop of a single element
  /\ \E i \in DOMAIN Elements, e \in Edits :
       /\ details[i].carrier # "unknown" /\ details[i].base[e.member] # e.value
       /\ details' = [details EXCEPT ![i].base[e.member] = e.value]
       /\ sent' = [sent EXCEPT ![i].members[e.member] = JArr(e.value)]
  /\ pc' = "decoded" /\ verdict' = Nil
  /\ UNCHANGED <<process, form, out, err, hop, carried, seen, toggles, prev, stable>>

-----------------------------------------------------------------------------
(* Validating and encoding *)

CallValidateAll ==
  /\ pc = "decoded"
  /\ verdict' = ValidateAll(Elements)
  /\ pc' = "validated"
  /\ seen' = NothingSeen
  /\ UNCHANGED <<process, form, details, out, err, hop, sent, carried, toggles, prev, stable>>

\* EncodeForm: nil becomes [], then json.Marshal on the slice.
EncodeForm ==
  /\ pc \in {"decoded", "validated"}
  /\ details' = Elements
  /\ out' = <<>>
  /\ toggles' = {strict} /\ seen' = NothingSeen
  /\ pc' = IF Elements = <<>> THEN "encoded" ELSE "encoding"
  /\ UNCHANGED <<process, form, verdict, err, hop, sent, carried, prev, stable>>

\* The MarshalJSON of the next element under the toggle as it is now.
Marshal ==
  LET d == details[Len(out) + 1]
      i == Len(out) + 1
      refused == ConsultsToggle(d) /\ strict /\ Validate(d) # WellFormed
  IN /\ pc = "encoding"
     /\ \/ /\ refused
           /\ err' = Failure("encode", i, Validate(d), {"Err", "ValidationError"})
           /\ pc' = "failed"
           /\ out' = <<>>
        \/ /\ ~refused
           /\ out' = Append(out, Compact(MarshalJSON(d)))
           /\ pc' = IF i = Len(details) THEN "encoded" ELSE "encoding"
           /\ UNCHANGED err
     /\ UNCHANGED <<process, form, details, verdict, hop, history>>

\* The application turns to another value.
Finish ==
  /\ pc \in {"failed", "encoded"}
  /\ pc' = "idle"
  /\ form' = [kind |-> "array", elems |-> <<>>]
  /\ details' = <<>> /\ out' = <<>> /\ verdict' = Nil /\ err' = NoErr /\ hop' = 0
  /\ sent' = <<>> /\ carried' = <<>> /\ prev' = <<>> /\ stable' = TRUE
  /\ seen' = NothingSeen /\ toggles' = {}
  /\ UNCHANGED process

Next ==
  \/ \E n \in Names, c \in ConsumerCtors \union {NoCtor} : RegisterType(n, c)
  \/ \E b \in BOOLEAN : SetStrictMarshal(b)
  \/ Receive \/ Forward \/ ParseFails \/ Parse \/ CallUnmarshalJSON \/ Build \/ EditCommon
  \/ CallValidateAll \/ EncodeForm \/ Marshal \/ Finish

Spec == Init /\ [][Next]_vars
-----------------------------------------------------------------------------
(* Properties *)

\* The §2 content of an element, whatever its bytes.
Content(w) == <<StringOf(w, "type"), BaselineOf(w)>>

TypeOK ==
  /\ registry \in [Names -> ConsumerCtors \union {"common", NoCtor}]
  /\ strict \in BOOLEAN
  /\ pc \in {"idle", "decoding", "decoded", "validated", "encoding", "encoded", "failed"}
  /\ hop \in 0 .. MaxHops
  /\ \A i \in DOMAIN Elements : Elements[i].carrier \in Carriers
  /\ pc = "decoding" => Len(details) < Len(form.elems)
  /\ pc = "encoding" => Len(out) < Len(details)

\* The whole chain keeps every element, in order, with its type and its five
\* §2 members, through whatever sequence of carriers registrations in between
\* give it.  Only a consumer codec with omitempty may turn [] into an absent
\* member (CommonType.MarshalJSON, "Empty-array carriage").  What is written
\* through Common() on the way counts as sent.
BaselineSurvives ==
  pc = "encoded" =>
    /\ Len(out) = Len(sent)
    /\ \A i \in DOMAIN out :
         LET c == Content(out[i])
             o == Content(sent[i])
         IN /\ c[1] = o[1]
            /\ NilAsEmpty(c[2]) = NilAsEmpty(o[2])
            /\ "payment" \notin carried[i] => c[2] = o[2]

\* An element no registered carrier ever touched leaves with every member it
\* came with, in the same order (UnknownType).
UnknownVerbatim ==
  pc = "encoded" =>
    \A i \in DOMAIN out : carried[i] = {"unknown"} => out[i] = Compact(sent[i])

\* A member outside §2 is lost only by a carrier that does not know it.
ExtraSurvives ==
  pc = "encoded" =>
    \A i \in DOMAIN out :
      carried[i] \subseteq {"unknown", "payment"} =>
        StringOf(out[i], Extra) = StringOf(sent[i], Extra)

\* While the toggle is on, no ill-formed element gets out of a carrier of this
\* package, and a type that only embeds Extension is such a carrier
\* (SetStrictMarshal, Extension.MarshalJSON).
StrictGate ==
  pc = "encoded" /\ toggles = {TRUE} =>
    \A i \in DOMAIN out :
      details[i].carrier \in {"common", "extension"} => WireWellFormed(out[i])

\* A failed EncodeForm is always the toggle's doing, whenever it was flipped:
\* the element named is ill-formed, and ValidateAll, if called on the same
\* value, had said so; under an untouched toggle it is the first such element.
EncodeFailureExplained ==
  pc = "failed" /\ err.op = "encode" =>
    /\ TRUE \in toggles
    /\ ~WireWellFormed(MarshalJSON(details[err.index]))
    /\ verdict # Nil => <<err.index, err.rule>> \in verdict
    /\ verdict # Nil /\ toggles = {TRUE} =>
         \A v \in verdict : ConsultsToggle(details[v[1]]) => err.index <= v[1]

\* ValidateAll reports exactly the elements whose text breaks a rule; an
\* unknown element is never judged.
ValidateAgreesWithWire ==
  pc = "validated" =>
    {v[1] : v \in verdict} =
      {i \in DOMAIN Elements :
         /\ details[i].carrier # "unknown"
         /\ \/ ~WireWellFormed(MarshalJSON(details[i]))
            \/ details[i].carrier = "payment" /\ details[i].extra = Empty}

CarriersSeen(n) == {IF c = NoCtor THEN "unknown" ELSE c : c \in seen[n]}

\* Every element, the last one included, is in a carrier its type had at some
\* instant of the decode, and a decode fails only on an element such a carrier
\* rejects: a concurrent RegisterType is seen before or after, never halfway
\* (RegisterType).  `seen' is kept until the decoded value is first used, and
\* empty for a value that did not come through ParseArray.
DispatchFollowsRegistry ==
  /\ pc \in {"decoding", "decoded"} /\ seen # NothingSeen =>
       \A i \in DOMAIN Elements : details[i].carrier \in CarriersSeen(details[i].type)
  /\ pc = "failed" /\ err.op = "decode" /\ err.index > 0 =>
       LET w == form.elems[err.index]
           n == StringOf(w, "type")
       IN n # Empty => \E c \in CarriersSeen(n) : ~UnmarshalOK(c, w)

\* DecodeForm accepts what EncodeForm wrote (EncodeForm: "the inverse of
\* DecodeForm").  The exceptions are an element the application left without
\* type, and one carried as unknown whose type is registered by now.
EncodedTextDecodes ==
  pc = "failed" /\ err.op = "decode" /\ hop > 1 =>
    LET d == prev[err.index]
    IN d.type = Empty \/ (d.carrier = "unknown" /\ CarriersSeen(d.type) # {"unknown"})

\* ... and gives the same Go values back, nil and empty slices kept apart, if
\* no registration came in between (EncodeForm).
RoundTripIdentity ==
  pc = "decoded" /\ hop > 1 /\ stable =>
    /\ Len(details) = Len(prev)
    /\ \A i \in DOMAIN prev :
         prev[i].carrier = Dispatch(prev[i].type) => SameDetail(prev[i], details[i])
-----------------------------------------------------------------------------
(* Claims of the documentation that the code does not keep *)

\* form.go:86-88: "JSON-level parse failures (the input is not a JSON array,
\* ...) return an error".  ParseArray accepts null.
DecodeRejectsNonArray == form.kind # "array" => pc \in {"idle", "failed"}

\* validate.go:55: "The toggle governs [CommonType.MarshalJSON] only."
\* Extension.MarshalJSON consults it as well.
ToggleGovernsCommonOnly ==
  pc = "failed" /\ err.op = "encode" => details[err.index].carrier = "common"

\* codec.go:357-360: "an unrecognized type flows through the library without
\* reordering keys, dropping members, or normalizing whitespace."  EncodeForm
\* goes through json.Marshal, which compacts and HTML-escapes the bytes.
UnknownKeepsItsBytes ==
  pc = "encoded" =>
    \A i \in DOMAIN out : carried[i] = {"unknown"} => out[i] = sent[i]

\* rar.go:48-49: "every error this package returns matches errors.Is(err,
\* [Err])".  The UnmarshalJSON methods return encoding/json errors bare.
EveryErrorMatchesErr == pc = "failed" => "Err" \in err.chain
=============================================================================

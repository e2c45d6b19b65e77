------------------------------ MODULE Details -------------------------------
(***************************************************************************)
(* authorization_details as data: the JSON text of an element, the Go      *)
(* value that carries it, and the pure functions of package rar between    *)
(* the two (codec.go, common_type.go, extension.go, unknown.go,            *)
(* validate.go).                                                           *)
(*                                                                         *)
(* An element of the wire is [kind, members, style].  `members' maps each  *)
(* member name to a JSON value, or to JAbsent.  Not represented: an object *)
(* with a repeated name or one that differs from a §2 name in case only,   *)
(* and an array with the string that NullEntry stands for.                 *)
(* `style' says how its bytes differ from what this package would write:   *)
(* "space" (insignificant white space), "html" (<, > or & unescaped),      *)
(* "order" (another member order).                                         *)
(***************************************************************************)
EXTENDS Naturals, Sequences

CONSTANTS
  AbsoluteURIs,   \* the strings url.Parse accepts and gives a scheme
  Nil             \* a nil slice, or no raw bytes

Empty == ""
ASSUME EmptyIsRelative == Empty \in STRING \ AbsoluteURIs

SliceMembers == {"locations", "actions", "datatypes", "privileges"}
Baseline     == SliceMembers \union {"identifier"}
Extra        == "creditorName"   \* a member outside §2
MemberNames  == Baseline \union {"type", Extra}

-----------------------------------------------------------------------------
(* JSON *)

NullEntry == "null"   \* a null inside an array of strings

JAbsent == [k |-> "absent", str |-> Empty, arr |-> <<>>]
JNull   == [k |-> "null",   str |-> Empty, arr |-> <<>>]
JNumber == [k |-> "number", str |-> Empty, arr |-> <<>>]
JStr(s) == [k |-> "string", str |-> s,     arr |-> <<>>]
JArr(q) == [k |-> "array",  str |-> Empty, arr |-> q]

JValue == [k : {"absent", "null", "number", "string", "array"},
           str : STRING, arr : Seq(STRING)]

Styles == {"space", "html", "order"}

Element == [kind : {"object", "null", "scalar"}, members : [MemberNames -> JValue],
            style : SUBSET Styles]

Object(members, style) == [kind |-> "object", members |-> members, style |-> style]
NoMembers == [n \in MemberNames |-> JAbsent]

\* An object with the members of f and no others.
Wire(f, style) ==
  Object([n \in MemberNames |-> IF n \in DOMAIN f THEN f[n] ELSE JAbsent], style)

\* What encoding/json accepts for a Go string, and for a []string.
IsString(w, n) == w.members[n].k \in {"absent", "null", "string"}
IsSlice(w, n)  == w.members[n].k \in {"absent", "null", "array"}

\* What it stores: absent and null leave the zero value; a null entry is "".
StringOf(w, n) ==
  IF w.members[n].k = "string" THEN w.members[n].str ELSE Empty

SliceOf(w, n) ==
  IF w.members[n].k = "array"
  THEN [i \in DOMAIN w.members[n].arr |->
          IF w.members[n].arr[i] = NullEntry THEN Empty ELSE w.members[n].arr[i]]
  ELSE Nil

\* json.Marshal compacts and HTML-escapes what a MarshalJSON returned.
Compact(w) == [w EXCEPT !.style = @ \ {"space", "html"}]

-----------------------------------------------------------------------------
(* Carriers: *CommonType, a consumer type that only embeds Extension, one  *)
(* that also overrides the codec (the payment type of the tests), and      *)
(* *UnknownType                                                            *)

Carriers == {"common", "extension", "payment", "unknown"}

NoBaseline == [n \in Baseline |-> IF n = "identifier" THEN Empty ELSE Nil]

Detail(carrier, type, base, extra, raw) ==
  [carrier |-> carrier, type |-> type, base |-> base, extra |-> extra, raw |-> raw]

BaselineOf(w) ==
  [n \in Baseline |-> IF n = "identifier" THEN StringOf(w, n) ELSE SliceOf(w, n)]

\* unmarshalCommonShape: does json.Unmarshal into the aux struct succeed?
CommonShapeOK(w) ==
  /\ w.kind # "scalar"
  /\ IsString(w, "type") /\ IsString(w, "identifier")
  /\ \A n \in SliceMembers : IsSlice(w, n)

UnmarshalOK(carrier, w) ==
  CASE carrier \in {"common", "extension"} -> CommonShapeOK(w)
    [] carrier = "payment" -> CommonShapeOK(w) /\ IsString(w, Extra)
    [] carrier = "unknown" -> w.kind # "scalar" /\ IsString(w, "type")

UnmarshalJSON(carrier, w) ==
  LET type == StringOf(w, "type")
  IN CASE carrier \in {"common", "extension"} ->
            Detail(carrier, type, BaselineOf(w), Empty, Nil)
       [] carrier = "payment" ->
            Detail(carrier, type, BaselineOf(w), StringOf(w, Extra), Nil)
       [] carrier = "unknown" -> Detail(carrier, type, NoBaseline, Empty, w)

\* A string member with omitempty, and a slice member unless it is nil.
OmitEmpty(str) == IF str = Empty THEN JAbsent ELSE JStr(str)
OmitNil(q)     == IF q = Nil THEN JAbsent ELSE JArr(q)

\* Mutants: omitempty on the slices; nil slices written as [].
CommonShapeOmitEmpty(d) ==
  Object([n \in MemberNames |->
            CASE n = "type" -> JStr(d.type)
              [] n \in SliceMembers -> IF d.base[n] = <<>> THEN JAbsent ELSE OmitNil(d.base[n])
              [] n = "identifier" -> OmitEmpty(d.base[n])
              [] n = Extra -> JAbsent], {})

CommonShapeNilAsEmpty(d) ==
  Object([n \in MemberNames |->
            CASE n = "type" -> JStr(d.type)
              [] n \in SliceMembers -> JArr(IF d.base[n] = Nil THEN <<>> ELSE d.base[n])
              [] n = "identifier" -> OmitEmpty(d.base[n])
              [] n = Extra -> JAbsent], {})

\* marshalCommonShape: `type' always, a slice unless nil, identifier unless "".
CommonShape(d) ==
  Object([n \in MemberNames |->
            CASE n = "type" -> JStr(d.type)
              [] n \in SliceMembers -> OmitNil(d.base[n])
              [] n = "identifier" -> OmitEmpty(d.base[n])
              [] n = Extra -> JAbsent], {})

\* Mutant: the consumer does not override MarshalJSON.
PaymentShapeInherited(d) == CommonShape(d)

\* The consumer's aux struct has omitempty on every member but `type'.
PaymentShape(d) ==
  Object([n \in MemberNames |->
            CASE n = "type" -> JStr(d.type)
              [] n \in SliceMembers -> IF d.base[n] = <<>> THEN JAbsent ELSE OmitNil(d.base[n])
              [] n = "identifier" -> OmitEmpty(d.base[n])
              [] n = Extra -> OmitEmpty(d.extra)], {})

\* {"type": ...} and nothing else.
TypeOnly(type) == [NoMembers EXCEPT !["type"] = JStr(type)]

\* Mutants: always synthesize; synthesize an object without its type.
UnknownShapeSynthesized(d) == Object(TypeOnly(d.type), {})

UnknownShapeUntyped(d) == IF d.raw = Nil THEN Object(NoMembers, {}) ELSE d.raw

\* UnknownType.MarshalJSON: the captured bytes, or a synthesized {"type":...}.
UnknownShape(d) == IF d.raw = Nil THEN Object(TypeOnly(d.type), {}) ELSE d.raw

MarshalJSON(d) ==
  CASE d.carrier \in {"common", "extension"} -> CommonShape(d)
    [] d.carrier = "payment" -> PaymentShape(d)
    [] d.carrier = "unknown" -> UnknownShape(d)

\* Mutant: Extension.MarshalJSON does not.
OnlyCommonConsultsToggle(d) == d.carrier = "common"

\* The MarshalJSON methods that consult the strict-marshal toggle.
ConsultsToggle(d) == d.carrier \in {"common", "extension"}

\* A slice of Go strings.
Slice == {Nil} \union Seq(STRING \ {NullEntry})

\* The values a Go program can hold.  Raw, if set, has the type that TypeName
\* has, as UnmarshalJSON leaves them and UnknownType asks of who sets them.
AuthorizationDetail ==
  {d \in [carrier : Carriers, type : STRING, base : [Baseline -> Slice \union STRING],
          extra : STRING, raw : {Nil} \union Element] :
     /\ d.base["identifier"] \in STRING /\ \A n \in SliceMembers : d.base[n] \in Slice
     /\ d.carrier # "payment" => d.extra = Empty
     /\ d.carrier # "unknown" => d.raw = Nil
     /\ d.carrier = "unknown" =>
          /\ d.base = NoBaseline
          /\ d.raw # Nil => UnmarshalOK("unknown", d.raw) /\ StringOf(d.raw, "type") = d.type}

ASSUME NilIsNoValue ==
  Nil \notin STRING \union Element \union Seq(STRING) \union Seq(Element)
               \union Seq(AuthorizationDetail)

-----------------------------------------------------------------------------
(* Validation *)

\* Mutant: the last check forgotten.
RulesWithoutPrivileges == <<"type-required", "locations-uri",
                            "actions-element-empty", "datatypes-element-empty">>

\* CommonType.Validate and Extension.Validate, in the order of their checks.
BaselineRules == <<"type-required", "locations-uri", "actions-element-empty",
                   "datatypes-element-empty", "privileges-element-empty">>

HasEmpty(q) == q # Nil /\ \E i \in DOMAIN q : q[i] = Empty

Violates(d, rule) ==
  CASE rule = "type-required"            -> d.type = Empty
    [] rule = "locations-uri"            ->
         /\ d.base["locations"] # Nil
         /\ \E i \in DOMAIN d.base["locations"] :
              d.base["locations"][i] \notin AbsoluteURIs
    [] rule = "actions-element-empty"    -> HasEmpty(d.base["actions"])
    [] rule = "datatypes-element-empty"  -> HasEmpty(d.base["datatypes"])
    [] rule = "privileges-element-empty" -> HasEmpty(d.base["privileges"])
    [] rule = "creditorName-required"    -> d.extra = Empty

RulesOf(d) ==
  CASE d.carrier \in {"common", "extension"} -> BaselineRules
    [] d.carrier = "payment" -> Append(BaselineRules, "creditorName-required")
    [] d.carrier = "unknown" -> <<>>

WellFormed == "ok"

\* The first violated rule wins.
Validate(d) ==
  LET broken == {i \in DOMAIN RulesOf(d) : Violates(d, RulesOf(d)[i])}
  IN IF broken = {} THEN WellFormed
     ELSE RulesOf(d)[CHOOSE i \in broken : \A j \in broken : i <= j]

\* Mutant: stop at the first ill-formed element.
ValidateFirst(ds) ==
  LET broken == {j \in DOMAIN ds : Validate(ds[j]) # WellFormed}
  IN {<<i, Validate(ds[i])>> : i \in {j \in broken : \A h \in broken : j <= h}}

\* ValidateAll: one violation per ill-formed element, each with its index.
ValidateAll(ds) ==
  {<<i, Validate(ds[i])>> : i \in {j \in DOMAIN ds : Validate(ds[j]) # WellFormed}}

-----------------------------------------------------------------------------
(* Reference definitions *)

\* RFC 9396 §2 as CommonType.Validate documents it, read off the JSON text.
WireWellFormed(w) ==
  /\ w.kind = "object" /\ StringOf(w, "type") # Empty
  /\ \A n \in SliceMembers :
       \A i \in DOMAIN w.members[n].arr :
         LET s == w.members[n].arr[i]
         IN s \notin {Empty, NullEntry} /\ (n = "locations" => s \in AbsoluteURIs)

\* Up to the difference between an absent array and an empty one.
NilAsEmpty(base) == [n \in Baseline |-> IF base[n] = Nil THEN <<>> ELSE base[n]]

\* The same Go value, up to what the consumer's omitempty and json.Marshal do.
SameDetail(d, e) ==
  /\ d.carrier = e.carrier /\ d.type = e.type /\ d.extra = e.extra
  /\ IF d.carrier = "payment" THEN NilAsEmpty(d.base) = NilAsEmpty(e.base)
     ELSE d.base = e.base
  /\ d.raw # Nil => e.raw = Compact(d.raw)
=============================================================================

--------------------------- MODULE DetailsProofs ----------------------------
(* What the pure functions of package rar promise about each other, for    *)
(* every element and every Go value: the text of a value gives the value   *)
(* back, and Validate judges a value as §2 judges its text.                *)
EXTENDS Details, TLAPS

LEMMA Values ==
  /\ JAbsent \in JValue
  /\ \A s \in STRING : JStr(s) \in JValue
  /\ \A q \in Seq(STRING) : JArr(q) \in JValue
<1>1. Empty \in STRING
  BY EmptyIsRelative
<1>2. <<>> \in Seq(STRING)
  OBVIOUS
<1> QED
  BY <1>1, <1>2 DEF JAbsent, JStr, JArr, JValue

\* One member at a time: what was written is read back.
LEMMA ReadString ==
  ASSUME NEW w, NEW n, NEW str, w.members[n] = JStr(str)
  PROVE  IsString(w, n) /\ StringOf(w, n) = str
  BY DEF JStr, IsString, StringOf

LEMMA ReadOmitEmpty ==
  ASSUME NEW w, NEW n, NEW str, w.members[n] = OmitEmpty(str)
  PROVE  IsString(w, n) /\ StringOf(w, n) = str
  BY DEF JStr, JAbsent, OmitEmpty, IsString, StringOf

LEMMA ReadAbsent ==
  ASSUME NEW w, NEW n, w.members[n] = JAbsent
  PROVE  IsString(w, n) /\ IsSlice(w, n) /\ StringOf(w, n) = Empty /\ SliceOf(w, n) = Nil
  BY DEF JAbsent, IsString, IsSlice, StringOf, SliceOf

LEMMA ReadSlice ==
  ASSUME NEW w, NEW n, NEW q \in Slice, w.members[n] = OmitNil(q)
  PROVE  IsSlice(w, n) /\ SliceOf(w, n) = q
<1>1. CASE q = Nil
  BY <1>1 DEF OmitNil, JAbsent, IsSlice, SliceOf
<1>2. CASE q # Nil
  <2>1. q \in Seq(STRING \ {NullEntry}) /\ w.members[n] = [k |-> "array", str |-> Empty, arr |-> q]
    BY <1>2 DEF Slice, OmitNil, JArr
  <2>2. SliceOf(w, n) = [i \in DOMAIN q |-> IF q[i] = NullEntry THEN Empty ELSE q[i]]
    BY <2>1 DEF SliceOf
  <2>3. \A i \in DOMAIN q : q[i] # NullEntry
    BY <2>1
  <2>4. SliceOf(w, n) = [i \in DOMAIN q |-> q[i]]
    BY <2>2, <2>3
  <2> QED
    BY <2>1, <2>4 DEF IsSlice
<1> QED
  BY <1>1, <1>2

\* The slices and strings that an element holds are Go slices and strings.
LEMMA MemberTypes ==
  ASSUME NEW w \in Element, NEW n \in MemberNames
  PROVE  StringOf(w, n) \in STRING /\ SliceOf(w, n) \in Slice
<1>1. w.members[n] \in JValue
  BY DEF Element
<1>2. StringOf(w, n) \in STRING
  BY <1>1, EmptyIsRelative DEF JValue, StringOf
<1>3. CASE w.members[n].k = "array"
  <2> DEFINE q == w.members[n].arr
  <2>1. q \in Seq(STRING)
    BY <1>1 DEF JValue
  <2>2. SliceOf(w, n) = [i \in DOMAIN q |-> IF q[i] = NullEntry THEN Empty ELSE q[i]]
    BY <1>3 DEF SliceOf
  <2>3. \A i \in DOMAIN q : q[i] \in STRING
    BY <2>1
  <2>4. \A i \in DOMAIN q : SliceOf(w, n)[i] \in STRING \ {NullEntry}
    BY <2>2, <2>3, EmptyIsRelative DEF NullEntry, Empty
  <2>5. DOMAIN SliceOf(w, n) = 1 .. Len(q) /\ Len(q) \in Nat
    BY <2>1, <2>2
  <2>6. SliceOf(w, n) = [i \in 1 .. Len(q) |-> SliceOf(w, n)[i]]
    BY <2>2, <2>5
  <2> HIDE DEF q
  <2>7. SliceOf(w, n) \in Seq(STRING \ {NullEntry})
    BY <2>4, <2>5, <2>6, <2>2
  <2> QED
    BY <1>2, <2>7 DEF Slice
<1>4. CASE w.members[n].k # "array"
  BY <1>2, <1>4 DEF SliceOf, Slice
<1> QED
  BY <1>3, <1>4

-----------------------------------------------------------------------------
(* The text of a value *)

LEMMA NamesOfMembers ==
  /\ SliceMembers \subseteq Baseline /\ "identifier" \in Baseline \ SliceMembers
  /\ Baseline \subseteq MemberNames
  /\ {"type", Extra} \subseteq MemberNames \ Baseline /\ Extra # "type"
  /\ Baseline = SliceMembers \union {"identifier"}
  BY DEF SliceMembers, Baseline, MemberNames, Extra

\* A typed carrier's text is an object that has no members but these.
LEMMA ShapeMembers ==
  ASSUME NEW d \in AuthorizationDetail
  PROVE  /\ \A w \in {CommonShape(d), PaymentShape(d)} :
              /\ w.kind = "object" /\ w.style = {}
              /\ w.members["type"] = JStr(d.type)
              /\ w.members["identifier"] = OmitEmpty(d.base["identifier"])
         /\ \A n \in SliceMembers :
              /\ CommonShape(d).members[n] = OmitNil(d.base[n])
              /\ PaymentShape(d).members[n] =
                   IF d.base[n] = <<>> THEN JAbsent ELSE OmitNil(d.base[n])
         /\ CommonShape(d).members[Extra] = JAbsent
         /\ PaymentShape(d).members[Extra] = OmitEmpty(d.extra)
<1>1. "type" \notin SliceMembers /\ "identifier" \notin SliceMembers /\ Extra \notin SliceMembers
  BY DEF SliceMembers, Extra
<1>2. Extra \notin {"type", "identifier"}
  BY DEF Extra
<1>3. {"type", "identifier", Extra} \subseteq MemberNames /\ SliceMembers \subseteq MemberNames
  BY DEF MemberNames, Baseline
<1> QED
  BY <1>1, <1>2, <1>3 DEF CommonShape, PaymentShape, Object

LEMMA ValueFields ==
  ASSUME NEW d \in AuthorizationDetail
  PROVE  /\ d.carrier \in Carriers /\ d.type \in STRING /\ d.extra \in STRING
         /\ d.base = [n \in Baseline |-> d.base[n]]
         /\ d.base["identifier"] \in STRING /\ d.base["identifier"] # Nil
         /\ \A n \in SliceMembers : d.base[n] \in Slice
  BY NilIsNoValue DEF AuthorizationDetail

\* The members of a value are read back from its text.
LEMMA CommonReadBack ==
  ASSUME NEW d \in AuthorizationDetail
  PROVE  LET w == CommonShape(d)
         IN /\ StringOf(w, "type") = d.type /\ StringOf(w, Extra) = Empty
            /\ BaselineOf(w) = d.base
            /\ \A carrier \in Carriers : UnmarshalOK(carrier, w)
<1> DEFINE w == CommonShape(d)
<1>0. \A n \in SliceMembers : d.base[n] \in Slice
  BY ValueFields
<1>1. /\ w.kind = "object" /\ w.members["type"] = JStr(d.type)
      /\ w.members["identifier"] = OmitEmpty(d.base["identifier"])
      /\ \A n \in SliceMembers : w.members[n] = OmitNil(d.base[n])
      /\ w.members[Extra] = JAbsent
  BY ShapeMembers
<1> HIDE DEF w
<1>2. IsString(w, "type") /\ StringOf(w, "type") = d.type
  BY <1>1, ReadString
<1>3. IsString(w, "identifier") /\ StringOf(w, "identifier") = d.base["identifier"]
  BY <1>1, ReadOmitEmpty
<1>4. \A n \in SliceMembers : IsSlice(w, n) /\ SliceOf(w, n) = d.base[n]
  BY <1>0, <1>1, ReadSlice
<1>5. IsString(w, Extra) /\ StringOf(w, Extra) = Empty
  BY <1>1, ReadAbsent
<1>6. BaselineOf(w) = d.base
  BY <1>3, <1>4, ValueFields, NamesOfMembers DEF BaselineOf
<1>7. \A carrier \in Carriers : UnmarshalOK(carrier, w)
  BY <1>1, <1>2, <1>3, <1>4, <1>5 DEF Carriers, UnmarshalOK, CommonShapeOK
<1> QED
  BY <1>2, <1>5, <1>6, <1>7 DEF w

LEMMA PaymentReadBack ==
  ASSUME NEW d \in AuthorizationDetail
  PROVE  LET w == PaymentShape(d)
         IN /\ StringOf(w, "type") = d.type /\ StringOf(w, Extra) = d.extra
            /\ NilAsEmpty(BaselineOf(w)) = NilAsEmpty(d.base)
            /\ \A carrier \in Carriers : UnmarshalOK(carrier, w)
<1> DEFINE w == PaymentShape(d)
<1>0. \A n \in SliceMembers : d.base[n] \in Slice
  BY ValueFields
<1>1. /\ w.kind = "object" /\ w.members["type"] = JStr(d.type)
      /\ w.members["identifier"] = OmitEmpty(d.base["identifier"])
      /\ w.members[Extra] = OmitEmpty(d.extra)
  BY ShapeMembers
<1>8. \A n \in SliceMembers :
        /\ d.base[n] # <<>> => w.members[n] = OmitNil(d.base[n])
        /\ d.base[n] = <<>> => w.members[n] = JAbsent
  BY ShapeMembers
<1> HIDE DEF w
<1>2. IsString(w, "type") /\ StringOf(w, "type") = d.type
  BY <1>1, ReadString
<1>3. IsString(w, "identifier") /\ StringOf(w, "identifier") = d.base["identifier"]
  BY <1>1, ReadOmitEmpty
<1>4. ASSUME NEW n \in SliceMembers
      PROVE  /\ IsSlice(w, n)
             /\ d.base[n] # <<>> => SliceOf(w, n) = d.base[n]
             /\ d.base[n] = <<>> => SliceOf(w, n) = Nil
  BY <1>0, <1>8, ReadSlice, ReadAbsent
<1>5. IsString(w, Extra) /\ StringOf(w, Extra) = d.extra
  BY <1>1, ReadOmitEmpty
<1>6. NilAsEmpty(BaselineOf(w)) = NilAsEmpty(d.base)
  <2>1. \A n \in Baseline : BaselineOf(w)[n] = IF n = "identifier" THEN StringOf(w, n) ELSE SliceOf(w, n)
    BY DEF BaselineOf
  <2>2. BaselineOf(w)["identifier"] = d.base["identifier"]
    BY <1>3, <2>1, NamesOfMembers
  <2>3. ASSUME NEW n \in SliceMembers
        PROVE  BaselineOf(w)[n] = IF d.base[n] = <<>> THEN Nil ELSE d.base[n]
    BY <1>4, <2>1, NamesOfMembers
  <2> QED
    BY <2>2, <2>3, NamesOfMembers DEF NilAsEmpty
<1>7. \A carrier \in Carriers : UnmarshalOK(carrier, w)
  BY <1>1, <1>2, <1>3, <1>4, <1>5 DEF Carriers, UnmarshalOK, CommonShapeOK
<1> QED
  BY <1>2, <1>5, <1>6, <1>7 DEF w

\* The text that is made up for an *UnknownType without bytes.
LEMMA TypeOnlyReadBack ==
  ASSUME NEW type \in STRING
  PROVE  LET w == Object(TypeOnly(type), {})
         IN /\ w \in Element /\ StringOf(w, "type") = type
            /\ BaselineOf(w) = NoBaseline /\ StringOf(w, Extra) = Empty
            /\ \A carrier \in Carriers : UnmarshalOK(carrier, w)
<1> DEFINE w == Object(TypeOnly(type), {})
<1>1. /\ w.kind = "object" /\ w.style = {} /\ w.members \in [MemberNames -> JValue]
      /\ w.members["type"] = JStr(type)
      /\ \A n \in MemberNames \ {"type"} : w.members[n] = JAbsent
  BY Values, NamesOfMembers DEF Object, TypeOnly, NoMembers
<1>2. w = [kind |-> w.kind, members |-> w.members, style |-> w.style]
  BY DEF Object
<1> HIDE DEF w
<1>3. w \in Element
  BY <1>1, <1>2 DEF Element
<1>4. IsString(w, "type") /\ StringOf(w, "type") = type
  BY <1>1, ReadString
<1>5. \A n \in Baseline \union {Extra} :
        IsString(w, n) /\ IsSlice(w, n) /\ StringOf(w, n) = Empty /\ SliceOf(w, n) = Nil
  BY <1>1, ReadAbsent, NamesOfMembers
<1>6. BaselineOf(w) = NoBaseline
  BY <1>5 DEF BaselineOf, NoBaseline
<1>7. \A carrier \in Carriers : UnmarshalOK(carrier, w)
  BY <1>1, <1>4, <1>5, NamesOfMembers DEF Carriers, UnmarshalOK, CommonShapeOK
<1> QED
  BY <1>3, <1>4, <1>5, <1>6, <1>7 DEF w

LEMMA CarrierCases ==
  ASSUME NEW d \in AuthorizationDetail
  PROVE  \/ d.carrier \in {"common", "extension"} /\ MarshalJSON(d) = CommonShape(d)
         \/ d.carrier = "payment" /\ MarshalJSON(d) = PaymentShape(d)
         \/ d.carrier = "unknown" /\ d.raw = Nil /\ MarshalJSON(d) = Object(TypeOnly(d.type), {})
         \/ /\ d.carrier = "unknown" /\ d.raw \in Element /\ MarshalJSON(d) = d.raw
            /\ UnmarshalOK("unknown", d.raw) /\ StringOf(d.raw, "type") = d.type
  BY ValueFields DEF Carriers, AuthorizationDetail, MarshalJSON, UnknownShape

LEMMA MarshalElement ==
  ASSUME NEW d \in AuthorizationDetail
  PROVE  /\ MarshalJSON(d) \in Element
         /\ StringOf(MarshalJSON(d), "type") = d.type
         /\ UnmarshalOK("unknown", MarshalJSON(d))
         /\ d.carrier # "unknown" =>
              \A carrier \in Carriers : UnmarshalOK(carrier, MarshalJSON(d))
<1>1. CASE d.carrier \in {"common", "extension", "payment"}
  <2>1. \A str \in STRING : JStr(str) \in JValue /\ OmitEmpty(str) \in JValue
    BY Values DEF OmitEmpty
  <2>2. \A n \in SliceMembers : OmitNil(d.base[n]) \in JValue
    <3>1. \A q \in Slice : q \in Seq(STRING) \/ q = Nil
      BY DEF Slice
    <3> QED
      BY <3>1, Values, ValueFields DEF OmitNil
  <2>3. d.type \in STRING /\ d.extra \in STRING /\ d.base["identifier"] \in STRING
    BY ValueFields
  <2>4. CommonShape(d).members \in [MemberNames -> JValue]
    BY <2>1, <2>2, <2>3, Values DEF CommonShape, Object, MemberNames, Baseline
  <2>5. PaymentShape(d).members \in [MemberNames -> JValue]
    BY <2>1, <2>2, <2>3, Values DEF PaymentShape, Object, MemberNames, Baseline
  <2>6. CommonShape(d) \in Element /\ PaymentShape(d) \in Element
    BY <2>4, <2>5 DEF CommonShape, PaymentShape, Object, Element
  <2> QED
    BY <1>1, <2>6, CarrierCases, CommonReadBack, PaymentReadBack DEF Carriers
<1>2. CASE d.carrier = "unknown" /\ d.raw = Nil
  BY <1>2, CarrierCases, TypeOnlyReadBack, ValueFields DEF Carriers
<1>3. CASE d.carrier = "unknown" /\ d.raw \in Element
  BY <1>3, CarrierCases, NilIsNoValue
<1> QED
  BY <1>1, <1>2, <1>3, CarrierCases

LEMMA UnmarshalDetail ==
  ASSUME NEW w \in Element, NEW carrier \in Carriers, UnmarshalOK(carrier, w)
  PROVE  /\ UnmarshalJSON(carrier, w) \in AuthorizationDetail
         /\ UnmarshalJSON(carrier, w).carrier = carrier
         /\ UnmarshalJSON(carrier, w).type = StringOf(w, "type")
<1> DEFINE d == UnmarshalJSON(carrier, w)
<1>1. /\ StringOf(w, "type") \in STRING /\ StringOf(w, Extra) \in STRING
      /\ StringOf(w, "identifier") \in STRING
      /\ \A n \in SliceMembers : SliceOf(w, n) \in Slice
  BY MemberTypes, NamesOfMembers
<1>2. \A base \in {BaselineOf(w), NoBaseline} :
        /\ base \in [Baseline -> Slice \union STRING]
        /\ base["identifier"] \in STRING /\ \A n \in SliceMembers : base[n] \in Slice
  BY <1>1, NamesOfMembers, EmptyIsRelative DEF BaselineOf, NoBaseline, Slice
<1>3. CASE carrier \in {"common", "extension"}
  <2>1. d = [carrier |-> carrier, type |-> StringOf(w, "type"), base |-> BaselineOf(w),
             extra |-> Empty, raw |-> Nil]
    BY <1>3 DEF UnmarshalJSON, Detail
  <2> QED
    BY <1>1, <1>2, <1>3, <2>1, EmptyIsRelative DEF AuthorizationDetail
<1>4. CASE carrier = "payment"
  <2>1. d = [carrier |-> carrier, type |-> StringOf(w, "type"), base |-> BaselineOf(w),
             extra |-> StringOf(w, Extra), raw |-> Nil]
    BY <1>4 DEF UnmarshalJSON, Detail
  <2> QED
    BY <1>1, <1>2, <1>4, <2>1 DEF AuthorizationDetail
<1>5. CASE carrier = "unknown"
  <2>1. d = [carrier |-> carrier, type |-> StringOf(w, "type"), base |-> NoBaseline,
             extra |-> Empty, raw |-> w]
    BY <1>5 DEF UnmarshalJSON, Detail
  <2> QED
    BY <1>1, <1>2, <1>5, <2>1, EmptyIsRelative DEF AuthorizationDetail
<1> QED
  BY <1>3, <1>4, <1>5 DEF Carriers

\* json.Marshal changes nothing that a carrier reads.
LEMMA CompactKeeps ==
  ASSUME NEW w \in Element
  PROVE  /\ Compact(w) \in Element /\ Compact(Compact(w)) = Compact(w)
         /\ Compact(w).kind = w.kind /\ Compact(w).members = w.members
         /\ \A n \in MemberNames : /\ StringOf(Compact(w), n) = StringOf(w, n)
                                   /\ SliceOf(Compact(w), n) = SliceOf(w, n)
         /\ BaselineOf(Compact(w)) = BaselineOf(w)
         /\ \A carrier \in Carriers : UnmarshalOK(carrier, Compact(w)) = UnmarshalOK(carrier, w)
         /\ WireWellFormed(Compact(w)) = WireWellFormed(w)
<1> DEFINE v == Compact(w)
<1>1. v = [kind |-> w.kind, members |-> w.members, style |-> w.style \ {"space", "html"}]
  BY DEF Compact, Element
<1>2. v \in Element
  BY <1>1 DEF Element
<1>3. Compact(v) = v
  BY <1>1 DEF Compact
<1>4. v.kind = w.kind /\ v.members = w.members
  BY <1>1
<1> HIDE DEF v
<1>5. \A n : StringOf(v, n) = StringOf(w, n) /\ SliceOf(v, n) = SliceOf(w, n)
  BY <1>4 DEF StringOf, SliceOf
<1>6. \A n : IsString(v, n) = IsString(w, n) /\ IsSlice(v, n) = IsSlice(w, n)
  BY <1>4 DEF IsString, IsSlice
<1>7. BaselineOf(v) = BaselineOf(w)
  BY <1>5 DEF BaselineOf
<1>8. \A carrier \in Carriers : UnmarshalOK(carrier, v) = UnmarshalOK(carrier, w)
  BY <1>4, <1>6 DEF UnmarshalOK, CommonShapeOK, Carriers
<1>9. WireWellFormed(v) = WireWellFormed(w)
  BY <1>4, <1>5 DEF WireWellFormed
<1> QED
  BY <1>2, <1>3, <1>4, <1>5, <1>7, <1>8, <1>9 DEF v

-----------------------------------------------------------------------------
(* Validation *)

\* Validate finds fault exactly if some rule of the carrier is violated.
LEMMA ValidateFinds ==
  ASSUME NEW d \in AuthorizationDetail
  PROVE  (Validate(d) = WellFormed) = \A i \in DOMAIN RulesOf(d) : ~Violates(d, RulesOf(d)[i])
<1> DEFINE broken == {i \in DOMAIN RulesOf(d) : Violates(d, RulesOf(d)[i])}
           first  == CHOOSE i \in broken : \A j \in broken : i <= j
<1>1. /\ DOMAIN RulesOf(d) \subseteq 1 .. 6
      /\ \A i \in DOMAIN RulesOf(d) : RulesOf(d)[i] # WellFormed
  <2>1. /\ DOMAIN BaselineRules = 1 .. 5
        /\ \A i \in 1 .. 5 : BaselineRules[i] # WellFormed
    BY DEF BaselineRules, WellFormed
  <2>2. LET q == Append(BaselineRules, "creditorName-required")
        IN DOMAIN q = 1 .. 6 /\ \A i \in 1 .. 6 : q[i] # WellFormed
    BY DEF BaselineRules, WellFormed
  <2>3. d.carrier \in Carriers
    BY ValueFields
  <2>4. RulesOf(d) \in {BaselineRules, Append(BaselineRules, "creditorName-required"), <<>>}
    BY <2>3 DEF RulesOf, Carriers
  <2>5. CASE RulesOf(d) = BaselineRules
    BY <2>1, <2>5
  <2>6. CASE RulesOf(d) = Append(BaselineRules, "creditorName-required")
    BY <2>2, <2>6
  <2>7. CASE RulesOf(d) = <<>>
    BY <2>7
  <2> QED
    BY <2>4, <2>5, <2>6, <2>7
<1>2. CASE broken = {}
  BY <1>2 DEF Validate
<1>3. CASE broken # {}
  <2>1. broken \subseteq 1 .. 6
    BY <1>1
  <2> HIDE DEF broken
  <2>2. \E i \in broken : \A j \in broken : i <= j
    <3>1. \A j \in broken : j \in {1, 2, 3, 4, 5, 6}
      BY <2>1
    <3> QED
      BY <1>3, <3>1
  <2>3. first \in broken
    BY <2>2
  <2>4. Validate(d) = RulesOf(d)[first]
    BY <1>3 DEF Validate, broken
  <2>5. Validate(d) # WellFormed
    BY <1>1, <2>3, <2>4 DEF broken
  <2> QED
    BY <1>3, <2>5 DEF broken
<1> QED
  BY <1>2, <1>3

\* What the rules say of the five members.
Clean(d) ==
  /\ d.type # Empty
  /\ \A n \in SliceMembers : d.base[n] # Nil =>
       \A i \in DOMAIN d.base[n] :
         d.base[n][i] # Empty /\ (n = "locations" => d.base[n][i] \in AbsoluteURIs)

LEMMA RulesSayClean ==
  ASSUME NEW d \in AuthorizationDetail
  PROVE  /\ d.carrier \in {"common", "extension"} => (Validate(d) = WellFormed) = Clean(d)
         /\ d.carrier = "payment" =>
              (Validate(d) = WellFormed) = (Clean(d) /\ d.extra # Empty)
         /\ d.carrier = "unknown" => Validate(d) = WellFormed
<1> DEFINE Baseline5 == \A i \in 1 .. 5 : ~Violates(d, BaselineRules[i])
<1>1. Baseline5 = Clean(d)
  <2>1. Baseline5 = ( /\ ~Violates(d, "type-required") /\ ~Violates(d, "locations-uri")
                      /\ ~Violates(d, "actions-element-empty")
                      /\ ~Violates(d, "datatypes-element-empty")
                      /\ ~Violates(d, "privileges-element-empty") )
    BY DEF BaselineRules
  <2>2. /\ Violates(d, "type-required") = (d.type = Empty)
        /\ Violates(d, "actions-element-empty") = HasEmpty(d.base["actions"])
        /\ Violates(d, "datatypes-element-empty") = HasEmpty(d.base["datatypes"])
        /\ Violates(d, "privileges-element-empty") = HasEmpty(d.base["privileges"])
    BY DEF Violates
  <2>3. Violates(d, "locations-uri") =
          (/\ d.base["locations"] # Nil
           /\ \E i \in DOMAIN d.base["locations"] :
                d.base["locations"][i] \notin AbsoluteURIs)
    BY DEF Violates
  <2> QED
    BY <2>1, <2>2, <2>3, EmptyIsRelative DEF HasEmpty, Clean, SliceMembers
<1>2. CASE d.carrier \in {"common", "extension"}
  <2>1. RulesOf(d) = BaselineRules /\ DOMAIN BaselineRules = 1 .. 5
    BY <1>2 DEF RulesOf, BaselineRules
  <2> QED
    BY <1>1, <1>2, <2>1, ValidateFinds
<1>3. CASE d.carrier = "payment"
  <2> DEFINE q == Append(BaselineRules, "creditorName-required")
  <2>1. RulesOf(d) = q
    BY <1>3 DEF RulesOf
  <2>2. DOMAIN q = 1 .. 6 /\ q[6] = "creditorName-required" /\ \A i \in 1 .. 5 : q[i] = BaselineRules[i]
    BY DEF BaselineRules
  <2>3. Violates(d, "creditorName-required") = (d.extra = Empty)
    BY DEF Violates
  <2>4. \A i : i \in 1 .. 6 <=> i \in 1 .. 5 \/ i = 6
    OBVIOUS
  <2> HIDE DEF q
  <2>5. (\A i \in 1 .. 6 : ~Violates(d, q[i])) = (Baseline5 /\ d.extra # Empty)
    BY <2>2, <2>3, <2>4
  <2> QED
    BY <1>1, <1>3, <2>1, <2>2, <2>5, ValidateFinds
<1>4. CASE d.carrier = "unknown"
  <2>1. DOMAIN RulesOf(d) = {}
    BY <1>4 DEF RulesOf
  <2> QED
    BY <1>4, <2>1, ValidateFinds
<1> QED
  BY <1>2, <1>3, <1>4

\* CommonType.Validate, Extension.Validate, UnknownType.Validate and that of
\* the consumer's type: a value is judged as §2 judges the text that the
\* package writes for it.
THEOREM ValidateIsWire ==
  ASSUME NEW d \in AuthorizationDetail
  PROVE  /\ d.carrier \in {"common", "extension"} =>
              (Validate(d) = WellFormed) = WireWellFormed(MarshalJSON(d))
         /\ d.carrier = "payment" =>
              (Validate(d) = WellFormed) = (WireWellFormed(MarshalJSON(d)) /\ d.extra # Empty)
         /\ d.carrier = "unknown" => Validate(d) = WellFormed
<1>1. ASSUME NEW w \in {CommonShape(d), PaymentShape(d)} PROVE WireWellFormed(w) = Clean(d)
  <2>1. w.kind = "object" /\ StringOf(w, "type") = d.type
    BY ShapeMembers, CommonReadBack, PaymentReadBack
  <2>2. ASSUME NEW n \in SliceMembers
        PROVE  w.members[n].arr = IF d.base[n] = Nil THEN <<>> ELSE d.base[n]
    <3>1. \/ w.members[n] = OmitNil(d.base[n])
          \/ w.members[n] = JAbsent /\ d.base[n] = <<>>
      BY <1>1, ShapeMembers
    <3> QED
      BY <3>1 DEF OmitNil, JAbsent, JArr
  <2>3. ASSUME NEW n \in SliceMembers, d.base[n] # Nil
        PROVE  \A i \in DOMAIN d.base[n] : d.base[n][i] # NullEntry
    <3>1. d.base[n] \in Seq(STRING \ {NullEntry})
      BY <2>3, ValueFields DEF Slice
    <3> QED
      BY <3>1
  <2> QED
    BY <2>1, <2>2, <2>3 DEF WireWellFormed, Clean
<1> QED
  BY <1>1, RulesSayClean, CarrierCases

-----------------------------------------------------------------------------
(* Encoding and decoding again *)

\* CommonType, Extension, UnknownType and the consumer's type: decoding the
\* text that json.Marshal writes gives the value back, nil and empty slices
\* kept apart where the codec is the package's own.
THEOREM RoundTrip ==
  ASSUME NEW d \in AuthorizationDetail
  PROVE  /\ UnmarshalOK(d.carrier, Compact(MarshalJSON(d)))
         /\ SameDetail(d, UnmarshalJSON(d.carrier, Compact(MarshalJSON(d))))
<1> DEFINE w == Compact(MarshalJSON(d))
           e == UnmarshalJSON(d.carrier, w)
<1>1. MarshalJSON(d) \in Element /\ d.carrier \in Carriers /\ d \in AuthorizationDetail
  BY MarshalElement, ValueFields
<1>2. /\ w \in Element /\ UnmarshalOK(d.carrier, w)
      /\ StringOf(w, "type") = d.type /\ BaselineOf(w) = BaselineOf(MarshalJSON(d))
      /\ StringOf(w, Extra) = StringOf(MarshalJSON(d), Extra)
  BY <1>1, MarshalElement, CompactKeeps, NamesOfMembers
<1> HIDE DEF w
<1>3. CASE d.carrier \in {"common", "extension"}
  <2>1. BaselineOf(w) = d.base
    BY <1>2, <1>3, CarrierCases, CommonReadBack
  <2>2. e = Detail(d.carrier, d.type, d.base, Empty, Nil)
    BY <1>2, <1>3, <2>1 DEF UnmarshalJSON
  <2>3. d.extra = Empty /\ d.raw = Nil
    BY <1>3 DEF AuthorizationDetail
  <2> QED
    BY <1>2, <1>3, <2>2, <2>3 DEF SameDetail, Detail, w
<1>4. CASE d.carrier = "payment"
  <2>1. NilAsEmpty(BaselineOf(w)) = NilAsEmpty(d.base) /\ StringOf(w, Extra) = d.extra
    BY <1>2, <1>4, CarrierCases, PaymentReadBack
  <2>2. e = Detail(d.carrier, d.type, BaselineOf(w), d.extra, Nil)
    BY <1>2, <1>4, <2>1 DEF UnmarshalJSON
  <2>3. d.raw = Nil
    BY <1>4 DEF AuthorizationDetail
  <2> QED
    BY <1>2, <1>4, <2>1, <2>2, <2>3 DEF SameDetail, Detail, w
<1>5. CASE d.carrier = "unknown"
  <2>1. e = Detail(d.carrier, d.type, NoBaseline, Empty, w)
    BY <1>2, <1>5 DEF UnmarshalJSON
  <2>2. d.extra = Empty /\ d.base = NoBaseline
    BY <1>5 DEF AuthorizationDetail
  <2>3. d.raw # Nil => w = Compact(d.raw)
    BY <1>5, CarrierCases DEF w
  <2> QED
    BY <1>2, <1>5, <2>1, <2>2, <2>3 DEF SameDetail, Detail, w
<1> QED
  BY <1>1, <1>3, <1>4, <1>5 DEF Carriers

\* What an element keeps when a carrier takes it and writes it again.
LEMMA Recode ==
  ASSUME NEW w \in Element, NEW carrier \in Carriers, UnmarshalOK(carrier, w)
  PROVE  LET v == MarshalJSON(UnmarshalJSON(carrier, w))
         IN /\ v \in Element /\ StringOf(v, "type") = StringOf(w, "type")
            /\ NilAsEmpty(BaselineOf(v)) = NilAsEmpty(BaselineOf(w))
            /\ carrier # "payment" => BaselineOf(v) = BaselineOf(w)
            /\ carrier = "unknown" => v = w
            /\ carrier \in {"unknown", "payment"} => StringOf(v, Extra) = StringOf(w, Extra)
<1> DEFINE d == UnmarshalJSON(carrier, w)
           v == MarshalJSON(d)
<1>1. d \in AuthorizationDetail /\ d.carrier = carrier /\ d.type = StringOf(w, "type")
  BY UnmarshalDetail
<1>2. v \in Element /\ StringOf(v, "type") = StringOf(w, "type")
  BY <1>1, MarshalElement
<1>3. CASE carrier \in {"common", "extension"}
  <2>1. d.base = BaselineOf(w)
    BY <1>3 DEF UnmarshalJSON, Detail
  <2>2. BaselineOf(v) = d.base
    BY <1>1, <1>3, CarrierCases, CommonReadBack
  <2> QED
    BY <1>2, <1>3, <2>1, <2>2
<1>4. CASE carrier = "payment"
  <2>1. d.base = BaselineOf(w) /\ d.extra = StringOf(w, Extra)
    BY <1>4 DEF UnmarshalJSON, Detail
  <2>2. NilAsEmpty(BaselineOf(v)) = NilAsEmpty(d.base) /\ StringOf(v, Extra) = d.extra
    BY <1>1, <1>4, CarrierCases, PaymentReadBack
  <2> QED
    BY <1>2, <1>4, <2>1, <2>2
<1>5. CASE carrier = "unknown"
  <2>1. d.raw = w
    BY <1>5 DEF UnmarshalJSON, Detail
  <2>2. v = w
    BY <1>1, <1>5, <2>1, CarrierCases, NilIsNoValue
  <2> QED
    BY <1>2, <1>5, <2>2
<1> QED
  BY <1>3, <1>4, <1>5 DEF Carriers
=============================================================================

------------------------- MODULE BuiltinCodecProofs -------------------------
(* A server that decodes what it got and encodes it again repeats it, and  *)
(* judges it as the client would.                                          *)
EXTENDS BuiltinCodec, DetailsProofs

LEMMA LocalFacts ==
  ASSUME NEW d \in LocalDetail
  PROVE  /\ d \in AuthorizationDetail /\ d.carrier \in {"common", "extension", "unknown"}
         /\ d.type = "common" => d.carrier \in {"common", "extension"}
  BY ValueFields DEF LocalDetail, Carriers

\* One element, as the client wrote it.
LEMMA ElementDecodes ==
  ASSUME NEW d \in LocalDetail, NEW w, w = Compact(MarshalJSON(d))
  PROVE  /\ w \in Element /\ StringOf(w, "type") = d.type
         /\ Carrier(w) = IF d.type = "common" THEN "common" ELSE "unknown"
         /\ UnmarshalOK("unknown", w) /\ UnmarshalOK(Carrier(w), w)
<1>1. d \in AuthorizationDetail /\ (d.type = "common" => d.carrier # "unknown")
  BY LocalFacts
<1>2. /\ MarshalJSON(d) \in Element /\ StringOf(MarshalJSON(d), "type") = d.type
      /\ UnmarshalOK("unknown", MarshalJSON(d))
      /\ d.carrier # "unknown" => \A c \in Carriers : UnmarshalOK(c, MarshalJSON(d))
  BY <1>1, MarshalElement
<1>3. w \in Element /\ StringOf(w, "type") = d.type
  BY <1>2, CompactKeeps, NamesOfMembers
<1>4. \A c \in Carriers : UnmarshalOK(c, w) = UnmarshalOK(c, MarshalJSON(d))
  BY <1>2, CompactKeeps
<1>5. Carrier(w) = IF d.type = "common" THEN "common" ELSE "unknown"
  BY <1>3 DEF Carrier
<1>6. UnmarshalOK("unknown", w) /\ UnmarshalOK(Carrier(w), w)
  BY <1>1, <1>2, <1>4, <1>5 DEF Carriers
<1> QED
  BY <1>3, <1>5, <1>6

\* ... and as the server writes and judges it.
LEMMA ElementEchoes ==
  ASSUME NEW d \in LocalDetail, NEW w, w = Compact(MarshalJSON(d)),
         NEW e, e = UnmarshalJSON(Carrier(w), w)
  PROVE  /\ e \in AuthorizationDetail /\ e.carrier = Carrier(w) /\ Compact(MarshalJSON(e)) = w
         /\ (Validate(e) # WellFormed) = (d.type = "common" /\ Validate(d) # WellFormed)
<1>1. /\ d \in AuthorizationDetail /\ d.carrier \in {"common", "extension", "unknown"}
      /\ d.type = "common" => d.carrier \in {"common", "extension"}
  BY LocalFacts
<1>2. /\ w \in Element /\ StringOf(w, "type") = d.type /\ UnmarshalOK(Carrier(w), w)
      /\ Carrier(w) = IF d.type = "common" THEN "common" ELSE "unknown"
  BY ElementDecodes
<1>3. e \in AuthorizationDetail /\ e.carrier = Carrier(w) /\ e.type = d.type
  BY <1>2, UnmarshalDetail DEF Carriers
<1>4. MarshalJSON(d) \in Element
  BY <1>1, MarshalElement
<1>5. Compact(w) = w
  BY <1>4, CompactKeeps
<1>6. CASE d.type = "common"
  <2>1. MarshalJSON(d) = CommonShape(d) /\ BaselineOf(MarshalJSON(d)) = d.base
    BY <1>1, <1>6, CarrierCases, CommonReadBack
  <2>2. BaselineOf(w) = d.base
    BY <1>4, <2>1, CompactKeeps
  <2>3. e = Detail("common", d.type, d.base, Empty, Nil)
    BY <1>2, <1>6, <2>2 DEF UnmarshalJSON
  <2>4. e.base = d.base
    BY <2>3 DEF Detail
  <2>5. MarshalJSON(e) = CommonShape(d)
    <3>1. MarshalJSON(e) = CommonShape(e)
      BY <1>2, <1>3, <1>6, CarrierCases
    <3>2. CommonShape(e) = CommonShape(d)
      BY <1>3, <2>4 DEF CommonShape
    <3> QED
      BY <3>1, <3>2
  <2>6. Clean(e) = Clean(d)
    BY <1>3, <2>4 DEF Clean
  <2>7. (Validate(e) = WellFormed) = (Validate(d) = WellFormed)
    BY <1>1, <1>2, <1>3, <1>6, <2>6, RulesSayClean
  <2> QED
    BY <1>3, <1>6, <2>1, <2>5, <2>7
<1>7. CASE d.type # "common"
  <2>1. e = Detail("unknown", d.type, NoBaseline, Empty, w)
    BY <1>2, <1>7 DEF UnmarshalJSON
  <2>2. MarshalJSON(e) = w
    <3>1. e.raw = w /\ e.carrier = "unknown" /\ w # Nil
      BY <1>2, <2>1, NilIsNoValue DEF Detail
    <3> QED
      BY <1>3, <3>1, CarrierCases
  <2>3. Validate(e) = WellFormed
    BY <1>2, <1>3, <1>7, RulesSayClean
  <2> QED
    BY <1>3, <1>5, <1>7, <2>2, <2>3
<1> QED
  BY <1>6, <1>7

-----------------------------------------------------------------------------
(* A whole value *)

LEMMA NothingFound ==
  ASSUME NEW ds
  PROVE  (ValidateAll(ds) = {}) = \A i \in DOMAIN ds : Validate(ds[i]) = WellFormed
<1> DEFINE broken == {i \in DOMAIN ds : Validate(ds[i]) # WellFormed}
<1>1. ValidateAll(ds) = {<<i, Validate(ds[i])>> : i \in broken}
  BY DEF ValidateAll
<1> HIDE DEF broken
<1>2. (ValidateAll(ds) = {}) = (broken = {})
  BY <1>1
<1> QED
  BY <1>2 DEF broken

\* The server's view of the text of ds: it decodes if every element has a
\* type, gives the same text again, and breaks a rule where a detail of type
\* "common" does.
LEMMA ArrayEchoes ==
  ASSUME NEW ds \in Seq(LocalDetail), NEW f, f = Array(Marshal(ds))
  PROVE  /\ DOMAIN f.elems = DOMAIN ds /\ Marshal(ds) \in Seq(Element)
         /\ DecodeFormOK(f) = \A i \in DOMAIN ds : ds[i].type # Empty
         /\ Marshal(DecodeForm(f)) = f.elems
         /\ \A i \in DOMAIN ds : Carrier(f.elems[i]) = "common" <=> ds[i].type = "common"
         /\ DOMAIN DecodeForm(f) = DOMAIN ds
         /\ \A i \in DOMAIN ds :
              (Validate(DecodeForm(f)[i]) # WellFormed) =
                (ds[i].type = "common" /\ Validate(ds[i]) # WellFormed)
<1>1. f.kind = "array" /\ f.elems = [i \in DOMAIN ds |-> Compact(MarshalJSON(ds[i]))]
  BY DEF Array, Marshal
<1>2. DOMAIN f.elems = DOMAIN ds
  BY <1>1
<1>3. ASSUME NEW i \in DOMAIN ds
      PROVE  /\ f.elems[i] \in Element /\ StringOf(f.elems[i], "type") = ds[i].type
             /\ (Carrier(f.elems[i]) = "common") = (ds[i].type = "common")
             /\ UnmarshalOK("unknown", f.elems[i])
             /\ UnmarshalOK(Carrier(f.elems[i]), f.elems[i])
             /\ Compact(MarshalJSON(DecodeForm(f)[i])) = f.elems[i]
             /\ (Validate(DecodeForm(f)[i]) # WellFormed) =
                  (ds[i].type = "common" /\ Validate(ds[i]) # WellFormed)
  <2> PICK d, w, e : d = ds[i] /\ w = f.elems[i] /\ e = DecodeForm(f)[i]
    OBVIOUS
  <2>1. d \in LocalDetail /\ w = Compact(MarshalJSON(d))
    BY <1>1
  <2>2. e = UnmarshalJSON(Carrier(w), w)
    BY <1>2 DEF DecodeForm
  <2>3. /\ w \in Element /\ StringOf(w, "type") = d.type
        /\ Carrier(w) = IF d.type = "common" THEN "common" ELSE "unknown"
        /\ UnmarshalOK("unknown", w) /\ UnmarshalOK(Carrier(w), w)
    BY <2>1, ElementDecodes
  <2>4. /\ Compact(MarshalJSON(e)) = w
        /\ (Validate(e) # WellFormed) = (d.type = "common" /\ Validate(d) # WellFormed)
    BY <2>1, <2>2, ElementEchoes
  <2> QED
    BY <2>3, <2>4
<1>4. DOMAIN DecodeForm(f) = DOMAIN ds
  BY <1>2 DEF DecodeForm
<1>5. Marshal(DecodeForm(f)) = f.elems
  <2>1. Marshal(DecodeForm(f)) = [i \in DOMAIN ds |-> Compact(MarshalJSON(DecodeForm(f)[i]))]
    BY <1>4 DEF Marshal
  <2>2. f.elems = [i \in DOMAIN ds |-> f.elems[i]]
    BY <1>1
  <2> QED
    BY <1>3, <2>1, <2>2
<1>6. DecodeFormOK(f) = \A i \in DOMAIN ds : ds[i].type # Empty
  BY <1>1, <1>2, <1>3 DEF DecodeFormOK
<1>7. Marshal(ds) \in Seq(Element)
  <2>1. /\ DOMAIN ds = 1 .. Len(ds) /\ Len(ds) \in Nat /\ f.elems = Marshal(ds)
        /\ Marshal(ds) = [i \in 1 .. Len(ds) |-> f.elems[i]]
    BY <1>1 DEF Marshal
  <2> PICK q, n : q = Marshal(ds) /\ n = Len(ds)
    OBVIOUS
  <2>2. n \in Nat /\ q = [i \in 1 .. n |-> q[i]] /\ \A i \in 1 .. n : q[i] \in Element
    BY <1>3, <2>1
  <2>3. q \in Seq(Element)
    BY ONLY <2>2
  <2> QED
    BY <2>3
<1> QED
  BY <1>2, <1>3, <1>4, <1>5, <1>6, <1>7
=============================================================================

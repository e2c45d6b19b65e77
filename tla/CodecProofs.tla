----------------------------- MODULE CodecProofs -----------------------------
(* What Codec keeps true for any names, texts, values and edits and any    *)
(* number of hops.                                                         *)
EXTENDS Codec, DetailsProofs

(***************************************************************************)
(* What text w still has of element o after the carriers cs: the type, the *)
(* five members up to [] against absent, and more the fewer kinds of       *)
(* carriers it went through.                                               *)
(***************************************************************************)
Kept(o, w, cs) ==
  /\ StringOf(w, "type") = StringOf(o, "type")
  /\ NilAsEmpty(BaselineOf(w)) = NilAsEmpty(BaselineOf(o))
  /\ "payment" \notin cs => BaselineOf(w) = BaselineOf(o)
  /\ cs \subseteq {"unknown"} => Compact(w) = Compact(o)
  /\ cs \subseteq {"unknown", "payment"} => StringOf(w, Extra) = StringOf(o, Extra)

\* What each variable holds, beyond TypeOK.
Types ==
  /\ form \in [kind : {"array", "null", "other"}, elems : Seq(NamedElement)]
  /\ details \in {Nil} \union Seq(NamedDetail)
  /\ out \in Seq(NamedElement)
  /\ sent \in Seq(Element) /\ carried \in Seq(SUBSET Carriers)
  /\ seen \in [Names -> SUBSET (ConsumerCtors \union {"common", NoCtor})]
  /\ toggles \in SUBSET BOOLEAN
  /\ prev \in Seq(NamedDetail)

\* Element i has gone into details[i], which would be written as it should.
Held(i) ==
  /\ details[i].carrier \in carried[i]
  /\ Kept(sent[i], MarshalJSON(details[i]), carried[i])

WhileDecoding ==
  pc = "decoding" =>
    /\ details # Nil /\ verdict = Nil
    /\ Len(sent) = Len(form.elems) /\ Len(carried) = Len(form.elems)
    /\ \A i \in 1 .. Len(details) :
         /\ Held(i)
         /\ details[i].type \in Names /\ details[i].carrier \in CarriersSeen(details[i].type)
    /\ \A i \in Len(details) + 1 .. Len(form.elems) :
         Kept(sent[i], form.elems[i], carried[i])
    /\ \A n \in Names : registry[n] \in seen[n]

WhileHeld ==
  pc \in {"decoded", "validated", "encoding", "encoded"} =>
    /\ details = Nil => pc \in {"decoded", "validated"} /\ hop = 1
    /\ Len(sent) = Len(Elements) /\ Len(carried) = Len(Elements)
    /\ \A i \in 1 .. Len(Elements) : Held(i)
    /\ verdict # Nil \/ pc = "validated" => verdict = ValidateAll(Elements)

\* The toggle, if it was on all the time, had nothing against element i.
Passed(i) ==
  toggles = {TRUE} /\ ConsultsToggle(details[i]) => Validate(details[i]) = WellFormed

WhileEncoding ==
  pc \in {"encoding", "encoded"} =>
    /\ Len(out) <= Len(details) /\ (pc = "encoded" => Len(out) = Len(details))
    /\ \A i \in 1 .. Len(out) : out[i] = Compact(MarshalJSON(details[i])) /\ Passed(i)
    /\ pc = "encoding" => strict \in toggles

OnceRefused ==
  pc = "failed" /\ err.op = "encode" =>
    /\ details # Nil /\ err.index \in 1 .. Len(details)
    /\ TRUE \in toggles /\ ConsultsToggle(details[err.index])
    /\ Validate(details[err.index]) # WellFormed /\ err.rule = Validate(details[err.index])
    /\ \A j \in 1 .. err.index - 1 : Passed(j)
    /\ verdict # Nil => verdict = ValidateAll(details)

\* The reasons a decode may have to reject an element, and one it wrote.
Rejectable(w) ==
  LET n == StringOf(w, "type")
  IN n # Empty => \E c \in CarriersSeen(n) : ~UnmarshalOK(c, w)
Excused(d) ==
  d.type = Empty \/ (d.carrier = "unknown" /\ CarriersSeen(d.type) # {"unknown"})

OnceRejected ==
  pc = "failed" /\ err.op = "decode" =>
    /\ err.index \in 0 .. Len(form.elems)
    /\ err.index > 0 => Rejectable(form.elems[err.index])
    /\ hop > 1 => Excused(prev[err.index])

\* From the second hop on, what is decoded is what was encoded before.
WhileDecodingAgain ==
  hop > 1 /\ pc \in {"decoding", "decoded"} =>
    /\ details # Nil
    /\ pc = "decoding" =>
         /\ Len(form.elems) = Len(prev)
         /\ \A i \in 1 .. Len(prev) : form.elems[i] = Compact(MarshalJSON(prev[i]))
    /\ pc = "decoded" => Len(details) = Len(prev)
    /\ stable => \A i \in 1 .. Len(details) :
         details[i] = UnmarshalJSON(Dispatch(prev[i].type), Compact(MarshalJSON(prev[i])))

IInv ==
  /\ TypeOK /\ Types
  /\ WhileDecoding /\ WhileHeld /\ WhileEncoding
  /\ OnceRefused /\ OnceRejected /\ WhileDecodingAgain

-----------------------------------------------------------------------------
(* Kept *)

LEMMA KeptSelf == \A w, cs : Kept(w, w, cs)
  BY DEF Kept

\* One more carrier.
LEMMA KeptThrough ==
  ASSUME NEW o \in Element, NEW w \in Element, NEW cs, NEW c \in Carriers,
         Kept(o, w, cs), UnmarshalOK(c, w)
  PROVE  Kept(o, MarshalJSON(UnmarshalJSON(c, w)), cs \union {c})
<1> DEFINE v == MarshalJSON(UnmarshalJSON(c, w))
<1>1. /\ StringOf(v, "type") = StringOf(w, "type")
      /\ NilAsEmpty(BaselineOf(v)) = NilAsEmpty(BaselineOf(w))
      /\ c # "payment" => BaselineOf(v) = BaselineOf(w)
      /\ c = "unknown" => v = w
      /\ c \in {"unknown", "payment"} => StringOf(v, Extra) = StringOf(w, Extra)
  BY Recode
<1> HIDE DEF v
<1> QED
  BY <1>1 DEF Kept, v

LEMMA KeptCompact ==
  ASSUME NEW o, NEW w \in Element, NEW cs, Kept(o, w, cs)
  PROVE  Kept(o, Compact(w), cs)
<1>1. /\ \A n \in {"type", Extra} : StringOf(Compact(w), n) = StringOf(w, n)
      /\ BaselineOf(Compact(w)) = BaselineOf(w) /\ Compact(Compact(w)) = Compact(w)
  BY CompactKeeps, NamesOfMembers
<1> QED
  BY <1>1 DEF Kept

-----------------------------------------------------------------------------
(* Sequences *)

LEMMA Elementwise ==
  ASSUME NEW S, NEW q \in Seq(S)
  PROVE  /\ Len(q) \in Nat /\ DOMAIN q = 1 .. Len(q) /\ \A i \in 1 .. Len(q) : q[i] \in S
         /\ \A x \in S : /\ Append(q, x) \in Seq(S) /\ Len(Append(q, x)) = Len(q) + 1
                         /\ \A i \in 1 .. Len(q) : Append(q, x)[i] = q[i]
                         /\ Append(q, x)[Len(q) + 1] = x
  OBVIOUS

LEMMA OneReplaced ==
  ASSUME NEW S, NEW q \in Seq(S), NEW i \in DOMAIN q, NEW x \in S
  PROVE  LET p == [q EXCEPT ![i] = x]
         IN p \in Seq(S) /\ Len(p) = Len(q) /\ p[i] = x /\ \A j \in DOMAIN q \ {i} : p[j] = q[j]
  OBVIOUS

LEMMA NamedFacts ==
  /\ \A w \in NamedElement : w \in Element /\ StringOf(w, "type") \in Names \union {Empty}
  /\ \A d \in NamedDetail : d \in AuthorizationDetail /\ d.type \in Names \union {Empty}
  /\ \A d \in NamedDetail : MarshalJSON(d) \in NamedElement /\ Compact(MarshalJSON(d)) \in NamedElement
  /\ \A w \in NamedElement, c \in Carriers : UnmarshalOK(c, w) => UnmarshalJSON(c, w) \in NamedDetail
<1>1. ASSUME NEW d \in NamedDetail
      PROVE  MarshalJSON(d) \in NamedElement /\ Compact(MarshalJSON(d)) \in NamedElement
  <2>1. d \in AuthorizationDetail /\ d.type \in Names \union {Empty}
    BY DEF NamedDetail
  <2>2. MarshalJSON(d) \in Element /\ StringOf(MarshalJSON(d), "type") = d.type
    BY <2>1, MarshalElement
  <2>3. /\ Compact(MarshalJSON(d)) \in Element
        /\ StringOf(Compact(MarshalJSON(d)), "type") = d.type
    BY <2>2, CompactKeeps, NamesOfMembers
  <2> QED
    BY <2>1, <2>2, <2>3 DEF NamedElement
<1>2. ASSUME NEW w \in NamedElement, NEW c \in Carriers, UnmarshalOK(c, w)
      PROVE  UnmarshalJSON(c, w) \in NamedDetail
  BY <1>2, UnmarshalDetail DEF NamedElement, NamedDetail
<1> QED
  BY <1>1, <1>2 DEF NamedElement, NamedDetail

\* The details, nil or not, as a sequence.
LEMMA ElementsType ==
  ASSUME Types
  PROVE  /\ Elements \in Seq(NamedDetail) /\ (details # Nil => Elements = details)
         /\ Nil \notin Seq(NamedDetail)
<1>1. Nil \notin Seq(NamedDetail)
  <2>1. Seq(NamedDetail) \subseteq Seq(AuthorizationDetail)
    BY DEF NamedDetail
  <2> QED
    BY <2>1, NilIsNoValue
<1> QED
  BY <1>1 DEF Types, Elements

LEMMA NamedCarriers == \A d \in NamedDetail : d.carrier \in Carriers
  BY ValueFields, NamedFacts

LEMMA CarrierTypes == Types => \A i \in DOMAIN Elements : Elements[i].carrier \in Carriers
  BY NamedCarriers, ElementsType, Elementwise

LEMMA Initially == Init => IInv
<1> SUFFICES ASSUME Init PROVE IInv
  OBVIOUS
<1>1. Types
  BY CodecAssumption DEF Init, Types, NothingSeen
<1>2. TypeOK
  <2>1. registry \in [Names -> ConsumerCtors \union {"common", NoCtor}]
    BY DEF Init
  <2>2. 0 \in 0 .. MaxHops
    BY CodecAssumption
  <2>3. \A i \in DOMAIN Elements : Elements[i].carrier \in Carriers
    BY <1>1, CarrierTypes
  <2> QED
    BY <2>1, <2>2, <2>3 DEF Init, TypeOK
<1> QED
  BY <1>1, <1>2
     DEF Init, IInv, WhileDecoding, WhileHeld, WhileEncoding, OnceRefused, OnceRejected,
         WhileDecodingAgain, Elements

-----------------------------------------------------------------------------
(* Other goroutines *)

LEMMA RegisterTypeStep ==
  ASSUME IInv, NEW n \in Names, NEW c \in ConsumerCtors \union {NoCtor}, RegisterType(n, c)
  PROVE  IInv'
<1> USE DEF codec
<1>1. /\ UNCHANGED <<strict, pc, form, details, out, verdict, err, hop>>
      /\ UNCHANGED <<sent, carried, toggles, prev>>
  BY DEF RegisterType
<1>2. registry' \in [Names -> ConsumerCtors \union {"common", NoCtor}]
  BY DEF RegisterType, IInv, TypeOK
<1>3. /\ seen' \in [Names -> SUBSET (ConsumerCtors \union {"common", NoCtor})]
      /\ pc # "decoding" => seen' = seen
      /\ \A m \in Names : /\ seen[m] \subseteq seen'[m]
                          /\ pc = "decoding" /\ registry[m] \in seen[m] => registry'[m] \in seen'[m]
  BY <1>2 DEF RegisterType, IInv, Types, TypeOK
<1>4. stable' => stable /\ registry' = registry
  BY DEF RegisterType
<1>5. Elements' = Elements
  BY <1>1 DEF Elements
<1>6. TypeOK' /\ Types'
  BY <1>1, <1>2, <1>3, <1>5 DEF IInv, TypeOK, Types
<1>7. \A i : Held(i)' = Held(i) /\ Passed(i)' = Passed(i)
  BY <1>1 DEF Held, Passed
<1>8. WhileDecoding'
  <2>1. \A m \in Names : CarriersSeen(m) \subseteq CarriersSeen(m)'
    BY <1>3 DEF CarriersSeen
  <2> QED
    BY <1>1, <1>3, <1>7, <2>1 DEF IInv, WhileDecoding
<1>9. WhileHeld' /\ WhileEncoding' /\ OnceRefused'
  BY <1>1, <1>5, <1>7 DEF IInv, WhileHeld, WhileEncoding, OnceRefused
<1>10. OnceRejected'
  BY <1>1, <1>3 DEF IInv, OnceRejected, Rejectable, Excused, CarriersSeen
<1>11. WhileDecodingAgain'
  BY <1>1, <1>4 DEF IInv, WhileDecodingAgain, Dispatch
<1> QED
  BY <1>6, <1>8, <1>9, <1>10, <1>11 DEF IInv

LEMMA ToggleStep ==
  ASSUME IInv, (\E b \in BOOLEAN : SetStrictMarshal(b)) \/ UNCHANGED vars
  PROVE  IInv'
<1> USE DEF codec, history, process, vars
<1>1. /\ UNCHANGED <<registry, pc, form, details, out, verdict, err, hop>>
      /\ UNCHANGED <<sent, carried, seen, prev, stable>>
  BY DEF SetStrictMarshal
<1>2. /\ strict' \in BOOLEAN /\ toggles' \in SUBSET BOOLEAN /\ toggles \subseteq toggles'
      /\ pc # "encoding" => toggles' = toggles
      /\ pc = "encoding" /\ strict \in toggles => strict' \in toggles'
  BY DEF SetStrictMarshal, IInv, TypeOK, Types
<1>3. Elements' = Elements
  BY <1>1 DEF Elements
<1>4. TypeOK' /\ Types'
  BY <1>1, <1>2, <1>3 DEF IInv, TypeOK, Types
<1>5. \A i : Held(i)' = Held(i)
  BY <1>1 DEF Held
<1>6. WhileDecoding' /\ WhileHeld' /\ OnceRejected' /\ WhileDecodingAgain'
  BY <1>1, <1>3, <1>5
     DEF IInv, WhileDecoding, WhileHeld, OnceRejected, WhileDecodingAgain, Rejectable, Excused,
         CarriersSeen, Dispatch
<1>7. WhileEncoding' /\ OnceRefused'
  <2>1. ASSUME NEW i, Passed(i), pc = "encoding" => strict \in toggles,
               pc \in {"encoding", "encoded", "failed"}
        PROVE  Passed(i)'
    <3>1. toggles' = {TRUE} => toggles = {TRUE} \/ (pc = "encoding" /\ toggles = {})
      BY <1>2
    <3> QED
      BY <1>1, <2>1, <3>1 DEF Passed
  <2> QED
    BY <1>1, <1>2, <2>1 DEF IInv, WhileEncoding, OnceRefused
<1> QED
  BY <1>4, <1>6, <1>7 DEF IInv

-----------------------------------------------------------------------------
(* Decoding *)

\* What ParseArray does before its loop, whoever calls it.
LEMMA DecodeBegins ==
  ASSUME IInv, NEW f, Decode(f), UNCHANGED process,
         f \in [kind : {"array", "null", "other"}, elems : Seq(NamedElement)],
         hop' \in 1 .. MaxHops, f.kind = "other" => hop' = 1,
         sent' \in Seq(Element), carried' \in Seq(SUBSET Carriers), toggles' \in SUBSET BOOLEAN,
         Len(sent') = Len(f.elems), Len(carried') = Len(f.elems),
         \A i \in 1 .. Len(f.elems) : Kept(sent'[i], f.elems[i], carried'[i]),
         prev' \in Seq(NamedDetail),
         hop' > 1 => /\ Len(prev') = Len(f.elems)
                     /\ \A i \in 1 .. Len(prev') : f.elems[i] = Compact(MarshalJSON(prev'[i]))
  PROVE  IInv'
<1>1. /\ form' = f /\ details' = <<>> /\ out' = <<>> /\ verdict' = Nil
      /\ seen' = [n \in Names |-> {registry[n]}] /\ registry' = registry /\ strict' = strict
      /\ \/ f.kind = "other" /\ pc' = "failed" /\ err' = Failure("decode", 0, "json", {"Err"})
         \/ f.elems = <<>> /\ pc' = "decoded" /\ err' = NoErr
         \/ f.elems # <<>> /\ pc' = "decoding" /\ err' = NoErr
  BY DEF Decode, process
<1>2. Len(f.elems) \in Nat /\ Len(<<>>) = 0 /\ (f.elems = <<>> <=> Len(f.elems) = 0)
  OBVIOUS
<1>3. Types'
  BY <1>1 DEF IInv, Types, TypeOK
<1>4. TypeOK'
  <2>1. \A i \in DOMAIN Elements' : Elements'[i].carrier \in Carriers
    BY <1>1 DEF Elements
  <2>2. hop' \in 0 .. MaxHops
    BY CodecAssumption
  <2>3. registry' \in [Names -> ConsumerCtors \union {"common", NoCtor}] /\ strict' \in BOOLEAN
    BY <1>1 DEF IInv, TypeOK
  <2> QED
    BY <1>1, <1>2, <2>1, <2>2, <2>3 DEF TypeOK
<1>5. Nil # <<>>
  <2>1. <<>> \in Seq(STRING)
    OBVIOUS
  <2> QED
    BY <2>1, NilIsNoValue
<1>6. WhileDecoding'
  BY <1>1, <1>2, <1>5 DEF WhileDecoding
<1>7. WhileHeld' /\ WhileEncoding' /\ OnceRefused'
  <2>1. pc' = "decoded" => Len(f.elems) = 0
    BY <1>1, <1>2
  <2>2. WhileHeld'
    BY <1>1, <1>2, <1>5, <2>1 DEF WhileHeld, Elements
  <2>3. WhileEncoding' /\ OnceRefused'
    <3>1. pc' \notin {"encoding", "encoded"} /\ (pc' = "failed" => err'.op = "decode")
      BY <1>1 DEF Failure
    <3> QED
      BY <3>1 DEF WhileEncoding, OnceRefused
  <2> QED
    BY <2>2, <2>3
<1>8. OnceRejected'
  BY <1>1, <1>2 DEF OnceRejected, Failure, NoErr
<1>9. WhileDecodingAgain'
  BY <1>1, <1>2, <1>5 DEF WhileDecodingAgain
<1> QED
  BY <1>3, <1>4, <1>6, <1>7, <1>8, <1>9 DEF IInv

LEMMA ReceiveStep ==
  ASSUME IInv, Receive
  PROVE  IInv'
<1>1. PICK f \in Forms :
        /\ Decode(f) /\ sent' = f.elems /\ carried' = [i \in DOMAIN f.elems |-> {}]
        /\ hop' = 1 /\ prev' = <<>> /\ UNCHANGED process /\ UNCHANGED toggles
  BY DEF Receive
<1>2. f \in [kind : {"array", "null", "other"}, elems : Seq(NamedElement)]
  BY CodecAssumption
<1>3. sent' \in Seq(Element) /\ DOMAIN f.elems = 1 .. Len(f.elems) /\ Len(f.elems) \in Nat
  BY <1>1, <1>2 DEF NamedElement
<1>4. carried' \in Seq(SUBSET Carriers) /\ Len(carried') = Len(f.elems)
  BY <1>1, <1>3
<1>5. \A i \in 1 .. Len(f.elems) : Kept(sent'[i], f.elems[i], carried'[i])
  BY <1>1, KeptSelf
<1>6. prev' \in Seq(NamedDetail) /\ toggles' \in SUBSET BOOLEAN /\ 1 \in 1 .. MaxHops
  BY <1>1, CodecAssumption DEF IInv, Types
<1> QED
  BY <1>1, <1>2, <1>3, <1>4, <1>5, <1>6, DecodeBegins

LEMMA ForwardStep ==
  ASSUME IInv, Forward
  PROVE  IInv'
<1> DEFINE f == [kind |-> "array", elems |-> out]
<1>1. /\ pc = "encoded" /\ hop < MaxHops /\ Decode(f) /\ hop' = hop + 1 /\ prev' = details
      /\ toggles' = {} /\ UNCHANGED <<process, sent, carried, stable>>
  BY DEF Forward
<1>2. /\ details \in Seq(NamedDetail) /\ out \in Seq(NamedElement)
      /\ Len(out) = Len(details) /\ Len(sent) = Len(out) /\ Len(carried) = Len(out)
      /\ \A i \in 1 .. Len(out) : Held(i) /\ out[i] = Compact(MarshalJSON(details[i]))
  BY <1>1, ElementsType DEF IInv, Types, WhileHeld, WhileEncoding
<1>3. \A i \in 1 .. Len(out) : Kept(sent[i], out[i], carried[i])
  BY <1>2, KeptCompact, NamedFacts DEF Held
<1>4. hop' \in 1 .. MaxHops
  BY <1>1, CodecAssumption DEF IInv, TypeOK
<1>5. /\ f \in [kind : {"array", "null", "other"}, elems : Seq(NamedElement)]
      /\ f.kind # "other" /\ f.elems = out
  BY <1>2
<1>6. sent' = sent /\ carried' = carried
  BY <1>1
<1>7. sent \in Seq(Element) /\ carried \in Seq(SUBSET Carriers)
  BY DEF IInv, Types
<1> HIDE DEF f
<1> QED
  BY <1>1, <1>2, <1>3, <1>4, <1>5, <1>6, <1>7, DecodeBegins

\* The constructor found now is one of those that a decode has seen, and what
\* no carrier can take, no carrier's UnmarshalJSON takes.
LEMMA DispatchSeen ==
  ASSUME IInv, NEW n \in Names
  PROVE  /\ Dispatch(n) \in Carriers
         /\ pc = "decoding" => Dispatch(n) \in CarriersSeen(n)
<1>1. registry[n] \in {"extension", "payment", "common", NoCtor}
  BY DEF IInv, TypeOK, ConsumerCtors
<1>2. pc = "decoding" => registry[n] \in seen[n]
  BY DEF IInv, WhileDecoding
<1> QED
  BY <1>1, <1>2 DEF Dispatch, CarriersSeen, Carriers

LEMMA ProbeFirst ==
  ASSUME NEW w, NEW c \in Carriers, UnmarshalOK(c, w)
  PROVE  UnmarshalOK("unknown", w)
  BY DEF Carriers, UnmarshalOK, CommonShapeOK

\* The element about to be parsed.
LEMMA NextIsNamed ==
  ASSUME IInv, pc = "decoding"
  PROVE  /\ details \in Seq(NamedDetail) /\ Len(details) \in Nat
         /\ Len(details) + 1 \in 1 .. Len(form.elems) /\ Len(form.elems) \in Nat
         /\ NextElement \in NamedElement /\ NextElement = form.elems[Len(details) + 1]
         /\ hop > 1 => /\ Len(details) + 1 \in 1 .. Len(prev) /\ prev[Len(details) + 1] \in NamedDetail
                       /\ NextElement = Compact(MarshalJSON(prev[Len(details) + 1]))
<1>1. details \in Seq(NamedDetail) /\ form.elems \in Seq(NamedElement) /\ prev \in Seq(NamedDetail)
  BY DEF IInv, Types, WhileDecoding
<1>2. Len(details) < Len(form.elems) /\ Len(details) \in Nat /\ Len(form.elems) \in Nat
  BY <1>1 DEF IInv, TypeOK
<1>3. NextElement \in NamedElement
  BY <1>1, <1>2, Elementwise DEF NextElement
<1>4. hop > 1 => /\ Len(form.elems) = Len(prev)
                 /\ \A i \in 1 .. Len(prev) : form.elems[i] = Compact(MarshalJSON(prev[i]))
  BY DEF IInv, WhileDecodingAgain
<1> QED
  BY <1>1, <1>2, <1>3, <1>4, Elementwise DEF NextElement

LEMMA ParseFailsStep ==
  ASSUME IInv, ParseFails
  PROVE  IInv'
<1> DEFINE i == Len(details) + 1
           w == NextElement
           type == StringOf(w, "type")
<1>1. /\ pc = "decoding" /\ pc' = "failed" /\ details' = <<>>
      /\ UNCHANGED <<registry, strict, form, out, verdict, hop>>
      /\ UNCHANGED <<sent, carried, seen, toggles, prev, stable>>
  BY DEF ParseFails, process, history
<1>2. /\ err'.op = "decode" /\ err'.index = i
      /\ \/ ~UnmarshalOK("unknown", w)
         \/ UnmarshalOK("unknown", w) /\ type = Empty
         \/ UnmarshalOK("unknown", w) /\ type # Empty /\ ~UnmarshalOK(Dispatch(type), w)
  BY DEF ParseFails, Failure
<1>3. /\ w \in NamedElement /\ w = form.elems[i] /\ i \in 1 .. Len(form.elems)
      /\ type \in Names \union {Empty}
  BY <1>1, NextIsNamed, NamedFacts
<1> HIDE DEF w, i
<1>4. Rejectable(w)
  BY <1>1, <1>2, <1>3, DispatchSeen, ProbeFirst DEF Rejectable
<1>5. ASSUME hop > 1
      PROVE  Excused(prev[i])
  <2> DEFINE d == prev[i]
  <2>1. d \in NamedDetail /\ w = Compact(MarshalJSON(d))
    BY <1>1, <1>5, NextIsNamed DEF i, w
  <2>2. d \in AuthorizationDetail /\ MarshalJSON(d) \in Element
    BY <2>1, NamedFacts
  <2> HIDE DEF d
  <2>3. /\ type = d.type /\ UnmarshalOK("unknown", w)
        /\ d.carrier # "unknown" => \A c \in Carriers : UnmarshalOK(c, w)
    BY <2>1, <2>2, MarshalElement, CompactKeeps, NamesOfMembers DEF Carriers
  <2>4. CASE type # Empty
    <3>1. Dispatch(type) \in Carriers /\ Dispatch(type) \in CarriersSeen(type)
      BY <1>1, <1>3, <2>4, DispatchSeen
    <3> QED
      BY <1>2, <2>3, <2>4, <3>1 DEF Excused, d
  <2> QED
    BY <2>3, <2>4 DEF Excused, d
<1>6. OnceRejected'
  <2>1. /\ form' = form /\ prev' = prev /\ hop' = hop
        /\ \A x : Rejectable(x)' = Rejectable(x) /\ Excused(x)' = Excused(x)
    BY <1>1 DEF Rejectable, Excused, CarriersSeen
  <2>2. err'.index \in 1 .. Len(form.elems) /\ form'.elems[err'.index] = w
    BY <1>2, <1>3, <2>1
  <2>3. PICK x, d : x = w /\ d = prev[i]
    OBVIOUS
  <2>4. Rejectable(x)' /\ (hop > 1 => Excused(d)')
    BY <1>4, <1>5, <2>1, <2>3
  <2>5. form'.elems[err'.index] = x /\ prev'[err'.index] = d
    BY <1>2, <2>1, <2>2, <2>3
  <2>6. err'.index \in 0 .. Len(form'.elems)
    BY <2>1, <2>2
  <2> QED
    BY <2>1, <2>4, <2>5, <2>6 DEF OnceRejected
<1>7. Types'
  BY <1>1 DEF IInv, Types
<1>8. TypeOK'
  <2>1. \A j \in DOMAIN Elements' : Elements'[j].carrier \in Carriers
    BY <1>1 DEF Elements
  <2> QED
    BY <1>1, <2>1 DEF IInv, TypeOK
<1> QED
  BY <1>1, <1>2, <1>6, <1>7, <1>8
     DEF IInv, WhileDecoding, WhileHeld, WhileEncoding, OnceRefused, WhileDecodingAgain

LEMMA ParseStep ==
  ASSUME IInv, Parse
  PROVE  IInv'
<1> PICK i, w, type, carrier, d :
      /\ i = Len(details) + 1 /\ w = NextElement /\ type = StringOf(w, "type")
      /\ carrier = Dispatch(type) /\ d = UnmarshalJSON(carrier, w)
  OBVIOUS
<1>1. /\ pc = "decoding" /\ UnmarshalOK(carrier, w) /\ type # Empty
      /\ details' = Append(details, d)
      /\ carried' = [carried EXCEPT ![i] = @ \union {carrier}]
      /\ pc' = IF i = Len(form.elems) THEN "decoded" ELSE "decoding"
      /\ UNCHANGED <<registry, strict, form, out, verdict, err, hop>>
      /\ UNCHANGED <<sent, seen, toggles, prev, stable>>
  BY DEF Parse, process
<1>2. /\ details \in Seq(NamedDetail) /\ Len(details) \in Nat
      /\ i \in 1 .. Len(form.elems) /\ Len(form.elems) \in Nat
      /\ w \in NamedElement /\ w = form.elems[i]
  BY <1>1, NextIsNamed
<1>3. type \in Names /\ carrier \in Carriers /\ carrier \in CarriersSeen(type)
  BY <1>1, <1>2, NamedFacts, DispatchSeen
<1>4. d \in NamedDetail /\ d.carrier = carrier /\ d.type = type
  BY <1>1, <1>2, <1>3, NamedFacts, UnmarshalDetail
<1>5. /\ details' \in Seq(NamedDetail) /\ Len(details') = i /\ details'[i] = d
      /\ \A j \in 1 .. Len(details) : details'[j] = details[j]
      /\ details' # Nil
  BY <1>1, <1>2, <1>4, Elementwise, ElementsType DEF IInv
<1>6. /\ Len(sent) = Len(form.elems) /\ Len(carried) = Len(form.elems)
      /\ sent \in Seq(Element) /\ carried \in Seq(SUBSET Carriers)
  BY <1>1 DEF IInv, WhileDecoding, Types
<1>7. /\ carried' \in Seq(SUBSET Carriers) /\ Len(carried') = Len(form.elems)
      /\ carried'[i] = carried[i] \union {carrier}
      /\ \A j \in 1 .. Len(form.elems) \ {i} : carried'[j] = carried[j]
  <2>1. DOMAIN carried = 1 .. Len(form.elems) /\ carried[i] \in SUBSET Carriers
    BY <1>2, <1>6, Elementwise
  <2> QED
    BY <1>1, <1>2, <1>3, <1>6, <2>1
<1>8. Kept(sent[i], MarshalJSON(d), carried'[i])
  <2>1. Kept(sent[i], w, carried[i])
    BY <1>1, <1>2 DEF IInv, WhileDecoding
  <2>2. sent[i] \in Element /\ w \in Element
    BY <1>2, <1>6, Elementwise, NamedFacts
  <2> QED
    BY <1>1, <1>3, <1>7, <2>1, <2>2, KeptThrough
<1>9. \A j \in 1 .. i :
        Held(j)' /\ details'[j].type \in Names /\ details'[j].carrier \in CarriersSeen(details'[j].type)
  <2>1. Held(i)'
    BY <1>1, <1>4, <1>5, <1>7, <1>8 DEF Held
  <2>2. ASSUME NEW j \in 1 .. Len(details)
        PROVE  /\ Held(j)' /\ details'[j].type \in Names
               /\ details'[j].carrier \in CarriersSeen(details'[j].type)
    <3>1. /\ Held(j) /\ details[j].type \in Names
          /\ details[j].carrier \in CarriersSeen(details[j].type)
      BY <1>1 DEF IInv, WhileDecoding
    <3>2. carried'[j] = carried[j] /\ details'[j] = details[j] /\ sent'[j] = sent[j]
      BY <1>1, <1>2, <1>5, <1>7
    <3> QED
      BY <3>1, <3>2 DEF Held
  <2>3. \A j \in 1 .. i : j = i \/ j \in 1 .. Len(details)
    BY <1>2
  <2> QED
    BY <1>3, <1>4, <1>5, <2>1, <2>2, <2>3
<1>10. Types'
  BY <1>1, <1>5, <1>7 DEF IInv, Types
<1>11. TypeOK'
  <2>1. \A j \in DOMAIN Elements' : Elements'[j].carrier \in Carriers
    BY <1>5, NamedCarriers, Elementwise DEF Elements
  <2>2. pc' = "decoding" => Len(details') < Len(form'.elems)
    BY <1>1, <1>2, <1>5
  <2> QED
    BY <1>1, <2>1, <2>2 DEF IInv, TypeOK
<1>12. WhileDecoding' /\ WhileHeld'
  <2>1. pc' = "decoded" => i = Len(form.elems) /\ Elements' = details'
    BY <1>1, <1>5 DEF Elements
  <2>2. verdict' = Nil
    BY <1>1 DEF IInv, WhileDecoding
  <2>3. WhileDecoding'
    <3>1. \A j \in i + 1 .. Len(form.elems) : Kept(sent'[j], form'.elems[j], carried'[j])
      BY <1>1, <1>2, <1>7 DEF IInv, WhileDecoding
    <3>2. \A j \in 1 .. i : details'[j].carrier \in CarriersSeen(details'[j].type)
      BY <1>9
    <3>3. \A j \in 1 .. i : (details[j].carrier \in CarriersSeen(details[j].type))'
      BY <1>1, <3>2 DEF CarriersSeen
    <3>4. \A n \in Names : registry'[n] \in seen'[n]
      BY <1>1 DEF IInv, WhileDecoding
    <3> QED
      BY <1>1, <1>5, <1>6, <1>7, <1>9, <2>2, <3>1, <3>3, <3>4 DEF WhileDecoding
  <2>4. WhileHeld'
    BY <1>1, <1>5, <1>6, <1>7, <1>9, <2>1, <2>2 DEF WhileHeld
  <2> QED
    BY <2>3, <2>4
<1>13. WhileDecodingAgain'
  <2> SUFFICES ASSUME hop > 1 PROVE WhileDecodingAgain'
    BY <1>1 DEF WhileDecodingAgain
  <2>1. /\ Len(form.elems) = Len(prev)
        /\ \A j \in 1 .. Len(prev) : form.elems[j] = Compact(MarshalJSON(prev[j]))
        /\ stable => \A j \in 1 .. Len(details) :
             details[j] = UnmarshalJSON(Dispatch(prev[j].type), Compact(MarshalJSON(prev[j])))
    BY <1>1 DEF IInv, WhileDecodingAgain
  <2>2. prev[i] \in NamedDetail /\ w = Compact(MarshalJSON(prev[i]))
    BY <1>1, <1>2, <2>1, NextIsNamed
  <2>3. type = prev[i].type
    BY <2>2, NamedFacts, MarshalElement, CompactKeeps, NamesOfMembers
  <2>4. d = UnmarshalJSON(Dispatch(prev[i].type), Compact(MarshalJSON(prev[i])))
    BY <2>2, <2>3
  <2>5. \A n : Dispatch(n)' = Dispatch(n)
    BY <1>1 DEF Dispatch
  <2>6. \A j \in 1 .. i : j = i \/ j \in 1 .. Len(details)
    BY <1>2
  <2>7. stable => \A j \in 1 .. i :
          details'[j] = UnmarshalJSON(Dispatch(prev[j].type), Compact(MarshalJSON(prev[j])))
    BY <1>5, <2>1, <2>4, <2>6
  <2>8. \A j : Dispatch(prev[j].type)' = Dispatch(prev[j].type)
    BY <1>1 DEF Dispatch
  <2> QED
    BY <1>1, <1>5, <2>1, <2>7, <2>8 DEF WhileDecodingAgain
<1>14. WhileEncoding' /\ OnceRefused' /\ OnceRejected'
  BY <1>1 DEF WhileEncoding, OnceRefused, OnceRejected
<1> QED
  BY <1>10, <1>11, <1>12, <1>13, <1>14 DEF IInv

-----------------------------------------------------------------------------
(* The application *)

\* A value ready for use at the first hop.
LEMMA ValueReady ==
  ASSUME IInv, NEW ds, ds \in {Nil} \union Seq(NamedDetail), details' = ds,
         pc' = "decoded", hop' = 1, verdict' = Nil, out' = <<>>, form' \in
           [kind : {"array", "null", "other"}, elems : Seq(NamedElement)],
         UNCHANGED <<process, seen, toggles>>, prev' \in Seq(NamedDetail),
         sent' \in Seq(Element), carried' \in Seq(SUBSET Carriers),
         Len(sent') = Len(IF ds = Nil THEN <<>> ELSE ds),
         Len(carried') = Len(IF ds = Nil THEN <<>> ELSE ds),
         \A i \in 1 .. Len(IF ds = Nil THEN <<>> ELSE ds) :
           /\ ds[i].carrier \in carried'[i]
           /\ Kept(sent'[i], MarshalJSON(ds[i]), carried'[i])
  PROVE  IInv'
<1>1. Elements' = IF ds = Nil THEN <<>> ELSE ds
  BY DEF Elements
<1>2. Types'
  BY DEF IInv, Types
<1>3. TypeOK'
  <2>1. Elements' \in Seq(NamedDetail)
    BY <1>1
  <2>2. \A i \in DOMAIN Elements' : Elements'[i].carrier \in Carriers
    BY <2>1, NamedCarriers, Elementwise
  <2>3. hop' \in 0 .. MaxHops
    BY CodecAssumption
  <2> QED
    BY <2>2, <2>3 DEF IInv, TypeOK, process
<1>4. WhileHeld'
  <2>1. \A i \in 1 .. Len(Elements') : Held(i)'
    <3>1. ds = Nil => Len(Elements') = 0
      BY <1>1
    <3> QED
      BY <1>1, <3>1 DEF Held
  <2> QED
    BY <1>1, <2>1 DEF WhileHeld
<1>5. WhileDecoding' /\ WhileEncoding' /\ OnceRefused' /\ OnceRejected' /\ WhileDecodingAgain'
  BY DEF WhileDecoding, WhileEncoding, OnceRefused, OnceRejected, WhileDecodingAgain
<1> QED
  BY <1>2, <1>3, <1>4, <1>5 DEF IInv

LEMMA CallUnmarshalJSONStep ==
  ASSUME IInv, CallUnmarshalJSON
  PROVE  IInv'
<1> PICK f \in Forms, carrier \in {"common", "extension", "unknown"} :
      /\ f.kind = "array" /\ Len(f.elems) = 1
      /\ form' = f /\ sent' = f.elems /\ carried' = <<{carrier}>>
      /\ \/ /\ UnmarshalOK(carrier, f.elems[1])
            /\ details' = <<UnmarshalJSON(carrier, f.elems[1])>>
            /\ pc' = "decoded" /\ err' = NoErr
         \/ /\ ~UnmarshalOK(carrier, f.elems[1]) /\ details' = <<>>
            /\ pc' = "failed" /\ err' = Failure("unmarshal", 1, "json", {})
  BY DEF CallUnmarshalJSON
<1> PICK w : w = f.elems[1]
  OBVIOUS
<1>1. /\ hop' = 1 /\ out' = <<>> /\ verdict' = Nil /\ prev' = <<>>
      /\ UNCHANGED <<process, seen, toggles>>
  BY DEF CallUnmarshalJSON
<1>2. /\ f \in [kind : {"array", "null", "other"}, elems : Seq(NamedElement)]
      /\ w \in NamedElement /\ w \in Element /\ carrier \in Carriers
  <2>1. f \in [kind : {"array", "null", "other"}, elems : Seq(NamedElement)]
    BY CodecAssumption
  <2> QED
    BY <2>1, Elementwise, NamedFacts DEF Carriers
<1>3. sent' \in Seq(Element) /\ carried' \in Seq(SUBSET Carriers) /\ Len(carried') = 1
      /\ carried'[1] = {carrier}
  BY <1>2 DEF NamedElement
<1>4. prev' \in Seq(NamedDetail)
  BY <1>1
<1>5. CASE UnmarshalOK(carrier, w)
  <2> PICK d, ds : d = UnmarshalJSON(carrier, w) /\ ds = <<d>>
    OBVIOUS
  <2>1. details' = ds /\ pc' = "decoded"
    BY <1>5
  <2>2. d \in NamedDetail /\ d.carrier = carrier
    BY <1>2, <1>5, NamedFacts, UnmarshalDetail
  <2>3. ds \in Seq(NamedDetail) /\ ds # Nil /\ Len(ds) = 1 /\ ds[1] = d
    <3>1. ds \in Seq(NamedDetail)
      BY <2>2
    <3>2. Nil \notin Seq(NamedDetail)
      BY ElementsType DEF IInv
    <3> QED
      BY <3>1, <3>2
  <2>4. Kept(sent'[1], MarshalJSON(d), carried'[1])
    <3>1. Kept(w, w, {})
      BY KeptSelf
    <3>2. Kept(w, MarshalJSON(d), {} \union {carrier})
      BY <1>2, <1>5, <3>1, KeptThrough
    <3> QED
      BY <1>3, <3>2
  <2>5. Len(sent') = 1 /\ \A i \in 1 .. 1 : i = 1
    OBVIOUS
  <2> QED
    BY <1>1, <1>2, <1>3, <1>4, <2>1, <2>2, <2>3, <2>4, <2>5, ValueReady
<1>6. CASE ~UnmarshalOK(carrier, w)
  <2>1. details' = <<>> /\ pc' = "failed" /\ err'.op = "unmarshal"
    BY <1>6 DEF Failure
  <2>2. Types'
    BY <1>1, <1>2, <1>3, <1>4, <2>1 DEF IInv, Types
  <2>3. TypeOK'
    <3>1. \A i \in DOMAIN Elements' : Elements'[i].carrier \in Carriers
      BY <2>1 DEF Elements
    <3>2. hop' \in 0 .. MaxHops
      BY <1>1, CodecAssumption
    <3> QED
      BY <1>1, <2>1, <3>1, <3>2 DEF IInv, TypeOK, process
  <2> QED
    BY <2>1, <2>2, <2>3
       DEF IInv, WhileDecoding, WhileHeld, WhileEncoding, OnceRefused, OnceRejected,
           WhileDecodingAgain
<1> QED
  BY <1>5, <1>6

LEMMA BuildStep ==
  ASSUME IInv, Build
  PROVE  IInv'
<1> PICK ds \in Built :
      /\ details' = ds
      /\ sent' = IF ds = Nil THEN <<>> ELSE [i \in DOMAIN ds |-> MarshalJSON(ds[i])]
      /\ carried' = IF ds = Nil THEN <<>> ELSE [i \in DOMAIN ds |-> {ds[i].carrier}]
  BY DEF Build
<1> DEFINE n == Len(IF ds = Nil THEN <<>> ELSE ds)
<1>1. /\ pc' = "decoded" /\ hop' = 1 /\ out' = <<>> /\ verdict' = Nil /\ prev' = <<>>
      /\ form' = [kind |-> "array", elems |-> <<>>] /\ UNCHANGED <<process, seen, toggles>>
  BY DEF Build
<1>2. ds \in {Nil} \union Seq(NamedDetail)
  BY CodecAssumption
<1>3. form' \in [kind : {"array", "null", "other"}, elems : Seq(NamedElement)]
      /\ prev' \in Seq(NamedDetail)
  BY <1>1
<1>4. CASE ds = Nil
  <2>1. sent' = <<>> /\ carried' = <<>> /\ n = 0
    BY <1>4
  <2>2. sent' \in Seq(Element) /\ carried' \in Seq(SUBSET Carriers)
    BY <2>1
  <2> QED
    BY <1>1, <1>2, <1>3, <1>4, <2>1, <2>2, ValueReady
<1>5. CASE ds # Nil
  <2>1. /\ ds \in Seq(NamedDetail) /\ n = Len(ds) /\ n \in Nat /\ DOMAIN ds = 1 .. n
        /\ \A i \in 1 .. n : ds[i] \in NamedDetail
    BY <1>2, <1>5, Elementwise
  <2>2. \A i \in 1 .. n : MarshalJSON(ds[i]) \in Element /\ ds[i].carrier \in Carriers
    BY <2>1, NamedFacts, NamedCarriers
  <2>3. /\ sent' = [i \in 1 .. n |-> MarshalJSON(ds[i])]
        /\ carried' = [i \in 1 .. n |-> {ds[i].carrier}]
    BY <1>5, <2>1
  <2> HIDE DEF n
  <2>4. /\ sent' \in Seq(Element) /\ carried' \in Seq(SUBSET Carriers)
        /\ Len(sent') = n /\ Len(carried') = n
    <3>1. n \in Nat
      BY <2>1
    <3>2. sent' \in [1 .. n -> Element] /\ Len(sent') = n
      BY <2>2, <2>3, <3>1
    <3>3. carried' \in [1 .. n -> SUBSET Carriers] /\ Len(carried') = n
      BY <2>2, <2>3, <3>1
    <3> QED
      BY <3>1, <3>2, <3>3
  <2>5. ASSUME NEW i \in 1 .. n
        PROVE  ds[i].carrier \in carried'[i] /\ Kept(sent'[i], MarshalJSON(ds[i]), carried'[i])
    BY <2>3, KeptSelf
  <2> QED
    BY <1>1, <1>2, <1>3, <1>5, <2>1, <2>4, <2>5, ValueReady DEF n
<1> QED
  BY <1>4, <1>5

LEMMA NilAsEmptyEdited ==
  ASSUME NEW base, base = [n \in Baseline |-> base[n]], NEW m, NEW v, v # Nil,
         NEW new, new = [base EXCEPT ![m] = v]
  PROVE  NilAsEmpty(new) = [NilAsEmpty(base) EXCEPT ![m] = v]
<1>1. DOMAIN base = Baseline /\ DOMAIN new = Baseline
  OBVIOUS
<1>2. \A n \in Baseline : new[n] = IF n = m THEN v ELSE base[n]
  BY <1>1
<1>3. \A n \in Baseline : NilAsEmpty(new)[n] = [NilAsEmpty(base) EXCEPT ![m] = v][n]
  BY <1>2 DEF NilAsEmpty
<1> QED
  BY <1>3 DEF NilAsEmpty

Edited(d, m, v)     == [d EXCEPT !.base[m] = v]
TextEdited(o, m, v) == [o EXCEPT !.members[m] = JArr(v)]

\* A write through Common() is as if the element had come with it.
LEMMA EditKept ==
  ASSUME NEW d \in AuthorizationDetail, d.carrier # "unknown", NEW o \in Element,
         NEW cs, d.carrier \in cs, Kept(o, MarshalJSON(d), cs),
         NEW m \in SliceMembers, NEW v \in Seq(STRING \ {NullEntry}),
         NEW d2, d2 = Edited(d, m, v), NEW o2, o2 = TextEdited(o, m, v)
  PROVE  /\ d2 \in AuthorizationDetail /\ d2.carrier = d.carrier /\ d2.type = d.type
         /\ o2 \in Element /\ Kept(o2, MarshalJSON(d2), cs)
<1>1. v \in Slice /\ v \in Seq(STRING) /\ v # Nil
  <2>1. v \in Seq(STRING)
    OBVIOUS
  <2> QED
    BY <2>1, NilIsNoValue DEF Slice
<1>2. /\ d2.carrier = d.carrier /\ d2.type = d.type /\ d2.extra = d.extra
      /\ d2.base = [d.base EXCEPT ![m] = v]
  BY DEF AuthorizationDetail, Edited
<1>3. d2 \in AuthorizationDetail
  <2>1. m \in Baseline /\ m # "identifier"
    BY NamesOfMembers
  <2>2. /\ d2 \in [carrier : Carriers, type : STRING, base : [Baseline -> Slice \union STRING],
                   extra : STRING, raw : {Nil} \union Element]
        /\ d2.raw = d.raw
    BY <1>1, <2>1 DEF AuthorizationDetail, Edited
  <2>3. /\ d2.base["identifier"] = d.base["identifier"]
        /\ \A n \in SliceMembers : d2.base[n] \in Slice
    <3>1. d.base \in [Baseline -> Slice \union STRING] /\ \A n \in SliceMembers : d.base[n] \in Slice
      BY DEF AuthorizationDetail
    <3> QED
      BY <1>1, <1>2, <2>1, <3>1, NamesOfMembers
  <2>4. d2.base["identifier"] \in STRING
    BY <2>3, ValueFields
  <2>5. (d2.carrier # "payment" => d2.extra = Empty) /\ d2.raw = Nil
    BY <1>2, <2>2 DEF AuthorizationDetail
  <2> QED
    BY <1>2, <2>2, <2>3, <2>4, <2>5 DEF AuthorizationDetail
<1>4. /\ o2 \in Element /\ o2.members[m] = JArr(v)
      /\ \A n \in MemberNames \ {m} : o2.members[n] = o.members[n]
  <2>1. JArr(v) \in JValue /\ m \in MemberNames
    BY <1>1, Values, NamesOfMembers
  <2> QED
    BY <2>1 DEF Element, TextEdited
<1>5. SliceOf(o2, m) = v
  <2>1. o2.members[m] = OmitNil(v)
    BY <1>1, <1>4 DEF OmitNil
  <2> QED
    BY <1>1, <2>1, ReadSlice
<1>6. \A n \in MemberNames \ {m} :
        StringOf(o2, n) = StringOf(o, n) /\ SliceOf(o2, n) = SliceOf(o, n)
  BY <1>4 DEF StringOf, SliceOf
<1>7. BaselineOf(o2) = [BaselineOf(o) EXCEPT ![m] = v]
  BY <1>5, <1>6, NamesOfMembers DEF BaselineOf
<1>8. NilAsEmpty(BaselineOf(o2)) = [NilAsEmpty(BaselineOf(o)) EXCEPT ![m] = v]
  <2> PICK base, new : base = BaselineOf(o) /\ new = BaselineOf(o2)
    OBVIOUS
  <2>1. base = [n \in Baseline |-> base[n]]
    BY DEF BaselineOf
  <2>2. new = [base EXCEPT ![m] = v]
    BY <1>7
  <2>3. NilAsEmpty(new) = [NilAsEmpty(base) EXCEPT ![m] = v]
    BY ONLY <1>1, <2>1, <2>2, NilAsEmptyEdited
  <2> QED
    BY <2>3
<1>9. NilAsEmpty(d2.base) = [NilAsEmpty(d.base) EXCEPT ![m] = v]
  <2> PICK base, new : base = d.base /\ new = d2.base
    OBVIOUS
  <2>1. base = [n \in Baseline |-> base[n]] /\ new = [base EXCEPT ![m] = v]
    BY <1>2, ValueFields
  <2>2. NilAsEmpty(new) = [NilAsEmpty(base) EXCEPT ![m] = v]
    BY ONLY <1>1, <2>1, NilAsEmptyEdited
  <2> QED
    BY <2>2
<1>10. /\ StringOf(MarshalJSON(d), "type") = d.type
       /\ StringOf(MarshalJSON(d2), "type") = d2.type
  BY <1>3, MarshalElement
<1>11. m # "type" /\ m # Extra /\ {"type", Extra} \subseteq MemberNames
  BY NamesOfMembers
<1>12. CASE d.carrier \in {"common", "extension"}
  <2>1. BaselineOf(MarshalJSON(d)) = d.base /\ BaselineOf(MarshalJSON(d2)) = d2.base
    BY <1>2, <1>3, <1>12, CarrierCases, CommonReadBack
  <2>2. "payment" \notin cs => BaselineOf(MarshalJSON(d2)) = BaselineOf(o2)
    BY <1>2, <1>7, <2>1 DEF Kept
  <2>3. NilAsEmpty(BaselineOf(MarshalJSON(d2))) = NilAsEmpty(BaselineOf(o2))
    BY <1>8, <1>9, <2>1 DEF Kept
  <2>4. ~(cs \subseteq {"unknown", "payment"}) /\ ~(cs \subseteq {"unknown"})
    BY <1>12
  <2> QED
    BY <1>2, <1>3, <1>4, <1>6, <1>10, <1>11, <2>2, <2>3, <2>4 DEF Kept
<1>13. CASE d.carrier = "payment"
  <2>1. /\ NilAsEmpty(BaselineOf(MarshalJSON(d))) = NilAsEmpty(d.base)
        /\ NilAsEmpty(BaselineOf(MarshalJSON(d2))) = NilAsEmpty(d2.base)
        /\ StringOf(MarshalJSON(d), Extra) = d.extra /\ StringOf(MarshalJSON(d2), Extra) = d2.extra
    BY <1>2, <1>3, <1>13, CarrierCases, PaymentReadBack
  <2>2. NilAsEmpty(BaselineOf(MarshalJSON(d2))) = NilAsEmpty(BaselineOf(o2))
    BY <1>8, <1>9, <2>1 DEF Kept
  <2>3. ~(cs \subseteq {"unknown"}) /\ "payment" \in cs
    BY <1>13
  <2>4. cs \subseteq {"unknown", "payment"} => StringOf(MarshalJSON(d2), Extra) = StringOf(o2, Extra)
    BY <1>2, <1>6, <1>11, <2>1 DEF Kept
  <2> QED
    BY <1>2, <1>3, <1>4, <1>6, <1>10, <1>11, <2>2, <2>3, <2>4 DEF Kept
<1> QED
  BY <1>12, <1>13, ValueFields DEF Carriers

LEMMA EditCommonStep ==
  ASSUME IInv, EditCommon
  PROVE  IInv'
<1> PICK i \in DOMAIN Elements, e \in Edits :
      /\ details[i].carrier # "unknown"
      /\ details' = [details EXCEPT ![i].base[e.member] = e.value]
      /\ sent' = [sent EXCEPT ![i].members[e.member] = JArr(e.value)]
  BY DEF EditCommon
<1>1. /\ pc \in {"decoded", "validated"} /\ hop = 1 /\ Len(Elements) = 1
      /\ pc' = "decoded" /\ verdict' = Nil
      /\ UNCHANGED <<registry, strict, form, out, err, hop>>
      /\ UNCHANGED <<carried, seen, toggles, prev, stable>>
  BY DEF EditCommon, process
<1>2. /\ Elements \in Seq(NamedDetail) /\ Nil \notin Seq(NamedDetail)
      /\ details # Nil => Elements = details
      /\ sent \in Seq(Element) /\ carried \in Seq(SUBSET Carriers)
  BY ElementsType DEF IInv, Types
<1>3. i = 1 /\ details # Nil /\ details \in Seq(NamedDetail) /\ Len(details) = 1
  <2>1. i = 1
    BY <1>1, <1>2
  <2>2. details # Nil
    BY <1>1 DEF Elements
  <2> QED
    BY <1>1, <1>2, <2>1, <2>2
<1>4. Len(sent) = 1 /\ Len(carried) = 1 /\ Held(1)
  BY <1>1 DEF IInv, WhileHeld
<1> PICK d, o, d2, o2 : /\ d = details[1] /\ o = sent[1]
                       /\ d2 = [d EXCEPT !.base[e.member] = e.value]
                       /\ o2 = [o EXCEPT !.members[e.member] = JArr(e.value)]
  OBVIOUS
<1>5. d \in NamedDetail /\ d \in AuthorizationDetail /\ o \in Element
  BY <1>2, <1>3, <1>4, Elementwise, NamedFacts
<1>6. e.member \in SliceMembers /\ e.value \in Seq(STRING \ {NullEntry})
  BY CodecAssumption
<1>7. d.carrier # "unknown" /\ d.carrier \in carried[1] /\ Kept(o, MarshalJSON(d), carried[1])
  BY <1>3, <1>4 DEF Held
<1>8. /\ d2 \in AuthorizationDetail /\ d2.carrier = d.carrier /\ d2.type = d.type
      /\ o2 \in Element /\ Kept(o2, MarshalJSON(d2), carried[1])
  <2> PICK cs, m, v : cs = carried[1] /\ m = e.member /\ v = e.value
    OBVIOUS
  <2>1. /\ m \in SliceMembers /\ v \in Seq(STRING \ {NullEntry}) /\ d.carrier \in cs
        /\ d2 = Edited(d, m, v) /\ o2 = TextEdited(o, m, v)
        /\ Kept(o, MarshalJSON(d), cs)
    BY <1>6, <1>7 DEF Edited, TextEdited
  <2>2. /\ d2 \in AuthorizationDetail /\ d2.carrier = d.carrier /\ d2.type = d.type
        /\ o2 \in Element /\ Kept(o2, MarshalJSON(d2), cs)
    BY ONLY <1>5, <1>7, <2>1, EditKept
  <2> QED
    BY <2>2
<1>9. d2 \in NamedDetail
  BY <1>5, <1>8 DEF NamedDetail
<1>10. /\ details' \in Seq(NamedDetail) /\ Len(details') = 1 /\ details'[1] = d2
  <2>1. details' = [details EXCEPT ![1] = d2]
    BY <1>3
  <2> QED
    BY <1>3, <1>9, <2>1
<1>11. /\ sent' \in Seq(Element) /\ Len(sent') = 1 /\ sent'[1] = o2
  <2>1. sent' = [sent EXCEPT ![1] = o2]
    BY <1>3
  <2> PICK p : p = sent
    OBVIOUS
  <2>2. p \in Seq(Element) /\ Len(p) = 1 /\ 1 \in DOMAIN p /\ o2 \in Element
    BY <1>2, <1>4, <1>8
  <2>3. LET q == [p EXCEPT ![1] = o2] IN q \in Seq(Element) /\ Len(q) = 1 /\ q[1] = o2
    BY ONLY <2>2, OneReplaced
  <2> QED
    BY <2>1, <2>3
<1>12. details' # Nil /\ Elements' = details'
  BY <1>2, <1>10 DEF Elements
<1>13. Types'
  BY <1>1, <1>10, <1>11 DEF IInv, Types
<1>14. TypeOK'
  <2>1. \A j \in DOMAIN Elements' : Elements'[j].carrier \in Carriers
    BY <1>10, <1>12, NamedCarriers, Elementwise
  <2> QED
    BY <1>1, <2>1 DEF IInv, TypeOK
<1>15. WhileHeld'
  <2>1. Held(1)'
    BY <1>1, <1>7, <1>8, <1>10, <1>11 DEF Held
  <2>2. \A j \in 1 .. 1 : j = 1
    OBVIOUS
  <2> QED
    BY <1>1, <1>4, <1>10, <1>11, <1>12, <2>1, <2>2 DEF WhileHeld
<1> QED
  BY <1>1, <1>13, <1>14, <1>15
     DEF IInv, WhileDecoding, WhileEncoding, OnceRefused, OnceRejected, WhileDecodingAgain

-----------------------------------------------------------------------------
(* Validating and encoding *)

LEMMA NothingSeenType ==
  NothingSeen \in [Names -> SUBSET (ConsumerCtors \union {"common", NoCtor})]
  BY DEF NothingSeen

LEMMA CallValidateAllStep ==
  ASSUME IInv, CallValidateAll
  PROVE  IInv'
<1>1. /\ pc = "decoded" /\ pc' = "validated" /\ verdict' = ValidateAll(Elements)
      /\ UNCHANGED <<registry, strict, form, details, out, err, hop>>
      /\ UNCHANGED <<sent, carried, toggles, prev, stable>> /\ seen' = NothingSeen
  BY DEF CallValidateAll, process
<1>2. Elements' = Elements
  BY <1>1 DEF Elements
<1>3. Types' /\ TypeOK'
  BY <1>1, <1>2, NothingSeenType DEF IInv, Types, TypeOK
<1>4. \A i : Held(i)' = Held(i)
  BY <1>1 DEF Held
<1>5. WhileHeld'
  <2>1. ValidateAll(Elements)' = ValidateAll(Elements)
    BY <1>1 DEF ValidateAll, Elements
  <2> QED
    BY <1>1, <1>2, <1>4, <2>1 DEF IInv, WhileHeld
<1> QED
  BY <1>1, <1>3, <1>5
     DEF IInv, WhileDecoding, WhileEncoding, OnceRefused, OnceRejected, WhileDecodingAgain

LEMMA EncodeFormStep ==
  ASSUME IInv, EncodeForm
  PROVE  IInv'
<1>1. /\ pc \in {"decoded", "validated"} /\ details' = Elements /\ out' = <<>>
      /\ toggles' = {strict} /\ seen' = NothingSeen
      /\ pc' = IF Elements = <<>> THEN "encoded" ELSE "encoding"
      /\ UNCHANGED <<registry, strict, form, verdict, err, hop>>
      /\ UNCHANGED <<sent, carried, prev, stable>>
  BY DEF EncodeForm, process
<1>2. /\ Elements \in Seq(NamedDetail) /\ Nil \notin Seq(NamedDetail)
      /\ details # Nil => Elements = details
  BY ElementsType DEF IInv
<1>3. details' # Nil /\ Elements' = Elements
  BY <1>1, <1>2 DEF Elements
<1>4. Len(Elements) \in Nat /\ (Elements = <<>> <=> Len(Elements) = 0) /\ Len(<<>>) = 0
  BY <1>2
<1>5. \A i \in 1 .. Len(Elements) : Held(i)'
  <2>1. CASE details = Nil
    BY <2>1 DEF Elements
  <2>2. CASE details # Nil
    BY <1>1, <1>2, <2>2 DEF IInv, WhileHeld, Held
  <2> QED
    BY <2>1, <2>2
<1>6. Types'
  BY <1>1, <1>2, NothingSeenType DEF IInv, Types, TypeOK
<1>7. TypeOK'
  <2>1. pc' = "encoding" => Len(out') < Len(details')
    BY <1>1, <1>4
  <2>2. \A i \in DOMAIN Elements' : Elements'[i].carrier \in Carriers
    BY <1>2, <1>3, NamedCarriers, Elementwise
  <2> QED
    BY <1>1, <2>1, <2>2 DEF IInv, TypeOK
<1>8. WhileHeld'
  <2>1. /\ Len(sent) = Len(Elements) /\ Len(carried) = Len(Elements)
        /\ verdict # Nil => verdict = ValidateAll(Elements)
    BY <1>1 DEF IInv, WhileHeld
  <2>2. ValidateAll(Elements)' = ValidateAll(Elements)
    BY <1>3 DEF ValidateAll
  <2> QED
    BY <1>1, <1>3, <1>5, <2>1, <2>2 DEF WhileHeld
<1>9. WhileEncoding'
  BY <1>1, <1>4 DEF WhileEncoding
<1> QED
  BY <1>1, <1>6, <1>7, <1>8, <1>9
     DEF IInv, WhileDecoding, OnceRefused, OnceRejected, WhileDecodingAgain

LEMMA MarshalStep ==
  ASSUME IInv, Marshal
  PROVE  IInv'
<1> PICK i, d : i = Len(out) + 1 /\ d = details[i]
  OBVIOUS
<1> DEFINE refused == ConsultsToggle(d) /\ strict /\ Validate(d) # WellFormed
<1>1. /\ pc = "encoding" /\ UNCHANGED <<registry, strict, form, details, verdict, hop>>
      /\ UNCHANGED <<sent, carried, seen, toggles, prev, stable>>
      /\ \/ /\ refused /\ pc' = "failed" /\ out' = <<>>
            /\ err' = Failure("encode", i, Validate(d), {"Err", "ValidationError"})
         \/ /\ ~refused /\ out' = Append(out, Compact(MarshalJSON(d))) /\ err' = err
            /\ pc' = IF i = Len(details) THEN "encoded" ELSE "encoding"
  BY DEF Marshal, process, history
<1>2. /\ details # Nil /\ Elements = details /\ details \in Seq(NamedDetail)
      /\ out \in Seq(NamedElement) /\ Len(out) < Len(details)
  BY <1>1 DEF IInv, WhileHeld, Types, TypeOK, Elements
<1>3. Len(out) \in Nat /\ Len(details) \in Nat /\ i \in 1 .. Len(details)
  BY <1>2
<1>4. d \in NamedDetail /\ Compact(MarshalJSON(d)) \in NamedElement
  BY <1>2, <1>3, Elementwise, NamedFacts
<1>5. /\ strict \in toggles /\ strict \in BOOLEAN
      /\ \A j \in 1 .. Len(out) : out[j] = Compact(MarshalJSON(details[j])) /\ Passed(j)
      /\ verdict # Nil => verdict = ValidateAll(details)
  BY <1>1, <1>2 DEF IInv, WhileEncoding, WhileHeld, TypeOK
<1>6. Elements' = Elements /\ \A j : Held(j)' = Held(j) /\ Passed(j)' = Passed(j)
  BY <1>1 DEF Elements, Held, Passed
<1>7. Types'
  <2>1. out' \in Seq(NamedElement)
    <3>1. Append(out, Compact(MarshalJSON(d))) \in Seq(NamedElement)
      BY <1>2, <1>4, Elementwise
    <3>2. <<>> \in Seq(NamedElement)
      OBVIOUS
    <3>3. out' = <<>> \/ out' = Append(out, Compact(MarshalJSON(d)))
      BY <1>1
    <3> QED
      BY <3>1, <3>2, <3>3
  <2> QED
    BY <1>1, <2>1 DEF IInv, Types
<1> HIDE DEF refused
<1>8. CASE refused
  <2>1. /\ pc' = "failed" /\ err'.op = "encode" /\ err'.index = i /\ err'.rule = Validate(d)
    BY <1>1, <1>8 DEF Failure
  <2>2. TypeOK'
    BY <1>1, <1>6, <2>1 DEF IInv, TypeOK
  <2>3. OnceRefused'
    <3>1. ConsultsToggle(d) /\ TRUE \in toggles /\ Validate(d) # WellFormed
      BY <1>5, <1>8 DEF refused
    <3>2. \A j \in 1 .. i - 1 : Passed(j)'
      BY <1>3, <1>5, <1>6
    <3>3. err'.index \in 1 .. Len(details') /\ details'[err'.index] = d
      BY <1>1, <1>3, <2>1
    <3>4. verdict' # Nil => verdict' = ValidateAll(details')
      BY <1>1, <1>5
    <3> QED
      BY <1>1, <1>2, <2>1, <3>1, <3>2, <3>3, <3>4 DEF OnceRefused
  <2> QED
    BY <1>7, <2>1, <2>2, <2>3
       DEF IInv, WhileDecoding, WhileHeld, WhileEncoding, OnceRejected, WhileDecodingAgain
<1>9. CASE ~refused
  <2>1. /\ out' = Append(out, Compact(MarshalJSON(d)))
        /\ pc' = IF i = Len(details) THEN "encoded" ELSE "encoding"
    BY <1>1, <1>9
  <2>2. /\ Len(out') = i /\ out'[i] = Compact(MarshalJSON(d))
        /\ \A j \in 1 .. Len(out) : out'[j] = out[j]
    BY <1>2, <1>4, <2>1, Elementwise
  <2>3. Passed(i)
    BY <1>5, <1>9 DEF Passed, refused
  <2>4. \A j \in 1 .. i : j = i \/ j \in 1 .. Len(out)
    BY <1>3
  <2>5. TypeOK'
    BY <1>1, <1>3, <1>6, <2>1, <2>2 DEF IInv, TypeOK
  <2>6. WhileEncoding'
    <3>1. \A j \in 1 .. i : out'[j] = Compact(MarshalJSON(details[j])) /\ Passed(j)'
      BY <1>5, <1>6, <2>2, <2>3, <2>4
    <3> QED
      BY <1>1, <1>3, <1>5, <2>1, <2>2, <3>1 DEF WhileEncoding
  <2>7. WhileHeld'
    <3>1. ValidateAll(Elements)' = ValidateAll(Elements)
      BY <1>6 DEF ValidateAll
    <3> QED
      BY <1>1, <1>2, <1>6, <2>1, <3>1 DEF IInv, WhileHeld
  <2> QED
    BY <1>7, <2>1, <2>5, <2>6, <2>7
       DEF IInv, WhileDecoding, OnceRefused, OnceRejected, WhileDecodingAgain
<1> QED
  BY <1>8, <1>9

LEMMA FinishStep ==
  ASSUME IInv, Finish
  PROVE  IInv'
<1>1. /\ pc' = "idle" /\ details' = <<>> /\ out' = <<>> /\ verdict' = Nil /\ err' = NoErr /\ hop' = 0
      /\ form' = [kind |-> "array", elems |-> <<>>] /\ registry' = registry /\ strict' = strict
      /\ sent' = <<>> /\ carried' = <<>> /\ prev' = <<>> /\ seen' = NothingSeen /\ toggles' = {}
  BY DEF Finish, process
<1>2. Types'
  BY <1>1, NothingSeenType DEF Types
<1>3. TypeOK'
  <2>1. \A i \in DOMAIN Elements' : Elements'[i].carrier \in Carriers
    BY <1>1 DEF Elements
  <2>2. hop' \in 0 .. MaxHops
    BY <1>1, CodecAssumption
  <2> QED
    BY <1>1, <2>1, <2>2 DEF IInv, TypeOK
<1> QED
  BY <1>1, <1>2, <1>3
     DEF IInv, WhileDecoding, WhileHeld, WhileEncoding, OnceRefused, OnceRejected,
         WhileDecodingAgain

-----------------------------------------------------------------------------
(* The invariant *)

LEMMA StepKeepsInv ==
  ASSUME IInv, [Next]_vars
  PROVE  IInv'
<1>1. ASSUME NEW n \in Names, NEW c \in ConsumerCtors \union {NoCtor}, RegisterType(n, c)
      PROVE  IInv'
  BY <1>1, RegisterTypeStep
<1>2. CASE (\E b \in BOOLEAN : SetStrictMarshal(b)) \/ UNCHANGED vars
  BY <1>2, ToggleStep
<1>3. CASE Receive
  BY <1>3, ReceiveStep
<1>4. CASE Forward
  BY <1>4, ForwardStep
<1>5. CASE ParseFails
  BY <1>5, ParseFailsStep
<1>6. CASE Parse
  BY <1>6, ParseStep
<1>7. CASE CallUnmarshalJSON
  BY <1>7, CallUnmarshalJSONStep
<1>8. CASE Build
  BY <1>8, BuildStep
<1>9. CASE EditCommon
  BY <1>9, EditCommonStep
<1>10. CASE CallValidateAll
  BY <1>10, CallValidateAllStep
<1>11. CASE EncodeForm
  BY <1>11, EncodeFormStep
<1>12. CASE Marshal
  BY <1>12, MarshalStep
<1>13. CASE Finish
  BY <1>13, FinishStep
<1> QED
  BY <1>1, <1>2, <1>3, <1>4, <1>5, <1>6, <1>7, <1>8, <1>9, <1>10, <1>11, <1>12, <1>13 DEF Next

LEMMA Inductive == Spec => []IInv
  BY Initially, StepKeepsInv, PTL DEF Spec

-----------------------------------------------------------------------------
(* What follows from it *)

LEMMA WhenEncoded ==
  ASSUME IInv, pc = "encoded"
  PROVE  /\ Len(out) = Len(sent) /\ DOMAIN out = 1 .. Len(out)
         /\ \A i \in DOMAIN out :
              /\ details[i] \in AuthorizationDetail /\ Passed(i)
              /\ out[i] = Compact(MarshalJSON(details[i]))
              /\ Kept(sent[i], out[i], carried[i])
<1>1. /\ details # Nil /\ Elements = details /\ details \in Seq(NamedDetail)
      /\ out \in Seq(NamedElement) /\ Len(out) = Len(details) /\ Len(sent) = Len(details)
  BY DEF IInv, WhileHeld, WhileEncoding, Types, Elements
<1>2. DOMAIN out = 1 .. Len(details)
  BY <1>1
<1>3. ASSUME NEW i \in 1 .. Len(details)
      PROVE  /\ details[i] \in AuthorizationDetail /\ Passed(i)
             /\ out[i] = Compact(MarshalJSON(details[i])) /\ Kept(sent[i], out[i], carried[i])
  <2>1. details[i] \in NamedDetail
    BY <1>1, Elementwise
  <2>2. MarshalJSON(details[i]) \in Element /\ details[i] \in AuthorizationDetail
    BY <2>1, NamedFacts
  <2>3. Kept(sent[i], MarshalJSON(details[i]), carried[i])
    BY <1>1 DEF IInv, WhileHeld, Held
  <2>4. out[i] = Compact(MarshalJSON(details[i])) /\ Passed(i)
    BY <1>1 DEF IInv, WhileEncoding
  <2> QED
    BY <2>2, <2>3, <2>4, KeptCompact
<1> QED
  BY <1>1, <1>2, <1>3

LEMMA InvBaseline == IInv => BaselineSurvives
  BY WhenEncoded DEF BaselineSurvives, Content, Kept

LEMMA InvUnknown == IInv => UnknownVerbatim
<1> SUFFICES ASSUME IInv, pc = "encoded", NEW i \in DOMAIN out, carried[i] = {"unknown"}
             PROVE  out[i] = Compact(sent[i])
  BY DEF UnknownVerbatim
<1>1. /\ details[i] \in AuthorizationDetail /\ out[i] = Compact(MarshalJSON(details[i]))
      /\ Kept(sent[i], out[i], carried[i])
  BY WhenEncoded
<1>2. Compact(out[i]) = out[i]
  BY <1>1, MarshalElement, CompactKeeps
<1> QED
  BY <1>1, <1>2 DEF Kept

LEMMA InvExtra == IInv => ExtraSurvives
  BY WhenEncoded DEF ExtraSurvives, Kept

LEMMA InvStrict == IInv => StrictGate
<1> SUFFICES ASSUME IInv, pc = "encoded", toggles = {TRUE}, NEW i \in DOMAIN out,
                    details[i].carrier \in {"common", "extension"}
             PROVE  WireWellFormed(out[i])
  BY DEF StrictGate
<1>1. /\ details[i] \in AuthorizationDetail /\ out[i] = Compact(MarshalJSON(details[i]))
      /\ Passed(i)
  BY WhenEncoded
<1>2. Validate(details[i]) = WellFormed
  BY <1>1 DEF Passed, ConsultsToggle
<1>3. WireWellFormed(MarshalJSON(details[i]))
  BY <1>1, <1>2, ValidateIsWire
<1>4. MarshalJSON(details[i]) \in Element
  BY <1>1, MarshalElement
<1>5. WireWellFormed(Compact(MarshalJSON(details[i])))
  BY <1>3, <1>4, CompactKeeps
<1> QED
  BY <1>1, <1>5

LEMMA InvFailure == IInv => EncodeFailureExplained
<1> SUFFICES ASSUME IInv, pc = "failed", err.op = "encode" PROVE EncodeFailureExplained
  BY DEF EncodeFailureExplained
<1> PICK i, d : i = err.index /\ d = details[i]
  OBVIOUS
<1>1. /\ i \in 1 .. Len(details) /\ details \in Seq(NamedDetail) /\ TRUE \in toggles
      /\ ConsultsToggle(d) /\ Validate(d) # WellFormed /\ err.rule = Validate(d)
      /\ \A j \in 1 .. i - 1 : Passed(j)
      /\ verdict # Nil => verdict = ValidateAll(details)
  BY DEF IInv, OnceRefused, Types
<1>2. d \in AuthorizationDetail /\ DOMAIN details = 1 .. Len(details)
  BY <1>1, Elementwise, NamedFacts
<1>3. ~WireWellFormed(MarshalJSON(d))
  BY <1>1, <1>2, ValidateIsWire DEF ConsultsToggle
<1>4. <<i, Validate(d)>> \in ValidateAll(details)
  BY <1>1, <1>2 DEF ValidateAll
<1>5. ASSUME toggles = {TRUE}, NEW v \in ValidateAll(details), ConsultsToggle(details[v[1]])
      PROVE  i <= v[1]
  <2>1. v[1] \in 1 .. Len(details) /\ Validate(details[v[1]]) # WellFormed
    BY <1>2 DEF ValidateAll
  <2>2. ~Passed(v[1])
    BY <1>5, <2>1 DEF Passed
  <2>3. Len(details) \in Nat
    BY <1>1
  <2> QED
    BY <1>1, <2>1, <2>2, <2>3
<1> QED
  BY <1>1, <1>3, <1>4, <1>5 DEF EncodeFailureExplained

LEMMA InvVerdict == IInv => ValidateAgreesWithWire
<1> SUFFICES ASSUME IInv, pc = "validated" PROVE ValidateAgreesWithWire
  BY DEF ValidateAgreesWithWire
<1> DEFINE judged(i) == /\ details[i].carrier # "unknown"
                        /\ \/ ~WireWellFormed(MarshalJSON(details[i]))
                           \/ details[i].carrier = "payment" /\ details[i].extra = Empty
<1>1. verdict = ValidateAll(Elements) /\ Elements \in Seq(NamedDetail)
  BY ElementsType DEF IInv, WhileHeld
<1>2. ASSUME NEW i \in DOMAIN Elements
      PROVE  (Validate(Elements[i]) # WellFormed) = judged(i)
  <2>1. Elements[i] = details[i] /\ Elements[i] \in AuthorizationDetail
    BY <1>1, Elementwise, NamedFacts DEF Elements
  <2> QED
    BY <2>1, ValidateIsWire, ValueFields DEF Carriers
<1>3. {v[1] : v \in verdict} = {i \in DOMAIN Elements : Validate(Elements[i]) # WellFormed}
  <2> DEFINE broken == {i \in DOMAIN Elements : Validate(Elements[i]) # WellFormed}
  <2>1. verdict = {<<i, Validate(Elements[i])>> : i \in broken}
    BY <1>1 DEF ValidateAll
  <2> HIDE DEF broken
  <2>2. \A i \in broken : <<i, Validate(Elements[i])>> \in verdict
    BY <2>1
  <2>3. \A v \in verdict : \E i \in broken : v[1] = i
    BY <2>1
  <2>4. \A i \in broken : \E v \in verdict : v[1] = i
    <3>1. ASSUME NEW i \in broken PROVE \E v \in verdict : v[1] = i
      <4> PICK x : x = Validate(Elements[i])
        OBVIOUS
      <4>1. <<i, x>> \in verdict /\ <<i, x>>[1] = i
        BY <2>2
      <4> QED
        BY <4>1
    <3> QED
      BY <3>1
  <2>5. {v[1] : v \in verdict} = broken
    BY <2>3, <2>4
  <2> QED
    BY <2>5 DEF broken
<1> QED
  BY <1>2, <1>3 DEF ValidateAgreesWithWire

\* A decoded value's carriers are among those seen, until `seen' is dropped.
DispatchedAsSeen ==
  /\ pc \in {"idle", "validated", "encoding", "encoded"} => seen = NothingSeen
  /\ pc = "decoded" /\ seen # NothingSeen =>
       \A i \in DOMAIN Elements : details[i].carrier \in CarriersSeen(details[i].type)

\* The last element's carrier is as good as those before it.
LEMMA ParseDispatches ==
  ASSUME IInv, Parse, pc' = "decoded"
  PROVE  \A i \in DOMAIN Elements' : (details[i].carrier \in CarriersSeen(details[i].type))'
<1> PICK i, w, type, carrier, d :
      /\ i = Len(details) + 1 /\ w = NextElement /\ type = StringOf(w, "type")
      /\ carrier = Dispatch(type) /\ d = UnmarshalJSON(carrier, w)
  OBVIOUS
<1>1. /\ pc = "decoding" /\ UnmarshalOK(carrier, w) /\ type # Empty
      /\ details' = Append(details, d) /\ seen' = seen
  BY DEF Parse
<1>2. details \in Seq(NamedDetail) /\ Len(details) \in Nat /\ w \in NamedElement
  BY <1>1, NextIsNamed
<1>3. type \in Names /\ carrier \in Carriers /\ carrier \in CarriersSeen(type)
  BY <1>1, <1>2, NamedFacts, DispatchSeen
<1>4. d \in NamedDetail /\ d.carrier = carrier /\ d.type = type
  BY <1>1, <1>2, <1>3, NamedFacts, UnmarshalDetail
<1>5. /\ DOMAIN details' = 1 .. i /\ details'[i] = d /\ details' # Nil
      /\ \A j \in 1 .. i : j = i \/ (j \in 1 .. Len(details) /\ details'[j] = details[j])
  BY <1>1, <1>2, <1>4, Elementwise, ElementsType DEF IInv
<1>6. \A j \in 1 .. Len(details) : details[j].carrier \in CarriersSeen(details[j].type)
  BY <1>1 DEF IInv, WhileDecoding
<1>7. \A n : CarriersSeen(n)' = CarriersSeen(n)
  BY <1>1 DEF CarriersSeen
<1>8. DOMAIN Elements' = 1 .. i
  BY <1>5 DEF Elements
<1>9. ASSUME NEW j \in 1 .. i
      PROVE  details'[j].carrier \in CarriersSeen(details'[j].type)
  BY <1>3, <1>4, <1>5, <1>6
<1>10. ASSUME NEW j \in 1 .. i
       PROVE  (details[j].carrier \in CarriersSeen(details[j].type))'
  BY <1>1, <1>9 DEF CarriersSeen
<1> QED
  BY <1>8, <1>10

\* A write through Common() changes neither a type nor a carrier.
LEMMA EditDispatches ==
  ASSUME IInv, EditCommon, NEW i \in DOMAIN Elements'
  PROVE  /\ i \in DOMAIN Elements
         /\ details'[i].carrier = details[i].carrier /\ details'[i].type = details[i].type
<1> PICK k \in DOMAIN Elements, e \in Edits :
      details' = [details EXCEPT ![k].base[e.member] = e.value]
  BY DEF EditCommon
<1>1. /\ Elements \in Seq(NamedDetail) /\ Nil \notin Seq(NamedDetail)
      /\ details # Nil => Elements = details
  BY ElementsType DEF IInv
<1>2. details # Nil /\ details \in Seq(NamedDetail)
  BY <1>1 DEF Elements
<1>3. DOMAIN details' = DOMAIN details /\ Elements = details
  BY <1>1, <1>2
<1>4. i \in DOMAIN details
  BY <1>3 DEF Elements
<1>5. details[i] \in AuthorizationDetail
  BY <1>2, <1>4, Elementwise, NamedFacts
<1> QED
  BY <1>3, <1>4, <1>5 DEF AuthorizationDetail

LEMMA DispatchedStep ==
  ASSUME IInv, DispatchedAsSeen, [Next]_vars
  PROVE  DispatchedAsSeen'
<1> USE DEF DispatchedAsSeen, codec, process, history
<1>1. ASSUME NEW n \in Names, NEW c \in ConsumerCtors \union {NoCtor}, RegisterType(n, c)
      PROVE  DispatchedAsSeen'
  BY <1>1 DEF RegisterType, CarriersSeen, Elements
<1>2. CASE (\E b \in BOOLEAN : SetStrictMarshal(b)) \/ UNCHANGED vars
  BY <1>2 DEF SetStrictMarshal, vars, CarriersSeen, Elements
<1>3. CASE Receive \/ Forward
  BY <1>3 DEF Receive, Forward, Decode, Elements
<1>4. CASE ParseFails
  BY <1>4 DEF ParseFails
<1>5. CASE Parse
  <2>1. pc' \in {"decoding", "decoded"}
    BY <1>5 DEF Parse
  <2> QED
    BY <1>5, <2>1, ParseDispatches
<1>6. CASE CallUnmarshalJSON
  <2>1. pc' \in {"decoded", "failed"} /\ seen' = NothingSeen
    BY <1>6 DEF CallUnmarshalJSON
  <2>2. NothingSeen' = NothingSeen
    BY DEF NothingSeen
  <2> QED
    BY <2>1, <2>2
<1>7. CASE Build
  <2>1. pc' = "decoded" /\ seen' = NothingSeen
    BY <1>7 DEF Build
  <2>2. NothingSeen' = NothingSeen
    BY DEF NothingSeen
  <2> QED
    BY <2>1, <2>2
<1>8. CASE EditCommon
  <2>1. pc' = "decoded" /\ seen' = seen /\ (seen # NothingSeen => pc = "decoded")
    BY <1>8 DEF EditCommon
  <2>2. ASSUME seen' # NothingSeen, NEW i \in DOMAIN Elements'
        PROVE  (details[i].carrier \in CarriersSeen(details[i].type))'
    <3>1. details[i].carrier \in CarriersSeen(details[i].type)
      BY <1>8, <2>1, <2>2, EditDispatches
    <3> QED
      BY <1>8, <2>1, <2>2, <3>1, EditDispatches DEF CarriersSeen
  <2>3. NothingSeen' = NothingSeen
    BY DEF NothingSeen
  <2> QED
    BY <2>1, <2>2, <2>3
<1>9. CASE CallValidateAll \/ EncodeForm
  <2>1. seen' = NothingSeen /\ NothingSeen' = NothingSeen
    BY <1>9 DEF CallValidateAll, EncodeForm, NothingSeen
  <2> QED
    BY <2>1
<1>10. CASE Marshal
  <2>1. seen' = NothingSeen /\ NothingSeen' = NothingSeen
    BY <1>10 DEF Marshal, NothingSeen
  <2> QED
    BY <2>1
<1>11. CASE Finish
  <2>1. seen' = NothingSeen /\ NothingSeen' = NothingSeen
    BY <1>11 DEF Finish, NothingSeen
  <2> QED
    BY <2>1
<1> QED
  BY <1>1, <1>2, <1>3, <1>4, <1>5, <1>6, <1>7, <1>8, <1>9, <1>10, <1>11 DEF Next

LEMMA AlwaysDispatched == Spec => []DispatchedAsSeen
<1>1. Init => DispatchedAsSeen
  BY DEF Init, DispatchedAsSeen
<1> QED
  BY <1>1, DispatchedStep, Inductive, PTL DEF Spec

LEMMA InvDispatch == IInv /\ DispatchedAsSeen => DispatchFollowsRegistry
<1> SUFFICES ASSUME IInv, DispatchedAsSeen PROVE DispatchFollowsRegistry
  OBVIOUS
<1>1. ASSUME pc = "decoding"
      PROVE  \A i \in DOMAIN Elements : details[i].carrier \in CarriersSeen(details[i].type)
  <2>1. details \in Seq(NamedDetail) /\ Elements = details
    BY <1>1 DEF IInv, Types, WhileDecoding, Elements
  <2>2. DOMAIN Elements = 1 .. Len(details)
    BY <2>1
  <2> QED
    BY <1>1, <2>2 DEF IInv, WhileDecoding
<1>2. pc = "failed" /\ err.op = "decode" /\ err.index > 0 => Rejectable(form.elems[err.index])
  BY DEF IInv, OnceRejected
<1> QED
  BY <1>1, <1>2 DEF DispatchFollowsRegistry, DispatchedAsSeen, Rejectable

LEMMA InvDecodes == IInv => EncodedTextDecodes
  BY DEF IInv, OnceRejected, Excused, EncodedTextDecodes

LEMMA InvRoundTrip == IInv => RoundTripIdentity
<1> SUFFICES ASSUME IInv, pc = "decoded", hop > 1, stable PROVE RoundTripIdentity
  BY DEF RoundTripIdentity
<1>1. /\ prev \in Seq(NamedDetail) /\ Len(details) = Len(prev)
      /\ \A i \in 1 .. Len(prev) :
           details[i] = UnmarshalJSON(Dispatch(prev[i].type), Compact(MarshalJSON(prev[i])))
  BY DEF IInv, WhileDecodingAgain, Types
<1>2. ASSUME NEW i \in DOMAIN prev, prev[i].carrier = Dispatch(prev[i].type)
      PROVE  SameDetail(prev[i], details[i])
  <2>1. i \in 1 .. Len(prev)
    BY <1>1
  <2>2. prev[i] \in AuthorizationDetail
    BY <1>1, <2>1, Elementwise, NamedFacts
  <2>3. details[i] = UnmarshalJSON(prev[i].carrier, Compact(MarshalJSON(prev[i])))
    BY <1>1, <1>2, <2>1
  <2> QED
    BY <2>2, <2>3, RoundTrip
<1> QED
  BY <1>1, <1>2 DEF RoundTripIdentity

\* The registry, the toggle and the caller's progress stay what they claim to
\* be: a decode in progress has elements left, and so has an encode.
THEOREM TypeSafety == Spec => []TypeOK
  BY Inductive, PTL DEF IInv

\* The chain keeps every element, in order, with its type and its five §2
\* members, whatever carriers it goes through (marshalCommonShape,
\* unmarshalCommonShape, UnknownType, the consumer's codec).
THEOREM MembersSurvive == Spec => []BaselineSurvives
  BY Inductive, InvBaseline, PTL

\* An element that no registered carrier touched leaves as it came, but for
\* what json.Marshal does to its bytes (UnknownType.MarshalJSON).
THEOREM UnknownSurvives == Spec => []UnknownVerbatim
  BY Inductive, InvUnknown, PTL

\* A member outside §2 survives every carrier that knows it (UnknownType and
\* the consumer's aux struct).
THEOREM ExtensionSurvives == Spec => []ExtraSurvives
  BY Inductive, InvExtra, PTL

\* While the toggle is on, CommonType.MarshalJSON and Extension.MarshalJSON
\* let nothing ill-formed out.
THEOREM StrictMarshalHolds == Spec => []StrictGate
  BY Inductive, InvStrict, PTL

\* EncodeForm fails only by the toggle, on an element that is ill-formed and
\* that ValidateAll names too.
THEOREM FailureHasCause == Spec => []EncodeFailureExplained
  BY Inductive, InvFailure, PTL

\* ValidateAll's verdict is §2's verdict on the text of each element.
THEOREM VerdictIsWire == Spec => []ValidateAgreesWithWire
  BY Inductive, InvVerdict, PTL

\* Parse sees a concurrent RegisterType before or after, never halfway, for
\* every element of the array.
THEOREM DispatchIsAtomic == Spec => []DispatchFollowsRegistry
  BY Inductive, AlwaysDispatched, InvDispatch, PTL

\* DecodeForm accepts what EncodeForm wrote, but for the two cases named.
THEOREM EncodedIsDecodable == Spec => []EncodedTextDecodes
  BY Inductive, InvDecodes, PTL

\* DecodeForm after EncodeForm gives the same Go values, if no registration
\* came in between.
THEOREM DecodeInvertsEncode == Spec => []RoundTripIdentity
  BY Inductive, InvRoundTrip, PTL
=============================================================================

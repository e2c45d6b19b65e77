-------------------------- MODULE ThreeFlowProofs ---------------------------
(* What the three-flow demo keeps true for whatever value a client passes. *)
EXTENDS ThreeFlow, BuiltinCodecProofs

\* A cause in the value for main to panic.
Explained ==
  \/ Elements(sent) = <<>>
  \/ ValidateAll(sent) # {}
  \/ \E i \in DOMAIN sent : sent[i].type # "common"

\* The reply to the request under way, once it is there.
AuthorizeReplies ==
  pc = "authorize" /\ reply # NoReply =>
    \/ reply = Failed(400) /\ Faulty # {}
    \/ reply = Dropped /\ Elements(sent) = <<>>
    \/ reply = OK(DemoCode) /\ Faulty = {}
TokenReplies ==
  pc = "token" /\ reply # NoReply =>
    \/ reply = OK(Marshal(Elements(sent)))
    \/ reply \in {Failed(400), Failed(500)} /\ Explained
IntrospectReplies ==
  (pc = "introspect" /\ reply # NoReply) \/ pc = "done" => reply = OK(Marshal(<<DemoDetail>>))

\* What the client has by now.
Progress ==
  /\ pc \in {"authorize", "authorized", "token", "exchanged", "introspect", "done"} =>
       param = Array(Marshal(Elements(sent)))
  /\ pc \in {"authorized", "token", "exchanged", "introspect", "done"} => code # Nil
  /\ code # Nil => \/ code = DemoCode /\ Faulty = {}
                   \/ code = ErrorText /\ Faulty # {}
  /\ pc \in {"exchanged", "introspect", "done"} => echoed = Marshal(Elements(sent))

IInv ==
  /\ TypeOK /\ AuthorizeReplies /\ TokenReplies /\ IntrospectReplies /\ Progress
  /\ PanicsExplained

-----------------------------------------------------------------------------
LEMMA ClientValue ==
  ASSUME sent \in Sent
  PROVE  /\ Elements(sent) \in Seq(LocalDetail) /\ Nil \notin Seq(Element)
         /\ Elements(sent) # <<>> => sent # Nil /\ Elements(sent) = sent
  BY ThreeFlowAssumption, NilIsNoValue DEF Elements

\* How the server sees what the client sends.
LEMMA ServerView ==
  ASSUME sent \in Sent, NEW f, f = Array(Marshal(Elements(sent)))
  PROVE  /\ f.elems = Marshal(Elements(sent)) /\ Marshal(Elements(sent)) # Nil
         /\ Marshal(DecodeForm(f)) = Marshal(Elements(sent))
         /\ f.elems = <<>> <=> Elements(sent) = <<>>
         /\ Elements(sent) = <<>> => DecodeFormOK(f) /\ ValidateAll(DecodeForm(f)) = {}
         /\ Elements(sent) # <<>> =>
              (DecodeFormOK(f) /\ ValidateAll(DecodeForm(f)) = {}) = (Faulty = {})
         /\ ~DecodeFormOK(f) => Explained
         /\ (\E i \in DOMAIN f.elems : Carrier(f.elems[i]) # "common") => Explained
         /\ \A b : ~MarshalOK(DecodeForm(f), b) \/ ~MarshalOK(Elements(sent), b) => Explained
<1> PICK ds : ds = Elements(sent)
  OBVIOUS
<1>1. /\ ds \in Seq(LocalDetail) /\ f = Array(Marshal(ds)) /\ Nil \notin Seq(Element)
      /\ ds # <<>> => sent # Nil /\ sent = ds
  BY ClientValue
<1>2. /\ DOMAIN f.elems = DOMAIN ds /\ Marshal(ds) \in Seq(Element)
      /\ DecodeFormOK(f) = \A i \in DOMAIN ds : ds[i].type # Empty
      /\ Marshal(DecodeForm(f)) = f.elems
      /\ \A i \in DOMAIN ds : Carrier(f.elems[i]) = "common" <=> ds[i].type = "common"
      /\ DOMAIN DecodeForm(f) = DOMAIN ds
      /\ \A i \in DOMAIN ds :
           (Validate(DecodeForm(f)[i]) # WellFormed) =
             (ds[i].type = "common" /\ Validate(ds[i]) # WellFormed)
  BY <1>1, ArrayEchoes
<1>3. f.elems = Marshal(ds)
  BY <1>1 DEF Array
<1>4. Marshal(ds) = <<>> <=> ds = <<>>
  BY <1>1, <1>2, <1>3
<1>5. ds = <<>> => DOMAIN ds = {}
  OBVIOUS
<1>6. (ValidateAll(DecodeForm(f)) = {}) =
        \A i \in DOMAIN ds : ~(ds[i].type = "common" /\ Validate(ds[i]) # WellFormed)
  <2>1. (ValidateAll(DecodeForm(f)) = {}) =
          \A i \in DOMAIN DecodeForm(f) : Validate(DecodeForm(f)[i]) = WellFormed
    BY NothingFound
  <2> QED
    BY <1>2, <2>1
<1>7. ds # <<>> => (DecodeFormOK(f) /\ ValidateAll(DecodeForm(f)) = {}) = (Faulty = {})
  <2> SUFFICES ASSUME ds # <<>>
               PROVE  (DecodeFormOK(f) /\ ValidateAll(DecodeForm(f)) = {}) = (Faulty = {})
    OBVIOUS
  <2>1. (Faulty = {}) = \A i \in DOMAIN ds :
           ds[i].type # Empty /\ ~(ds[i].type = "common" /\ Validate(ds[i]) # WellFormed)
    BY <1>1 DEF Faulty
  <2>2. DecodeFormOK(f) = \A i \in DOMAIN ds : ds[i].type # Empty
    BY <1>2
  <2> QED
    BY <1>6, <2>1, <2>2
<1>8. ASSUME NEW i \in DOMAIN ds, Validate(ds[i]) # WellFormed \/ ds[i].type # "common"
      PROVE  Explained
  <2>1. sent = ds
    BY <1>1, <1>5
  <2> QED
    BY <1>8, <2>1, NothingFound DEF Explained
<1>9. ASSUME NEW b, ~MarshalOK(DecodeForm(f), b) \/ ~MarshalOK(ds, b)
      PROVE  Explained
  <2>1. \E i \in DOMAIN ds : Validate(ds[i]) # WellFormed
    BY <1>2, <1>9 DEF MarshalOK
  <2> QED
    BY <1>8, <2>1
<1>10. ~DecodeFormOK(f) => Explained
  <2>1. Empty # "common"
    BY DEF Empty
  <2> QED
    BY <1>2, <1>8, <2>1
<1> QED
  BY <1>1, <1>2, <1>3, <1>4, <1>5, <1>6, <1>7, <1>8, <1>9, <1>10

\* The demo's own detail is always fit to send and to read.
LEMMA DemoReads ==
  /\ \A b : MarshalOK(<<DemoDetail>>, b)
  /\ Readable(OK(Marshal(<<DemoDetail>>)))
  /\ ValidateAll(DecodeForm(Array(Marshal(<<DemoDetail>>)))) = {}
<1> PICK ds, f : ds = <<DemoDetail>> /\ f = Array(Marshal(ds))
  OBVIOUS
<1>1. /\ ds \in Seq(LocalDetail) /\ DOMAIN ds = {1}
      /\ ds[1].type = "common" /\ Validate(ds[1]) = WellFormed
  BY ThreeFlowAssumption
<1>2. /\ DOMAIN f.elems = DOMAIN ds
      /\ DecodeFormOK(f) = \A i \in DOMAIN ds : ds[i].type # Empty
      /\ \A i \in DOMAIN ds : Carrier(f.elems[i]) = "common" <=> ds[i].type = "common"
      /\ DOMAIN DecodeForm(f) = DOMAIN ds
      /\ \A i \in DOMAIN ds :
           (Validate(DecodeForm(f)[i]) # WellFormed) =
             (ds[i].type = "common" /\ Validate(ds[i]) # WellFormed)
  <2>1. f = Array(Marshal(ds)) /\ ds \in Seq(LocalDetail)
    BY <1>1
  <2> QED
    BY ONLY <2>1, ArrayEchoes
<1>3. f.elems = Marshal(ds) /\ Empty # "common"
  BY DEF Array, Empty
<1>4. DecodeFormOK(f) /\ \A i \in DOMAIN f.elems : Carrier(f.elems[i]) = "common"
  BY <1>1, <1>2, <1>3
<1>5. ValidateAll(DecodeForm(f)) = {}
  BY <1>1, <1>2, NothingFound
<1>6. \A b : MarshalOK(ds, b)
  BY <1>1 DEF MarshalOK
<1> QED
  BY <1>3, <1>4, <1>5, <1>6 DEF Readable, OK

LEMMA Statuses ==
  /\ NoReply.status = 0 /\ Dropped.status = 1
  /\ \A n : Failed(n).status = n /\ Failed(n).text = ErrorText
  /\ \A text : OK(text).status = 200 /\ OK(text).text = text
  BY DEF NoReply, Dropped, Failed, OK

LEMMA Initially == Init => IInv
<1> SUFFICES ASSUME Init PROVE IInv
  OBVIOUS
<1>1. pc = "start" /\ reply = NoReply /\ code = Nil /\ sent \in Sent /\ strict = FALSE
  BY DEF Init
<1>2. TypeOK
  BY <1>1, Statuses DEF TypeOK
<1> QED
  BY <1>1, <1>2
     DEF IInv, AuthorizeReplies, TokenReplies, IntrospectReplies, Progress, PanicsExplained

-----------------------------------------------------------------------------
LEMMA ToggleStep ==
  ASSUME IInv, SetStrictMarshal \/ UNCHANGED vars
  PROVE  IInv'
<1>1. UNCHANGED <<pc, sent, param, reply, code, echoed>> /\ strict' \in BOOLEAN
  BY DEF SetStrictMarshal, vars, IInv, TypeOK
<1>2. TypeOK'
  BY <1>1 DEF IInv, TypeOK
<1>3. (Faulty' = Faulty) /\ (Explained' = Explained)
  BY <1>1 DEF Faulty, Explained
<1>4. Progress' /\ PanicsExplained'
  BY <1>1, <1>3 DEF IInv, Progress, PanicsExplained
<1> QED
  BY <1>1, <1>2, <1>3, <1>4
     DEF IInv, AuthorizeReplies, TokenReplies, IntrospectReplies

\* The client's request, or the panic.
LEMMA SendStep ==
  ASSUME IInv, AuthorizationRequest \/ TokenRequest
  PROVE  IInv'
<1> PICK leg : /\ Send(leg)
               /\ \/ leg = "authorize" /\ pc = "start"
                  \/ leg = "token" /\ pc = "authorized"
  BY DEF AuthorizationRequest, TokenRequest
<1>1. /\ reply' = NoReply /\ UNCHANGED <<strict, sent, code, echoed>>
      /\ \/ pc' = leg /\ param' = Array(Marshal(Elements(sent)))
         \/ pc' = "panicked" /\ ~MarshalOK(Elements(sent), strict)
  BY DEF Send
<1>2. sent \in Sent
  BY DEF IInv, TypeOK
<1>3. pc' = "panicked" => Explained
  BY <1>1, <1>2, ServerView
<1>4. Faulty' = Faulty /\ (Explained' = Explained) /\ Elements(sent)' = Elements(sent)
  BY <1>1 DEF Faulty, Explained
<1>5. TypeOK'
  BY <1>1, Statuses DEF IInv, TypeOK, Progress
<1>6. Progress' /\ PanicsExplained'
  BY <1>1, <1>3, <1>4 DEF IInv, TypeOK, Progress, PanicsExplained, Explained
<1>7. AuthorizeReplies' /\ TokenReplies' /\ IntrospectReplies'
  BY <1>1 DEF AuthorizeReplies, TokenReplies, IntrospectReplies
<1> QED
  BY <1>5, <1>6, <1>7 DEF IInv

\* A server handler answers.
LEMMA HandlerStep ==
  ASSUME IInv, Authorize \/ Token \/ Introspect
  PROVE  IInv'
<1>1. /\ UNCHANGED <<strict, pc, sent, param, code, echoed>>
      /\ pc \in {"authorize", "token", "introspect"}
      /\ param = Array(Marshal(Elements(sent))) /\ sent \in Sent
  BY DEF Authorize, Token, Introspect, IInv, Progress, TypeOK
<1>2. Faulty' = Faulty /\ (Explained' = Explained) /\ Elements(sent)' = Elements(sent)
  BY <1>1 DEF Faulty, Explained
<1>3. CASE Authorize
  <2>1. /\ pc = "authorize"
        /\ reply' = IF ~DecodeFormOK(param) \/ ValidateAll(DecodeForm(param)) # {}
                    THEN Failed(400)
                    ELSE IF param.elems = <<>> THEN Dropped ELSE OK(DemoCode)
    BY <1>3 DEF Authorize
  <2>2. /\ param.elems = <<>> <=> Elements(sent) = <<>>
        /\ Elements(sent) = <<>> => DecodeFormOK(param) /\ ValidateAll(DecodeForm(param)) = {}
        /\ Elements(sent) # <<>> =>
              (DecodeFormOK(param) /\ ValidateAll(DecodeForm(param)) = {}) = (Faulty = {})
    BY <1>1, ServerView
  <2>3. \/ reply' = Failed(400) /\ Faulty # {}
        \/ reply' = Dropped /\ Elements(sent) = <<>>
        \/ reply' = OK(DemoCode) /\ Faulty = {}
    BY <2>1, <2>2
  <2>4. reply'.status \in {0, 1, 200, 400, 500}
    BY <2>3, Statuses
  <2> QED
    BY <1>1, <1>2, <2>1, <2>3, <2>4
       DEF IInv, TypeOK, AuthorizeReplies, TokenReplies, IntrospectReplies, Progress, PanicsExplained
<1>4. CASE Token
  <2>1. /\ pc = "token"
        /\ reply' = IF ~DecodeFormOK(param) THEN Failed(400)
                    ELSE IF ~MarshalOK(DecodeForm(param), strict) THEN Failed(500)
                    ELSE OK(Marshal(DecodeForm(param)))
    BY <1>4 DEF Token
  <2>2. /\ Marshal(DecodeForm(param)) = Marshal(Elements(sent))
        /\ ~DecodeFormOK(param) \/ ~MarshalOK(DecodeForm(param), strict) => Explained
    BY <1>1, ServerView
  <2>3. \/ reply' = OK(Marshal(Elements(sent)))
        \/ reply' \in {Failed(400), Failed(500)} /\ Explained
    BY <2>1, <2>2
  <2>4. reply'.status \in {0, 1, 200, 400, 500}
    BY <2>3, Statuses
  <2> QED
    BY <1>1, <1>2, <2>1, <2>3, <2>4
       DEF IInv, TypeOK, AuthorizeReplies, TokenReplies, IntrospectReplies, Progress, PanicsExplained
<1>5. CASE Introspect
  <2>1. pc = "introspect" /\ reply' = OK(Marshal(<<DemoDetail>>))
    BY <1>5, DemoReads DEF Introspect
  <2>2. reply'.status \in {0, 1, 200, 400, 500}
    BY <2>1, Statuses
  <2> QED
    BY <1>1, <1>2, <2>1, <2>2
       DEF IInv, TypeOK, AuthorizeReplies, TokenReplies, IntrospectReplies, Progress, PanicsExplained
<1> QED
  BY <1>3, <1>4, <1>5

\* The client has read the reply, or has panicked over it.
LEMMA ReturnStep ==
  ASSUME IInv, AuthorizationReturns \/ TokenReturns \/ IntrospectionRequest \/ IntrospectionReturns
  PROVE  IInv'
<1>1. UNCHANGED <<strict, sent, param>> /\ sent \in Sent
  BY DEF AuthorizationReturns, TokenReturns, IntrospectionRequest, IntrospectionReturns, IInv, TypeOK
<1>2. Faulty' = Faulty /\ (Explained' = Explained) /\ Elements(sent)' = Elements(sent)
  BY <1>1 DEF Faulty, Explained
<1>3. CASE AuthorizationReturns
  <2>1. /\ pc = "authorize" /\ UNCHANGED <<reply, echoed>> /\ code = Nil
        /\ IF reply = Dropped THEN pc' = "panicked" /\ code' = code
           ELSE pc' = "authorized" /\ code' = reply.text
        /\ \/ reply = Failed(400) /\ Faulty # {}
           \/ reply = Dropped /\ Elements(sent) = <<>>
           \/ reply = OK(DemoCode) /\ Faulty = {}
    BY <1>3 DEF AuthorizationReturns, IInv, AuthorizeReplies, TypeOK
  <2>2. \/ pc' = "panicked" /\ code' = Nil /\ Explained
        \/ pc' = "authorized" /\ code' = ErrorText /\ Faulty # {}
        \/ pc' = "authorized" /\ code' = DemoCode /\ Faulty = {}
    BY <2>1, Statuses DEF Explained
  <2>3. code' = Nil <=> pc' = "panicked"
    BY <2>2, ThreeFlowAssumption
  <2>4. TypeOK'
    BY <1>1, <2>1, <2>2 DEF IInv, TypeOK
  <2>5. Progress'
    BY <1>1, <1>2, <2>1, <2>2, <2>3 DEF IInv, Progress
  <2> QED
    BY <1>2, <2>2, <2>4, <2>5
       DEF IInv, AuthorizeReplies, TokenReplies, IntrospectReplies, PanicsExplained, Explained
<1>4. CASE TokenReturns
  <2>1. /\ pc = "token" /\ UNCHANGED <<reply, code>>
        /\ IF Readable(reply) THEN pc' = "exchanged" /\ echoed' = reply.text
           ELSE pc' = "panicked" /\ echoed' = echoed
        /\ \/ reply = OK(Marshal(Elements(sent)))
           \/ reply \in {Failed(400), Failed(500)} /\ Explained
    BY <1>4 DEF TokenReturns, IInv, TokenReplies
  <2>2. \/ pc' = "panicked" /\ Explained
        \/ pc' = "exchanged" /\ echoed' = Marshal(Elements(sent)) /\ echoed' # Nil
    <3>1. CASE reply = OK(Marshal(Elements(sent)))
      <4> PICK f : f = Array(Marshal(Elements(sent)))
        OBVIOUS
      <4>1. /\ f.elems = Marshal(Elements(sent)) /\ f.elems # Nil
            /\ ~DecodeFormOK(f) => Explained
            /\ (\E i \in DOMAIN f.elems : Carrier(f.elems[i]) # "common") => Explained
        BY <1>1, ServerView
      <4>2. reply.text = f.elems /\ reply.status = 200 /\ Array(reply.text) = f
        BY <3>1, <4>1, Statuses
      <4>3. ~Readable(reply) => Explained
        BY <4>1, <4>2 DEF Readable
      <4> QED
        BY <2>1, <4>1, <4>2, <4>3
    <3>2. CASE reply \in {Failed(400), Failed(500)} /\ Explained
      <4>1. ~Readable(reply)
        BY <3>2, Statuses DEF Readable
      <4> QED
        BY <2>1, <3>2, <4>1
    <3> QED
      BY <2>1, <3>1, <3>2
  <2>3. TypeOK'
    BY <1>1, <2>1, <2>2 DEF IInv, TypeOK, Progress
  <2>4. Progress'
    BY <1>1, <1>2, <2>1, <2>2 DEF IInv, Progress
  <2> QED
    BY <1>2, <2>2, <2>3, <2>4
       DEF IInv, AuthorizeReplies, TokenReplies, IntrospectReplies, PanicsExplained, Explained
<1>5. CASE IntrospectionRequest
  <2>1. pc = "exchanged" /\ pc' = "introspect" /\ reply' = NoReply /\ UNCHANGED <<code, echoed>>
    BY <1>5 DEF IntrospectionRequest
  <2> QED
    BY <1>1, <1>2, <2>1, Statuses
       DEF IInv, TypeOK, AuthorizeReplies, TokenReplies, IntrospectReplies, Progress, PanicsExplained
<1>6. CASE IntrospectionReturns
  <2>1. /\ pc = "introspect" /\ UNCHANGED <<reply, code, echoed>>
        /\ reply = OK(Marshal(<<DemoDetail>>))
        /\ pc' = IF Readable(reply) /\ ValidateAll(DecodeForm(Array(reply.text))) = {}
                 THEN "done" ELSE "panicked"
    BY <1>6 DEF IntrospectionReturns, IInv, IntrospectReplies
  <2>2. pc' = "done"
    BY <2>1, DemoReads, Statuses
  <2> QED
    BY <1>1, <1>2, <2>1, <2>2
       DEF IInv, TypeOK, AuthorizeReplies, TokenReplies, IntrospectReplies, Progress, PanicsExplained
<1> QED
  BY <1>3, <1>4, <1>5, <1>6

LEMMA StepKeepsInv == IInv /\ [Next]_vars => IInv'
  BY ToggleStep, SendStep, HandlerStep, ReturnStep DEF Next, MainStep

LEMMA Inductive == Spec => []IInv
  BY Initially, StepKeepsInv, PTL DEF Spec

-----------------------------------------------------------------------------
\* The server's replies and the client's progress fit together.
THEOREM FlowTypes == Spec => []TypeOK
  BY Inductive, PTL DEF IInv

\* The token handler gives back the text that it decoded.
THEOREM TokenKeepsText == Spec => []TokenEchoes
<1>1. IInv => TokenEchoes
  <2> SUFFICES ASSUME IInv, pc = "token", reply.status = 200 PROVE reply.text = param.elems
    BY DEF TokenEchoes
  <2>1. reply.text = Marshal(Elements(sent))
    BY Statuses DEF IInv, TokenReplies
  <2> QED
    BY <2>1 DEF IInv, Progress, Array
<1> QED
  BY <1>1, Inductive, PTL

\* authorizationRequest takes the server's code for a code exactly if the
\* authorize handler had nothing to refuse.
THEOREM CodeMeansGood == Spec => []CodeOnlyForGoodDetails
<1>1. DemoCode # ErrorText
  BY DEF DemoCode, ErrorText
<1>2. IInv => CodeOnlyForGoodDetails
  BY <1>1 DEF IInv, Progress, CodeOnlyForGoodDetails
<1> QED
  BY <1>2, Inductive, PTL

\* "the same detail flows unchanged through all three legs" (main).
THEOREM SameDetailEverywhere == Spec => []SameDetailOnEveryLeg
<1>1. IInv => SameDetailOnEveryLeg
  <2> SUFFICES ASSUME IInv, pc = "done", sent = <<DemoDetail>>
               PROVE  param.elems = Marshal(sent) /\ echoed = param.elems /\ reply.text = echoed
    BY DEF SameDetailOnEveryLeg
  <2>1. Elements(sent) = sent
    <3>1. <<DemoDetail>> \in Seq(AuthorizationDetail)
      BY ThreeFlowAssumption, LocalFacts
    <3>2. sent # Nil
      BY <3>1, NilIsNoValue
    <3> QED
      BY <3>2 DEF Elements
  <2>2. /\ param = Array(Marshal(sent)) /\ echoed = Marshal(sent)
        /\ reply = OK(Marshal(sent))
    BY <2>1 DEF IInv, Progress, IntrospectReplies
  <2> QED
    BY <2>2, Statuses DEF Array
<1> QED
  BY <1>1, Inductive, PTL

\* main panics only over an empty, an ill-formed or an unreadable value.
THEOREM PanicsHaveCause == Spec => []PanicsExplained
  BY Inductive, PTL DEF IInv
=============================================================================

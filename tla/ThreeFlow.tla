----------------------------- MODULE ThreeFlow ------------------------------
(***************************************************************************)
(* example/three-flow: a client that sends one authorization_details value *)
(* to /authorize and to /token and reads it back from /token and           *)
(* /introspect, and a server that keeps nothing in between.  main passes   *)
(* buildDetail(); the legs take any value, and so does the model.  A step  *)
(* is a client leg up to its request, a server handler, or the rest of the *)
(* leg.                                                                    *)
(***************************************************************************)
EXTENDS BuiltinCodec

CONSTANTS
  Sent,           \* AuthorizationDetails a client may pass
  DemoDetail      \* buildDetail()

DemoCode  == "demo-auth-code"
ErrorText == "error"

ASSUME ThreeFlowAssumption ==
  /\ Sent \subseteq {Nil} \union Seq(LocalDetail)
  /\ DemoDetail \in LocalDetail /\ DemoDetail.type = "common"
  /\ DemoDetail.carrier = "common" /\ Validate(DemoDetail) = WellFormed
  /\ Nil \notin {DemoCode, ErrorText}

VARIABLES
  strict,     \* rar's strict-marshal toggle
  pc,         \* the client's leg, or where main ended
  sent,       \* the client's details
  param,      \* authorization_details of the request under way
  reply,      \* the server's response to it
  code,       \* what the client takes for the code
  echoed      \* authorization_details of the token response

vars == <<strict, pc, sent, param, reply, code, echoed>>

NoReply    == [status |-> 0, text |-> Nil]
Dropped    == [status |-> 1, text |-> Nil]      \* the handler panicked
Failed(n)  == [status |-> n, text |-> ErrorText]   \* http.Error
OK(text)   == [status |-> 200, text |-> text]

Init ==
  /\ strict = FALSE /\ pc = "start" /\ sent \in Sent
  /\ param = Nil /\ reply = NoReply /\ code = Nil /\ echoed = Nil

\* Anything else in the process.
SetStrictMarshal ==
  /\ strict' \in BOOLEAN
  /\ UNCHANGED <<pc, sent, param, reply, code, echoed>>

\* EncodeForm and the request, or the panic when it fails.
Send(leg) ==
  /\ \/ /\ MarshalOK(Elements(sent), strict)
        /\ param' = Array(Marshal(Elements(sent))) /\ pc' = leg
     \/ /\ ~MarshalOK(Elements(sent), strict)
        /\ pc' = "panicked" /\ UNCHANGED param
  /\ reply' = NoReply
  /\ UNCHANGED <<strict, sent, code, echoed>>

AuthorizationRequest == pc = "start" /\ Send("authorize")

\* Mutant: ValidateAll is not called.
AuthorizeUnvalidated ==
  /\ pc = "authorize" /\ reply = NoReply
  /\ reply' = IF ~DecodeFormOK(param) THEN Failed(400)
              ELSE IF param.elems = <<>> THEN Dropped ELSE OK(DemoCode)
  /\ UNCHANGED <<strict, pc, sent, param, code, echoed>>

\* GET /authorize.  The log line indexes details[0].
Authorize ==
  /\ pc = "authorize" /\ reply = NoReply
  /\ reply' = IF ~DecodeFormOK(param) \/ ValidateAll(DecodeForm(param)) # {}
              THEN Failed(400)
              ELSE IF param.elems = <<>> THEN Dropped ELSE OK(DemoCode)
  /\ UNCHANGED <<strict, pc, sent, param, code, echoed>>

\* Mutant: an error response leaves the code empty.
AuthorizationReturnsCodeless ==
  /\ pc = "authorize" /\ reply # NoReply
  /\ IF reply = Dropped THEN pc' = "panicked" /\ UNCHANGED code
     ELSE pc' = "authorized" /\ code' = IF reply.status = 200 THEN reply.text ELSE Nil
  /\ UNCHANGED <<strict, sent, param, reply, echoed>>

\* The client does not look at the status.
AuthorizationReturns ==
  /\ pc = "authorize" /\ reply # NoReply
  /\ IF reply = Dropped THEN pc' = "panicked" /\ UNCHANGED code
     ELSE pc' = "authorized" /\ code' = reply.text
  /\ UNCHANGED <<strict, sent, param, reply, echoed>>

TokenRequest == pc = "authorized" /\ Send("token")

\* Mutant: the response is built from the demo detail.
TokenSynthesizes ==
  /\ pc = "token" /\ reply = NoReply
  /\ reply' = OK(Marshal(<<DemoDetail>>))
  /\ UNCHANGED <<strict, pc, sent, param, code, echoed>>

\* POST /token: decoded, not validated, encoded again.
Token ==
  /\ pc = "token" /\ reply = NoReply
  /\ reply' = IF ~DecodeFormOK(param) THEN Failed(400)
              ELSE IF ~MarshalOK(DecodeForm(param), strict) THEN Failed(500)
              ELSE OK(Marshal(DecodeForm(param)))
  /\ UNCHANGED <<strict, pc, sent, param, code, echoed>>

\* json.Unmarshal of the body, ParseArray, and every detail a *CommonType.
Readable(r) ==
  /\ r.status = 200
  /\ DecodeFormOK(Array(r.text))
  /\ \A i \in DOMAIN r.text : Carrier(r.text[i]) = "common"

TokenReturns ==
  /\ pc = "token" /\ reply # NoReply
  /\ IF Readable(reply) THEN pc' = "exchanged" /\ echoed' = reply.text
     ELSE pc' = "panicked" /\ UNCHANGED echoed
  /\ UNCHANGED <<strict, sent, param, reply, code>>

IntrospectionRequest ==
  /\ pc = "exchanged"
  /\ pc' = "introspect" /\ reply' = NoReply
  /\ UNCHANGED <<strict, sent, param, code, echoed>>

\* Mutant: no details in the response.
IntrospectEmpty ==
  /\ pc = "introspect" /\ reply = NoReply
  /\ reply' = OK(<<>>)
  /\ UNCHANGED <<strict, pc, sent, param, code, echoed>>

\* POST /introspect: always the demo detail.
Introspect ==
  /\ pc = "introspect" /\ reply = NoReply
  /\ reply' = IF MarshalOK(<<DemoDetail>>, strict) THEN OK(Marshal(<<DemoDetail>>))
              ELSE Failed(500)
  /\ UNCHANGED <<strict, pc, sent, param, code, echoed>>

\* As TokenReturns, and ValidateAll.
IntrospectionReturns ==
  /\ pc = "introspect" /\ reply # NoReply
  /\ pc' = IF Readable(reply) /\ ValidateAll(DecodeForm(Array(reply.text))) = {}
           THEN "done" ELSE "panicked"
  /\ UNCHANGED <<strict, sent, param, reply, code, echoed>>

MainStep ==
  \/ AuthorizationRequest \/ Authorize \/ AuthorizationReturns
  \/ TokenRequest \/ Token \/ TokenReturns
  \/ IntrospectionRequest \/ Introspect \/ IntrospectionReturns

Next == MainStep \/ SetStrictMarshal

Spec == Init /\ [][Next]_vars
-----------------------------------------------------------------------------
(* Properties *)

\* The replies and the client's progress fit together.
TypeOK ==
  /\ strict \in BOOLEAN /\ sent \in Sent
  /\ pc \in {"start", "authorize", "authorized", "token", "exchanged", "introspect",
             "done", "panicked"}
  /\ reply.status \in {0, 1, 200, 400, 500}
  /\ pc \in {"start", "authorize"} => code = Nil
  /\ pc \in {"exchanged", "introspect", "done"} => code # Nil /\ echoed # Nil

\* The token response repeats the request's text byte for byte, although the
\* server decodes and encodes it in between (newAS, /token).
TokenEchoes == pc = "token" /\ reply.status = 200 => reply.text = param.elems

\* The details without a type, and those of the type the server knows that
\* break a rule.
Faulty ==
  {i \in DOMAIN sent : \/ sent[i].type = Empty
                       \/ sent[i].type = "common" /\ Validate(sent[i]) # WellFormed}

\* What the client goes on with as the code is the server's code exactly when
\* the server found nothing to refuse; otherwise it is the text of an error,
\* and the flow goes on all the same (authorizationRequest, newAS /authorize).
CodeOnlyForGoodDetails == code # Nil => (code = DemoCode <=> Faulty = {})

\* "the same detail flows unchanged through all three legs" (main): when the
\* client sends the demo detail, all three texts are the same.
SameDetailOnEveryLeg ==
  pc = "done" /\ sent = <<DemoDetail>> =>
    param.elems = Marshal(sent) /\ echoed = param.elems /\ reply.text = echoed

\* main panics on nothing but an empty array, an ill-formed element, or a
\* type the client cannot read; never on what the toggle does to a
\* well-formed value in the middle of the flow.
PanicsExplained ==
  pc = "panicked" =>
    \/ Elements(sent) = <<>>
    \/ ValidateAll(sent) # {}
    \/ \E i \in DOMAIN sent : sent[i].type # "common"
=============================================================================

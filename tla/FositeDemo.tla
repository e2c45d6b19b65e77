----------------------------- MODULE FositeDemo -----------------------------
(***************************************************************************)
(* example/fosite-handler as a whole: main drives the three legs against   *)
(* the server of FositeHandler, and the code comes back to it through the  *)
(* goroutine of a callback server and a channel with room for one.         *)
(* The parameters main sends beside authorization_details are the right    *)
(* ones, so fosite refuses none of its requests for another reason.        *)
(***************************************************************************)
EXTENDS FositeHandler

CONSTANT Sent   \* AuthorizationDetails main may pass; the program has one

ASSUME DemoAssumption ==
  /\ Requests = {"auth", "token", "introspect"}
  /\ Sent \subseteq {Nil} \union Seq(LocalDetail)
  /\ Forms = {Array(Marshal(Elements(ds))) : ds \in Sent}

VARIABLES
  client,     \* main's progress
  sent,       \* the details it passes
  codeCh,     \* the channel
  callback    \* the callback server's handler

mainVars == <<client, sent, codeCh, callback>>

DemoInit ==
  /\ Init /\ strict = FALSE
  /\ client = "start" /\ sent \in Sent
  /\ codeCh = <<>> /\ callback = "idle"

-----------------------------------------------------------------------------
\* EncodeForm and GET /oauth2/auth.
AuthorizationRequest ==
  /\ client = "start"
  /\ \/ /\ MarshalOK(Elements(sent), strict)
        /\ AuthorizeHTTP("auth")
        /\ form'["auth"] = Array(Marshal(Elements(sent)))
        /\ pc'["auth"] = "issuing"
        /\ client' = "authorizing"
     \/ /\ ~MarshalOK(Elements(sent), strict)
        /\ client' = "panicked"
        /\ UNCHANGED vars
  /\ UNCHANGED <<sent, codeCh, callback>>

\* The server's goroutines, once a request has arrived.
ServerStep ==
  /\ \E r \in Requests :
       \/ IssueCode(r) \/ HandleAuthorizeEndpointRequest(r) \/ WriteAuthorizeResponse(r)
       \/ IssueToken(r) \/ PopulateTokenEndpointResponse(r) \/ WriteAccessResponse(r)
       \/ GetExtraClaims(r) \/ AssignClaim(r) \/ WriteIntrospectionResponse(r)
  /\ UNCHANGED mainVars

ChangeToggle == SetStrictMarshal /\ UNCHANGED mainVars

\* Mutant: the code is not sent.
CallbackDrops ==
  /\ callback = "idle"
  /\ \/ pc["auth"] = "redirected" /\ callback' = "answered"
     \/ pc["auth"] = "refused"    /\ callback' = "missing"
  /\ UNCHANGED <<vars, client, sent, codeCh>>

\* The redirect reaches the callback server: with a code, which goes into the
\* channel before the body is written, or with an error.
Callback ==
  /\ callback = "idle"
  /\ \/ /\ pc["auth"] = "redirected"
        /\ IF codeCh = <<>> THEN codeCh' = <<"auth">> /\ callback' = "answered"
           ELSE callback' = "panicked" /\ UNCHANGED codeCh
     \/ /\ pc["auth"] = "refused"
        /\ callback' = "missing"
        /\ UNCHANGED codeCh
  /\ UNCHANGED <<vars, client, sent>>

\* Mutant: http.Get does not follow the redirect.
AuthorizationReturnsEarly ==
  /\ client = "authorizing"
  /\ \/ pc["auth"] = "redirected" /\ client' = "selecting"
     \/ pc["auth"] \in {"refused", "panicked"} /\ client' = "panicked"
  /\ UNCHANGED <<vars, sent, codeCh, callback>>

\* http.Get returns what the end of the redirect chain answered.
AuthorizationReturns ==
  /\ client = "authorizing"
  /\ \/ callback = "answered" /\ client' = "selecting"
     \/ callback = "missing" /\ client' = "panicked"
     \/ pc["auth"] = "panicked" /\ client' = "panicked"   \* connection closed
  /\ UNCHANGED <<vars, sent, codeCh, callback>>

\* The select: the code if it is there, else the timeout, five seconds later.
SelectCode ==
  /\ client = "selecting"
  /\ client' = IF codeCh = <<>> THEN "timedout" ELSE "authorized"
  /\ codeCh' = <<>>
  /\ UNCHANGED <<vars, sent, callback>>

TokenRequest ==
  /\ client = "authorized"
  /\ TokenHTTP("token") /\ pc'["token"] = "exchanging"
  /\ client' = "exchanging"
  /\ UNCHANGED <<sent, codeCh, callback>>

\* ParseArray of the member, and every detail a *CommonType.
Readable(text) ==
  /\ text # Absent
  /\ DecodeFormOK(Array(text))
  /\ \A i \in DOMAIN text : Carrier(text[i]) = "common"

TokenReturns ==
  /\ client = "exchanging"
  /\ \/ pc["token"] = "responded" /\ Readable(body["token"]) /\ client' = "exchanged"
     \/ pc["token"] = "responded" /\ ~Readable(body["token"]) /\ client' = "panicked"
  /\ UNCHANGED <<vars, sent, codeCh, callback>>

IntrospectionRequest ==
  /\ client = "exchanged"
  /\ IntrospectHTTP("introspect") /\ pc'["introspect"] = "claiming"
  /\ client' = "introspecting"
  /\ UNCHANGED <<sent, codeCh, callback>>

\* As TokenReturns, and ValidateAll.
IntrospectionReturns ==
  /\ client = "introspecting" /\ pc["introspect"] = "introspected"
  /\ client' = IF /\ Readable(body["introspect"])
                  /\ ValidateAll(DecodeForm(Array(body["introspect"]))) = {}
               THEN "done" ELSE "panicked"
  /\ UNCHANGED <<vars, sent, codeCh, callback>>

DemoStep ==
  \/ AuthorizationRequest \/ ServerStep \/ Callback \/ AuthorizationReturns
  \/ SelectCode \/ TokenRequest \/ TokenReturns
  \/ IntrospectionRequest \/ IntrospectionReturns

DemoNext == DemoStep \/ ChangeToggle

demoVars == <<vars, mainVars>>

\* Every goroutine of the demo that can go on does.
DemoSpec == DemoInit /\ [][DemoNext]_demoVars /\ WF_demoVars(DemoStep)
-----------------------------------------------------------------------------
(* Properties *)

\* The five-second timeout and the full channel are never met: the redirect
\* chain cannot end before the callback has sent the code, and sends it once.
CodeArrives == client # "timedout" /\ callback # "panicked"

Fine == Elements(sent) # <<>> /\ ValidateAll(sent) = {}
        /\ \A i \in DOMAIN sent : sent[i].type = "common"

\* main ends with the details it sent in both responses, and panics only over
\* an empty, an ill-formed or an unreadable value.
OutcomeExplained ==
  /\ client = "done" =>
       body["token"] = Marshal(sent) /\ body["introspect"] = Marshal(sent)
  /\ client = "panicked" => ~Fine

\* With well-formed details of type "common" the demo completes, whatever the
\* toggle does meanwhile ("same detail crossed all three touchpoints").
DemoCompletes == Fine ~> client = "done"
=============================================================================

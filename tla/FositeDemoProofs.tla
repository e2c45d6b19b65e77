-------------------------- MODULE FositeDemoProofs --------------------------
(* What the fosite demo keeps true for whatever value main passes: all that *)
(* the server keeps true for any requests, and how main's own three fare.   *)
EXTENDS FositeDemo, FositeProofs, BuiltinCodecProofs

\* How far main's three requests can come.
Places ==
  /\ sent \in Sent
  /\ pc["auth"] \in {"free", "issuing", "stashing", "redirecting", "redirected", "refused",
                     "panicked"}
  /\ pc["token"] \in TokenPhases \union {"free", "refused", "servererror"}
  /\ pc["introspect"] \in ClaimPhases \union {"free", "panicked"}
  /\ pc["auth"] # "free" => form["auth"] = Array(Marshal(Elements(sent)))
  /\ pc["auth"] = "refused" => ~Accepts(form["auth"])

\* The code is in the channel from the callback until main takes it.
Callbacks ==
  /\ callback \in {"idle", "answered", "missing"}
  /\ callback = "idle" => codeCh = <<>>
  /\ callback = "answered" => pc["auth"] = "redirected"
  /\ callback = "missing" => pc["auth"] = "refused"
  /\ client \in {"start", "authorizing", "selecting"} /\ callback = "answered" =>
       codeCh = <<"auth">>
  /\ client = "selecting" => callback = "answered"

Clients ==
  /\ client \in {"start", "authorizing", "selecting", "authorized", "exchanging", "exchanged",
                 "introspecting", "done", "panicked"}
  /\ client \in {"exchanged", "introspecting", "done"} => pc["token"] = "responded"
  /\ client = "done" => pc["introspect"] = "introspected"
  /\ client = "panicked" => ~Fine

DemoInv == IInv /\ Places /\ Callbacks /\ Clients

-----------------------------------------------------------------------------
LEMMA Three ==
  /\ Requests = {"auth", "token", "introspect"}
  /\ {"auth", "token", "introspect"} \subseteq Requests
  BY DemoAssumption

\* How the server and main see what main sends.
LEMMA DemoView ==
  ASSUME sent \in Sent, NEW f, f = Array(Marshal(Elements(sent)))
  PROVE  /\ f \in Forms /\ f # Absent /\ f.elems = Marshal(Elements(sent))
         /\ Marshal(DecodeForm(f)) = Marshal(Elements(sent))
         /\ Elements(sent) # <<>> => Elements(sent) = sent
         /\ f.elems = <<>> => Elements(sent) = <<>>
         /\ DecodeForm(f) # <<>> => Elements(sent) # <<>>
         /\ ~Accepts(f) => ~Fine
         /\ ~Readable(f.elems) => ~Fine
         /\ \A b : ~MarshalOK(Elements(sent), b) => ~Fine
<1> PICK ds : ds = Elements(sent)
  OBVIOUS
<1>1. ds \in Seq(LocalDetail) /\ f = Array(Marshal(ds)) /\ (ds # <<>> => ds = sent)
  BY DemoAssumption DEF Elements
<1>2. /\ DOMAIN f.elems = DOMAIN ds /\ Marshal(ds) \in Seq(Element)
      /\ DecodeFormOK(f) = \A i \in DOMAIN ds : ds[i].type # Empty
      /\ Marshal(DecodeForm(f)) = f.elems
      /\ \A i \in DOMAIN ds : Carrier(f.elems[i]) = "common" <=> ds[i].type = "common"
      /\ DOMAIN DecodeForm(f) = DOMAIN ds
      /\ \A i \in DOMAIN ds :
           (Validate(DecodeForm(f)[i]) # WellFormed) =
             (ds[i].type = "common" /\ Validate(ds[i]) # WellFormed)
  BY ONLY <1>1, ArrayEchoes
<1>3. f \in Forms /\ f # Absent
  BY DemoAssumption, FositeAssumption
<1>4. f.elems = Marshal(ds)
  BY <1>1 DEF Array
<1>5. ds = <<>> => DOMAIN ds = {}
  OBVIOUS
<1>6. f.elems = <<>> => ds = <<>>
  BY <1>1, <1>2
<1>7. DecodeForm(f) # <<>> => ds # <<>>
  <2>1. ASSUME ds = <<>> PROVE DecodeForm(f) = <<>>
    <3>1. DOMAIN f.elems = {}
      BY <1>2, <1>5, <2>1
    <3> QED
      BY <3>1 DEF DecodeForm
  <2> QED
    BY <2>1
<1>8. ASSUME Fine
      PROVE  /\ ds = sent /\ \A i \in DOMAIN ds : ds[i].type = "common"
             /\ \A i \in DOMAIN ds : Validate(ds[i]) = WellFormed
  BY <1>1, <1>8, NothingFound DEF Fine
<1>9. Empty # "common"
  BY DEF Empty
<1>10. Fine => DecodeFormOK(f)
  BY <1>2, <1>8, <1>9
<1>11. Fine => Accepts(f)
  <2>1. Fine => \A i \in DOMAIN DecodeForm(f) : Validate(DecodeForm(f)[i]) = WellFormed
    BY <1>2, <1>8
  <2>2. Fine => ValidateAll(DecodeForm(f)) = {}
    BY <2>1, NothingFound
  <2> QED
    BY <1>10, <2>2 DEF Accepts
<1>12. Fine => Readable(f.elems)
  <2>1. Fine => f.elems # Absent
    BY <1>2, <1>3, <1>10, FositeAssumption
  <2>2. Array(f.elems) = f
    BY <1>1 DEF Array
  <2> QED
    BY <1>2, <1>8, <1>10, <2>1, <2>2 DEF Readable
<1>13. \A b : Fine => MarshalOK(ds, b)
  BY <1>8 DEF MarshalOK
<1> QED
  BY <1>1, <1>2, <1>3, <1>4, <1>6, <1>7, <1>11, <1>12, <1>13

\* What the responses carry, once they are there.
LEMMA Responses ==
  ASSUME DemoInv
  PROVE  /\ pc["token"] = "responded" =>
              body["token"] = Marshal(Elements(sent)) /\ Elements(sent) = sent
              /\ ValidateAll(DecodeForm(Array(body["token"]))) = {}
         /\ pc["introspect"] = "introspected" =>
              body["introspect"] = body["token"] /\ pc["token"] = "responded"
<1> PICK f : f = Array(Marshal(Elements(sent)))
  OBVIOUS
<1>1. sent \in Sent /\ \A r \in Requests : RequestInv(r)
  BY DEF DemoInv, IInv, Places
<1>2. \A r \in Requests : (pc[r] = "redirected" => r = "auth") /\ (pc[r] = "responded" => r = "token")
  BY Three DEF DemoInv, Places, TokenPhases, ClaimPhases
<1>3. ASSUME pc["token"] = "responded"
      PROVE  ref["token"] = "auth" /\ pc["auth"] = "redirected" /\ body["token"] = Asked("auth")
  BY <1>1, <1>2, <1>3, Three DEF RequestInv, Exchanging, TokenPhases
<1>4. ASSUME pc["auth"] = "redirected"
      PROVE  /\ Asked("auth") = Marshal(Elements(sent)) /\ Elements(sent) = sent
             /\ ValidateAll(DecodeForm(f)) = {} /\ f = Array(Asked("auth"))
  <2>1. form["auth"] = f /\ Granted("auth")
    BY <1>1, <1>4, Three DEF DemoInv, Places, RequestInv, Authorizing
  <2>2. /\ f # Absent /\ Marshal(DecodeForm(f)) = Marshal(Elements(sent))
        /\ DecodeForm(f) # <<>> => Elements(sent) # <<>>
        /\ Elements(sent) # <<>> => Elements(sent) = sent
    BY <1>1, DemoView
  <2>3. Accepts(f) /\ DecodeForm(f) # <<>>
    BY <2>1, <2>2 DEF Granted
  <2>4. Asked("auth") = Marshal(Elements(sent))
    BY <2>1, <2>2 DEF Asked
  <2> QED
    BY <2>2, <2>3, <2>4 DEF Accepts
<1>5. ASSUME pc["introspect"] = "introspected"
      PROVE  pc["token"] = "responded" /\ body["introspect"] = Asked("auth")
  <2>1. /\ ref["introspect"] \in Requests /\ pc[ref["introspect"]] = "responded"
        /\ body["introspect"] = Asked(ref[ref["introspect"]])
    BY <1>1, <1>5, Three DEF RequestInv, Claiming, ClaimPhases
  <2>2. ref["introspect"] = "token"
    BY <1>2, <2>1
  <2> QED
    BY <1>3, <2>1, <2>2
<1> QED
  BY <1>3, <1>4, <1>5

-----------------------------------------------------------------------------
LEMMA DemoInitially == DemoInit => DemoInv
<1> SUFFICES ASSUME DemoInit PROVE DemoInv
  OBVIOUS
<1>1. IInv /\ \A r \in Requests : pc[r] = "free"
  BY Initially DEF DemoInit, Init
<1>2. Places /\ Callbacks /\ Clients
  BY <1>1, Three DEF DemoInit, Places, Callbacks, Clients
<1> QED
  BY <1>1, <1>2 DEF DemoInv

\* One server step moves one request along, and none crashes: a single
\* introspection has nobody to collide with.
LEMMA ServerMoves ==
  ASSUME DemoInv, ServerStep
  PROVE  /\ form' = form
         /\ \E r \in Requests :
              /\ \A q \in Requests \ {r} : pc'[q] = pc[q]
              /\ \/ /\ r = "auth" /\ pc[r] \in {"issuing", "stashing", "redirecting"}
                    /\ pc'[r] \in {"stashing", "redirecting", "redirected", "refused", "panicked"}
                    /\ pc'[r] = "refused" => ~Accepts(form[r])
                 \/ /\ r = "token" /\ pc[r] \in {"exchanging", "populating", "responding"}
                    /\ pc'[r] \in TokenPhases \union {"refused", "servererror"}
                 \/ /\ r = "introspect" /\ pc[r] \in {"claiming", "assigning", "writing"}
                    /\ pc'[r] \in ClaimPhases \union {"panicked"}
<1> PICK r \in Requests :
      \/ IssueCode(r) \/ HandleAuthorizeEndpointRequest(r) \/ WriteAuthorizeResponse(r)
      \/ IssueToken(r) \/ PopulateTokenEndpointResponse(r) \/ WriteAccessResponse(r)
      \/ GetExtraClaims(r) \/ AssignClaim(r) \/ WriteIntrospectionResponse(r)
  BY DEF ServerStep
<1>1. DOMAIN pc = Requests
  BY DEF DemoInv, IInv, TypeOK
<1>2. /\ pc[r] \in {"issuing", "stashing", "redirecting"} => r = "auth"
      /\ pc[r] \in {"exchanging", "populating", "responding"} => r = "token"
      /\ pc[r] \in {"claiming", "assigning", "writing"} => r = "introspect"
  BY Three DEF DemoInv, Places, TokenPhases, ClaimPhases
<1>3. \A m : ~Assigned("introspect", m)
  BY Three DEF Assigned, DemoInv, Places, TokenPhases
<1>4. CASE IssueCode(r) \/ HandleAuthorizeEndpointRequest(r) \/ WriteAuthorizeResponse(r)
  <2>1. form' = form /\ pc[r] \in {"issuing", "stashing", "redirecting"}
    BY <1>4 DEF IssueCode, HandleAuthorizeEndpointRequest, WriteAuthorizeResponse, request
  <2>2. \E l \in {"stashing", "redirecting", "redirected", "refused", "panicked"} :
          Goto(r, l) /\ (l = "refused" => ~Accepts(form[r]))
    BY <1>4 DEF IssueCode, HandleAuthorizeEndpointRequest, WriteAuthorizeResponse
  <2> QED
    BY <1>1, <1>2, <2>1, <2>2 DEF Goto
<1>5. CASE IssueToken(r) \/ PopulateTokenEndpointResponse(r) \/ WriteAccessResponse(r)
  <2>1. form' = form /\ pc[r] \in {"exchanging", "populating", "responding"}
    BY <1>5 DEF IssueToken, PopulateTokenEndpointResponse, WriteAccessResponse, request
  <2>2. \E l \in TokenPhases \union {"refused", "servererror"} : Goto(r, l)
    BY <1>5 DEF IssueToken, PopulateTokenEndpointResponse, WriteAccessResponse, TokenPhases
  <2> QED
    BY <1>1, <1>2, <2>1, <2>2 DEF Goto
<1>6. CASE GetExtraClaims(r) \/ AssignClaim(r) \/ WriteIntrospectionResponse(r)
  <2>1. form' = form /\ pc[r] \in {"claiming", "assigning", "writing"}
    BY <1>6 DEF GetExtraClaims, AssignClaim, WriteIntrospectionResponse, request
  <2>2. \E l \in ClaimPhases \union {"panicked"} : Goto(r, l)
    BY <1>2, <1>3, <1>6, <2>1
       DEF GetExtraClaims, AssignClaim, WriteIntrospectionResponse, ClaimPhases
  <2> QED
    BY <1>1, <1>2, <2>1, <2>2 DEF Goto
<1> QED
  BY <1>4, <1>5, <1>6

\* Every step of the demo is one of the server's, or none.
LEMMA DemoIsServer ==
  ASSUME DemoInv, [DemoNext]_demoVars
  PROVE  [Next]_vars
<1>1. \A r \in Requests : pc[r] # "crashed"
  BY Three DEF DemoInv, Places, TokenPhases, ClaimPhases
<1>2. (\E r \in Requests : Step(r)) \/ SetStrictMarshal \/ UNCHANGED vars
  <2>1. CASE AuthorizationRequest
    BY <2>1, Three DEF AuthorizationRequest, Step
  <2>2. CASE ServerStep
    BY <2>2 DEF ServerStep, Step
  <2>3. CASE TokenRequest \/ IntrospectionRequest
    BY <2>3, Three DEF TokenRequest, IntrospectionRequest, Step
  <2>4. CASE ChangeToggle
    BY <2>4 DEF ChangeToggle
  <2>5. CASE \/ Callback \/ AuthorizationReturns \/ SelectCode \/ TokenReturns
             \/ IntrospectionReturns \/ UNCHANGED demoVars
    BY <2>5 DEF Callback, AuthorizationReturns, SelectCode, TokenReturns, IntrospectionReturns,
                demoVars
  <2> QED
    BY <2>1, <2>2, <2>3, <2>4, <2>5 DEF DemoNext, DemoStep
<1> QED
  BY <1>1, <1>2 DEF Next

-----------------------------------------------------------------------------
(* main, its callback server and the server *)

\* What does not touch the server's state.
LEMMA PlacesKept ==
  ASSUME DemoInv, UNCHANGED <<pc, form, sent>>
  PROVE  Places' /\ (Fine' = Fine)
<1>1. Elements(sent)' = Elements(sent) /\ (Fine' = Fine)
  BY DEF Fine
<1>2. \A f : Accepts(f)' = Accepts(f)
  OBVIOUS
<1> QED
  BY <1>1, <1>2 DEF DemoInv, Places

LEMMA ServerStepKeeps ==
  ASSUME DemoInv, ServerStep
  PROVE  Places' /\ Callbacks' /\ Clients'
<1>1. UNCHANGED <<client, sent, codeCh, callback>> /\ form' = form
  BY ServerMoves DEF ServerStep, mainVars
<1> PICK r \in Requests :
      /\ \A q \in Requests \ {r} : pc'[q] = pc[q]
      /\ \/ /\ r = "auth" /\ pc[r] \in {"issuing", "stashing", "redirecting"}
            /\ pc'[r] \in {"stashing", "redirecting", "redirected", "refused", "panicked"}
            /\ pc'[r] = "refused" => ~Accepts(form[r])
         \/ /\ r = "token" /\ pc[r] \in {"exchanging", "populating", "responding"}
            /\ pc'[r] \in TokenPhases \union {"refused", "servererror"}
         \/ /\ r = "introspect" /\ pc[r] \in {"claiming", "assigning", "writing"}
            /\ pc'[r] \in ClaimPhases \union {"panicked"}
  BY ServerMoves
<1>2. /\ pc'["auth"] \in {"free", "issuing", "stashing", "redirecting", "redirected", "refused",
                         "panicked"}
      /\ pc'["token"] \in TokenPhases \union {"free", "refused", "servererror"}
      /\ pc'["introspect"] \in ClaimPhases \union {"free", "panicked"}
  BY Three DEF DemoInv, Places
<1>3. /\ pc'["auth"] # "free" => pc["auth"] # "free"
      /\ pc'["auth"] = "refused" => ~Accepts(form["auth"])
      /\ pc["auth"] \in {"redirected", "refused"} => pc'["auth"] = pc["auth"]
      /\ pc["token"] = "responded" => pc'["token"] = "responded"
      /\ pc["introspect"] = "introspected" => pc'["introspect"] = "introspected"
  BY Three DEF DemoInv, Places
<1>4. Elements(sent)' = Elements(sent) /\ (Fine' = Fine)
  BY <1>1 DEF Fine
<1>5. Places'
  BY <1>1, <1>2, <1>3, <1>4 DEF DemoInv, Places
<1>6. Callbacks' /\ Clients'
  BY <1>1, <1>3, <1>4 DEF DemoInv, Callbacks, Clients
<1> QED
  BY <1>5, <1>6

\* The three requests of main.
LEMMA RequestsKeep ==
  ASSUME DemoInv, AuthorizationRequest \/ TokenRequest \/ IntrospectionRequest
  PROVE  Places' /\ Callbacks' /\ Clients'
<1>1. /\ UNCHANGED <<sent, codeCh, callback>> /\ sent \in Sent /\ DOMAIN pc = Requests
      /\ DOMAIN form = Requests
  BY DEF AuthorizationRequest, TokenRequest, IntrospectionRequest, DemoInv, Places, IInv, TypeOK
<1>2. Elements(sent)' = Elements(sent) /\ (Fine' = Fine)
  BY <1>1 DEF Fine
<1>3. CASE AuthorizationRequest
  <2>1. CASE UNCHANGED vars
    <3>1. \/ client' = "panicked" /\ ~MarshalOK(Elements(sent), strict)
          \/ pc'["auth"] # pc["auth"]
      BY <1>3 DEF AuthorizationRequest, AuthorizeHTTP
    <3>2. client' = "panicked" /\ ~Fine /\ UNCHANGED <<pc, form>>
      <4> PICK f : f = Array(Marshal(Elements(sent)))
        OBVIOUS
      <4> QED
        BY <1>1, <2>1, <3>1, DemoView DEF vars, request
    <3> QED
      BY <1>1, <1>2, <3>2, PlacesKept DEF DemoInv, Callbacks, Clients
  <2>2. CASE ~UNCHANGED vars
    <3>1. /\ client = "start" /\ client' = "authorizing" /\ AuthorizeHTTP("auth")
          /\ form'["auth"] = Array(Marshal(Elements(sent))) /\ pc'["auth"] = "issuing"
      BY <1>3, <2>2 DEF AuthorizationRequest
    <3>2. pc["auth"] = "free" /\ \A q \in Requests \ {"auth"} : pc'[q] = pc[q]
      BY <1>1, <3>1 DEF AuthorizeHTTP, Goto
    <3>3. Places'
      BY <1>1, <1>2, <3>1, <3>2, Three DEF DemoInv, Places
    <3> QED
      BY <1>1, <1>2, <3>1, <3>2, <3>3 DEF DemoInv, Callbacks, Clients
  <2> QED
    BY <2>1, <2>2
<1>4. CASE TokenRequest
  <2>1. /\ client = "authorized" /\ client' = "exchanging" /\ TokenHTTP("token")
        /\ pc'["token"] = "exchanging"
    BY <1>4 DEF TokenRequest
  <2>2. /\ form' = form /\ pc["token"] = "free"
        /\ \A q \in Requests \ {"token"} : pc'[q] = pc[q]
    BY <1>1, <2>1 DEF TokenHTTP, Goto
  <2>3. Places'
    <3>1. \A f : Accepts(f)' = Accepts(f)
      OBVIOUS
    <3> QED
      BY <1>1, <1>2, <2>1, <2>2, <3>1, Three DEF DemoInv, Places, TokenPhases
  <2> QED
    BY <1>1, <1>2, <2>1, <2>2, <2>3, Three DEF DemoInv, Callbacks, Clients
<1>5. CASE IntrospectionRequest
  <2>1. /\ client = "exchanged" /\ client' = "introspecting" /\ IntrospectHTTP("introspect")
        /\ pc'["introspect"] = "claiming"
    BY <1>5 DEF IntrospectionRequest
  <2>2. /\ form' = form /\ pc["introspect"] = "free"
        /\ \A q \in Requests \ {"introspect"} : pc'[q] = pc[q]
    BY <1>1, <2>1 DEF IntrospectHTTP, Goto
  <2>3. Places'
    <3>1. \A f : Accepts(f)' = Accepts(f)
      OBVIOUS
    <3> QED
      BY <1>1, <1>2, <2>1, <2>2, <3>1, Three DEF DemoInv, Places, ClaimPhases
  <2> QED
    BY <1>1, <1>2, <2>1, <2>2, <2>3, Three DEF DemoInv, Callbacks, Clients
<1> QED
  BY <1>3, <1>4, <1>5

\* Everything else: the callback, what main reads, the toggle.
LEMMA OtherKeep ==
  ASSUME DemoInv,
         \/ Callback \/ AuthorizationReturns \/ SelectCode \/ TokenReturns \/ IntrospectionReturns
         \/ ChangeToggle \/ UNCHANGED demoVars
  PROVE  Places' /\ Callbacks' /\ Clients'
<1>1. UNCHANGED <<pc, form, sent>>
  BY DEF Callback, AuthorizationReturns, SelectCode, TokenReturns, IntrospectionReturns,
         ChangeToggle, SetStrictMarshal, demoVars, mainVars, vars, request
<1>2. Places' /\ (Fine' = Fine) /\ sent \in Sent
  BY <1>1, PlacesKept DEF DemoInv, Places
<1> PICK f : f = Array(Marshal(Elements(sent)))
  OBVIOUS
<1>3. /\ ~Accepts(f) => ~Fine
      /\ ~Readable(Marshal(Elements(sent))) => ~Fine
      /\ f # Absent /\ f.elems = Marshal(Elements(sent))
      /\ f.elems = <<>> => Elements(sent) = <<>>
  BY <1>2, DemoView
<1>4. CASE Callback
  BY <1>1, <1>2, <1>4 DEF Callback, DemoInv, Callbacks, Clients
<1>5. CASE AuthorizationReturns
  <2>1. UNCHANGED <<codeCh, callback>> /\ client = "authorizing"
    BY <1>5 DEF AuthorizationReturns
  <2>2. \/ client' = "selecting" /\ callback = "answered"
        \/ client' = "panicked" /\ pc["auth"] \in {"refused", "panicked"}
    BY <1>5 DEF AuthorizationReturns, DemoInv, Callbacks
  <2>3. pc["auth"] \in {"refused", "panicked"} => ~Fine
    <3>1. pc["auth"] \in {"refused", "panicked"} => form["auth"] = f
      BY DEF DemoInv, Places
    <3>2. pc["auth"] = "refused" => ~Fine
      BY <1>3, <3>1 DEF DemoInv, Places
    <3>3. pc["auth"] = "panicked" => form["auth"].elems = <<>>
      BY Three DEF DemoInv, IInv, EncodingNeverFails
    <3> QED
      BY <1>3, <3>1, <3>2, <3>3 DEF Fine
  <2> QED
    BY <1>1, <1>2, <2>1, <2>2, <2>3 DEF DemoInv, Callbacks, Clients
<1>6. CASE SelectCode
  <2>1. callback = "answered" /\ codeCh # <<>>
    BY <1>6 DEF SelectCode, DemoInv, Callbacks
  <2> QED
    BY <1>1, <1>2, <1>6, <2>1 DEF SelectCode, DemoInv, Callbacks, Clients
<1>7. CASE TokenReturns
  <2>1. /\ UNCHANGED <<codeCh, callback>> /\ client = "exchanging" /\ pc["token"] = "responded"
        /\ \/ client' = "exchanged"
           \/ client' = "panicked" /\ ~Readable(body["token"])
    BY <1>7 DEF TokenReturns
  <2>2. body["token"] = Marshal(Elements(sent))
    BY <2>1, Responses
  <2> QED
    BY <1>1, <1>2, <1>3, <2>1, <2>2 DEF DemoInv, Callbacks, Clients
<1>8. CASE IntrospectionReturns
  <2>1. /\ UNCHANGED <<codeCh, callback>> /\ client = "introspecting"
        /\ pc["introspect"] = "introspected"
        /\ client' = IF /\ Readable(body["introspect"])
                        /\ ValidateAll(DecodeForm(Array(body["introspect"]))) = {}
                     THEN "done" ELSE "panicked"
    BY <1>8 DEF IntrospectionReturns
  <2>2. /\ body["introspect"] = Marshal(Elements(sent)) /\ pc["token"] = "responded"
        /\ ValidateAll(DecodeForm(Array(body["introspect"]))) = {}
    BY <2>1, Responses
  <2>3. client' = "done" \/ (client' = "panicked" /\ ~Fine)
    BY <1>3, <2>1, <2>2
  <2> QED
    BY <1>1, <1>2, <2>1, <2>2, <2>3 DEF DemoInv, Callbacks, Clients
<1>9. CASE ChangeToggle \/ UNCHANGED demoVars
  BY <1>1, <1>2, <1>9 DEF ChangeToggle, demoVars, mainVars, DemoInv, Callbacks, Clients
<1> QED
  BY <1>4, <1>5, <1>6, <1>7, <1>8, <1>9

LEMMA DemoStepKeepsInv == DemoInv /\ [DemoNext]_demoVars => DemoInv'
<1> SUFFICES ASSUME DemoInv, [DemoNext]_demoVars PROVE DemoInv'
  OBVIOUS
<1>1. IInv'
  BY DemoIsServer, StepKeepsInv DEF DemoInv
<1>2. Places' /\ Callbacks' /\ Clients'
  BY ServerStepKeeps, RequestsKeep, OtherKeep DEF DemoNext, DemoStep
<1> QED
  BY <1>1, <1>2 DEF DemoInv

LEMMA DemoInvHolds == DemoSpec => []DemoInv
  BY DemoInitially, DemoStepKeepsInv, PTL DEF DemoSpec

-----------------------------------------------------------------------------
\* main never times out on the code, and the callback handler never finds the
\* channel full.
THEOREM CodeAlwaysArrives == DemoSpec => []CodeArrives
<1>1. DemoInv => CodeArrives
  BY DEF DemoInv, Callbacks, Clients, CodeArrives
<1> QED
  BY <1>1, DemoInvHolds, PTL

\* main ends with the details it sent in both responses, and panics only over
\* an empty, an ill-formed or an unreadable value.
THEOREM OutcomeHasCause == DemoSpec => []OutcomeExplained
<1>1. DemoInv => OutcomeExplained
  BY Responses DEF DemoInv, Clients, OutcomeExplained
<1> QED
  BY <1>1, DemoInvHolds, PTL

\* The demo is a run of the server, so that all the server's theorems hold of
\* it: the server fails and crashes no more for main than for any client.
THEOREM DemoRunsServer == DemoSpec => Spec
<1>1. DemoInit => Init
  BY DEF DemoInit
<1> QED
  BY <1>1, DemoInvHolds, DemoIsServer, PTL DEF DemoSpec, Spec
=============================================================================

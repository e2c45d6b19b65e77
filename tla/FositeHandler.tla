--------------------------- MODULE FositeHandler ----------------------------
(***************************************************************************)
(* example/fosite-handler: an authorization server that carries            *)
(* authorization_details from /authorize to /token and /introspect on the  *)
(* session pointer that fosite's memory store keeps.  Each HTTP request is *)
(* a goroutine; one step is one fosite handler.                            *)
(*                                                                         *)
(* A request names the session its handler allocates, the code or the      *)
(* access token issued to it.  The server's own client sends one request   *)
(* after another; here any number of clients do, in any order, and any of  *)
(* them may present a code or a token again.                               *)
(***************************************************************************)
EXTENDS BuiltinCodec, FiniteSets

CONSTANTS
  Requests,   \* bound: HTTP requests served
  Forms,      \* authorization_details parameters that occur
  Absent,     \* no such parameter, or no such member in a response
  Unanswered  \* abstract: no response yet

ASSUME FositeAssumption ==
  /\ Nil \notin Requests /\ Absent \notin Forms \union {Nil} /\ Unanswered # Absent
  /\ \A f \in Forms :
       /\ DOMAIN f.elems = {} => f.elems = <<>>
       /\ DecodeFormOK(f) =>
            DecodeForm(f) # Nil /\ Marshal(DecodeForm(f)) \notin {Absent, Unanswered}

VARIABLES
  strict,     \* rar's strict-marshal toggle
  pc,         \* how far request r has come
  form,       \* the authorization_details parameter of r, at /authorize
  ref,        \* the code (at /token) or the token (at /introspect) r presents
  sess,       \* the session pointer in r's requester
  details,    \* AuthorizationDetails of the session allocated by r
  inner,      \* its DefaultSession, named by the request that allocated it
  claims,     \* authorization_details in that DefaultSession's Extra map
  codes,      \* store: the code issued to r
  tokens,     \* store: the session of the token issued to r, Nil if none
  body        \* authorization_details of the response to r

request == <<form, ref, sess>>
heap    == <<details, inner, claims>>
store   == <<codes, tokens>>
vars    == <<strict, pc, request, heap, store, body>>

Goto(r, l) == pc' = [pc EXCEPT ![r] = l]

-----------------------------------------------------------------------------
\* No details: a nil slice or one without elements.
NoDetails(ds) == ds = Nil \/ ds = <<>>

-----------------------------------------------------------------------------
Init ==
  /\ strict \in BOOLEAN
  /\ pc = [r \in Requests |-> "free"]
  /\ form = [r \in Requests |-> Absent]
  /\ ref = [r \in Requests |-> Nil] /\ sess = [r \in Requests |-> Nil]
  /\ details = [r \in Requests |-> Nil]
  /\ inner = [r \in Requests |-> r] /\ claims = [r \in Requests |-> Absent]
  /\ codes = [r \in Requests |-> "none"]
  /\ tokens = [r \in Requests |-> Nil]
  /\ body = [r \in Requests |-> Absent]

\* Another goroutine of the server.
SetStrictMarshal ==
  /\ strict' \in BOOLEAN
  /\ UNCHANGED <<pc, request, heap, store, body>>

-----------------------------------------------------------------------------
(* GET /oauth2/auth *)

\* Mutant: the session is not attached.
AuthorizeHTTPSessionless(r) ==
  /\ pc[r] = "free"
  /\ \E f \in Forms \union {Absent} : form' = [form EXCEPT ![r] = f]
  /\ Goto(r, "issuing") \/ Goto(r, "refused")
  /\ UNCHANGED <<strict, ref, sess, heap, store, body>>

\* authorizeHTTPHandler up to NewAuthorizeResponse; NewAuthorizeRequest may
\* find fault with the other parameters.
AuthorizeHTTP(r) ==
  /\ pc[r] = "free"
  /\ \E f \in Forms \union {Absent} : form' = [form EXCEPT ![r] = f]
  /\ sess' = [sess EXCEPT ![r] = r]
  /\ Goto(r, "issuing") \/ Goto(r, "refused")
  /\ UNCHANGED <<strict, ref, heap, store, body>>

\* The built-in handler is composed first: it stores the request, with its
\* session pointer, under a new code.
IssueCode(r) ==
  /\ pc[r] = "issuing"
  /\ codes' = [codes EXCEPT ![r] = "active"]
  /\ Goto(r, "stashing")
  /\ UNCHANGED <<strict, request, heap, tokens, body>>

\* Mutant: ValidateAll is not called.
AcceptsUnvalidated(f) == DecodeFormOK(f)

\* DecodeForm and ValidateAll both find nothing wrong.
Accepts(f) == DecodeFormOK(f) /\ ValidateAll(DecodeForm(f)) = {}

\* detailsHandler comes second.  The log line indexes details[0].
HandleAuthorizeEndpointRequest(r) ==
  LET f == form[r]
  IN /\ pc[r] = "stashing"
     /\ \/ /\ f = Absent
           /\ Goto(r, "redirecting")
           /\ UNCHANGED details
        \/ /\ f # Absent /\ ~Accepts(f)
           /\ Goto(r, "refused")
           /\ UNCHANGED details
        \/ /\ f # Absent /\ Accepts(f)
           /\ details' = [details EXCEPT ![sess[r]] = DecodeForm(f)]
           /\ Goto(r, IF DecodeForm(f) = <<>> THEN "panicked" ELSE "redirecting")
     /\ UNCHANGED <<strict, request, inner, claims, store, body>>

\* The redirect hands the code to the client.
WriteAuthorizeResponse(r) ==
  /\ pc[r] = "redirecting"
  /\ Goto(r, "redirected")
  /\ UNCHANGED <<strict, request, heap, store, body>>

-----------------------------------------------------------------------------
(* POST /oauth2/token *)

\* tokenHTTPHandler up to NewAccessResponse.  The built-in handler replaces
\* the empty session by the one stored under the code; a code used before is
\* refused and takes tokens of its grant with it.  detailsHandler declines.
TokenHTTP(r) ==
  /\ pc[r] = "free"
  /\ \E c \in Requests :
       /\ pc[c] = "redirected"
       /\ ref' = [ref EXCEPT ![r] = c]
       /\ \/ /\ codes[c] = "active"
             /\ sess' = [sess EXCEPT ![r] = c]
             /\ Goto(r, "exchanging")
             /\ UNCHANGED tokens
          \/ /\ codes[c] = "used"
             /\ sess' = [sess EXCEPT ![r] = r]
             /\ Goto(r, "refused")
             /\ \E gone \in SUBSET {t \in Requests : tokens[t] = c} :
                  tokens' = [t \in Requests |-> IF t \in gone THEN Nil ELSE tokens[t]]
          \/ /\ sess' = [sess EXCEPT ![r] = r]   \* wrong client, or expired
             /\ Goto(r, "refused")
             /\ UNCHANGED tokens
  /\ UNCHANGED <<strict, form, heap, codes, body>>

\* The built-in PopulateTokenEndpointResponse; a code that another request
\* has used in the meantime may be noticed or not.
IssueToken(r) ==
  /\ pc[r] = "exchanging"
  /\ \/ /\ codes' = [codes EXCEPT ![ref[r]] = "used"]
        /\ tokens' = [tokens EXCEPT ![r] = sess[r]]
        /\ Goto(r, "populating")
     \/ /\ codes[ref[r]] = "used"
        /\ Goto(r, "refused")
        /\ UNCHANGED store
  /\ UNCHANGED <<strict, request, heap, body>>

\* Mutant: the details are taken off the session once they are surfaced.
PopulateTakes(r) ==
  LET ds == details[sess[r]]
  IN /\ pc[r] = "populating"
     /\ body' = IF NoDetails(ds) THEN body ELSE [body EXCEPT ![r] = Marshal(ds)]
     /\ details' = [details EXCEPT ![sess[r]] = Nil]
     /\ Goto(r, "responding")
     /\ UNCHANGED <<strict, request, inner, claims, store>>

PopulateTokenEndpointResponse(r) ==
  LET ds == details[sess[r]]
  IN /\ pc[r] = "populating"
     /\ \/ /\ NoDetails(ds)
           /\ Goto(r, "responding")
           /\ UNCHANGED body
        \/ /\ ~NoDetails(ds) /\ MarshalOK(ds, strict)
           /\ body' = [body EXCEPT ![r] = Marshal(ds)]
           /\ Goto(r, "responding")
        \/ /\ ~NoDetails(ds) /\ ~MarshalOK(ds, strict)
           /\ Goto(r, "servererror")
           /\ UNCHANGED body
     /\ UNCHANGED <<strict, request, heap, store>>

WriteAccessResponse(r) ==
  /\ pc[r] = "responding"
  /\ Goto(r, "responded")
  /\ UNCHANGED <<strict, request, heap, store, body>>

-----------------------------------------------------------------------------
(* POST /oauth2/introspect *)

\* Another request is in the middle of an assignment to the Extra map of m.
\* What touches the map meanwhile may not notice, or be "fatal error:
\* concurrent map writes" and the end of the process.
Assigned(r, m) ==
  \E q \in Requests \ {r} : pc[q] = "assigning" /\ inner[sess[q]] = m

\* Mutant: the copy is of the embedded DefaultSession only.
CloneEmbedded(r, s) ==
  /\ claims' = [claims EXCEPT ![r] = claims[inner[s]]]
  /\ UNCHANGED <<details, inner>>

\* Mutant: the embedded pointer is copied.
CloneShallow(r, s) ==
  /\ details' = [details EXCEPT ![r] = details[s]]
  /\ inner' = [inner EXCEPT ![r] = inner[s]]
  /\ UNCHANGED claims

\* sessionWithDetails.Clone, into the session allocated by r.
Clone(r, s) ==
  /\ details' = [details EXCEPT ![r] = details[s]]
  /\ claims' = [claims EXCEPT ![r] = claims[inner[s]]]
  /\ UNCHANGED inner

\* introspectHTTPHandler up to the writer: the session comes from the store,
\* either the pointer itself or a clone of it.
IntrospectHTTP(r) ==
  /\ pc[r] = "free"
  /\ \E t \in Requests :
       /\ pc[t] = "responded"
       /\ ref' = [ref EXCEPT ![r] = t]
       /\ \/ /\ tokens[t] # Nil
             /\ sess' = [sess EXCEPT ![r] = tokens[t]]
             /\ Goto(r, "claiming")
             /\ UNCHANGED heap
          \/ /\ tokens[t] # Nil
             /\ sess' = [sess EXCEPT ![r] = r]
             /\ \/ Goto(r, "claiming") /\ Clone(r, tokens[t])
                \/ Assigned(r, inner[tokens[t]]) /\ Goto(r, "crashed") /\ UNCHANGED heap
          \/ /\ sess' = [sess EXCEPT ![r] = r]   \* revoked, or expired
             /\ Goto(r, "inactive")
             /\ UNCHANGED heap
  /\ UNCHANGED <<strict, form, store, body>>

\* Up to the assignment into the map, which is the session's own.
GetExtraClaims(r) ==
  LET ds == details[sess[r]]
  IN /\ pc[r] = "claiming"
     /\ \/ NoDetails(ds) /\ Goto(r, "writing")
        \/ ~NoDetails(ds) /\ MarshalOK(ds, strict) /\ Goto(r, "assigning")
        \/ ~NoDetails(ds) /\ ~MarshalOK(ds, strict) /\ Goto(r, "panicked")
     /\ UNCHANGED <<strict, request, heap, store, body>>

\* extras["authorization_details"] = ..., which takes its time.
AssignClaim(r) ==
  /\ pc[r] = "assigning"
  /\ \/ /\ claims' = [claims EXCEPT ![inner[sess[r]]] = Marshal(details[sess[r]])]
        /\ Goto(r, "writing")
     \/ /\ Assigned(r, inner[sess[r]])
        /\ Goto(r, "crashed")
        /\ UNCHANGED claims
  /\ UNCHANGED <<strict, request, details, inner, store, body>>

\* The writer ranges over the map.
WriteIntrospectionResponse(r) ==
  /\ pc[r] = "writing"
  /\ \/ /\ body' = [body EXCEPT ![r] = claims[inner[sess[r]]]]
        /\ Goto(r, "introspected")
     \/ /\ Assigned(r, inner[sess[r]])
        /\ Goto(r, "crashed")
        /\ UNCHANGED body
  /\ UNCHANGED <<strict, request, heap, store>>

Step(r) ==
  \/ AuthorizeHTTP(r) \/ IssueCode(r) \/ HandleAuthorizeEndpointRequest(r)
  \/ WriteAuthorizeResponse(r)
  \/ TokenHTTP(r) \/ IssueToken(r) \/ PopulateTokenEndpointResponse(r)
  \/ WriteAccessResponse(r)
  \/ IntrospectHTTP(r) \/ GetExtraClaims(r) \/ AssignClaim(r)
  \/ WriteIntrospectionResponse(r)

Next ==
  /\ \A r \in Requests : pc[r] # "crashed"   \* a crash ends the process
  /\ SetStrictMarshal \/ \E r \in Requests : Step(r)

Spec == Init /\ [][Next]_vars
-----------------------------------------------------------------------------
(* Properties *)

\* Every variable has its type, and a session pointer points to a session.
TypeOK ==
  /\ strict \in BOOLEAN
  /\ pc \in [Requests -> {"free", "issuing", "stashing", "redirecting", "redirected",
                          "exchanging", "populating", "responding", "responded",
                          "claiming", "assigning", "writing", "introspected",
                          "refused", "inactive", "servererror", "panicked", "crashed"}]
  /\ form \in [Requests -> Forms \union {Absent}]
  /\ ref \in [Requests -> Requests \union {Nil}]
  /\ sess \in [Requests -> Requests \union {Nil}]
  /\ inner \in [Requests -> Requests]
  /\ codes \in [Requests -> {"none", "active", "used"}]
  /\ tokens \in [Requests -> Requests \union {Nil}]
  /\ \A r \in Requests : pc[r] # "free" => sess[r] # Nil

\* The authorization request behind a token or introspection response.
GrantOf(r) == IF pc[r] = "introspected" THEN ref[ref[r]] ELSE ref[r]

Answered(r) == pc[r] \in {"responded", "introspected"}

\* What the parameter of an authorization request asks for, as JSON text.
Asked(r) == IF form[r] = Absent THEN Absent ELSE Marshal(DecodeForm(form[r]))

\* Token and introspection responses carry the details of the authorization
\* request their grant goes back to, none other and nothing less, through
\* shared, replaced and cloned sessions (detailsHandler, sessionWithDetails);
\* for a request without the parameter, no such member.
DetailsFollowGrant ==
  \A r \in Requests : Answered(r) => body[r] = Asked(GrantOf(r))

\* A code that is exchanged, and so every token, stands for a request whose
\* details, if it had any, decode, are not empty and are well-formed: the codes
\* stored for requests that were then refused, or ended in the panic of
\* handler.go:86, are never exchanged.  A request without the parameter is let
\* through (handler.go:60-65), which session.go:34-36 denies: see
\* MissingDetailsRefused.
OnlyValidGrants ==
  \A c \in Requests :
    (\E r \in Requests : tokens[r] = c) \/ codes[c] = "used" =>
      /\ pc[c] = "redirected"
      /\ form[c] # Absent =>
           /\ DecodeFormOK(form[c]) /\ DecodeForm(form[c]) # <<>>
           /\ ValidateAll(DecodeForm(form[c])) = {}

\* What /authorize accepted can be encoded ever after, whatever the toggle:
\* /token does not fail half-way, with the token stored, and the panic in
\* GetExtraClaims is never reached.  The one panic is that of an empty array
\* (handler.go:86).
EncodingNeverFails ==
  \A r \in Requests :
    /\ pc[r] # "servererror"
    /\ pc[r] = "panicked" => form[r] # Absent /\ form[r].elems = <<>>

\* GetExtraClaims writes into a map that may be shared.  That ends the process
\* only if two introspections of one grant overlap and fosite gave the one
\* that writes the stored session itself: introspections that were each given
\* a clone cannot disturb each other (sessionWithDetails.Clone).
CrashExplained ==
  \A r \in Requests : pc[r] = "crashed" =>
    \E q \in Requests \ {r} :
      /\ pc[q] = "assigning" /\ sess[q] = ref[ref[q]]
      /\ ref[ref[r]] = ref[ref[q]]

\* The heap of shared sessions implements one immutable text for each grant.
Text(ds) == IF NoDetails(ds) THEN Absent ELSE Marshal(ds)

AskedTexts == {Absent} \union {Marshal(DecodeForm(f)) : f \in {g \in Forms : DecodeFormOK(g)}}

absGranted ==
  [r \in Requests |-> IF pc[r] = "redirected" THEN Text(details[r]) ELSE Unanswered]
absAnswer == [r \in Requests |-> IF Answered(r) THEN body[r] ELSE Unanswered]

Abstract == INSTANCE Grants WITH
  Texts <- AskedTexts, NotGranted <- Unanswered, NotAnswered <- Unanswered,
  granted <- absGranted, answer <- absAnswer

ImplementsGrants == Abstract!Spec
-----------------------------------------------------------------------------
(* A claim of the documentation that the code does not keep *)

\* session.go:34-36: nil details mean that the "client did not send an
\* authorization_details parameter; the example treats that as a hard error".
\* detailsHandler leaves the slice nil and returns no error: the code goes out.
MissingDetailsRefused ==
  \A r \in Requests : pc[r] = "redirected" => form[r] # Absent
=============================================================================

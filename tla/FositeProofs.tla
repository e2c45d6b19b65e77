---------------------------- MODULE FositeProofs ----------------------------
(* What the fosite server keeps true for any number of requests and any    *)
(* forms, and that it implements Grants.                                   *)
EXTENDS FositeHandler, TLAPS

AuthorizePhases == {"issuing", "stashing", "redirecting", "redirected"}
TokenPhases     == {"exchanging", "populating", "responding", "responded"}
ClaimPhases     == {"claiming", "assigning", "writing", "introspected"}

\* The session of a grant, from the redirect on.
Granted(c) ==
  \/ form[c] = Absent /\ details[c] = Nil
  \/ /\ form[c] \in Forms /\ Accepts(form[c]) /\ DecodeForm(form[c]) # <<>>
     /\ details[c] = DecodeForm(form[c])

Shapes ==
  /\ DOMAIN details = Requests /\ DOMAIN claims = Requests /\ DOMAIN body = Requests
  /\ \A r \in Requests : inner[r] = r

Unused(r) ==
  pc[r] = "free" =>
    /\ details[r] = Nil /\ claims[r] = Absent /\ body[r] = Absent
    /\ codes[r] = "none" /\ tokens[r] = Nil

Authorizing(r) ==
  /\ pc[r] \in AuthorizePhases => sess[r] = r
  /\ pc[r] \in {"issuing", "stashing"} => details[r] = Nil
  /\ pc[r] \in {"issuing", "stashing", "redirecting"} => claims[r] = Absent
  /\ pc[r] \in {"redirecting", "redirected"} => Granted(r)
  /\ pc[r] = "redirected" => claims[r] \in {Absent, Asked(r)}

Exchanging(r) ==
  /\ pc[r] \in TokenPhases =>
       ref[r] \in Requests /\ pc[ref[r]] = "redirected" /\ sess[r] = ref[r]
  /\ pc[r] \in {"exchanging", "populating"} => body[r] = Absent
  /\ pc[r] \in {"responding", "responded"} => body[r] = Asked(ref[r])

Stored(r) ==
  /\ tokens[r] # Nil => pc[r] \in TokenPhases \ {"exchanging"} /\ tokens[r] = ref[r]
  /\ codes[r] = "used" => pc[r] = "redirected"

\* An introspection works on the session of its grant, or on a copy of it.
Claiming(r) ==
  pc[r] \in ClaimPhases =>
    LET c == ref[ref[r]]
    IN /\ ref[r] \in Requests /\ pc[ref[r]] = "responded"
       /\ sess[r] \in {r, c}
       /\ details[sess[r]] = details[c] /\ claims[sess[r]] \in {Absent, Asked(c)}
       /\ pc[r] = "assigning" => ~NoDetails(details[sess[r]])
       /\ pc[r] = "writing" => claims[sess[r]] = Asked(c)
       /\ pc[r] = "introspected" => body[r] = Asked(c)

RequestInv(r) ==
  Unused(r) /\ Authorizing(r) /\ Exchanging(r) /\ Stored(r) /\ Claiming(r)

IInv ==
  /\ TypeOK /\ Shapes /\ EncodingNeverFails /\ CrashExplained
  /\ \A r \in Requests : RequestInv(r)

LEMMA Initially == Init => IInv
<1> SUFFICES ASSUME Init PROVE IInv
  OBVIOUS
<1>1. TypeOK /\ Shapes /\ EncodingNeverFails /\ CrashExplained
  BY DEF Init, TypeOK, Shapes, EncodingNeverFails, CrashExplained
<1>2. ASSUME NEW r \in Requests PROVE RequestInv(r)
  BY DEF Init, RequestInv, Unused, Authorizing, Exchanging, Stored, Claiming,
         AuthorizePhases, TokenPhases, ClaimPhases
<1> QED
  BY <1>1, <1>2 DEF IInv

\* Nothing in a grant's details can fail to encode, and their text is what
\* the authorization request asked for.
LEMMA GrantedText ==
  ASSUME NEW c \in Requests, Granted(c)
  PROVE  /\ Text(details[c]) = Asked(c)
         /\ NoDetails(details[c]) => Asked(c) = Absent
         /\ ~NoDetails(details[c]) =>
              Marshal(details[c]) = Asked(c) /\ \A b \in BOOLEAN : MarshalOK(details[c], b)
<1>1. CASE form[c] = Absent /\ details[c] = Nil
  BY <1>1 DEF Text, Asked, NoDetails
<1>2. CASE /\ form[c] \in Forms /\ Accepts(form[c]) /\ DecodeForm(form[c]) # <<>>
           /\ details[c] = DecodeForm(form[c])
  <2>1. form[c] # Absent /\ ~NoDetails(details[c])
    BY <1>2, FositeAssumption DEF Accepts, NoDetails
  <2>2. \A i \in DOMAIN details[c] : Validate(details[c][i]) = WellFormed
    BY <1>2 DEF Accepts, ValidateAll
  <2> QED
    BY <1>2, <2>1, <2>2 DEF Text, Asked, MarshalOK
<1> QED
  BY <1>1, <1>2 DEF Granted

\* Every request but r is left as it was, except that tokens may be revoked,
\* a code that a client has may be marked as used, and the session of a grant
\* may get the claim that it should have.
OthersSame(r) ==
  \A q \in Requests \ {r} :
    /\ pc'[q] = pc[q] /\ form'[q] = form[q] /\ ref'[q] = ref[q] /\ sess'[q] = sess[q]
    /\ details'[q] = details[q] /\ body'[q] = body[q] /\ tokens'[q] \in {tokens[q], Nil}
    /\ claims'[q] = claims[q] \/ (pc[q] = "redirected" /\ claims'[q] = Asked(q))
    /\ codes'[q] = codes[q] \/ pc[q] = "redirected"

\* What other requests refer to are grants and answered token requests, and
\* those are finished.
LEMMA OthersKeep ==
  ASSUME IInv, NEW r \in Requests, OthersSame(r), pc[r] \notin {"redirected", "responded"}
  PROVE  \A q \in Requests \ {r} : RequestInv(q)'
<1> SUFFICES ASSUME NEW q \in Requests \ {r} PROVE RequestInv(q)'
  OBVIOUS
<1>1. RequestInv(q)
  BY DEF IInv
<1>2. /\ pc'[q] = pc[q] /\ form'[q] = form[q] /\ ref'[q] = ref[q] /\ sess'[q] = sess[q]
      /\ details'[q] = details[q] /\ body'[q] = body[q]
      /\ claims'[q] = claims[q] \/ (pc[q] = "redirected" /\ claims'[q] = Asked(q))
      /\ tokens'[q] \in {tokens[q], Nil} /\ (codes'[q] = codes[q] \/ pc[q] = "redirected")
  BY DEF OthersSame
<1>3. Unused(q)'
  BY <1>1, <1>2 DEF RequestInv, Unused
<1>4. Authorizing(q)'
  BY <1>1, <1>2 DEF RequestInv, Authorizing, Granted, Asked
<1>5. ASSUME NEW c \in Requests, pc[c] = "redirected"
      PROVE  /\ pc'[c] = "redirected" /\ details'[c] = details[c]
             /\ claims'[c] \in {claims[c], Asked(c)} /\ Asked(c)' = Asked(c)
  BY <1>5 DEF OthersSame, Asked
<1>6. Exchanging(q)'
  BY <1>1, <1>2, <1>5 DEF RequestInv, Exchanging, TokenPhases
<1>7. Stored(q)'
  BY <1>1, <1>2 DEF RequestInv, Stored
<1>8. Claiming(q)'
  <2> SUFFICES ASSUME pc[q] \in ClaimPhases PROVE Claiming(q)'
    BY <1>2 DEF Claiming
  <2>1. ref[q] \in Requests /\ pc[ref[q]] = "responded" /\ Exchanging(ref[q])
    BY <1>1 DEF RequestInv, Claiming, IInv
  <2>2. PICK c \in Requests : c = ref[ref[q]] /\ pc[c] = "redirected"
    BY <2>1 DEF Exchanging, TokenPhases
  <2>3. ref'[q] = ref[q] /\ pc'[ref[q]] = "responded" /\ ref'[ref[q]] = c
    BY <1>2, <2>1, <2>2 DEF OthersSame
  <2>4. sess'[q] = sess[q] /\ sess[q] \in {q, c}
    BY <1>1, <1>2, <2>2 DEF RequestInv, Claiming
  <2>5. /\ details'[sess[q]] = details[sess[q]]
        /\ claims'[sess[q]] \in {claims[sess[q]], Asked(c)}
        /\ details'[c] = details[c] /\ Asked(c)' = Asked(c)
    BY <1>2, <1>5, <2>2, <2>4 DEF ClaimPhases
  <2> QED
    BY <1>1, <1>2, <2>1, <2>2, <2>3, <2>4, <2>5 DEF RequestInv, Claiming, NoDetails
<1> QED
  BY <1>3, <1>4, <1>6, <1>7, <1>8 DEF RequestInv

\* A step of r that ends in no failure and no crash.
LEMMA FineStep ==
  ASSUME IInv, NEW r \in Requests, OthersSame(r), TypeOK', Shapes', RequestInv(r)',
         pc[r] \notin {"redirected", "responded"}, \A q \in Requests : pc[q] # "crashed",
         pc'[r] \notin {"servererror", "crashed"},
         pc'[r] = "panicked" => form'[r] # Absent /\ form'[r].elems = <<>>
  PROVE  IInv'
<1>1. EncodingNeverFails' /\ CrashExplained'
  BY DEF IInv, EncodingNeverFails, CrashExplained, OthersSame
<1> QED
  BY <1>1, OthersKeep DEF IInv

Alive == \A q \in Requests : pc[q] # "crashed"

LEMMA AuthorizeSteps ==
  ASSUME IInv, Alive, NEW r \in Requests,
         AuthorizeHTTP(r) \/ IssueCode(r) \/ WriteAuthorizeResponse(r)
  PROVE  IInv'
<1> USE DEF Goto, request, heap, store
<1>1. TypeOK /\ Shapes /\ RequestInv(r)
  BY DEF IInv
<1>2. TypeOK' /\ Shapes' /\ OthersSame(r)
  BY <1>1, FositeAssumption
     DEF TypeOK, Shapes, OthersSame, AuthorizeHTTP, IssueCode, WriteAuthorizeResponse
<1>3. RequestInv(r)'
  BY <1>1 DEF TypeOK, Shapes, RequestInv, Unused, Authorizing, Exchanging, Stored, Claiming,
              Granted, Asked, AuthorizePhases, TokenPhases, ClaimPhases,
              AuthorizeHTTP, IssueCode, WriteAuthorizeResponse
<1> QED
  BY <1>1, <1>2, <1>3, FineStep
     DEF Alive, TypeOK, AuthorizeHTTP, IssueCode, WriteAuthorizeResponse
LEMMA StashStep ==
  ASSUME IInv, Alive, NEW r \in Requests, HandleAuthorizeEndpointRequest(r)
  PROVE  IInv'
<1> USE DEF Goto, request, heap, store
<1>1. TypeOK /\ Shapes /\ RequestInv(r)
  BY DEF IInv
<1>2. pc[r] = "stashing" /\ sess[r] = r
  BY <1>1 DEF HandleAuthorizeEndpointRequest, RequestInv, Authorizing, AuthorizePhases
<1>3. TypeOK' /\ Shapes' /\ OthersSame(r)
  BY <1>1, <1>2 DEF TypeOK, Shapes, OthersSame, HandleAuthorizeEndpointRequest
<1>4. pc'[r] = "panicked" => form'[r] # Absent /\ form'[r].elems = <<>>
  <2> SUFFICES ASSUME pc'[r] = "panicked" PROVE form'[r] # Absent /\ form'[r].elems = <<>>
    OBVIOUS
  <2>1. form' = form /\ form[r] # Absent /\ DecodeForm(form[r]) = <<>>
    BY <1>1 DEF HandleAuthorizeEndpointRequest, TypeOK
  <2>2. form[r] \in Forms
    BY <1>1, <2>1 DEF TypeOK
  <2>3. DOMAIN form[r].elems = DOMAIN DecodeForm(form[r])
    BY DEF DecodeForm
  <2>4. DOMAIN form[r].elems = {}
    BY <2>1, <2>3
  <2> QED
    BY <2>1, <2>2, <2>4, FositeAssumption
<1>5. RequestInv(r)'
  <2>1. CASE pc'[r] = "redirecting"
    <3>1. Granted(r)' /\ claims'[r] = Absent /\ sess'[r] = r /\ tokens'[r] = Nil
      BY <1>1, <1>2, <2>1
         DEF HandleAuthorizeEndpointRequest, TypeOK, Shapes, Granted, Accepts, RequestInv,
             Authorizing, Stored, TokenPhases
    <3> QED
      BY <1>1, <1>2, <2>1, <3>1
         DEF HandleAuthorizeEndpointRequest, RequestInv, Unused, Authorizing, Exchanging, Stored,
             Claiming, AuthorizePhases, TokenPhases, ClaimPhases
  <2>2. CASE pc'[r] # "redirecting"
    <3>1. pc'[r] \in {"refused", "panicked"}
      BY <1>1, <2>2 DEF HandleAuthorizeEndpointRequest, TypeOK
    <3> QED
      BY <1>1, <1>2, <3>1
         DEF HandleAuthorizeEndpointRequest, RequestInv, Unused, Authorizing, Exchanging, Stored,
             Claiming, AuthorizePhases, TokenPhases, ClaimPhases
  <2> QED
    BY <2>1, <2>2
<1> QED
  BY <1>1, <1>2, <1>3, <1>4, <1>5, FineStep DEF Alive, TypeOK, HandleAuthorizeEndpointRequest

LEMMA TokenHTTPStep ==
  ASSUME IInv, Alive, NEW r \in Requests, TokenHTTP(r)
  PROVE  IInv'
<1> USE DEF Goto, request, heap, store
<1>1. TypeOK /\ Shapes /\ RequestInv(r)
  BY DEF IInv
<1>2. TypeOK' /\ Shapes' /\ OthersSame(r)
  BY <1>1, FositeAssumption DEF TypeOK, Shapes, OthersSame, TokenHTTP
<1>3. pc[r] = "free" /\ tokens[r] = Nil /\ codes'[r] = "none" /\ body'[r] = Absent
  BY <1>1 DEF TokenHTTP, RequestInv, Unused
<1>4. tokens'[r] = Nil
  BY <1>1, <1>3 DEF TokenHTTP, TypeOK
<1>5. \/ pc'[r] = "refused"
      \/ /\ pc'[r] = "exchanging" /\ ref'[r] \in Requests
         /\ pc'[ref'[r]] = "redirected" /\ sess'[r] = ref'[r]
  BY <1>1 DEF TokenHTTP, TypeOK
<1>6. RequestInv(r)'
  <2>1. Unused(r)' /\ Authorizing(r)' /\ Stored(r)'
    BY <1>3, <1>4, <1>5 DEF Unused, Authorizing, Stored, AuthorizePhases
  <2>2. Exchanging(r)'
    BY <1>3, <1>5 DEF Exchanging, TokenPhases
  <2>3. Claiming(r)'
    BY <1>5 DEF Claiming, ClaimPhases
  <2> QED
    BY <2>1, <2>2, <2>3 DEF RequestInv
<1> QED
  BY <1>2, <1>3, <1>5, <1>6, FineStep DEF Alive

LEMMA IssueTokenStep ==
  ASSUME IInv, Alive, NEW r \in Requests, IssueToken(r)
  PROVE  IInv'
<1> USE DEF Goto, request, heap, store
<1>1. TypeOK /\ Shapes /\ RequestInv(r)
  BY DEF IInv
<1>2. /\ pc[r] = "exchanging" /\ ref[r] \in Requests /\ pc[ref[r]] = "redirected"
      /\ sess[r] = ref[r] /\ ref[r] # r
  BY <1>1 DEF IssueToken, RequestInv, Exchanging, TokenPhases
<1>3. TypeOK' /\ Shapes' /\ OthersSame(r)
  BY <1>1, <1>2 DEF TypeOK, Shapes, OthersSame, IssueToken
<1>4. RequestInv(r)'
  BY <1>1, <1>2
     DEF TypeOK, Shapes, RequestInv, Unused, Authorizing, Exchanging, Stored, Claiming,
         AuthorizePhases, TokenPhases, ClaimPhases, IssueToken
<1> QED
  BY <1>1, <1>2, <1>3, <1>4, FineStep DEF Alive, TypeOK, IssueToken

LEMMA PopulateStep ==
  ASSUME IInv, Alive, NEW r \in Requests, PopulateTokenEndpointResponse(r)
  PROVE  IInv'
<1> USE DEF Goto, request, heap, store
<1>1. TypeOK /\ Shapes /\ RequestInv(r)
  BY DEF IInv
<1>2. PICK c \in Requests : /\ pc[r] = "populating" /\ c = ref[r] /\ pc[c] = "redirected"
                            /\ sess[r] = c /\ c # r /\ body[r] = Absent
  BY <1>1 DEF PopulateTokenEndpointResponse, RequestInv, Exchanging, TokenPhases
<1>3. Granted(c)
  BY <1>2 DEF IInv, RequestInv, Authorizing
<1>4. pc' = [pc EXCEPT ![r] = "responding"] /\ body'[r] = Asked(c)
  BY <1>1, <1>2, <1>3, GrantedText DEF PopulateTokenEndpointResponse, TypeOK, Shapes
<1>5. TypeOK' /\ Shapes' /\ OthersSame(r)
  BY <1>1, <1>2, <1>4 DEF TypeOK, Shapes, OthersSame, PopulateTokenEndpointResponse
<1>6. RequestInv(r)'
  BY <1>1, <1>2, <1>4
     DEF TypeOK, Shapes, RequestInv, Unused, Authorizing, Exchanging, Stored, Claiming, Asked,
         AuthorizePhases, TokenPhases, ClaimPhases, PopulateTokenEndpointResponse
<1> QED
  BY <1>1, <1>2, <1>4, <1>5, <1>6, FineStep DEF Alive, TypeOK

LEMMA RespondStep ==
  ASSUME IInv, Alive, NEW r \in Requests, WriteAccessResponse(r)
  PROVE  IInv'
<1> USE DEF Goto, request, heap, store
<1>1. TypeOK /\ Shapes /\ RequestInv(r)
  BY DEF IInv
<1>2. TypeOK' /\ Shapes' /\ OthersSame(r)
  BY <1>1 DEF TypeOK, Shapes, OthersSame, WriteAccessResponse
<1>3. ref[r] # r /\ pc[r] = "responding"
  BY <1>1 DEF WriteAccessResponse, RequestInv, Exchanging, TokenPhases
<1>4. RequestInv(r)'
  BY <1>1, <1>3
     DEF TypeOK, Shapes, RequestInv, Unused, Authorizing, Exchanging, Stored, Claiming, Asked,
         AuthorizePhases, TokenPhases, ClaimPhases, WriteAccessResponse
<1> QED
  BY <1>1, <1>2, <1>3, <1>4, FineStep DEF Alive, TypeOK, WriteAccessResponse
\* The grant behind an introspection, and the sessions it may touch.
LEMMA GrantBehind ==
  ASSUME IInv, NEW r \in Requests, pc[r] \in ClaimPhases
  PROVE  \E c \in Requests :
           /\ c = ref[ref[r]] /\ pc[c] = "redirected" /\ Granted(c) /\ c # r
           /\ ref[r] \in Requests /\ pc[ref[r]] = "responded" /\ ref[r] # r
           /\ sess[r] \in {r, c} /\ details[sess[r]] = details[c]
           /\ claims[sess[r]] \in {Absent, Asked(c)} /\ Claiming(r)
<1>1. ref[r] \in Requests /\ pc[ref[r]] = "responded" /\ Claiming(r)
  BY DEF IInv, RequestInv, Claiming
<1>2. PICK c \in Requests : c = ref[ref[r]] /\ pc[c] = "redirected"
  BY <1>1 DEF IInv, RequestInv, Exchanging, TokenPhases
<1>3. Granted(c)
  BY <1>2 DEF IInv, RequestInv, Authorizing
<1>4. /\ sess[r] \in {r, c} /\ details[sess[r]] = details[c]
      /\ claims[sess[r]] \in {Absent, Asked(c)}
  BY <1>1, <1>2 DEF Claiming
<1> QED
  BY <1>1, <1>2, <1>3, <1>4 DEF ClaimPhases

\* The step of r that crashes the server over a map m of a grant's session.
LEMMA CrashStep ==
  ASSUME IInv, Alive, NEW r \in Requests, NEW m \in Requests, pc[m] = "redirected",
         Assigned(r, m) \/ Assigned(r, r), OthersSame(r), TypeOK', Shapes', RequestInv(r)',
         pc[r] \in {"free"} \union ClaimPhases, pc'[r] = "crashed",
         ref'[r] \in Requests \ {r}, ref[ref'[r]] = m
  PROVE  IInv'
<1>1. PICK q \in Requests \ {r} : pc[q] = "assigning" /\ sess[q] \in {m, r}
  BY GrantBehind DEF Assigned, IInv, Shapes, ClaimPhases
<1>2. PICK c \in Requests : c = ref[ref[q]] /\ pc[c] = "redirected" /\ sess[q] \in {q, c}
                            /\ ref[q] \in Requests /\ pc[ref[q]] = "responded"
  BY <1>1, GrantBehind DEF ClaimPhases
<1>3. c = m /\ sess[q] = m
  BY <1>1, <1>2 DEF ClaimPhases
<1>4. pc'[q] = "assigning" /\ sess'[q] = m /\ ref'[ref'[q]] = m /\ ref'[ref'[r]] = m
  <2>1. ref[q] \in Requests \ {r}
    BY <1>2 DEF ClaimPhases
  <2>2. pc'[q] = pc[q] /\ sess'[q] = sess[q] /\ ref'[q] = ref[q]
    BY DEF OthersSame
  <2>3. \A p \in Requests \ {r} : ref'[p] = ref[p]
    BY DEF OthersSame
  <2>4. ref'[ref[q]] = ref[ref[q]] /\ ref'[ref'[r]] = ref[ref'[r]]
    BY <2>1, <2>3
  <2> QED
    BY <1>1, <1>2, <1>3, <2>2, <2>4
<1>5. CrashExplained'
  <2>1. \A p \in Requests : pc'[p] = "crashed" => p = r
    BY DEF OthersSame, Alive
  <2> QED
    BY <1>4, <2>1 DEF CrashExplained
<1>6. EncodingNeverFails'
  BY DEF IInv, EncodingNeverFails, OthersSame
<1>7. pc[r] \notin {"redirected", "responded"}
  BY DEF ClaimPhases
<1> QED
  BY <1>5, <1>6, <1>7, OthersKeep DEF IInv

\* A crashed request promises nothing but that it has no token.
LEMMA CrashedInv ==
  ASSUME NEW r \in Requests, pc'[r] = "crashed", tokens'[r] = Nil, codes'[r] # "used"
  PROVE  RequestInv(r)'
BY DEF RequestInv, Unused, Authorizing, Exchanging, Stored, Claiming,
       AuthorizePhases, TokenPhases, ClaimPhases

LEMMA IntrospectStep ==
  ASSUME IInv, Alive, NEW r \in Requests, IntrospectHTTP(r)
  PROVE  IInv'
<1> USE DEF Goto, request, heap, store
<1>1. TypeOK /\ Shapes /\ RequestInv(r)
  BY DEF IInv
<1>2. /\ pc[r] = "free" /\ tokens[r] = Nil /\ codes[r] = "none" /\ claims[r] = Absent
      /\ details[r] = Nil /\ body[r] = Absent
  BY <1>1 DEF IntrospectHTTP, RequestInv, Unused
<1>3. TypeOK' /\ Shapes' /\ OthersSame(r)
  BY <1>1, FositeAssumption DEF TypeOK, Shapes, OthersSame, IntrospectHTTP, Clone
<1>4. /\ form' = form /\ tokens' = tokens /\ codes' = codes /\ body' = body
      /\ ref'[r] \in Requests \ {r} /\ pc[ref'[r]] = "responded"
  BY <1>1 DEF IntrospectHTTP, TypeOK
<1>5. CASE pc'[r] = "inactive"
  <2>1. RequestInv(r)'
    BY <1>2, <1>4, <1>5
       DEF RequestInv, Unused, Authorizing, Exchanging, Stored, Claiming,
           AuthorizePhases, TokenPhases, ClaimPhases
  <2> QED
    BY <1>2, <1>3, <1>5, <2>1, FineStep DEF Alive
<1>6. ASSUME pc'[r] # "inactive"
      PROVE  IInv'
  <2>1. PICK t \in Requests \ {r} :
          /\ pc[t] = "responded" /\ ref'[r] = t /\ tokens[t] # Nil
          /\ \/ sess'[r] = tokens[t] /\ pc'[r] = "claiming" /\ UNCHANGED heap
             \/ sess'[r] = r /\ pc'[r] = "claiming" /\ Clone(r, tokens[t])
             \/ /\ sess'[r] = r /\ pc'[r] = "crashed" /\ Assigned(r, inner[tokens[t]])
                /\ UNCHANGED heap
    BY <1>1, <1>6 DEF IntrospectHTTP, TypeOK
  <2>2. PICK c \in Requests : c = ref[t] /\ c = tokens[t] /\ pc[c] = "redirected" /\ c # r
    BY <1>2, <2>1 DEF IInv, RequestInv, Exchanging, Stored, TokenPhases
  <2>3. Granted(c) /\ claims[c] \in {Absent, Asked(c)} /\ inner[c] = c
    BY <1>1, <2>2 DEF IInv, RequestInv, Authorizing, Shapes
  <2>4. /\ ref'[t] = c /\ pc'[t] = "responded" /\ details'[c] = details[c]
        /\ claims'[c] = claims[c] /\ Asked(c)' = Asked(c)
    <3>1. claims'[c] = claims[c]
      BY <1>1, <2>1, <2>2 DEF Clone, Shapes
    <3> QED
      BY <1>3, <2>1, <2>2, <3>1 DEF OthersSame, Asked
  <2>5. CASE pc'[r] = "crashed"
    BY <1>2, <1>3, <1>4, <2>1, <2>2, <2>3, <2>5, CrashedInv, CrashStep
  <2>6. CASE pc'[r] = "claiming"
    <3>1. /\ sess'[r] \in {r, c} /\ details'[sess'[r]] = details[c]
          /\ claims'[sess'[r]] = claims[c]
      BY <1>1, <2>1, <2>2, <2>3, <2>6 DEF Clone, Shapes
    <3>2. Claiming(r)'
      BY <2>1, <2>3, <2>4, <2>6, <3>1 DEF Claiming
    <3>3. Unused(r)' /\ Authorizing(r)' /\ Exchanging(r)' /\ Stored(r)'
      BY <1>2, <1>4, <2>6
         DEF Unused, Authorizing, Exchanging, Stored, AuthorizePhases, TokenPhases
    <3> QED
      BY <1>2, <1>3, <2>6, <3>2, <3>3, FineStep DEF Alive, RequestInv
  <2> QED
    BY <2>1, <2>5, <2>6
<1> QED
  BY <1>5, <1>6

LEMMA GetClaimsStep ==
  ASSUME IInv, Alive, NEW r \in Requests, GetExtraClaims(r)
  PROVE  IInv'
<1> USE DEF Goto, request, heap, store
<1>1. TypeOK /\ Shapes /\ RequestInv(r) /\ pc[r] = "claiming"
  BY DEF IInv, GetExtraClaims
<1>2. PICK c \in Requests :
        /\ c = ref[ref[r]] /\ pc[c] = "redirected" /\ Granted(c) /\ c # r
        /\ ref[r] \in Requests /\ pc[ref[r]] = "responded" /\ ref[r] # r
        /\ sess[r] \in {r, c} /\ details[sess[r]] = details[c]
        /\ claims[sess[r]] \in {Absent, Asked(c)}
  BY <1>1, GrantBehind DEF ClaimPhases
<1>3. \/ pc' = [pc EXCEPT ![r] = "writing"] /\ NoDetails(details[c])
      \/ pc' = [pc EXCEPT ![r] = "assigning"] /\ ~NoDetails(details[c])
  BY <1>1, <1>2, GrantedText DEF GetExtraClaims, TypeOK
<1>4. UNCHANGED <<strict, request, heap, store, body>>
  BY DEF GetExtraClaims
<1>5. TypeOK' /\ Shapes' /\ OthersSame(r)
  BY <1>1, <1>3, <1>4 DEF TypeOK, Shapes, OthersSame
<1>6. pc'[r] \in {"writing", "assigning"} /\ pc'[ref[r]] = "responded"
  BY <1>1, <1>2, <1>3 DEF TypeOK
<1>7. NoDetails(details[c]) => Asked(c) = Absent
  BY <1>2, GrantedText
<1>8. Asked(c)' = Asked(c) /\ (NoDetails(details[sess[r]])' <=> NoDetails(details[c]))
  BY <1>2, <1>4 DEF Asked, NoDetails
<1>9. pc'[r] = "writing" <=> NoDetails(details[c])
  BY <1>1, <1>3 DEF TypeOK
<1>10. Claiming(r)'
  BY <1>2, <1>4, <1>6, <1>7, <1>8, <1>9 DEF Claiming
<1>11. Unused(r)' /\ Authorizing(r)' /\ Exchanging(r)' /\ Stored(r)'
  BY <1>1, <1>4, <1>6
     DEF RequestInv, Unused, Authorizing, Exchanging, Stored, AuthorizePhases, TokenPhases
<1> QED
  BY <1>1, <1>5, <1>6, <1>10, <1>11, FineStep DEF Alive, RequestInv
\* AssignClaim, when it succeeds.
LEMMA AssignStep ==
  ASSUME IInv, Alive, NEW r \in Requests, AssignClaim(r), pc'[r] # "crashed"
  PROVE  IInv'
<1> USE DEF Goto, request, heap, store
<1>1. TypeOK /\ Shapes /\ RequestInv(r) /\ pc[r] = "assigning"
  BY DEF IInv, AssignClaim
<1>2. PICK c \in Requests :
        /\ c = ref[ref[r]] /\ pc[c] = "redirected" /\ Granted(c) /\ c # r
        /\ ref[r] \in Requests /\ pc[ref[r]] = "responded" /\ ref[r] # r
        /\ sess[r] \in {r, c} /\ details[sess[r]] = details[c] /\ Claiming(r)
  BY <1>1, GrantBehind DEF ClaimPhases
<1>3. Marshal(details[sess[r]]) = Asked(c)
  BY <1>1, <1>2, GrantedText DEF Claiming, ClaimPhases
<1>4. /\ pc' = [pc EXCEPT ![r] = "writing"]
      /\ claims' = [claims EXCEPT ![sess[r]] = Asked(c)]
      /\ UNCHANGED <<strict, request, details, inner, store, body>>
  BY <1>1, <1>2, <1>3 DEF AssignClaim, TypeOK, Shapes
<1>5. OthersSame(r)
  BY <1>1, <1>2, <1>4 DEF OthersSame, Shapes, TypeOK
<1>6. TypeOK' /\ Shapes'
  BY <1>1, <1>4 DEF TypeOK, Shapes
<1>7. claims'[sess'[r]] = Asked(c) /\ pc'[r] = "writing" /\ pc'[ref[r]] = "responded"
  BY <1>1, <1>2, <1>4 DEF TypeOK, Shapes
<1>8. Asked(c)' = Asked(c)
  BY <1>4 DEF Asked
<1>9. Claiming(r)'
  BY <1>2, <1>4, <1>7, <1>8 DEF Claiming
<1>10. Unused(r)' /\ Authorizing(r)' /\ Exchanging(r)' /\ Stored(r)'
  BY <1>1, <1>4, <1>7
     DEF RequestInv, Unused, Authorizing, Exchanging, Stored, AuthorizePhases, TokenPhases
<1> QED
  BY <1>1, <1>5, <1>6, <1>7, <1>9, <1>10, FineStep DEF Alive, RequestInv

\* WriteIntrospectionResponse, when it succeeds.
LEMMA IntrospectedStep ==
  ASSUME IInv, Alive, NEW r \in Requests, WriteIntrospectionResponse(r), pc'[r] # "crashed"
  PROVE  IInv'
<1> USE DEF Goto, request, heap, store
<1>1. TypeOK /\ Shapes /\ RequestInv(r) /\ pc[r] = "writing"
  BY DEF IInv, WriteIntrospectionResponse
<1>2. PICK c \in Requests :
        /\ c = ref[ref[r]] /\ c # r
        /\ ref[r] \in Requests /\ pc[ref[r]] = "responded" /\ ref[r] # r
        /\ sess[r] \in {r, c} /\ details[sess[r]] = details[c] /\ Claiming(r)
  BY <1>1, GrantBehind DEF ClaimPhases
<1>3. claims[sess[r]] = Asked(c)
  BY <1>1, <1>2 DEF Claiming, ClaimPhases
<1>4. /\ pc' = [pc EXCEPT ![r] = "introspected"] /\ body' = [body EXCEPT ![r] = Asked(c)]
      /\ UNCHANGED <<strict, request, heap, store>>
  BY <1>1, <1>2, <1>3 DEF WriteIntrospectionResponse, TypeOK, Shapes
<1>5. TypeOK' /\ Shapes' /\ OthersSame(r)
  BY <1>1, <1>4 DEF OthersSame, Shapes, TypeOK
<1>6. pc'[r] = "introspected" /\ body'[r] = Asked(c) /\ pc'[ref[r]] = "responded"
  BY <1>1, <1>2, <1>4 DEF TypeOK, Shapes
<1>7. Asked(c)' = Asked(c)
  BY <1>4 DEF Asked
<1>8. Claiming(r)'
  BY <1>2, <1>3, <1>4, <1>6, <1>7 DEF Claiming
<1>9. Unused(r)' /\ Authorizing(r)' /\ Exchanging(r)' /\ Stored(r)'
  BY <1>1, <1>4, <1>6
     DEF RequestInv, Unused, Authorizing, Exchanging, Stored, AuthorizePhases, TokenPhases
<1> QED
  BY <1>1, <1>5, <1>6, <1>8, <1>9, FineStep DEF Alive, RequestInv

\* Either of them, when it crashes the server.
LEMMA OverlapStep ==
  ASSUME IInv, Alive, NEW r \in Requests, pc'[r] = "crashed",
         AssignClaim(r) \/ WriteIntrospectionResponse(r)
  PROVE  IInv'
<1> USE DEF Goto, request, heap, store
<1>1. TypeOK /\ Shapes /\ RequestInv(r) /\ pc[r] \in ClaimPhases
  BY DEF IInv, AssignClaim, WriteIntrospectionResponse, ClaimPhases
<1>2. PICK c \in Requests :
        /\ c = ref[ref[r]] /\ pc[c] = "redirected" /\ ref[r] \in Requests \ {r}
        /\ sess[r] \in {r, c}
  BY <1>1, GrantBehind
<1>3. /\ pc' = [pc EXCEPT ![r] = "crashed"] /\ Assigned(r, sess[r])
      /\ UNCHANGED <<strict, request, heap, store, body>>
  BY <1>1, <1>2 DEF AssignClaim, WriteIntrospectionResponse, TypeOK, Shapes
<1>4. TypeOK' /\ Shapes' /\ OthersSame(r)
  <2>1. TypeOK'
    BY <1>1, <1>3 DEF TypeOK, ClaimPhases
  <2>2. Shapes' /\ OthersSame(r)
    BY <1>1, <1>3 DEF OthersSame, Shapes, TypeOK
  <2> QED
    BY <2>1, <2>2
<1>5. tokens'[r] = Nil /\ codes'[r] # "used"
  BY <1>1, <1>3 DEF RequestInv, Stored, TokenPhases, ClaimPhases
<1> QED
  BY <1>1, <1>2, <1>3, <1>4, <1>5, CrashedInv, CrashStep
LEMMA StepKeepsInv == IInv /\ [Next]_vars => IInv'
<1> SUFFICES ASSUME IInv, [Next]_vars PROVE IInv'
  OBVIOUS
<1>1. CASE SetStrictMarshal \/ UNCHANGED vars
  <2>1. /\ strict' \in BOOLEAN
        /\ UNCHANGED <<pc, form, ref, sess, details, inner, claims, codes, tokens, body>>
    BY <1>1 DEF SetStrictMarshal, vars, request, heap, store, IInv, TypeOK
  <2>2. TypeOK' /\ Shapes' /\ EncodingNeverFails' /\ CrashExplained'
    BY <2>1 DEF IInv, TypeOK, Shapes, EncodingNeverFails, CrashExplained
  <2>3. ASSUME NEW r \in Requests PROVE RequestInv(r)'
    BY <2>1 DEF IInv, RequestInv, Unused, Authorizing, Exchanging, Stored, Claiming, Granted,
                Asked, NoDetails
  <2> QED
    BY <2>2, <2>3 DEF IInv
<1>2. ASSUME Alive, NEW r \in Requests, Step(r)
      PROVE  IInv'
  <2>1. CASE AuthorizeHTTP(r) \/ IssueCode(r) \/ WriteAuthorizeResponse(r)
    BY <1>2, <2>1, AuthorizeSteps
  <2>2. CASE HandleAuthorizeEndpointRequest(r)
    BY <1>2, <2>2, StashStep
  <2>3. CASE TokenHTTP(r)
    BY <1>2, <2>3, TokenHTTPStep
  <2>4. CASE IssueToken(r)
    BY <1>2, <2>4, IssueTokenStep
  <2>5. CASE PopulateTokenEndpointResponse(r)
    BY <1>2, <2>5, PopulateStep
  <2>6. CASE WriteAccessResponse(r)
    BY <1>2, <2>6, RespondStep
  <2>7. CASE IntrospectHTTP(r)
    BY <1>2, <2>7, IntrospectStep
  <2>8. CASE GetExtraClaims(r)
    BY <1>2, <2>8, GetClaimsStep
  <2>9. CASE AssignClaim(r) \/ WriteIntrospectionResponse(r)
    BY <1>2, <2>9, AssignStep, IntrospectedStep, OverlapStep
  <2> QED
    BY <1>2, <2>1, <2>2, <2>3, <2>4, <2>5, <2>6, <2>7, <2>8, <2>9 DEF Step
<1> QED
  BY <1>1, <1>2 DEF Next, Alive

LEMMA IInvHolds == Spec => []IInv
  BY Initially, StepKeepsInv, PTL DEF Spec

-----------------------------------------------------------------------------
\* Every session pointer in use points to a session.
THEOREM FositeTypes == Spec => []TypeOK
<1>1. IInv => TypeOK
  BY DEF IInv
<1> QED
  BY <1>1, IInvHolds, PTL

\* detailsHandler, sessionWithDetails: whatever the number of requests, every
\* response carries the details of its own grant.
THEOREM DetailsFollow == Spec => []DetailsFollowGrant
<1>1. ASSUME IInv, NEW r \in Requests, Answered(r)
      PROVE  body[r] = Asked(GrantOf(r))
  BY <1>1 DEF IInv, RequestInv, Exchanging, Claiming, Answered, GrantOf, ClaimPhases
<1>2. IInv => DetailsFollowGrant
  BY <1>1 DEF DetailsFollowGrant
<1> QED
  BY <1>2, IInvHolds, PTL

\* HandleAuthorizeEndpointRequest: only details found well-formed are granted.
THEOREM ValidGrants == Spec => []OnlyValidGrants
<1>1. ASSUME IInv, NEW c \in Requests,
             (\E r \in Requests : tokens[r] = c) \/ codes[c] = "used"
      PROVE  pc[c] = "redirected" /\ Granted(c)
  <2>1. pc[c] = "redirected"
    BY <1>1, FositeAssumption
       DEF IInv, RequestInv, Exchanging, Stored, TokenPhases
  <2> QED
    BY <1>1, <2>1 DEF IInv, RequestInv, Authorizing
<1>2. IInv => OnlyValidGrants
  BY <1>1 DEF OnlyValidGrants, Granted, Accepts
<1> QED
  BY <1>2, IInvHolds, PTL

\* PopulateTokenEndpointResponse, GetExtraClaims: their error exits are dead,
\* whatever becomes of the toggle.
THEOREM EncodingTotal == Spec => []EncodingNeverFails
<1>1. IInv => EncodingNeverFails
  BY DEF IInv
<1> QED
  BY <1>1, IInvHolds, PTL

\* sessionWithDetails.Clone: introspections of clones never crash the server.
THEOREM CrashCause == Spec => []CrashExplained
<1>1. IInv => CrashExplained
  BY DEF IInv
<1> QED
  BY <1>1, IInvHolds, PTL
-----------------------------------------------------------------------------
(* Refinement *)

LEMMA InitRefines == Init => Abstract!Init
  BY DEF Init, Abstract!Init, absGranted, absAnswer, Answered

\* Texts that were asked for are texts, and none of them means "not yet".
LEMMA GrantedIsText ==
  ASSUME NEW c \in Requests, Granted(c)
  PROVE  Text(details[c]) \in AskedTexts /\ Text(details[c]) # Unanswered
<1>1. (form[c] \in Forms /\ Accepts(form[c])) \/ Text(details[c]) = Absent
  BY DEF Granted, Text, NoDetails
<1>2. Text(details[c]) = Asked(c)
  BY GrantedText
<1> QED
  BY <1>1, <1>2, FositeAssumption DEF Asked, AskedTexts, Accepts

\* Only three steps are seen by Grants: one grants, two answer.
LEMMA NextRefines == IInv /\ [Next]_vars => [Abstract!Next]_<<absGranted, absAnswer>>
<1> SUFFICES ASSUME IInv, [Next]_vars PROVE [Abstract!Next]_<<absGranted, absAnswer>>
  OBVIOUS
<1> USE DEF Goto, request, heap, store
<1>1. TypeOK /\ Shapes /\ IInv'
  BY StepKeepsInv DEF IInv
<1>2. ASSUME NEW r \in Requests, WriteAuthorizeResponse(r)
      PROVE  Abstract!Grant(r)
  <2>1. /\ pc' = [pc EXCEPT ![r] = "redirected"] /\ pc[r] = "redirecting"
        /\ details' = details /\ body' = body
    BY <1>2 DEF WriteAuthorizeResponse
  <2>2. Text(details[r]) \in AskedTexts
    BY <2>1, GrantedIsText DEF IInv, RequestInv, Authorizing
  <2>3. absGranted[r] = Unanswered
    BY <2>1 DEF absGranted
  <2>4. absGranted' = [absGranted EXCEPT ![r] = Text(details[r])]
    BY <1>1, <2>1 DEF absGranted, TypeOK, Text, NoDetails
  <2>5. absAnswer' = absAnswer
    BY <1>1, <2>1 DEF absAnswer, Answered, TypeOK
  <2> QED
    BY <2>2, <2>3, <2>4, <2>5 DEF Abstract!Grant
<1>3. ASSUME NEW r \in Requests,
             WriteAccessResponse(r) \/ (WriteIntrospectionResponse(r) /\ pc'[r] # "crashed")
      PROVE  \E c \in Requests : Abstract!Answer(r, c)
  <2>1. PICK l \in {"responded", "introspected"} :
          pc' = [pc EXCEPT ![r] = l] /\ ~Answered(r) /\ details' = details
    BY <1>1, <1>3 DEF WriteAccessResponse, WriteIntrospectionResponse, Answered, TypeOK
  <2>2. Answered(r)' /\ pc[r] # "redirected" /\ ref' = ref /\ form' = form
    BY <1>1, <1>3, <2>1
       DEF Answered, TypeOK, WriteAccessResponse, WriteIntrospectionResponse
  <2>3. PICK c \in Requests : c = GrantOf(r)' /\ pc'[c] = "redirected"
    BY <1>1, <2>2 DEF IInv, RequestInv, Exchanging, Claiming, Answered, GrantOf,
                      TokenPhases, ClaimPhases
  <2>4. pc[c] = "redirected" /\ Granted(c)
    BY <1>1, <2>1, <2>3 DEF IInv, RequestInv, Authorizing, TypeOK
  <2>5. body'[r] = Text(details[c])
    BY <1>1, <2>2, <2>3, <2>4, GrantedText
       DEF IInv, RequestInv, Exchanging, Claiming, Answered, GrantOf, ClaimPhases, Asked
  <2>6. absGranted[c] = Text(details[c]) /\ absGranted[c] # Unanswered
    BY <2>4, GrantedIsText DEF absGranted
  <2>7. absGranted' = absGranted
    BY <1>1, <2>1, <2>2 DEF absGranted, TypeOK, Text, NoDetails
  <2>8. absAnswer[r] = Unanswered /\ absAnswer' = [absAnswer EXCEPT ![r] = body'[r]]
    BY <1>1, <1>3, <2>1, <2>2
       DEF absAnswer, Answered, TypeOK, WriteAccessResponse, WriteIntrospectionResponse, Shapes
  <2> QED
    BY <2>5, <2>6, <2>7, <2>8 DEF Abstract!Answer
<1>4. ASSUME NEW r \in Requests, Step(r), pc'[r] \notin {"redirected", "responded", "introspected"}
      PROVE  UNCHANGED <<absGranted, absAnswer>>
  <2>1. pc[r] \notin {"redirected", "responded", "introspected"}
    BY <1>4 DEF Step, AuthorizeHTTP, IssueCode, HandleAuthorizeEndpointRequest,
                WriteAuthorizeResponse, TokenHTTP, IssueToken, PopulateTokenEndpointResponse,
                WriteAccessResponse, IntrospectHTTP, GetExtraClaims, AssignClaim,
                WriteIntrospectionResponse
  <2>2. \A q \in Requests \ {r} : pc'[q] = pc[q]
    BY <1>1, <1>4
       DEF TypeOK, Step, AuthorizeHTTP, IssueCode, HandleAuthorizeEndpointRequest,
           WriteAuthorizeResponse, TokenHTTP, IssueToken, PopulateTokenEndpointResponse,
           WriteAccessResponse, IntrospectHTTP, GetExtraClaims, AssignClaim,
           WriteIntrospectionResponse
  <2>3. \A q \in Requests \ {r} : body'[q] = body[q]
    BY <1>1, <1>4
       DEF Shapes, Step, AuthorizeHTTP, IssueCode, HandleAuthorizeEndpointRequest,
           WriteAuthorizeResponse, TokenHTTP, IssueToken, PopulateTokenEndpointResponse,
           WriteAccessResponse, IntrospectHTTP, GetExtraClaims, AssignClaim,
           WriteIntrospectionResponse
  <2>4. pc[r] = "stashing" => sess[r] = r
    BY DEF IInv, RequestInv, Authorizing, AuthorizePhases
  <2>5. \A q \in Requests \ {r} : details'[q] = details[q]
    BY <1>1, <1>4, <2>4
       DEF Shapes, Step, AuthorizeHTTP, IssueCode, HandleAuthorizeEndpointRequest,
           WriteAuthorizeResponse, TokenHTTP, IssueToken, PopulateTokenEndpointResponse,
           WriteAccessResponse, IntrospectHTTP, Clone, GetExtraClaims, AssignClaim,
           WriteIntrospectionResponse
  <2>6. \A q \in Requests : /\ (pc'[q] = "redirected") = (pc[q] = "redirected")
                             /\ Answered(q)' = Answered(q)
    BY <1>4, <2>1, <2>2 DEF Answered
  <2>7. \A q \in Requests : pc[q] = "redirected" => Text(details[q])' = Text(details[q])
    BY <2>1, <2>5 DEF Text, NoDetails
  <2>8. absGranted' = absGranted
    BY <2>6, <2>7 DEF absGranted
  <2>9. \A q \in Requests : Answered(q) => body'[q] = body[q]
    BY <2>1, <2>3 DEF Answered
  <2>10. absAnswer' = absAnswer
    BY <2>6, <2>9 DEF absAnswer
  <2> QED
    BY <2>8, <2>10
<1>5. ASSUME NEW r \in Requests, Step(r)
      PROVE  [Abstract!Next]_<<absGranted, absAnswer>>
  <2>1. CASE WriteAuthorizeResponse(r)
    BY <1>2, <2>1 DEF Abstract!Next
  <2>2. CASE WriteAccessResponse(r)
    BY <1>3, <2>2 DEF Abstract!Next
  <2>3. CASE WriteIntrospectionResponse(r) /\ pc'[r] # "crashed"
    BY <1>3, <2>3 DEF Abstract!Next
  <2>4. CASE pc'[r] \notin {"redirected", "responded", "introspected"}
    BY <1>4, <1>5, <2>4
  <2>5. \/ pc'[r] \notin {"redirected", "responded", "introspected"}
        \/ WriteAuthorizeResponse(r) \/ WriteAccessResponse(r)
        \/ WriteIntrospectionResponse(r) /\ pc'[r] # "crashed"
    BY <1>1, <1>5
       DEF TypeOK, Step, AuthorizeHTTP, IssueCode, HandleAuthorizeEndpointRequest,
           TokenHTTP, IssueToken, PopulateTokenEndpointResponse, IntrospectHTTP,
           GetExtraClaims, AssignClaim
  <2> QED
    BY <2>1, <2>2, <2>3, <2>4, <2>5
<1>6. CASE SetStrictMarshal \/ UNCHANGED vars
  BY <1>6 DEF SetStrictMarshal, vars, absGranted, absAnswer, Answered, Text, NoDetails
<1> QED
  BY <1>5, <1>6 DEF Next

\* The server implements Grants: sessions, codes, clones and tokens together
\* are one immutable text for each grant, for any number of requests.
THEOREM Refinement == Spec => ImplementsGrants
<1>1. Spec => []IInv
  BY IInvHolds
<1> QED
  BY <1>1, InitRefines, NextRefines, PTL DEF Spec, ImplementsGrants, Abstract!Spec
=============================================================================

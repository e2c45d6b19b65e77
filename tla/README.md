# Verification of go-rar

TLA+ models, TLC runs and TLAPS proofs for `github.com/hstern/go-rar`, package
`rar`: RFC 9396 `authorization_details` for Go.  Paths are relative to the
repository root; line numbers are those of the modelled commit.

## 1. Inventory

| component | state | operations | what makes it correct |
|---|---|---|---|
| type registry (`registry.go`) | process-wide `typeRegistry.m` (name -> constructor) under a `sync.RWMutex` | `RegisterType`, `lookup` | no data race on the map; `common` never rebound; each operation atomic; no lock held while consumer code runs; every call returns |
| codec (`codec.go`, `form.go`) | none | `Parse`, `ParseArray` / `DecodeForm`, `EncodeForm`, the `MarshalJSON` / `UnmarshalJSON` methods | order, type and §2 members survive any number of hops; unknown elements survive untouched; what it writes it reads back; nil and empty stay different |
| carriers (`common.go`, `common_type.go`, `extension.go`, `unknown.go`) | one value each | constructors, accessors, `Validate` | first broken rule reported; unknown is never judged; the bytes an unknown element keeps are its own |
| validation and toggle (`validate.go`) | process-wide `strictMarshalEnabled` (atomic bool) | `ValidateAll`, `SetStrictMarshal` (swaps the value and returns the previous one), `strictMarshal` | with the toggle on nothing ill-formed leaves; `ValidateAll` and the toggle agree; callers that save, set and restore leave it as it was |
| errors (`errors.go`) | none | `Err`, `*ValidationError` and their chains | `errors.Is` / `errors.As` find what the docs promise |
| consumer extensions (`extension_external_test.go`, `example_test.go`) | none | embed `Extension`, override codec and `Validate`, `RegisterType` at init | extra members survive; consumer code may call back into the package |
| three-flow example (`example/three-flow`) | none on the server | client legs, `/authorize`, `/token`, `/introspect` | the same detail crosses three legs |
| fosite example (`example/fosite-handler`) | session pointers, fosite's store, `codeCh` | `HandleAuthorizeEndpointRequest`, `PopulateTokenEndpointResponse`, `Clone`, `GetExtraClaims`, the HTTP handlers | a token carries exactly the details its authorization request asked for |
| fixtures (`internal/specfixtures`) | embedded constants | accessors | - |

How they interact.  `Parse` probes the `type` member, asks the registry
(`lookup`), releases the lock and only then calls the constructor and its
`UnmarshalJSON`; both may be consumer code, may call `Parse` or `RegisterType`
again, and may panic.  `ParseArray` calls `Parse` once per element,
`EncodeForm` goes through `encoding/json` to one `MarshalJSON` per element, and
`CommonType.MarshalJSON` and `Extension.MarshalJSON` read the toggle each time.
`SetStrictMarshal` returns what the toggle was, for its caller to put back
(`withStrictMarshal`, `strict_test.go:29`).  So a slice is decoded and encoded
against two process-wide variables that other goroutines may change between any
two elements.

What is hard: that interleaving; lock discipline around code the package does
not control; values that pass through processes which register different
types; the nil / empty distinction; agreement of three views of
well-formedness (`Validate`, `ValidateAll`, the toggle); memory that carriers,
callers and `encoding/json` share.  Nothing is persisted
by the library, so there is no crash recovery.  `PROJECT.json` lists each
hazard at its line.

The three-flow example repeats decode and encode in a client and a server that
keeps nothing.  The fosite example keeps the decoded slice on a session whose
pointer fosite's memory store shares between the code, the token and the
requests that present them; its client gets the code back through a callback
server's goroutine and a channel.

## 2. Modules

| module | models | state and actions in the code |
|---|---|---|
| `AtomicRegistry` | abstract: a table whose every operation takes effect at one instant between call and return | - |
| `Registry` | `registry.go` and the shape of `Parse` | `m` is `typeRegistry.m`; `writer`, `readers`, `waiting` are `mu`; `pc`, `name`, `ctor` the goroutine's current call; `depth` and `nested` its stack of `Parse` calls inside consumer code. One action per lock operation; a map assignment has a begin and an end |
| `RegistryProofs` | the theorems about `Registry` | - |
| `Details` | values only: JSON elements, carriers, `UnmarshalJSON`, `MarshalJSON`, `Validate`, `ValidateAll` | functions, no state |
| `DetailsProofs` | the theorems about `Details` | - |
| `Codec` | one value on its way through `ParseArray`, `ValidateAll`, `EncodeForm`, hop after hop | `registry` and `strict` are the two process-wide variables, changed by other goroutines at any step; a step is one element parsed or marshalled. `sent`, `carried`, `seen`, `toggles`, `prev`, `stable` are history for the properties |
| `CodecProofs` | the theorems about `Codec` | - |
| `StrictToggle` | the toggle and its callers' windows between `prev := SetStrictMarshal(b)` and `SetStrictMarshal(prev)` | `strict` is `strictMarshalEnabled`, `windows` the `prev` variables still held; `default` (what `init()` left) and `settled` (from which level on the windows were closed in reverse order) are history |
| `DirectCalls` | shared carriers whose codec methods are called without `DecodeForm` and `EncodeForm`, on top of `StrictToggle` | `bytes` is the heap of byte arrays, `raw` an `*UnknownType`'s `Raw`, `fields` the content of a `*CommonType`, `result` what a goroutine's last `MarshalJSON` returned; `decoded`, `returned`, `exposed`, `edited` are history |
| `DirectCallsProofs` | the theorems about `StrictToggle` and `DirectCalls` | - |
| `BuiltinCodec` | the same functions for a whole array and the built-in registry, as the examples use them | functions, no state |
| `BuiltinCodecProofs` | lemmas about `BuiltinCodec` that the proofs of both examples use | - |
| `Grants` | abstract: a grant has one immutable text, and every response about it carries that text | - |
| `FositeHandler` | the server of `example/fosite-handler`: `HandleAuthorizeEndpointRequest`, `PopulateTokenEndpointResponse`, `Clone`, `GetExtraClaims`, the three HTTP handlers, and fosite's built-in handlers as external steps | `details`, `inner` and `claims` are the heap of sessions, their `DefaultSession` pointers and its `Extra` maps, `sess` the requesters' pointers; `codes`, `tokens` the memory store; one step per handler, two for `GetExtraClaims`: the map write takes its time |
| `FositeProofs` | the theorems about `FositeHandler` | - |
| `FositeDemo` | `main` of that example, composed with `FositeHandler` | `client` is main, `codeCh` the channel, `callback` the callback server's handler |
| `FositeDemoProofs` | the theorems about `FositeDemo` | - |
| `ThreeFlow` | `example/three-flow`, client and server | `pc` is the client's leg, `param` and `reply` the HTTP exchange under way |
| `ThreeFlowProofs` | the theorems about `ThreeFlow` | - |
| `MCRegistry`, `MCCodec`, `MCDirectCalls`, `MCFosite`, `MCFlows`, `MCThreeFlow`, `MCFositeDemo` | values for TLC | - |

Abstractions.  A JSON element maps the five §2 names, `type` and one name
outside §2 to a value or to nothing (`JAbsent`), and has a `style` that says
how its bytes differ from what the package would write (white space, unescaped
HTML characters, member order).  Objects with a repeated member name, or with a
name that differs from a §2 name in case only (which `encoding/json` matches),
are not represented.  Strings are an empty one, an absolute URI and a word in
the runs, any in the proofs; the string `"null"` is kept free, since it stands
for a JSON null inside an array.  A registered constructor never returns nil.
Definitions marked as mutants are deliberate faults, used only to show that a
property can fail.

In `Registry` a goroutine's `Parse` starts at the dispatch: the probe before
it touches nothing shared.  A panic in consumer code unwinds to the top of the
goroutine, where the application recovers (as `net/http` does).

In `DirectCalls` a slice is the name of its array; an array nothing refers to
is collected and may be allocated again.  `JSONMarshalUnknown` is
`json.Marshal` of an `*UnknownType`, which copies into a buffer of its own;
calling the method gives out `Raw` itself.  Two goroutines in one method of one
carrier are not modelled: that would be the caller's data race, where the
package promises nothing.

A map that is written by one goroutine while another writes, copies or ranges
over it may end the process (`crashed`, after which nothing happens) or may
pass unnoticed; the runtime's check is not reliable, so both are behaviours.

fosite is modelled from how the example uses it: handlers run in the order in
which `newProvider` composes them (`main.go:393`, `403`), the store keeps the
session pointer, a used code is refused and may take tokens of its grant with
it, introspection sees the stored session or a clone of it (`session.go:49`
names both), and any request may be refused for its other parameters.

## 3. Runs

| run | instance | what it shows |
|---|---|---|
| `registry_safety` | 3 goroutines, 2 names (1 reserved), 2 constructors, nesting 2 deep with 2 nested calls; symmetric goroutines and constructors; 579k states | the `RWMutex` counts only goroutines inside the calls that lock it (`TypeOK`), no map access overlaps an assignment (`NoMapRace`); no lock is held or queued for while consumer code runs (`NoLockInConsumerCode`); "common" stays bound (`ReservedNeverRebound`); a parked goroutine always has a runnable one *inside* the package (`NeverWedged`); the table implements the atomic one (`ImplementsAtomicRegistry`) |
| `registry_liveness` | 3 goroutines, 1 name, no symmetry; 56k states | every call returns, however often the others call (`EveryCallReturns`) |
| `codec_chain` | arrays of up to 2 of 10 elements, 6 values built in Go, 3 hops, 2 names, 2 consumer carriers, writes through `Common()` into a single first element before or after it was validated; 479k states | what survives the chain (`BaselineSurvives`, `UnknownVerbatim`, `ExtraSurvives`), what the toggle lets out (`StrictGate`, `EncodeFailureExplained`), agreement of verdict and text (`ValidateAgreesWithWire`), the carrier of every element, first to last, under concurrent registration (`DispatchFollowsRegistry`), and that encoding and decoding are inverse (`EncodedTextDecodes`, `RoundTripIdentity`) |
| `direct_calls` | 2 goroutines, 1 carrier of each built-in kind, 3 arrays beside the decoder's buffer, 2 contents (one ill-formed), 2 windows open at a time; symmetric goroutines and arrays; 369k states | the innermost window is in force, if windows were closed in reverse order since it was opened, whatever overlapped before (`NestedWindowsRestore`), and a goroutine inside its own such window, a strict one, gets no ill-formed text (`StrictWindowHolds`), an unknown element keeps its bytes when the buffer is filled again (`CarriedBytesStable`), returned bytes change only by a caller's hand (`ResultsStable`) |
| `fosite` | 4 HTTP requests of any kind, 7 parameters, symmetric requests; 127k states | responses carry the details their grant was asked for (`DetailsFollowGrant`), details that were sent are valid by the time a code is exchanged, although codes are stored before the details are looked at; a request without the parameter is let through (`OnlyValidGrants`), nothing accepted fails to encode later (`EncodingNeverFails`), a crash over the claims map needs two overlapping introspections of one grant and a writer that fosite gave the stored session itself (`CrashExplained`), the server implements `Grants` (`ImplementsGrants`) |
| `three_flow` | 11 values, the toggle flipped anywhere; 176 states | the token response repeats the request (`TokenEchoes`), all legs agree on the demo detail (`SameDetailOnEveryLeg`), a panic has its cause in the value (`PanicsExplained`), the client gets the server's code exactly when every element has a type and those of type "common" break no rule, although it takes any text for a code (`CodeOnlyForGoodDetails`) |
| `fosite_demo` | 11 values, the toggle flipped anywhere; 258 states | the timeout and the full channel are never met (`CodeArrives`), the outcome follows from the value (`OutcomeExplained`), a good value gets to the end (`DemoCompletes`) |

Why the bounds are enough.  Three goroutines are a writer, a reader inside and
a goroutine queued behind them, the largest configuration `sync.RWMutex`
distinguishes; two constructors tell a lost update from a kept one; nesting two
deep has a `Parse` inside a `Parse` inside a `Parse`.  The codec treats
elements one by one, so an array of two shows order, index and what happens
between elements, and three hops allow typed, raw and typed again.  A write
through `Common()` after the first hop would be met by the next hop as another
first one, so the first hop is enough for it.  Two windows nest or overlap
(two overlapping inside a third are left to the proof), and three arrays are a
carrier's `Raw`, its next one and a result that is still held (the proofs below
have no such bounds).  Four HTTP
requests hold two grants with a token each, or one grant with two exchanges
and an introspection.  The example clients are sequential; their runs are
exhaustive in the listed values.

`fosite` and `doc_missing_details`, on the same model, are the runs that do not
check for deadlock: all requests may be served, and a crash ends the process.

Fairness.  `registry_liveness` assumes that a goroutine that can run does (weak
fairness of its steps), that consumer code returns, and strong fairness of
taking the writers' mutex: `sync.Mutex` switches to starvation mode after a
millisecond and then hands over in FIFO order.  Weak fairness there is not
enough, since the mutex is free again and again between other writers.
Readers need no such assumption: an arriving writer waits for the readers
ahead of it, and its `Unlock` admits the readers that queued meanwhile.
`fosite_demo` assumes weak fairness of main, the server and the callback
together: nothing in the demo stops for good while a step is possible.

Where the documentation says more than the code does (each a run that must
fail): `doc_non_array` (`null` decodes as an empty array), `doc_toggle_scope`
(the toggle governs `Extension` too), `doc_unknown_bytes` (`EncodeForm`
compacts and escapes unknown elements' bytes), `doc_err_umbrella` (the
`UnmarshalJSON` methods return bare `encoding/json` errors),
`doc_missing_details` (`session.go:34` calls a missing parameter a hard error
of the fosite example; `handler.go:60` lets it through and the code goes out).
Met while modelling, without a run of their own: `strict_test.go:290` says that
the `*ValidationError` is not recoverable from `EncodeForm`'s error, but
`form.go:66` wraps with `%w`; `/authorize` of both examples indexes
`details[0]` and panics on `[]` and `null` (`handler.go:86`,
`three-flow/main.go:272`); `handler.go:22-26` describes the code as persisted
after the details are stashed, the composition order is the other one; the
three-flow client takes the text of a 400 response for the code
(`main.go:139`).

What a strict window does not give its owner: if `g1` opens TRUE over FALSE,
`g2` opens TRUE and `g1` restores FALSE, then `g2` marshals leniently inside its
own window, and restoring what it saved leaves the toggle on for good.
`validate.go:43-51` warns of this; `settled` marks exactly the windows it
happens to, and `NestedWindowsRestore` and `StrictWindowHolds` speak of the
others, those opened afterwards included.

## 4. Proofs

Eight modules: one about each component that has states, for all values of its
constants, and two about the functions on values.  Every invariant and action
property of the passing runs is also a theorem.

| module | assumes | theorems |
|---|---|---|
| `RegistryProofs` | `ConstantsAssumption` | `TypeOK`, `NoMapRace`, `NoLockInConsumerCode`, `NeverWedged`, `ReservedNeverRebound`, `ImplementsAtomicRegistry` |
| `DetailsProofs` | `EmptyIsRelative`, `NilIsNoValue` | `ValidateIsWire`, `RoundTrip`, for every value |
| `CodecProofs` | those and `CodecAssumption` | the ten properties of `codec_chain` |
| `DirectCallsProofs` | `ToggleAssumption`, `DirectAssumption` | the five properties of `direct_calls` |
| `BuiltinCodecProofs` | as `DetailsProofs` | (lemmas) |
| `FositeProofs` | `FositeAssumption` | the six properties of `fosite` |
| `FositeDemoProofs` | those and `DemoAssumption` | `CodeArrives`, `OutcomeExplained`; `DemoRunsServer` |
| `ThreeFlowProofs` | `ThreeFlowAssumption` | the five properties of `three_flow` |

What the assumptions say.  `EmptyIsRelative`: the empty string is not an
absolute URI (`url.Parse` gives it no scheme, `validate.go`).  `NilIsNoValue`:
`Nil`, which stands for a nil slice, is none of the values it stands beside.
`CodecAssumption` and the assumptions on `Sent` give the texts and the values
that go in their types, `Element` and `AuthorizationDetail`: the latter holds
the states in which the package's carriers can be, with `Raw`, if set, of the
type that `TypeName` says, which `UnmarshalJSON` establishes and a consumer who
sets the two fields is asked to keep.  `LocalDetail` narrows this for the
examples, where only `common` is registered: no consumer carrier, and no
`*UnknownType` that calls itself `common`, which their decoders never make.
The others keep sentinels apart from what they stand beside and make bounds
naturals.  No assumption is made on how many names, texts, values, requests
(but for main's own three in the demo), goroutines or hops there are.

`RegistryProofs` holds for every set of goroutines, names and constructors and
every nesting bound.

- `Inductive`: the invariant `IInv` holds in every reachable state.
- `TypeCorrect`, `MapAccessExclusive`, `ConsumerCodeUnlocked`, `NoDeadlock`,
  `ReservedSafe`: `TypeOK`, `NoMapRace`, `NoLockInConsumerCode`,
  `NeverWedged`, `ReservedNeverRebound` follow from it.
- `Refinement`: `Spec` implies `AtomicRegistry`'s specification.

The safety properties are not inductive alone: that `mu` counts only goroutines
inside the calls that lock it (`TypeOK`), or that the map is written only
alone, needs to know which program counters hold what.  `IInv` ties the lock's
state to the program counters (the writer is exactly the goroutine between
`Lock` and `Unlock`; a goroutine between `RLock` and `RUnlock` is a counted
reader, and a counted reader is there or has just been admitted; counted
readers and a writer past its drain exclude each other; whoever waits as a
reader waits behind a writer), and says that nobody writes a reserved name past
the check.  `NextIInv` takes the actions one by one.  `NoDeadlock` then finds
the runnable goroutine: the writer, or, when it is draining, one of the readers
it waits for.  For the refinement the assignment's end is the write's
linearization point and the map read is the lookup's; every other step stutters
or is a call or a return, for which `OneOperationChanges` shows that no other
goroutine's operation moves.

`DetailsProofs` is about single values.  `ValidateIsWire` says that `Validate`
judges a value as RFC 9396 §2 judges the text its `MarshalJSON` writes;
`RoundTrip` that decoding that text gives the value back, nil and empty slices
kept apart where the codec is the package's own.  Under them lie what each
codec method returns (`MarshalElement`, `UnmarshalDetail`), what
`json.Marshal` leaves as it is (`CompactKeeps`), what one more carrier on the
way keeps of a text (`Recode`), and that the first broken rule in the order of
the checks is found exactly when any rule is broken (`RulesSayClean`).

`CodecProofs` holds for any texts and values, any edits and any number of hops.
None of the ten properties is inductive: they speak of what was sent and what
finally came out, which says nothing about the elements on the way.

- `Kept(o, w, cs)` says what a text `w` still has of the original `o` after the
  carriers `cs`: more, the fewer kinds of carriers it went through.  It is kept
  by one more decode and encode (`KeptThrough`, from `Recode`) and by
  `json.Marshal` (`KeptCompact`), so that three of the properties are the one
  fact `Kept` at the end of the chain.
- `IInv` says it of every element at every moment of a decode, parsed or not
  (`WhileDecoding`), of a slice that is held (`WhileHeld`), and of what has
  been written (`WhileEncoding`).  It adds which carriers a type may have got,
  that every element written under an unbroken strict toggle was well-formed,
  what an error leaves behind (`OnceRefused`, `OnceRejected`), and for a second
  hop that its texts are the encoded ones of the hop before
  (`WhileDecodingAgain`).  Beside it, `DispatchedAsSeen` says that all
  elements of a decoded slice, the last one included, are in carriers their
  types had, until the slice is first used.  TLC checked `IInv` on the instance
  of `codec_chain` first.
- Each action has a lemma that it keeps `IInv`; `StrictGate`,
  `EncodeFailureExplained` and `ValidateAgreesWithWire` then need
  `ValidateIsWire`, and `EncodedTextDecodes` and `RoundTripIdentity` need
  `RoundTrip`.

`DirectCallsProofs` holds for any number of goroutines, windows, carriers and
arrays.

- `WindowsRestore` proves `NestedWindowsRestore`; `HeapTypes` is `TypeOK`,
  `CarriedBytes` and `Results` are `CarriedBytesStable` and `ResultsStable`,
  `WindowIsStrict` is the action property `StrictWindowHolds`.
- The invariant is `ToggleInv /\ HeapInv /\ RawHoldsText`.  For the toggle it
  adds that each window above the level `settled` holds what the one around it
  had set (`EachHoldsTheOneAround`; `NextSettles` is how a closing moves that
  level); for the heap that two carriers never share an
  array and a carrier shares one with a result only after its `MarshalJSON` was
  called (`Separation`).  Both properties about bytes fail to be
  inductive without it: a write through a result must not reach a carrier, and
  a decode must not reach a result.

`FositeProofs` holds for any number of requests and any set of parameters.

- `FositeTypes`, `DetailsFollow`, `ValidGrants`, `EncodingTotal`, `CrashCause`
  are `TypeOK`, `DetailsFollowGrant`, `OnlyValidGrants`, `EncodingNeverFails`,
  `CrashExplained`; `Refinement` is `ImplementsGrants`.
- The invariant says, request by request and phase by phase, where its session
  pointer may point and what the session holds there: nothing before the
  request is served (`Unused`), the decoded parameter from the redirect on
  (`Authorizing`), the grant's own session in a token request (`Exchanging`),
  a stored token's session that of its grant (`Stored`), and for an
  introspection the grant's session or an equal copy, whose claims map holds
  nothing or the right text (`Claiming`).  `OthersKeep` shows once for all
  actions that a step of one request leaves the others' part alone.
- For the refinement, `WriteAuthorizeResponse` is the grant, the two response
  writers are the answers, and every other step stutters.

`BuiltinCodecProofs` and the two proofs on top of it hold for any value a
client may pass.

- `ArrayEchoes`: what a client's `EncodeForm` writes is decoded by a server
  that knows only `common` exactly when every element has a type, and encoded
  again gives the same text; what was ill-formed in a carrier the server does
  not know is no longer seen.
- `ThreeFlowProofs`: the invariant says which reply is there in each leg and
  for which values (`AuthorizeReplies`, `TokenReplies`, `IntrospectReplies`),
  and what the client has by then (`Progress`).  The properties speak of the
  end of the flow only, so they are not inductive without it.
- `FositeDemoProofs`: `DemoIsServer` shows that every step of the demo is a
  step of `FositeHandler` or leaves it alone, so the server's invariant holds
  in the demo without being proved again (and `DemoRunsServer` carries all the
  server's theorems over).  Beside it, `DemoInv` needs where main's three
  requests can be (`Places`), that the code is in the channel from the callback
  until main takes it (`Callbacks`), and what main's progress implies
  (`Clients`).

Only model-checked: the liveness properties `EveryCallReturns` and
`DemoCompletes`, since the prover has no fairness or `ENABLED`.  The
disagreements with the documentation are counterexamples, which the runs show.

Two things came out of the proofs.  `Faulty` in `ThreeFlow` had missed an
`*UnknownType` without a type, which the server refuses and no value of the run
was; the run has that value now.  And `NilIsNoValue` and `LocalDetail` had
been tacit: the values in the runs satisfied them.

## 5. Not modelled

The text of errors, JSON pointers, formatting and logging; parsing inside
`encoding/json` and `net/url`; duplicate and case-variant member names;
two goroutines racing inside one method of one carrier; aliasing of the slice
headers `Clone` copies (their elements are shared, and nothing in the example
writes to them after decoding); whether fosite clones a session before
introspection writes to it, which is not decided here (`FositeHandler` allows
both).  The embedded fixtures are constant data without state.

## 6. Plan

Done: every component but the fixtures is modelled, and every safety property the
runs check is a theorem.

Left, in this order:

1. Consumer carriers in `DirectCalls`: an override that keeps a slice of its
   input, and two goroutines in one carrier where the package allows it.
2. A theorem that `Codec` and `BuiltinCodec` agree: decoding element by element
   with nothing registered gives `DecodeForm` of the array.
3. Case-variant and repeated member names in `Details`.

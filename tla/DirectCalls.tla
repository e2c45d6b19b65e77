---------------------------- MODULE DirectCalls -----------------------------
(***************************************************************************)
(* Goroutines that share carriers and call their codec methods without     *)
(* DecodeForm and EncodeForm in between, inside and outside of windows of  *)
(* the strict-marshal toggle.  What matters is memory: a carrier is a      *)
(* pointer, bytes are slices of arrays, and encoding/json hands            *)
(* UnmarshalJSON a slice of a buffer that is filled again later.           *)
(***************************************************************************)
EXTENDS StrictToggle

CONSTANTS
  Commons, Unknowns,   \* shared *CommonType and *UnknownType values
  Input,               \* the array of the decoder's buffer
  Heap,                \* bound: the other arrays
  Texts, IllFormed,    \* contents of an element; those Validate rejects
  Bare,                \* {"type":...} and no other member
  Nil                  \* a nil slice

ASSUME DirectAssumption ==
  /\ Nil \notin Heap \union Texts \union {Input} /\ Input \notin Heap
  /\ Bare \in Texts /\ IllFormed \subseteq Texts

VARIABLES
  bytes,       \* what each array holds
  raw,         \* the array of an *UnknownType's Raw
  fields,      \* the content of a *CommonType
  result       \* the slice a goroutine's last MarshalJSON gave it

(* History, for the properties only. *)
VARIABLES
  decoded,     \* what an *UnknownType was last decoded from
  returned,    \* the content of result when it was returned
  exposed,     \* *UnknownTypes whose MarshalJSON was called since
  edited       \* arrays a caller has written into through a result

values  == <<raw, fields>>
history == <<decoded, returned, exposed, edited>>
vars    == <<toggleVars, bytes, values, result, history>>

Cells == {Input} \union Heap

Referenced(c) == \/ c = Input
                 \/ \E u \in Unknowns : raw[u] = c
                 \/ \E g \in Goroutines : result[g] = c

Fresh == {c \in Heap : ~Referenced(c)}

\* b and e, without the arrays that nothing refers to any more.
Collect(b, e) ==
  /\ bytes' = [c \in Cells |-> IF Referenced(c)' THEN b[c] ELSE Nil]
  /\ edited' = {c \in e : Referenced(c)'}

Init ==
  /\ ToggleInit
  /\ bytes = [c \in Cells |-> Nil]
  /\ raw = [u \in Unknowns |-> Nil] /\ fields = [k \in Commons |-> Bare]
  /\ result = [g \in Goroutines |-> Nil]
  /\ decoded = [u \in Unknowns |-> Nil] /\ returned = [g \in Goroutines |-> Nil]
  /\ exposed = {} /\ edited = {}

-----------------------------------------------------------------------------
(* Callers *)

\* The decoder reads the next value over the last one.
FillBuffer ==
  /\ \E t \in Texts : bytes' = [bytes EXCEPT ![Input] = t]
  /\ UNCHANGED <<toggleVars, values, result, history>>

\* A write through the pointer that Common() returned; *UnknownType has none.
WriteThroughCommon(k) ==
  /\ \E t \in Texts : fields' = [fields EXCEPT ![k] = t]
  /\ UNCHANGED <<toggleVars, bytes, raw, result, history>>

\* The caller of MarshalJSON changes the bytes it got.
EditResult(g) ==
  /\ result[g] # Nil
  /\ \E t \in Texts : bytes' = [bytes EXCEPT ![result[g]] = t]
  /\ edited' = edited \union {result[g]}
  /\ UNCHANGED <<toggleVars, values, result, decoded, returned, exposed>>

FlipToggle == ToggleNext /\ UNCHANGED <<bytes, values, result, history>>

-----------------------------------------------------------------------------
(* UnmarshalJSON *)

\* The strings and slices of the §2 members are the decoder's own copies.
UnmarshalCommon(k) ==
  /\ bytes[Input] # Nil
  /\ fields' = [fields EXCEPT ![k] = bytes[Input]]
  /\ UNCHANGED <<toggleVars, bytes, raw, result, history>>

Captured(u) ==
  /\ decoded' = [decoded EXCEPT ![u] = bytes[Input]]
  /\ exposed' = exposed \ {u}
  /\ UNCHANGED <<toggleVars, fields, result, returned>>

\* Mutants: u.Raw = b; u.Raw = append(u.Raw[:0], b...).
UnmarshalAliases(u) ==
  /\ bytes[Input] # Nil
  /\ Captured(u)
  /\ raw' = [raw EXCEPT ![u] = Input]
  /\ Collect(bytes, edited)

UnmarshalReuses(u) ==
  /\ bytes[Input] # Nil
  /\ Captured(u)
  /\ \E c \in IF raw[u] = Nil THEN Fresh ELSE {raw[u]} :
       /\ raw' = [raw EXCEPT ![u] = c]
       /\ Collect([bytes EXCEPT ![c] = bytes[Input]], edited)

\* make and copy: the bytes go to an array of their own.
UnmarshalUnknown(u) ==
  /\ bytes[Input] # Nil
  /\ Captured(u)
  /\ \E c \in Fresh :
       /\ raw' = [raw EXCEPT ![u] = c]
       /\ Collect([bytes EXCEPT ![c] = bytes[Input]], edited)

-----------------------------------------------------------------------------
(* MarshalJSON *)

ReturnFresh(g, t) ==
  /\ returned' = [returned EXCEPT ![g] = t]
  /\ UNCHANGED <<toggleVars, values, decoded, exposed>>
  /\ \E c \in Fresh :
       /\ result' = [result EXCEPT ![g] = c]
       /\ Collect([bytes EXCEPT ![c] = t], edited)

\* CommonType.MarshalJSON, and json.Marshal of one.
MarshalCommon(g, k) ==
  \/ /\ strict /\ fields[k] \in IllFormed
     /\ result' = [result EXCEPT ![g] = Nil]
     /\ returned' = [returned EXCEPT ![g] = Nil]
     /\ UNCHANGED <<toggleVars, values, decoded, exposed>>
     /\ Collect(bytes, edited)
  \/ /\ ~(strict /\ fields[k] \in IllFormed)
     /\ ReturnFresh(g, fields[k])

\* UnknownType.MarshalJSON: Raw itself, or a synthesized object.
MarshalUnknown(g, u) ==
  \/ /\ raw[u] = Nil
     /\ ReturnFresh(g, Bare)
  \/ /\ raw[u] # Nil
     /\ result' = [result EXCEPT ![g] = raw[u]]
     /\ returned' = [returned EXCEPT ![g] = bytes[raw[u]]]
     /\ exposed' = exposed \union {u}
     /\ UNCHANGED <<toggleVars, values, decoded>>
     /\ Collect(bytes, edited)

\* json.Marshal of an *UnknownType compacts into a buffer of its own.
JSONMarshalUnknown(g, u) == ReturnFresh(g, IF raw[u] = Nil THEN Bare ELSE bytes[raw[u]])

Next ==
  \/ FlipToggle
  \/ FillBuffer
  \/ \E k \in Commons : WriteThroughCommon(k) \/ UnmarshalCommon(k)
  \/ \E u \in Unknowns : UnmarshalUnknown(u)
  \/ \E g \in Goroutines :
       \/ EditResult(g)
       \/ \E k \in Commons : MarshalCommon(g, k)
       \/ \E u \in Unknowns : MarshalUnknown(g, u) \/ JSONMarshalUnknown(g, u)

Spec == Init /\ [][Next]_vars
-----------------------------------------------------------------------------
(* Properties *)

\* Every variable has its type; no carrier and no caller holds a slice of the
\* decoder's buffer.
TypeOK ==
  /\ ToggleTypeOK
  /\ bytes \in [Cells -> Texts \union {Nil}]
  /\ raw \in [Unknowns -> Heap \union {Nil}] /\ fields \in [Commons -> Texts]
  /\ result \in [Goroutines -> Heap \union {Nil}]
  /\ decoded \in [Unknowns -> Texts \union {Nil}]
  /\ returned \in [Goroutines -> Texts \union {Nil}]
  /\ exposed \subseteq Unknowns /\ edited \subseteq Heap

\* An *UnknownType keeps the bytes it was decoded from, although the decoder's
\* buffer is filled again and the output of json.Marshal is written into
\* (UnknownType.UnmarshalJSON).  Only who called its MarshalJSON directly has
\* bytes through which it can be changed.
CarriedBytesStable ==
  \A u \in Unknowns : raw[u] # Nil /\ u \notin exposed => bytes[raw[u]] = decoded[u]

\* Bytes MarshalJSON returned change only under the hand of a caller: the
\* package never writes over them, not even when the carrier they came from
\* is decoded into again.
ResultsStable ==
  \A g \in Goroutines :
    result[g] # Nil /\ result[g] \notin edited => bytes[result[g]] = returned[g]

\* The innermost window is g's own, and strict; and since it was opened
\* windows were closed only in the reverse order of their opening.
InStrictWindow(g) ==
  /\ windows # <<>> /\ Len(windows) >= settled
  /\ windows[Len(windows)].by = g /\ windows[Len(windows)].set

\* A goroutine inside its own innermost strict window gets no ill-formed text
\* out of a carrier of this package, whoever changed the carrier before,
\* whatever windows were opened and closed before its own, in whatever order,
\* and whatever windows were opened and closed inside it, the last one first
\* (SetStrictMarshal: "fail-fast on outbound").  The exception is the overlap
\* validate.go:43-51 warns of: if g1 opens TRUE over FALSE, g2 opens TRUE and
\* g1 restores FALSE, then g2 marshals leniently inside its own strict window;
\* and if two windows inside g's overlap, the second one to close puts back
\* what the other had set.
StrictWindowHolds ==
  [][\A g \in Goroutines, k \in Commons :
       MarshalCommon(g, k) /\ InStrictWindow(g) => returned'[g] \notin IllFormed]_vars
=============================================================================

------------------------------- MODULE Grants -------------------------------
(***************************************************************************)
(* What an authorization server promises about authorization_details: an   *)
(* authorization request is granted at one instant, with one text, and     *)
(* whatever is said about that grant afterwards, in however many token and *)
(* introspection responses, is said with that text.  It has no sessions,   *)
(* codes or tokens; FositeHandler implements it with shared session        *)
(* pointers that outlive their requests.                                   *)
(***************************************************************************)
CONSTANTS
  Requests,
  Texts,        \* authorization_details texts, and their absence
  NotGranted, NotAnswered

VARIABLES
  granted,      \* the text request r was granted
  answer        \* the text response r carries

Init ==
  /\ granted = [r \in Requests |-> NotGranted]
  /\ answer  = [r \in Requests |-> NotAnswered]

Grant(r) ==
  /\ granted[r] = NotGranted
  /\ \E t \in Texts : granted' = [granted EXCEPT ![r] = t]
  /\ UNCHANGED answer

\* Response r is about the grant of request c.
Answer(r, c) ==
  /\ granted[c] # NotGranted /\ answer[r] = NotAnswered
  /\ answer' = [answer EXCEPT ![r] = granted[c]]
  /\ UNCHANGED granted

Next == \E r \in Requests : Grant(r) \/ \E c \in Requests : Answer(r, c)

Spec == Init /\ [][Next]_<<granted, answer>>
=============================================================================

\* The whole demo on eleven values, the toggle flipped anywhere.
CONSTANTS
  AbsoluteURIs <- URIs
  Sent <- SomeDetails
  Forms <- SentForms
  Requests = {"auth", "token", "introspect"}
  Nil = Nil
  Absent = Absent
  Unanswered = Unanswered
SPECIFICATION DemoSpec
INVARIANTS
  CodeArrives
  OutcomeExplained
PROPERTY
  DemoCompletes

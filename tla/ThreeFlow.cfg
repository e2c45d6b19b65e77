\* Eleven values a client may send, the toggle flipped anywhere.
CONSTANTS
  AbsoluteURIs <- URIs
  Sent <- SomeDetails
  DemoDetail <- Demo
  Nil = Nil
SPECIFICATION Spec
INVARIANTS
  TypeOK
  TokenEchoes
  SameDetailOnEveryLeg
  PanicsExplained
  CodeOnlyForGoodDetails

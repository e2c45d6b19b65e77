\* Three hops of arrays of up to two elements under free reconfiguration.
CONSTANTS
  AbsoluteURIs <- URIs
  Names <- TypeNames
  Forms <- AllForms
  Built <- BuiltDetails
  Edits <- SomeEdits
  Nil = Nil
  MaxHops = 3
SPECIFICATION Spec
INVARIANTS
  TypeOK
  BaselineSurvives
  UnknownVerbatim
  ExtraSurvives
  StrictGate
  EncodeFailureExplained
  ValidateAgreesWithWire
  DispatchFollowsRegistry
  EncodedTextDecodes
  RoundTripIdentity

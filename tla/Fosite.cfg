\* Four HTTP requests: code exchange, replay and introspection racing, or two grants.
CONSTANTS
  AbsoluteURIs <- URIs
  Forms <- SomeForms
  Requests = {r1, r2, r3, r4}
  Nil = Nil
  Absent = Absent
  Unanswered = Unanswered
\* A crash ends the process.
CHECK_DEADLOCK FALSE
SPECIFICATION Spec
SYMMETRY AnyRequest
INVARIANTS
  TypeOK
  DetailsFollowGrant
  OnlyValidGrants
  EncodingNeverFails
  CrashExplained
PROPERTY
  ImplementsGrants

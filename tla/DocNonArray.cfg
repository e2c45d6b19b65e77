\* The documented claim DecodeRejectsNonArray on single elements.
CONSTANTS
  AbsoluteURIs <- URIs
  Names <- TypeNames
  Forms <- FewForms
  Built <- BuiltDetails
  Edits <- SomeEdits
  Nil = Nil
  MaxHops = 1
SPECIFICATION Spec
INVARIANT DecodeRejectsNonArray

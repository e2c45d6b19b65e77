\* Three goroutines, two consumer constructors, two levels of re-entry.
CONSTANTS
  g1 = g1  g2 = g2  g3 = g3
  common = common  pay = pay
  c1 = c1  c2 = c2
  Goroutines = {g1, g2, g3}
  Names = {common, pay}
  Reserved = {common}
  Ctors = {c1, c2}
  Builtin = Builtin
  Nil = Nil
  None = None
  MaxDepth = 2
  MaxNested = 2
SPECIFICATION Spec
SYMMETRY Callers
INVARIANTS
  TypeOK
  NoMapRace
  NoLockInConsumerCode
  ReservedNeverRebound
  NeverWedged
PROPERTY
  ImplementsAtomicRegistry

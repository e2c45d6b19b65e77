\* Two goroutines sharing one carrier of each kind, windows two deep.
CONSTANTS
  g1 = g1  g2 = g2
  a1 = a1  a2 = a2  a3 = a3
  Goroutines = {g1, g2}
  MaxWindows = 2
  Commons = {k}
  Unknowns = {u}
  Input = Input
  Heap = {a1, a2, a3}
  Texts = {good, bad}
  IllFormed = {bad}
  Bare = good
  Nil = Nil
SPECIFICATION Spec
SYMMETRY Names
INVARIANTS
  TypeOK
  NestedWindowsRestore
  CarriedBytesStable
  ResultsStable
PROPERTY
  StrictWindowHolds

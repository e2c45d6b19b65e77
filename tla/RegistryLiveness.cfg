\* Three goroutines with re-entry, under the scheduler's fairness.
CONSTANTS
  g1 = g1  g2 = g2  g3 = g3
  common = common  pay = pay
  c1 = c1  c2 = c2
  Goroutines = {g1, g2, g3}
  Names = {pay}
  Reserved = {}
  Ctors = {c1}
  Builtin = Builtin
  Nil = Nil
  None = None
  MaxDepth = 1
  MaxNested = 1
SPECIFICATION FairSpec
PROPERTY EveryCallReturns

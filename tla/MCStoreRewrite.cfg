CONSTANTS
  a = a
  b = b
  c = c
  Ids = {a, b, c}
  Gens = {0, 1}
  FirstStore <- MCFirstStore
  MaxRuns = 3
  MaxRows = 3
SPECIFICATION Spec
INVARIANTS
  PublishedPaired
  PublishedOnce
  ArchivedPaired
  RecoveryCompletes
PROPERTIES
  OnlyCondemnedLeave
  ImplementsAtomicStore

SPECIFICATION Spec
CONSTANTS
  Callers = {c1, c2, c3}
  Capacity = 3
  Sizes = {1, 2}
  MaxCancels = 1
SYMMETRY Symmetry
INVARIANTS
  TypeOK
  PermitsConserved
  NoPermitLeak
  ActiveIsBacked
  CountersNeverUnderflow
  QueuedCountsCallsAndCancels
  OnlyTheHeadAccumulates
PROPERTY KeepsFifoOrder

SPECIFICATION Spec
CONSTANTS
  Callers = {c1, c2}
  Capacity = 2
  Sizes = {1}
  MaxCancels = 0
INVARIANT IdlePoolShowsNoPermit

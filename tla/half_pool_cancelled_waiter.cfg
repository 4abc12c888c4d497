SPECIFICATION Spec
CONSTANTS
  Callers = {c1, c2}
  Capacity = 2
  Sizes = {1, 2}
  MaxCancels = 1
INVARIANT IdlePoolCountsNoWaiter

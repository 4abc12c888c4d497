SPECIFICATION LiveSpec
CONSTANTS
  Callers = {c1, c2, c3}
  Capacity = 2
  Sizes = {1, 2}
  MaxCancels = 1
  Extra = {c3}
PROPERTIES
  ImplementsFifoPool
  EveryAcquireReturns
  NoStarvation

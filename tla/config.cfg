SPECIFICATION Spec
CONSTANTS
  UsizeMax = 127
  U32Max = 31
  MaxPermits = 63
  Values <- MCValues
  MaxCalls = 3
INVARIANTS
  TypeOK
  ClientCanTransfer
  DefaultsAndPresetPass
  AdviceIsEnough

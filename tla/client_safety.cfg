SPECIFICATION Spec
CONSTANTS
  Tasks = {t1, t2, t3}
  Mix = {"put", "get", "delete", "head", "list"}
  ReadConnections = 3
  ReadConcurrency = 2
  WriteConnections = 3
  WriteConcurrency = 2
  MaxOps = 3
  MaxDrops = 1
  MaxTicks = 2
SYMMETRY Symmetry
INVARIANTS
  TypeOK
  EachOperationCountedOnce
  NoHoldAndWait
  NothingLeftBehind
  DurationCountsTheLostWait

SPECIFICATION Spec
CONSTANTS
  Tasks = {t1, t2, t3}
  Mix = {"put", "get", "delete", "head", "list"}
  ReadConnections = 2
  ReadConcurrency = 1
  WriteConnections = 2
  WriteConcurrency = 1
  MaxOps = 3
  MaxDrops = 0
  MaxTicks = 0
INVARIANT OnlyDropsCountAsCancelled

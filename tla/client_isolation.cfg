SPECIFICATION PatientSpec
CONSTANTS
  Tasks = {t1, t2, t3}
  Mix = {"put", "get", "delete", "head", "list"}
  ReadConnections = 3
  ReadConcurrency = 2
  WriteConnections = 3
  WriteConcurrency = 2
  MaxOps = 3
  MaxDrops = 0
  MaxTicks = 0
PROPERTY ReadsFinishWhileWritesStall

SPECIFICATION FairSpec
CONSTANTS
  Uploaders = {u1, u2}
  NParts = 3
  WriteConnections = 4
  WriteConcurrency = 2
  MaxFaults = 2
INVARIANTS
  TypeOK
  ObjectIsOneWholeBody
  OkMeansStored
  EveryOrphanHasACause
  RequestsHavePermits
  EveryPartSettledFirst
  FaultFreeUploadSucceeds
PROPERTY EveryUploadEnds

SPECIFICATION Spec
CONSTANTS
  Uploaders = {u1}
  NParts = 2
  WriteConnections = 4
  WriteConcurrency = 2
  MaxFaults = 1
INVARIANT FailedUploadIsAborted

SPECIFICATION FairReadsSpec
CONSTANTS
  ChunkSize = 2
  Threshold = 2
  ReadConcurrency = 2
  Lengths <- MCLengths
  MaxWrites = 2
  MaxFaults = 1
  Keys = {1, 2, 3, 4, 5}
  Dir <- MCDir
  PageSize = 2
  Failures <- MCFailures
  MaxChanges = 2
  MaxPageFaults = 1
INVARIANTS
  ReadsTypeOK
  QuietGetReturnsTheObject
  QuietGetSucceeds
  BytesInOrder
  OkIsWholeUnlessShrunk
  NothingListedTwice
  OkListsWhatStayed
  ListErrorFits
PROPERTIES
  EveryGetEnds
  EveryListEnds

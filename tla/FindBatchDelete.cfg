CONSTANTS
  Key <- MCKey
  Val <- MCVal
  KVLen <- LargestPairs
  Workload <- AnyBatch
  Keys = 4
  Calls = 4
  BatchMax = 2
  InsertFresh = TRUE
  DeletePresent = TRUE
  GiveUp = TRUE
  SyncFailures = {}
  PageSize = 4096
  MaxAllowedKVLen = 1344
  PreAllocatePageNum = 8
  DiskPages = 33
  MapPages = 33
  AddrPages = 1048576
  Platform = "linux"
SPECIFICATION Spec
PROPERTY CopyOnWrite

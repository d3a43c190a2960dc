CONSTANTS
  Key <- MCKey
  Val <- MCVal
  KVLen <- LargestPairs
  Workload <- AnyRefused
  Keys = 5
  Calls = 4
  BatchMax = 2
  InsertFresh = TRUE
  DeletePresent = FALSE
  GiveUp = TRUE
  SyncFailures = {}
  PageSize = 4096
  MaxAllowedKVLen = 1344
  PreAllocatePageNum = 8
  DiskPages = 33
  MapPages = 33
  AddrPages = 1048576
  Platform = "linux"
SPECIFICATION Spec
PROPERTY CopyOnWrite

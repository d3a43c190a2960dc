CONSTANTS
  Key <- MCKey
  Val <- MCVal
  KVLen <- LargestPairs
  Workload <- AnyHeadDelete
  Keys = 4
  Calls = 3
  BatchMax = 2
  InsertFresh = TRUE
  DeletePresent = TRUE
  GiveUp = TRUE
  SyncFailures = {}
  PageSize = 4096
  MaxAllowedKVLen = 1344
  PreAllocatePageNum = 2
  DiskPages = 4
  MapPages = 4
  AddrPages = 1048576
  Platform = "linux"
SPECIFICATION Spec
INVARIANT RootIsNode

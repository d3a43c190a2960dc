CONSTANTS
  Key <- MCKey
  Val <- MCVal
  KVLen <- LargestPairs
  Workload <- LoadThenAny
  Keys = 12
  Calls = 4
  BatchMax = 1
  InsertFresh = TRUE
  DeletePresent = TRUE
  GiveUp = TRUE
  SyncFailures = {}
  PageSize = 4096
  MaxAllowedKVLen = 1344
  PreAllocatePageNum = 16
  DiskPages = 65
  MapPages = 65
  AddrPages = 1048576
  Platform = "linux"
SPECIFICATION Spec
INVARIANTS BTreeShape SearchAgrees NeverBroken LiveKept
PROPERTIES MapImplemented CopyOnWrite

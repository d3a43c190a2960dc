CONSTANTS
  Key <- MCKey
  Val <- MCVal
  KVLen <- MixedPairs
  Workload <- AnyDirect
  Keys = 7
  Calls = 8
  BatchMax = 1
  InsertFresh = TRUE
  DeletePresent = TRUE
  GiveUp = TRUE
  SyncFailures = {1, 2, 3, 4, 5, 6, 7, 8}
  PageSize = 4096
  MaxAllowedKVLen = 1344
  PreAllocatePageNum = 7
  DiskPages = 14
  MapPages = 13
  AddrPages = 1048576
  Platform = "linux"
SPECIFICATION FairSpec
INVARIANTS TypeOK BTreeShape NeverBroken OnlyCollapsedRootsLost
PROPERTIES MapImplemented CowImplemented CopyOnWrite Answered

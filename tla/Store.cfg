CONSTANTS
  r1 = r1
  Reader = {r1}
  Wanted = {2, 3}
  Key <- MCKey
  Val <- MCVal
  KVLen <- LargestPairs
  Workload <- LoadThenCalls
  Keys = 5
  Calls = 2
  BatchMax = 2
  InsertFresh = TRUE
  DeletePresent = TRUE
  GiveUp = TRUE
  SyncFailures = {3}
  PageSize = 4096
  MaxAllowedKVLen = 1344
  PreAllocatePageNum = 8
  DiskPages = 41
  MapPages = 41
  AddrPages = 1048576
  Platform = "linux"
SPECIFICATION FairStoreSpec
INVARIANTS SnapshotRead Recoverable
PROPERTIES MapImplemented DiskImplemented FreshWrites SearchReturns

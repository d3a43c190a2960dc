CONSTANTS
  Content = {v1, v2}
  Reader = {r1}
  PageSize = 20
  MaxAllowedKVLen = 0
  PreAllocatePageNum = 2
  DiskPages = 6
  MapPages = 6
  AddrPages = 5
  Platform = "linux"
SPECIFICATION DiskSpec
SYMMETRY Contents
INVARIANTS TypeOK NoDoubleFree LiveNotAllocatable OffsetsDistinct MasterNamesLiveRoot
INVARIANTS Recoverable SnapshotKept
PROPERTY CopyOnWrite

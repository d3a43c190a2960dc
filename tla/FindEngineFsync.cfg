CONSTANTS
  a1 = a1
  a2 = a2
  b1 = b1
  b2 = b2
  Request = {a1, a2, b1, b2}
  Deletes = {b1}
  Prior <- ThreeThenOne
  ChanCap = 1
  BatchMax = 2
  Sync = TRUE
  Faults = {"fsync"}
SPECIFICATION Spec
INVARIANTS CrashConsistent

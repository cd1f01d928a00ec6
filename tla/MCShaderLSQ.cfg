SPECIFICATION FairSpec
CONSTANTS
  lineA = lineA
  lineB = lineB
  lineC = lineC
  None = None
  Warp = {1, 2}
  Line <- MCLine
  Programs <- MCPrograms
  PoolSize = 3
  TagCycles = 1
  StoreCycles = 1
  Mshrs = 2
INVARIANTS TypeOK NoLostWakeup AccessesAccounted
PROPERTIES ImplementsWarpMemory WarpsFinish
CHECK_DEADLOCK FALSE

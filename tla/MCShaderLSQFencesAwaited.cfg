SPECIFICATION Spec
CONSTANTS
  lineA = lineA
  lineB = lineB
  lineC = lineC
  None = None
  Warp = {1, 2}
  Line <- MCLine
  Programs <- MCPrograms
  PoolSize = 3
  TagCycles = 1
  StoreCycles = 1
  Mshrs = 2
INVARIANT FencesAwaited
CHECK_DEADLOCK FALSE

\* Two threads and four calls: kernels, memsets and what waits for them, with a call
\* of the other thread beside them.
CONSTANTS
  Thread = {t1, t2}
  None = none
  LaunchLatency = 1
  MaxCalls = 4
SPECIFICATION FairSpec
INVARIANTS
  TypeOK
  NoLostWakeup
  PanicsExplained
PROPERTIES
  ReturnsWhenDone
  CallsReturn
CHECK_DEADLOCK FALSE

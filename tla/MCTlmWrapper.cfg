\* Two messages per path, sent at any time of the first two cycles and at
\* their edges.
CONSTANTS
  CycleTime = 2
  Message = {1, 2}
  Never = never
  LastSend = 4
  MaxSent = 2
  MaxTime = 9
SPECIFICATION FairSpec
INVARIANTS
  TypeOK
  NoLostWakeup
  BoundedLatency
PROPERTIES
  PathsAreFifoChannels
  AllDelivered
CHECK_DEADLOCK FALSE

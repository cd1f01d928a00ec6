\* Two operations of up to four packets each, aligned or not.
CONSTANTS
  LineSize = 2
  BufferDepth = 2
  MaxLength = 6
  MaxOps = 2
  Kind = {"h2d", "d2h", "d2d", "memset"}
SPECIFICATION FairSpec
INVARIANTS
  TypeOK
  EveryByteAccounted
  NoLostWakeup
  NoGarbage
PROPERTIES
  ImplementsTransfer
  OperationsComplete
CHECK_DEADLOCK FALSE

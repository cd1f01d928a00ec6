CONSTANTS
  Host = {h1, h2}
  Stream = {s1}
  Zero = zero
  None = none
  End = end
  LaunchBlocking = {FALSE}
  Calls = {"kernel", "create", "destroy", "streamSync", "sync", "exit"}
  MaxCalls = 3
SPECIFICATION FairSpec
PROPERTY CallsReturn
CHECK_DEADLOCK FALSE

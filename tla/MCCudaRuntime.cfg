\* Two hosts with up to three calls each: enough for both to create a stream,
\* use it, make it wait, and destroy it or synchronize while the other does the
\* same. A copy would do what an event does.
CONSTANTS
  h1 = h1
  h2 = h2
  Host = {h1, h2}
  s1 = s1
  s2 = s2
  Stream = {s1, s2}
  Zero = zero
  None = none
  End = end
  LaunchBlocking = {FALSE, TRUE}
  Calls = {"kernel", "event", "wait", "waitAll", "create", "destroy", "streamSync",
           "sync"}
  MaxCalls = 3
SPECIFICATION Spec
SYMMETRY Symmetry
INVARIANTS
  TypeOK
  KernelAtFront
PROPERTIES
  ImplementsProgramOrder
  ReturnsWhenPerformed
CHECK_DEADLOCK FALSE

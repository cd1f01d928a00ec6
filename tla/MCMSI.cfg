\* Two caches and two values, everything the processors can see; no symmetry,
\* because of the liveness properties.
CONSTANTS
  Cache = {c1, c2}
  Directory = dir
  Value = {v1, v2}
  NoValue = none
  Workload = {"Load", "Store", "Other"}
SPECIFICATION FairSpec
INVARIANT TypeOK
PROPERTIES
  ImplementsCoherentLine
  RequestsComplete

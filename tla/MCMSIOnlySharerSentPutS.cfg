CONSTANTS
  Cache = {c1, c2}
  Directory = dir
  Value = {v1}
  NoValue = none
  Workload = {"Load", "Store", "Other"}
SPECIFICATION Spec
INVARIANT OnlySharerSentPutS

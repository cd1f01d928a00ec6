\* Three caches: a writer, a reader and an evicting cache at once.
CONSTANTS
  c1 = c1
  c2 = c2
  c3 = c3
  Cache = {c1, c2, c3}
  Directory = dir
  v1 = v1
  Value = {v1}
  NoValue = none
  Workload = {"Load", "Store", "Other"}
SPECIFICATION Spec
SYMMETRY Symmetry
INVARIANTS
  SingleWriter
  MessagesAccounted
  DirectoryTracksCopies
  DirEntryByState
  PanicsOnlyInSSm

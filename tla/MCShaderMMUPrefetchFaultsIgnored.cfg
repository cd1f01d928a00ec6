\* A prefetch of a page that is not mapped.
CONSTANTS
  r1 = r1
  r2 = r2
  r3 = r3
  r4 = r4
  core = core
  copy = copy
  Request = {r1, r2, r3, r4}
  Page = {1, 2, 3}
  Tlb = {core, copy}
  PageOf <- MCPageOf
  TlbOf <- MCTlbOf
  Walkers = 2
  L1Entries = 1
  L2Entries = 1
  None = none
SPECIFICATION FairSpec
INVARIANT PrefetchFaultsIgnored
CHECK_DEADLOCK FALSE

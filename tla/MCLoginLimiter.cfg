\* A table of two records for three addresses: pruning and eviction under way.
SPECIFICATION Spec
CONSTANTS
  IPs = {i1, i2, i3}
  MaxFailures = 2
  Window = 2
  Lockout = 3
  GlobalMax = 3
  MaxTracked = 2
  PruneInterval = 2
  MaxTime = 6
  MaxLog = 5
SYMMETRY Symmetry
CHECK_DEADLOCK FALSE
INVARIANTS
  GlobalBudget
  PerIpBudget
  RemainingIsExact
  RetryAfterIsExact
  TableIsBounded
PROPERTY LockoutHolds

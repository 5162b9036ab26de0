SPECIFICATION Spec
CONSTANTS
  Agents = {a1, a2, a3}
  StaleAge = 1
  AcquireTimeout = 1
  HoldLimit = 1
  MaxCrashes = 1
INVARIANT ReclaimExcludes

SPECIFICATION RetrySpec
CONSTANTS
  Agents = {a1, a2}
  StaleAge = 2
  AcquireTimeout = 1
  HoldLimit = 2
  MaxCrashes = 2
INVARIANTS TypeOK MutualExclusion NoLostUpdate
PROPERTY NeverWedged

SPECIFICATION FairSpec
CONSTANTS
  Agents = {a1}
  StaleAge = 1
  AcquireTimeout = 1
  HoldLimit = 1
  MaxCrashes = 1
PROPERTY AcquireReturns

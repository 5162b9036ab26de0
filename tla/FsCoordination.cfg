SPECIFICATION Spec
CONSTANTS
  a1 = a1
  a2 = a2
  a3 = a3
  p1 = p1
  p2 = p2
  main = main
  dotted = dotted
  lib = lib
  doc = doc
  log = log
  Actors = {a1, a2, a3}
  Processes = {p1}
  ProcessOf <- MCProcessOf
  Paths = {main, lib}
  MaxKey = 4
  Keys = {1, 2}
  KeyOf <- MCKeyOf
  NoKey = 0
  Requests <- MCAnySet
  MaxLocksPerSet = 2
  MaxRegistryKeys = 2
  StaleAge = 2
  AcquireTimeout = 1
  HoldLimit = 1
  MaxCrashes = 1
INVARIANTS MutualExclusion NoWaitCycle GuardsKeepTheirFiles GuardsStayFresh
PROPERTY ImplementsLockSets
SYMMETRY MCSymmetry

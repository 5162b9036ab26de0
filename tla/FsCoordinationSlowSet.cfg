SPECIFICATION Spec
CONSTANTS
  a1 = a1
  a2 = a2
  a3 = a3
  p1 = p1
  p2 = p2
  main = main
  dotted = dotted
  lib = lib
  doc = doc
  log = log
  Actors = {a1, a2}
  Processes = {p1, p2}
  ProcessOf <- MCProcessOfTwo
  Paths = {main, lib, doc, log}
  MaxKey = 4
  Keys = {1, 2, 3, 4}
  KeyOf <- MCKeyOf
  NoKey = 0
  Requests <- MCLongSet
  MaxLocksPerSet = 4
  MaxRegistryKeys = 4
  StaleAge = 3
  AcquireTimeout = 1
  HoldLimit = 1
  MaxCrashes = 0
INVARIANT GuardsExclude

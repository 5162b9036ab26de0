SPECIFICATION FairSpec
CONSTANTS
  Callers = {c1, c2, c3}
  Threshold = 2
  Cooldown = 2
  ProbeTimeout = 3
  CounterMax = 2
INVARIANTS
  TypeOK
  ClosedBelowThreshold
PROPERTIES
  ProbesSpaced
  NeverWedged

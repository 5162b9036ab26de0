SPECIFICATION Spec
CONSTANTS
  Agents = {a, b}
  Sessions = {s}
  None = None
  Resources = {r}
  Clients = {d, e}
  Handoffs <- MCHandoffs
  MaxRevision = 3
INVARIANTS TypeOK RecordsCoherent
PROPERTIES AppliedToSeen AppliedOnce OwnersAreEntitled
SYMMETRY MCSymmetry

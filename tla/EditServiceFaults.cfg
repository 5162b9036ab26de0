SPECIFICATION Spec
CONSTANTS
  Agents = {a, b}
  Edits = {e, f}
  Paths = {1, 2}
  External = {x}
  Gone = Gone
  NoEdit = NoEdit
  Faults = {"read", "write", "store"}
  MaxForeign = 1
  MaxCrashes = 1
INVARIANTS
  TypeOK
  SnapshotCovers
  RolledBackStaysGone
PROPERTIES
  ExactSteps
SYMMETRY MCSymmetry
VIEW MCView

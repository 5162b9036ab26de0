SPECIFICATION Spec
CONSTANTS
  Agents = {a}
  Edits = {e}
  Paths = {1, 2}
  External = {x}
  Gone = Gone
  NoEdit = NoEdit
  Faults = {"read"}
  MaxForeign = 0
  MaxCrashes = 0
INVARIANTS
  FullyRestoredMeansRestored

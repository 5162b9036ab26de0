SPECIFICATION Spec
CONSTANTS
  Agents = {a, b}
  Edits = {e, f}
  Paths = {1, 2}
  External = {x}
  Gone = Gone
  NoEdit = NoEdit
  Faults = {}
  MaxForeign = 0
  MaxCrashes = 0
PROPERTIES
  ImplementsAtomicEdits
SYMMETRY MCSymmetry

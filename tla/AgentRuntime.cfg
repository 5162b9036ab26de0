SPECIFICATION Spec
CONSTANTS
  Agents = {a, b}
  Sessions = {s}
  Callers = {c, d}
  None = None
INVARIANT TypeOK
PROPERTIES ImplementsRegistry RetiringEnds OnlyFitAgentsUse DisabledStaysDown
SYMMETRY MCSymmetry

SPECIFICATION Spec
CONSTANTS
  p1 = p1
  p2 = p2
  p3 = p3
  p4 = p4
  Processes = {p1, p2, p3, p4}
  None = None
  MaxDeaths = 2
SYMMETRY Symmetry
INVARIANTS
  OneOwner
CHECK_DEADLOCK FALSE

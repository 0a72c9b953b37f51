SPECIFICATION Spec
CONSTANTS
  PcmController = {p1, p2}
  BusController = {b1}
  Child = {h1, h2}
  PcmAddress = {m1}
  BusAddress = {n1, n2}
  Children = 2
  None = None
SYMMETRY Symmetry
CONSTRAINT OneHeld
CHECK_DEADLOCK FALSE
INVARIANTS
  TypeOK
  PcmBacked
  PcmReachable
  BusBacked
  BusReachable
  UnloadedClean

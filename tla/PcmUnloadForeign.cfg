SPECIFICATION Spec
CONSTANTS
  PcmController = {p1}
  BusController = {b1}
  Child = {h1, h2}
  PcmAddress = {m1, m2}
  BusAddress = {n1, n2}
  Children = 2
  None = None
SYMMETRY Symmetry
CHECK_DEADLOCK FALSE
PROPERTY UnloadSkipsForeign

SPECIFICATION Spec
CONSTANTS
  Codec = {c1, c2}
  Present = {c1}
  CorbSize = 2
  RirbSize = 2
  MaxCommands = 3
  MaxUnsolicited = 0
  None = None
  Unsol = Unsol
PROPERTY FreshRingsUnstalled

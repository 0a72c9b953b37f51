SPECIFICATION Spec
CONSTANTS
  Controller = {k1, k2}
  Handle = {h1, h2}
  Codecs = 2
  MaxContexts = 4
  None = None
CHECK_DEADLOCK FALSE
INVARIANT NoneBorrowed

SPECIFICATION Spec
CONSTANTS
  BufferSize = 4
  BufferCount = 3
  WriteLengths = {0, 5, 18}
  ToneLengths = {0, 4}
  MaxPlaybacks = 2
CHECK_DEADLOCK FALSE
PROPERTY EndedByOwnTimer

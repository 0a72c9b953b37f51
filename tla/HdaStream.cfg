SPECIFICATION FairSpec
CONSTANTS
  BufferSize = 2
  BufferCount = 4
  SamplesPerMs = 2
  SamplesPerSecond = 10
  WriteLengths = {3, 13}
  ToneLengths = {2}
  ToneTimes = {4}
  StartGap = 1
  Latency = 3
  LpibRestarts = TRUE
  MaxPlaybacks = 2
CHECK_DEADLOCK FALSE
INVARIANTS
  TypeOK
  NoUnderrun
  RefillsPlayed
  EngineOwnsBuffers
  PlayedInFull
PROPERTIES
  PlaysInOrder
  PlaybackEnds

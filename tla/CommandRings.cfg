SPECIFICATION Spec
CONSTANTS
  Codec = {c1, c2}
  Present = {c1}
  CorbSize = 2
  RirbSize = 2
  MaxCommands = 4
  MaxUnsolicited = 1
  None = None
  Unsol = Unsol
INVARIANTS
  TypeOK
  RepliesMatch
  RaisedMeansUnread
  EnginesOwnRings
PROPERTY RingIsQueue

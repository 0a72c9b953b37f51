SPECIFICATION FairSpec
CONSTANTS
  Nodes = {1, 2, 3, 4, 5, 6}
  Codecs <- MCCodecs
  MaxSetups = 2
CHECK_DEADLOCK FALSE
INVARIANTS
  TypeOK
  PathIsRoute
  SelectionsAgree
  RoutesWork
PROPERTIES
  SearchIsComplete
  SetupEnds

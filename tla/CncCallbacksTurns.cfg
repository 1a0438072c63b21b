SPECIFICATION CncFairSpec
CONSTANTS
  Io = Io
  Main = Main
  Producers <- MCProducers
  MaxSize = 2
  MaxPosts = 9
  MaxOps = 2
  Operations <- AllOperations
INVARIANTS
  InOrder
PROPERTIES
  MainReturnsWithRoom
  PosterWakes
CHECK_DEADLOCK FALSE

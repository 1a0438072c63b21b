SPECIFICATION FairSpec
CONSTANTS
  a = a
  NoContent = NoContent
  Contents <- MCContents
  TagChoices <- MCTagChoices
  MaxThreads = 2
  Room = 1
  MaxTasks = 3
  MaxBatch = 2
INVARIANTS
  RemainingIsTrue
  SummaryAddsUp
  RowIsOwn
PROPERTIES
  BatchEnds
  ImportsShown
  QuitReturns
CHECK_DEADLOCK FALSE

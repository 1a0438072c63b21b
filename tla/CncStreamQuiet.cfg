SPECIFICATION FairSpec
CONSTANTS
  Programs <- MCPrograms
  RxBufferSize = 5
  CommandSize = 2
  MaxOps = 3
  WaitForQuiet = TRUE
  CommandsWhen = "betweenJobs"
  MayAlarm = FALSE
  MayDrop = FALSE
INVARIANTS
  RxWithinBuffer
PROPERTIES
  CompletionIsTruthful
  StreamEnds

SPECIFICATION Spec
CONSTANTS
  Programs <- MCToolPrograms
  RxBufferSize = 5
  CommandSize = 2
  MaxOps = 1
  WaitForQuiet = TRUE
  CommandsWhen = "never"
  MayAlarm = FALSE
  MayDrop = FALSE
INVARIANTS
  OnlyToolChangesSkipped

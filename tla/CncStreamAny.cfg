SPECIFICATION Spec
CONSTANTS
  Programs <- MCPrograms
  RxBufferSize = 5
  CommandSize = 2
  MaxOps = 2
  WaitForQuiet = FALSE
  CommandsWhen = "anytime"
  MayAlarm = TRUE
  MayDrop = TRUE
INVARIANTS
  AccountExact
  ToolChangeHeldBack
PROPERTIES
  NoLineAfterError

SPECIFICATION FairSpec
CONSTANTS
  MaxTimeouts = 3
  MaxOps = 4
INVARIANTS
  RequestsStayHome
  ViewFollows
PROPERTIES
  SilenceIsShown
CHECK_DEADLOCK FALSE

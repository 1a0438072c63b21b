SPECIFICATION FairSpec
CONSTANTS
  Models <- MCModels
  BackFacing <- MCBackFacing
  Unshown <- MCUnshown
  RetagViews <- MCRetagViews
  SideViews <- MCSideViews
  MaxRetries = 2
  MaxLate = 1
  MaxEvents = 1
INVARIANTS
  NeverCutOff
PROPERTIES
  
  NothingLeftMarked
  ToldViewIsShown
  TaggerEnds

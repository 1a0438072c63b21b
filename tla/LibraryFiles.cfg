SPECIFICATION Spec
CONSTANTS
  bracket = bracket
  here = here
  there = there
  elsewhere = elsewhere
  Contents = {bracket}
  Roots = {here, there, elsewhere}
  MaxMoves = 4
  MaxRestarts = 2
  MayReturn = FALSE
CHECK_DEADLOCK FALSE
SYMMETRY MCSymmetry
INVARIANTS
  NothingLost
  BlobIsWhole
  RowHasFile

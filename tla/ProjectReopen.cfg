SPECIFICATION IntegrationSpec
CONSTANTS
  Projects = {p1, p2}
  ItemIds = {i1, i2}
  LibraryItems = {l1}
  Runs = {r1}
  None = None
  p1 = p1
  p2 = p2
  i1 = i1
  i2 = i2
  l1 = l1
  r1 = r1
  MaxGeneration = 8
  MaxToken = 2
PROPERTY
  ChangesAreKept
CHECK_DEADLOCK FALSE

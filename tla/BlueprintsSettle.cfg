SPECIFICATION FairSpec
CONSTANTS
  None = None
  c1 = c1
  b1 = b1
  x = x
  y = y
  Component = {c1}
  Blueprint = {b1}
  Content = {x, y}
  MaxRequests = 2
  MaxCrashes = 1
INVARIANTS
  TypeOK
PROPERTIES
  Settles
  VersionsCollected
  BlueprintsGo
CHECK_DEADLOCK FALSE

SPECIFICATION Spec
CONSTANTS
  None = None
  c1 = c1
  b1 = b1
  x = x
  y = y
  Component = {c1}
  Blueprint = {b1}
  Content = {x, y}
  MaxRequests = 2
  MaxCrashes = 0
PROPERTIES
  DeletionBlocked
CHECK_DEADLOCK FALSE

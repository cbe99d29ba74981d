SPECIFICATION Spec
CONSTANTS
  a = a
  b = b
  Key = {a, b}
  Depth = 3
  Layer <- LayerOf
  MaxLayers = 4
INVARIANTS
  NothingStale
  NothingLost
  PanicsOnThirdKind
  LaterHasPrecedence
  MergesCallByCall
CHECK_DEADLOCK FALSE

SPECIFICATION EventSpec
CONSTANTS
  None = None
  app = app
  lib = lib
  git = git
  tgz = tgz
  qualified = qualified
  d1 = d1
  d2 = d2
  r1 = r1
  Component = {app, lib}
  Reference = {git}
  Source = {git}
  WithDefaultNamespace <- AsWritten
  Digest = {d1, d2}
  Revision = {r1}
  CreatedReady = {}
  SourceKind <- AllFlux
  Specs <- PairSpecs
  Initial = {app, lib}
  MaxGeneration = 1
  MaxRequests = 0
  MaxChanges = 1
  MaxUnready = 0
  MaxCrashes = 1
INVARIANTS
  RolloutOrder
PROPERTIES
  Converges
  ImplementsOrderedRollout
CHECK_DEADLOCK FALSE

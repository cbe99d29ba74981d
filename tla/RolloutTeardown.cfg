SPECIFICATION EventSpec
CONSTANTS
  None = None
  app = app
  lib = lib
  git = git
  tgz = tgz
  qualified = qualified
  d1 = d1
  d2 = d2
  r1 = r1
  Component = {app, lib}
  Reference = {git}
  Source = {git}
  WithDefaultNamespace <- AsWritten
  Digest = {d1}
  Revision = {r1}
  CreatedReady = {}
  SourceKind <- AllFlux
  Specs <- LoopSpecs
  Initial = {app, lib}
  MaxGeneration = 1
  MaxRequests = 2
  MaxChanges = 0
  MaxUnready = 0
  MaxCrashes = 1
INVARIANTS
  NoOrphanedDependent
  CycleStaysDown
PROPERTIES
  DeletionCompletes
CHECK_DEADLOCK FALSE

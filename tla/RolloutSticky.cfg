SPECIFICATION FairSpec
CONSTANTS
  None = None
  app = app
  lib = lib
  git = git
  tgz = tgz
  qualified = qualified
  d1 = d1
  d2 = d2
  r1 = r1
  Component = {app}
  Reference = {git}
  Source = {git}
  WithDefaultNamespace <- AsWritten
  Digest = {d1, d2}
  Revision = {r1}
  CreatedReady = {git}
  SourceKind <- AllFlux
  Specs <- StickySpecs
  Initial = {app}
  MaxGeneration = 2
  MaxRequests = 1
  MaxChanges = 2
  MaxUnready = 1
  MaxCrashes = 0
INVARIANTS
  ReadyIsTruthful
PROPERTIES
  StickyHolds
  Converges
CHECK_DEADLOCK FALSE

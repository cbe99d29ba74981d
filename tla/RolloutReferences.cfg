SPECIFICATION Spec
CONSTANTS
  None = None
  app = app
  lib = lib
  git = git
  tgz = tgz
  qualified = qualified
  d1 = d1
  d2 = d2
  r1 = r1
  Component = {app, lib}
  Reference = {git, qualified}
  Source = {git}
  WithDefaultNamespace <- AllGit
  Digest = {d1, d2}
  Revision = {r1}
  CreatedReady = {git}
  SourceKind <- AllFlux
  Specs <- AnyReferenceSpecs
  Initial = {app, lib}
  MaxGeneration = 1
  MaxRequests = 0
  MaxChanges = 1
  MaxUnready = 0
  MaxCrashes = 1
INVARIANTS
  SourceOrder
CHECK_DEADLOCK FALSE

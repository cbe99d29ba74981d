SPECIFICATION FairSpec
CONSTANTS
  None = None
  app = app
  lib = lib
  git = git
  tgz = tgz
  qualified = qualified
  d1 = d1
  d2 = d2
  r1 = r1
  Component = {app, lib}
  Reference = {git, tgz}
  Source = {git, tgz}
  WithDefaultNamespace <- AsWritten
  Digest = {d1}
  Revision = {r1}
  CreatedReady = {}
  SourceKind <- GitAndTgz
  Specs <- EditableSpecs
  Initial = {lib}
  MaxGeneration = 2
  MaxRequests = 2
  MaxChanges = 0
  MaxUnready = 0
  MaxCrashes = 0
INVARIANTS
  TypeOK
  OrderInv
  NeverForgotten
  NothingLeftBehind
CHECK_DEADLOCK FALSE
PROPERTIES
  Converges
  DeletionCompletes

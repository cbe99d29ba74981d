SPECIFICATION Spec
CONSTANTS
  a = a
  b = b
  app = app
  lib = lib
  source = source
  url = url
  x = x
  y = y
  Unset = Unset
  None = None
  Namespace = {a, b}
  Name = {app, lib, source}
  Url = {url}
  Component <- Components
  Digest = {x, y}
  Specs <- SpecsOf
  MaxRequests = 5
INVARIANTS
  TypeOK
  ReadersFound
  DependentsFound
  VersionsKept
CHECK_DEADLOCK FALSE

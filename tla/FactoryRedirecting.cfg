SPECIFICATION FairSpec
CONSTANTS
  None = None
  app = app
  lib = lib
  x = x
  y = y
  repository = repository
  hop = hop
  archiveX = archiveX
  archiveY = archiveY
  yaml = yaml
  ini = ini
  key = key
  note = note
  deploy = deploy
  Component = {app, lib}
  Content = {x, y}
  Format = {yaml, ini}
  Key = {key, note}
  Imported = {key}
  Corrupt = {}
  Written <- InYaml
  Recipients <- ForKey
  Markers <- TwoMarkers
  Paths <- Deployments
  Url = {repository, hop, archiveX, archiveY}
  Repository = repository
  Location <- Redirecting
  Target <- OverHop
  Tells <- HopTells
  Setting <- BothSettings
  Choices <- AppMoves
  MaxChanges = 2
INVARIANTS
  TypeOK
  DigestIdentifiesContent
  GeneratedAsSet
PROPERTIES
  Current
  NobodyWaitsForever

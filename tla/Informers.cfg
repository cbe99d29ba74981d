SPECIFICATION FairSpec
CONSTANTS
  None = None
  main = main
  other = other
  component = component
  blueprint = blueprint
  ctx1 = ctx1
  ctx2 = ctx2
  Caller = {main, other}
  Ops <- Calls
  Type = {component, blueprint}
  Handler = {component}
  Context = {ctx1, ctx2}
INVARIANTS
  TypeOK
  NothingRunsReleased
PROPERTIES
  OneInformer
  CallsReturn

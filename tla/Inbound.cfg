SPECIFICATION Spec
CONSTANTS
  d = d
  g = g
  main = main
  pub = pub
  ann = ann
  bob = bob
  Scene = {d, g}
  Direct = {d}
  Agent = {main, pub}
  AdminAgent = main
  PublicAgent = pub
  RouteAgent <- MCRoute
  Task <- MCTask
  Message <- MCMessage
  Bounds <- MCBounds
INVARIANTS TypeOK DispatchedOnce Authorised
PROPERTIES AwakeSpared SessionSpared
CHECK_DEADLOCK FALSE

CONSTANTS
  p = p
  q = q
  Clients = {p, q}
  OpsOf <- Ops_manage
  MaxInst = 2
  UserFails = TRUE
  StartedLooksUp = TRUE
  DebugAssertions = TRUE
SPECIFICATION Spec
INVARIANTS OneService ListedLives
PROPERTIES LookupResolves ImplementsSlot InstancesLive
CHECK_DEADLOCK FALSE

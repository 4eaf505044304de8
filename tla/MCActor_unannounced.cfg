CONSTANTS
  a = a
  b = b
  w = w
  Clients = {a, b}
  InitHandle <- Handles_ab
  OpsOf <- Ops_late
  CtxLoads = {}
  MaxMsgs = 2
  Capacity = 0
  UserFails = FALSE
  HasTimeout = TRUE
  FailOnTimeout = TRUE
SPECIFICATION Spec
INVARIANTS NotifiedAfterStopped
CHECK_DEADLOCK FALSE

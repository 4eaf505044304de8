CONSTANTS
  a = a
  b = b
  w = w
  Clients = {a, b}
  InitHandle <- Handles_ab
  OpsOf <- Ops_full
  CtxLoads = {"stop"}
  MaxMsgs = 3
  Capacity = 1
  UserFails = TRUE
  HasTimeout = TRUE
  FailOnTimeout = TRUE
SPECIFICATION Spec
INVARIANTS Accounted StopVisible HooksBracket
PROPERTIES CallAnsweredOrStopped
CHECK_DEADLOCK FALSE

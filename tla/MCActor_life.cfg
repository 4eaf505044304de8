CONSTANTS
  a = a
  b = b
  w = w
  Clients = {a, w}
  InitHandle <- Handles_aw
  OpsOf <- Ops_life
  CtxLoads = {"stop"}
  MaxMsgs = 3
  Capacity = 0
  UserFails = TRUE
  HasTimeout = TRUE
  FailOnTimeout = FALSE
SPECIFICATION Spec
INVARIANTS OldestFirst StopIsBarrier OpenWhileHeld RefusalIsTrue DrainedBeforeStop
PROPERTIES StopHonoured LastDropStops HaltReturns ImplementsDelivery ImplementsLifecycle
CHECK_DEADLOCK FALSE

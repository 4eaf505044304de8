CONSTANTS
  a = a
  b = b
  w = w
  Clients = {a, b}
  InitHandle <- Handles_ab
  OpsOf <- Ops_evict
  CtxLoads = {}
  MaxMsgs = 2
  Capacity = 1
  UserFails = FALSE
  HasTimeout = FALSE
  FailOnTimeout = FALSE
SPECIFICATION Spec
PROPERTIES StopHonoured
CHECK_DEADLOCK FALSE

CONSTANTS
  a = a
  b = b
  w = w
  Clients = {a, w}
  InitHandle <- Handles_aw
  OpsOf <- Ops_strand
  CtxLoads = {}
  MaxMsgs = 2
  Capacity = 0
  UserFails = FALSE
  HasTimeout = FALSE
  FailOnTimeout = FALSE
SPECIFICATION Spec
PROPERTIES CallResolves
CHECK_DEADLOCK FALSE

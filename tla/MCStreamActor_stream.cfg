CONSTANTS
  a = a
  b = b
  Clients = {a, b}
  InitHandle <- Handles
  OpsOf <- Ops_stream
  CtxLoads = {"stop"}
  MaxMsgs = 2
  MaxElems = 2
  Capacity = 1
  UserFails = TRUE
  HasTimeout = TRUE
  FailOnTimeout = FALSE
SPECIFICATION StreamSpec
INVARIANTS ElementsInOrder FinishedOnceAtEnd
PROPERTIES SelectLosesNothing OutlivesStream StreamServed PushResolves DeliversSafely
CHECK_DEADLOCK FALSE

CONSTANTS
  p = p
  q = q
  Clients = {p, q}
  OpsOf <- Ops_meddle
  MaxInst = 2
  UserFails = FALSE
  StartedLooksUp = FALSE
  DebugAssertions = TRUE
SPECIFICATION Spec
INVARIANTS ServiceAnswersPing
CHECK_DEADLOCK FALSE

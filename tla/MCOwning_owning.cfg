CONSTANTS
  None = None
  Capacities = {1}
  MaxCalls = 4
  MaxLoads = 3
SPECIFICATION Spec
INVARIANTS JoinTells DetachedLives
PROPERTIES BuiltAsAsked ConsumeReturns
CHECK_DEADLOCK FALSE

CONSTANTS
  hello = hello
  kid = kid
  KindsOf <- Kinds_background
  Topics = {hello}
  Children = {kid}
  ChildCapacity = 1
  MaxTasks = 2
  MaxEntries = 1
  Capacity = 1
SPECIFICATION Spec
INVARIANTS NoTaskEscapes IntervalSurvives ChildHeld
PROPERTIES TasksEnd ChildrenFollow LoneTimerStops
CHECK_DEADLOCK FALSE

CONSTANTS
  hello = hello
  kid = kid
  KindsOf <- Kinds_overlap
  Topics = {hello}
  Children = {kid}
  ChildCapacity = 1
  MaxTasks = 2
  MaxEntries = 1
  Capacity = 1
SPECIFICATION Spec
PROPERTIES WeakDoesNotHold
CHECK_DEADLOCK FALSE

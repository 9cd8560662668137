SPECIFICATION Spec
CONSTANTS
  N = 1
  M = 1
  MaxNested = 1
  MaxMessages = 0
  MaxSignals = 1
  MayStall = FALSE
PROPERTIES NestedTasksBarred
CHECK_DEADLOCK FALSE

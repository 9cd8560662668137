SPECIFICATION FairSpec
CONSTANTS
  N = 2
  M = 2
  MaxNested = 1
  MaxMessages = 1
  MaxSignals = 2
  MayStall = TRUE
PROPERTIES EndsBySignal
CHECK_DEADLOCK FALSE

SPECIFICATION RunSpec
CONSTANTS
  N = 2
  M = 2
  MaxNested = 1
  MaxMessages = 2
  MaxSignals = 2
  MayStall = FALSE
  TailLines = 2
  LineCap = 3
  ReadWindow = 2
  Marker = 1
  MaxBytes = 6
INVARIANTS
  RunTypeOK NeverTorn OneResult NothingLost NestedResultFirst SignalHandled TailIsTrue
PROPERTIES ReportKept
CHECK_DEADLOCK FALSE

SPECIFICATION Spec
CONSTANTS
  None = None
  Broken = Broken
  p1 = p1
  p2 = p2
  Procs = {p1, p2}
  Primary = "primary"
  Names = {"primary", "second"}
  Nodes = {"n1", "n2"}
  BadNodes = {"n2"}
  Ops = {"list"}
  Starts = {"legacy"}
  MaxCommands = 2
  MaxFaults = 0
  MaxEdits = 0
INVARIANTS AllKept

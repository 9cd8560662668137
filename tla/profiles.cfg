SPECIFICATION Spec
CONSTANTS
  None = None
  Broken = Broken
  p1 = p1
  p2 = p2
  Procs = {p1, p2}
  Primary = "primary"
  Names = {"primary", "second"}
  Nodes = {"n1", "n2"}
  BadNodes = {"n2"}
  Ops = {"list", "add", "use", "rm", "regenerate", "upgrade", "init", "debug", "up", "down"}
  Starts = {"fresh", "legacy", "migrated"}
  MaxCommands = 3
  MaxFaults = 1
  MaxEdits = 1
SYMMETRY ProcSymmetry
INVARIANTS TypeOK LinkResolves NothingLost OnlyTestedGoesLive DebrisBounded Converged RejectsAdmitted

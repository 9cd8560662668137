SPECIFICATION Spec
CONSTANTS
  c1 = c1
  c2 = c2
  c3 = c3
  c4 = c4
  p1 = p1
  p2 = p2
  None = None
  Ctr = {c1, c2, c3}
  Procs = {p1}
  Commands <- JustRecreate
  Builds = {}
  FaultModes = {"deadline"}
  MaxFaults = 1
  MaxCrashes = 0
  MaxEdits = 0
  MaxForeign = 0
INVARIANTS NeverDead

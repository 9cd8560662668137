SPECIFICATION Spec
CONSTANTS
  SessOps = {"call", "predict", "score", "status", "ingest", "doctor",
             "backup", "reindex"}
  MaxRuns = 2
  MaxSignals = 2
  NFields = 2
  MaxCopies = 4
  WsProcs = {a, b}
  MaxCmds = 3
  Diagnoses = {d1, d2}
  DevContainers = {w1}
INVARIANTS
  TypeOK
  SessionEndsClean InterruptedSaysNothing  IngestOnce DoctorDoesAsShown
  SignalNeverAnAnswer TerminalRestored AnsweredByEnter
  DirectoryAccounted OrphanOnlyWarned
  DiagnosisHonest 
PROPERTIES VaultEnds PromptEnds
\* A command that has ended takes no further step.
CHECK_DEADLOCK FALSE

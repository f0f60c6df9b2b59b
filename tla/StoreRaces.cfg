SPECIFICATION Spec
CONSTANTS
  Procs = {p1, p2}
  Targets = {"DRAFT", "LOCKED", "VERIFYING", "PAUSED", "ABORTED"}
  MaxEvents = 4
  None = None
  p1 = p1
  p2 = p2
PROPERTY ForksStopWork
SYMMETRY BothProcs
CHECK_DEADLOCK FALSE

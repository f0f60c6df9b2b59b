SPECIFICATION Spec
CONSTANTS
  Procs = {p1}
  Targets = {"DRAFT", "LOCKED", "RUNNING", "VERIFYING", "TRIAGE", "FIXING", "SHIPPABLE", "BLOCKED", "PAUSED", "CLOSED", "ABORTED"}
  MaxEvents = 7
  None = None
  p1 = p1
  p2 = p2
INVARIANT QuietIsTrusted
PROPERTY RefinesMachine
CHECK_DEADLOCK FALSE

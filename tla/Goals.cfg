SPECIFICATION Spec
CONSTANTS
  Procs = {p1}
  Tasks = {t1, t2}
  MaxAttempts = 1
  Failures = {"f"}
  MaxIdentical = 2
  MaxDeaths = 1
  Moves <- MCMoves
  None = None
  Broken = Broken
  p1 = p1
  t1 = t1
  t2 = t2
INVARIANT RecoveryAgrees
INVARIANT DoneIsEarned
INVARIANT RetriesBounded
CHECK_DEADLOCK FALSE

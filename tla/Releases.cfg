SPECIFICATION Spec
CONSTANTS
  Workers = {w1}
  Terms = {"proven", "unproven"}
  Unproven = {"unproven"}
  Edits = {}
  Strays = {FALSE}
  Signatures = {"pass", "fail1", "fail2"}
  Passing = {"pass"}
  MaxAgentRuns = 1
  MaxFixCycles = 2
  MaxVerifyRuns = 3
  MaxRedundantVerifyRuns = 2
  MaxHead = 0
  MaxReleases = 2
  RunCap = 4
  None = None
  w1 = w1
  w2 = w2
INVARIANT ShippableIsProven
INVARIANT StateFollowsLock
PROPERTY HumanStopHolds

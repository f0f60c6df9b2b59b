SPECIFICATION Spec
CONSTANTS
  Workers = {w1}
  Terms = {"proven"}
  Unproven = {}
  Edits = {"e1"}
  Signatures = {"pass", "fail"}
  Passing = {"pass"}
  MaxAgentRuns = 0
  MaxFixCycles = 0
  MaxVerifyRuns = 1
  MaxRedundantVerifyRuns = 1
  MaxHead = 1
  MaxReleases = 1
  RunCap = 1
  None = None
  w1 = w1
  w2 = w2
  Strays = {TRUE, FALSE}
INVARIANT ReceiptsProven
INVARIANT ClosedIsTrusted

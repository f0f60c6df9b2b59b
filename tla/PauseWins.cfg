SPECIFICATION Spec
CONSTANTS
  Workers = {w1}
  Terms = {"proven"}
  Unproven = {}
  Edits = {}
  Signatures = {"pass", "fail"}
  Passing = {"pass"}
  MaxAgentRuns = 1
  MaxFixCycles = 1
  MaxVerifyRuns = 2
  MaxRedundantVerifyRuns = 2
  MaxHead = 0
  MaxReleases = 1
  RunCap = 3
  None = None
  w1 = w1
  w2 = w2
  Strays = {FALSE}
PROPERTY PauseWins

SPECIFICATION FairSpec
CONSTANTS
  Workers = {w1, w2}
  Terms = {"proven"}
  Unproven = {}
  Edits = {}
  Signatures = {"pass", "fail"}
  Passing = {"pass"}
  MaxAgentRuns = 1
  MaxFixCycles = 1
  MaxVerifyRuns = 2
  MaxRedundantVerifyRuns = 1
  MaxHead = 0
  MaxReleases = 1
  RunCap = 2
  None = None
  w1 = w1
  w2 = w2
  Strays = {FALSE}
PROPERTY RetriesEnd
PROPERTY AttemptsEnd

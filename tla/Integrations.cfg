SPECIFICATION Spec
CONSTANTS
  Procs = {agent, human}
  Ops <- MCOps
  MaxRelease = 2
  MaxRev = 1
  MaxEvents = 4
  MaxFix = 1
  MaxCalls <- MCCalls
  MaxFaults = 1
  Orphan = Orphan
  None = None
  agent = agent
  human = human
  Versions = {v1, v2}
  Shared = {config}
  Skill = skill
  MaxEdits = 1
  MaxBackups = 2
  MaxStops = 1
  Absent = Absent
  Packages = {p1, p2}
  AssetFiles = {manifest, instructions}
  Foreign = Foreign
  Missing = Missing
  MaxReceipts = 3
  MaxHistory = 2
  MaxPluginFaults = 1
  MaxWrites = 4
  MaxHands = 2
  Calls = {c1, c2}
  MaxRuns = 2
  MaxFixes = 2
  MaxBridgeStops = 1
INVARIANT StatusNeverThrows
INVARIANT ActsOnRecord
INVARIANT RestoredIsBackup
INVARIANT RolledBackAgrees
INVARIANT AuthorityWasWritten
INVARIANT OrdersPaid
PROPERTY AutomaticClosureIsReal
PROPERTY ClosesUnderBinding
CHECK_DEADLOCK FALSE

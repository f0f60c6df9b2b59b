SPECIFICATION Spec
CONSTANTS
  Procs = {host}
  StageLists <- MCStageLists
  MaxRevision = 1
  MaxEdits = 1
  MaxReleases = 2
  MaxStops = 1
  Nothing = Nothing
  Unknown = Unknown
  Hosts = {host}
  Owners = {owner}
  Files = {f}
  Secrets = {}
  MaxProposals = 2
  MaxRevisions = 2
  MaxHead = 1
  MaxVersion = 2
  MaxSurprises = 1
  Null = Null
INVARIANT StageClosedOnce
INVARIANT PlanGoesOn
INVARIANT LockedIsApproved
PROPERTY ReceiptIsLocked
PROPERTY HistoryKeepsEvidence
CHECK_DEADLOCK FALSE

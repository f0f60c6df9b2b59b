SPECIFICATION Spec
CONSTANTS
  Actors = {ana}
  Grants <- MCGrants
  Scripts <- MCScripts
  Skew = 1
  KeyTtl = 3
  ApprovalTtl = 3
  RateLimit = 1
  RateWindow = 1
  MaxKeys = 4
  MaxConcurrent = 2
  MaxNotices = 1
  NoticeWindow = 1
  MaxRequests = 3
  MaxClock = 3
  MaxHead = 1
  None = None
  Null = Null
  Unowned = Unowned
  Unset = Unset
  Nothing = Nothing
  ana = ana
  bob = bob
  MaxWork = 3
  MaxStops = 1
  MaxKept = 2
  Absent = Absent
  MaxInFlight = 2
  MaxQueued = 1
  MaxMessages = 4
  Jobs = {j1}
  j1 = j1
  j2 = j2
  MaxOutputBytes = 2
  MaxSent = 3
  MaxEdits = 1
  Writers = {w1, w2}
  EventKeys = {k1, k2, k3}
  MaxEvents = 2
  LockAttempts = 2
  MaxMinted = 3
  MaxAgentRuns = 1
  MaxFixCycles = 1
  Signatures = {s1, s2}
  MaxCycles = 3
  MaxRepeatedSignature = 3
  MaxPlanningStops = 2
  PlanStages = 2
  MaxMinor = 3
  GraphTasks = {t1, t2, t3}
  Ghost = Ghost
  Wishes <- MCWishes
  MaxRevisions = 3
INVARIANT RequestOnce
INVARIANT ApprovalOnce
INVARIANT NothingLost
INVARIANT IsolatedPassKeepsSource
INVARIANT WorkFailureIsNotExcused
INVARIANT WholeLinesAreReadable
INVARIANT PausedIsNotContinued
INVARIANT PlanningIsBounded
INVARIANT BuiltTrainIsValid
INVARIANT StableQuestionsAreAnswered
INVARIANT AcceptedGraphsFinish
INVARIANT ToolsTakeTurns
PROPERTY CommandEnds
PROPERTY Drains
CHECK_DEADLOCK FALSE

\* A task through one revision, followed over broken connections.
CONSTANTS
  NoKey = NoKey
  NoIssue = NoIssue
  NoValue = NoValue
  TaskIds = {t1}
  Issues = {}
  Keys = {k1}
  Values = {v1}
  MaxAttempts = 2
  Streamed = t1
  Passed <- MCPassed
  Targets = {"provisioning", "completed", "failed"}
  BatchLimit = 2
  MaxEvents = 12
  MaxNotes = 2
  MaxDrops = 2
SPECIFICATION StreamSpec
INVARIANTS NothingSkipped DoneMeansComplete
PROPERTIES PageLearnsTheEnd
CHECK_DEADLOCK FALSE

\* The deadline passes while the task enters review.
SPECIFICATION Spec
CONSTANTS
  NoKey = NoKey
  NoIssue = NoIssue
  NoValue = NoValue
  NoRunner = NoRunner
  TaskIds = {t1}
  LocalTasks = {}
  Configured = TRUE
  Issues = {i1}
  Keys = {k1}
  Values = {v1}
  MaxAttempts = 2
  Runners = {r1, r2}
  FenceCovers = TRUE
  MaxTasks = 1
  MaxFaults = 0
  MaxOverdue = 1
  MaxCommands = 0
  MaxNotes = 0
CHECK_DEADLOCK FALSE
PROPERTIES
  PublishedAwaitsReview

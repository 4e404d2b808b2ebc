\* Owners that stall inside a fenced operation for longer than their lease, so
\* that two of them drive one attempt; every step is a step of the task store.
SPECIFICATION Spec
CONSTANTS
  NoKey = NoKey
  NoIssue = NoIssue
  NoValue = NoValue
  NoRunner = NoRunner
  TaskIds = {t1}
  LocalTasks = {}
  Configured = TRUE
  Issues = {i1}
  Keys = {k1}
  Values = {v1}
  MaxAttempts = 2
  Runners = {r1, r2}
  FenceCovers = FALSE
  MaxTasks = 1
  MaxFaults = 1
  MaxOverdue = 0
  MaxCommands = 1
  MaxNotes = 1
SYMMETRY Symmetry
CHECK_DEADLOCK FALSE
INVARIANT
  NoStageSkipped
PROPERTIES
  StoreSpec

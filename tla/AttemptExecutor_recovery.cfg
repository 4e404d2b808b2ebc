\* A task with a repository or one without, revised or cancelled under way, with
\* one fault and an attempt that may run past its deadline.
SPECIFICATION Spec
CONSTANTS
  NoKey = NoKey
  NoIssue = NoIssue
  NoValue = NoValue
  NoRunner = NoRunner
  TaskIds = {t1, t2}
  LocalTasks = {t2}
  Configured = TRUE
  Issues = {i1}
  Keys = {k1}
  Values = {v1}
  MaxAttempts = 2
  Runners = {r1, r2}
  FenceCovers = TRUE
  MaxTasks = 1
  MaxFaults = 1
  MaxOverdue = 1
  MaxCommands = 1
  MaxNotes = 0
CHECK_DEADLOCK FALSE
PROPERTIES
  EventuallySettled
  SupersededOwnerHarmless
INVARIANTS
  OneCommitter

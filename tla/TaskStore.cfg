\* Any callers, in any order, on the shapes of MCTaskStore.
SPECIFICATION MCSpec
CONSTANTS
  NoKey = NoKey
  NoIssue = NoIssue
  NoValue = NoValue
  TaskIds = {t1, t2}
  Issues = {i1}
  Keys = {k1, k2}
  Values = {v1, v2}
  MaxAttempts = 2
  Shapes <- AllShapes
SYMMETRY Symmetry
CHECK_DEADLOCK FALSE
INVARIANTS
  OneActiveAttempt
  SequencesContiguous
  TimelineReplays
  OneActiveTaskPerIssue
  RevisionLimit
PROPERTIES
  TerminalFinal

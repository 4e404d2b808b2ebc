\* Two run commands that race for one issue and a merge, or one revise comment
\* carried by two deliveries while the task moves, with any one trouble: a
\* redelivery, a cancellation, a failure, a crash.  Or three deliveries about an
\* installation of two repositories that may be repeated.
SPECIFICATION MCSpec
CONSTANTS
  NoKey = NoKey
  NoIssue = NoIssue
  NoValue = NoValue
  d1 = d1
  d2 = d2
  d3 = d3
  d4 = d4
  d5 = d5
  c1 = c1
  c2 = c2
  i1 = i1
  t1 = t1
  TaskIds = {t1, t2}
  Issues = {i1}
  Comments = {c1, c2}
  Commits = {s1}
  Deliveries = {d1, d2, d3, d4, d5}
  MaxAttempts = 3
  MaxNotes = 1
  MaxTrouble = 1
  Repos = {r1, r2}
  NoRepo = NoRepo
  MaxInstalls = 2
  MaxEvents = 3
  MaxMishaps = 1
  CommandOf <- MCCommandOf
  Histories <- MCHistories
SYMMETRY Symmetry
CHECK_DEADLOCK FALSE
INVARIANTS
  RedeliveryHarmless
  PendingIsHandled
  OneAttemptPerComment
  LastEventRestores
PROPERTIES
  AcceptedNotRefused

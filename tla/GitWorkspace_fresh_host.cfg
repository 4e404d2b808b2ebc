\* A revision on a host that has no mirror of the repository yet.
SPECIFICATION GitSpec
CONSTANTS
  Hosts = {h1, h2}
  NoHost = NoHost
  MaxAttempts = 2
  MaxRuns = 3
  MaxMishaps = 3
CHECK_DEADLOCK FALSE
INVARIANT OnlyMovedTipRefused

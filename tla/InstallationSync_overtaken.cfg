\* A suspension that overtakes the event before it.
SPECIFICATION SyncSpec
CONSTANTS
  Repos = {r1, r2}
  NoRepo = NoRepo
  MaxInstalls = 2
  MaxEvents = 4
  MaxMishaps = 1
CHECK_DEADLOCK FALSE
INVARIANT SuspendedNotUsable

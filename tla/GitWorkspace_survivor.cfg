\* Work left on one host by a run that was cut off, and finished on another.
SPECIFICATION GitSpec
CONSTANTS
  Hosts = {h1, h2}
  NoHost = NoHost
  MaxAttempts = 2
  MaxRuns = 3
  MaxMishaps = 3
CHECK_DEADLOCK FALSE
INVARIANT SurvivorCarriesTheWork

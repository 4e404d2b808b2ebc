\* Two hosts, two attempts, three runs of the agent, three faults.
SPECIFICATION GitSpec
CONSTANTS
  Hosts = {h1, h2}
  NoHost = NoHost
  MaxAttempts = 2
  MaxRuns = 3
  MaxMishaps = 3
CHECK_DEADLOCK FALSE
INVARIANTS OneRunPerAttempt LeftoversCleared HostPublishesItsRun

\* One attempt, two controllers, two pods at once, two faults.
SPECIFICATION Spec
CONSTANTS
  Attempts = {a1}
  Controllers = {c1, c2}
  MaxPods = 2
  MaxFaults = 2
CHECK_DEADLOCK FALSE
INVARIANTS NoDuplicateExecution LossDetectedOnce
PROPERTY EveryAttemptSettles

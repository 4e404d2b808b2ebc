\* Both adapters, three lines of output and a pipe that holds one.
SPECIFICATION Spec
CONSTANTS
  Adapters = {"claude", "fake"}
  MaxLines = 3
  PipeLines = 1
CHECK_DEADLOCK FALSE
INVARIANTS NoProviderLeft OutcomeMatchesEvents
PROPERTY SessionEnds

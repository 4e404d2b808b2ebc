\* Two owners, two checks, any agent claims, three faults.
SPECIFICATION Spec
CONSTANTS
  Owners = {o1, o2}
  NoOwner = NoOwner
  Checks = 2
  Claims = {"passed", "failed"}
  MaxFaults = 3
CHECK_DEADLOCK FALSE
INVARIANTS PassedMeansAllPassed VerdictPublished OneConclusion

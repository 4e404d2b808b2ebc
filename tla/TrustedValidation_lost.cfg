\* One death between the two checks is enough.
SPECIFICATION Spec
CONSTANTS
  Owners = {o1, o2}
  NoOwner = NoOwner
  Checks = 2
  Claims = {"passed", "failed"}
  MaxFaults = 1
CHECK_DEADLOCK FALSE
INVARIANT NeverAPass

SPECIFICATION Spec
CONSTANTS
  MaxRelease = 2
  MaxFaults = 1
INVARIANTS
  ErrorLeavesNothing

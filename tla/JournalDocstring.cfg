\* What the docstring says a torn record can cost, against a close() that raises.
CONSTANTS
  MaxCalls = 3
  MaxFaults = 2
  MaxCrashes = 0
SPECIFICATION Spec
INVARIANTS
  TornLosesOnlyUnwritten
CHECK_DEADLOCK FALSE

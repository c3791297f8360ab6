\* Two tasks, five calls, two cancellations, discovery and a runner.
CONSTANTS
  Client = {a, b}
  Pinned = FALSE
  Launches = TRUE
  MaxCalls = 5
  MaxCancels = 2
SPECIFICATION Spec
SYMMETRY Symmetry
INVARIANTS
  EveryResourceOwned
  NothingHeldWhenClosed
CHECK_DEADLOCK FALSE

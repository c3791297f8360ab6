\* Two tasks make four calls of all kinds; no symmetry, as liveness is checked too.
CONSTANTS
  Client = {c1, c2}
  Free = Free
  MaxBatch = 2
  MaxOps = 4
  MaxCancels = 1
SPECIFICATION FairSpec
INVARIANTS
  OneBatchPerRevision
  ReportMatchesDevice
PROPERTIES
  NothingAfterClose
  InCallOrder
  ImplementsGate
  EveryCallAnswered
CHECK_DEADLOCK FALSE

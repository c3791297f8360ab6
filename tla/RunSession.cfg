\* A trace of two records, a watermark of three, and four operations.
CONSTANTS
  Keep = 2
  Watermark = 3
  MaxHookErrors = 2
  MaxRecords = 4
  MaxAttempts = 2
  MaxFaults = 3
SPECIFICATION Spec
INVARIANTS
  ClosedIsComplete
  EvidenceKept
  TraceKept
  TraceOnce
CHECK_DEADLOCK FALSE

\* run_async() and run_batch(): two calls, two coordinators, two names; a crash or a close.
CONSTANTS
  Coord = {k1, k2}
  Call = {t1, t2}
  Owner = {o1, o2}
  Free = Free
  Nobody = Nobody
  MaxBatch = 2
  Forms <- AnyForms
  MaxRev = 2
  MaxCancels = 1
  MaxStops = 1
SPECIFICATION Spec
SYMMETRY Symmetry
INVARIANTS
  OneOwner
  LedgerHonest
  OneMutationPerRevision
  BatchStopsAtEffect
PROPERTIES
  EndsAreFinal
CHECK_DEADLOCK FALSE

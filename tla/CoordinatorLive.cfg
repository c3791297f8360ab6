\* Liveness: every call has a deadline; no symmetry.  TLC finds a counterexample.
CONSTANTS
  Coord = {k1}
  Call = {t1}
  Owner = {o1}
  Free = Free
  Nobody = Nobody
  MaxBatch = 1
  Forms <- LimitedForms
  MaxRev = 2
  MaxCancels = 0
  MaxStops = 0
SPECIFICATION FairSpec
PROPERTIES
  DeadlineReleases
CHECK_DEADLOCK FALSE

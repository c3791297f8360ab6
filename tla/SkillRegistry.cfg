\* Two versions, two threads, two human approvals.
CONSTANTS
  Thread = {a, b}
  Mutation = {m1, m2}
  None = None
  MaxVersion = 2
  MaxEvidence = 2
  MaxRuns = 2
SPECIFICATION Spec
SYMMETRY Symmetry
INVARIANTS
  OneExecutable
  NeverAgain
  Sanctioned
PROPERTIES
  PurgeIsFinal
CHECK_DEADLOCK FALSE

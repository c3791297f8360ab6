\* Every script, two rounds, two cancellations.
CONSTANTS
  Scripts <- AllScripts
  Rounds = 2
  MaxCancels = 2
SPECIFICATION Spec
INVARIANTS
  CompletedMeansClean
  EndsQuiet
PROPERTIES
  OnlyHomeInDoubt
  ProbesAreRefused
CHECK_DEADLOCK FALSE

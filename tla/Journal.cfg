\* Failing writes, raised close() calls, crashes and reopenings in any order.
CONSTANTS
  MaxCalls = 4
  MaxFaults = 3
  MaxCrashes = 2
SPECIFICATION Spec
INVARIANTS
  Durable
  FileInOrder
  MemoryInFile
PROPERTIES
  NumbersAdvance
  ProjectionsGrow
CHECK_DEADLOCK FALSE

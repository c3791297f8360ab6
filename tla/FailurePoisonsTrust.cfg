CONSTANTS
  Revision = {r1, r2}
  NoRevision = none
  MaxEpisodes = 2
  MaxTokens = 2
SPECIFICATION ReuseSpec
INVARIANTS
  FailurePoisonsTrust
CHECK_DEADLOCK FALSE

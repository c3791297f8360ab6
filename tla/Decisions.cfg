CONSTANTS
  Revision = {r1, r2}
  NoRevision = none
  MaxEpisodes = 3
  MaxTokens = 2
  None = None
SPECIFICATION MCSpec
INVARIANTS
  ReuseEarned
  LiveKeepsFloor
  PlansSound
  ArbitrationsSound
  RetrievalsSound
CHECK_DEADLOCK FALSE

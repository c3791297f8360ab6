\* Two handler threads and two curators.
CONSTANTS
  Handler = {h1, h2}
  Curator = {c1, c2}
  NoQuestion = NoQuestion
  Facts = {1}
  MaxQuestions = 1
  MaxTeachings = 2
  MaxCurations = 2
  MaxUnread = 1
  MaxAborts = 1
  MaxTears = 1
SPECIFICATION Spec
SYMMETRY Symmetry
INVARIANTS
  LearnedWasCleared
  AnsweredByItsTeaching
  TearsCostOneLine
PROPERTIES
  LearnedIsFinal
CHECK_DEADLOCK FALSE

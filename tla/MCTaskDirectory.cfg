CONSTANTS
  MaxTasks = 5
  NumTests = 3
  Junk <- MCJunk
  Starts = {0, 1}
  Word = 32
  MaxRuns = 3
SPECIFICATION Spec
INVARIANTS TypeOK
PROPERTIES RemovesOnlyAsked FindsBothTasks SearchEnds
CHECK_DEADLOCK FALSE

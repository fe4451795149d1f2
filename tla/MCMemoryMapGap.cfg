SPECIFICATION Spec
CONSTANTS
  Wide = 16
  Narrow = 9
  ResBase = 2
  ResLen = 3
  HdrSize = 1
  Room = 3
  Cells = 6
  Behind <- MCBehind
  BiosMaps <- MCBiosMaps
INVARIANT
  GapMapped
CHECK_DEADLOCK FALSE

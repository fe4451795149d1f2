SPECIFICATION Spec
CONSTANTS
  Wide = 16
  Narrow = 9
  ResBase = 2
  ResLen = 3
  HdrSize = 1
  Room = 3
  Cells = 6
  Behind <- MCBehind
  BiosMaps <- MCBiosMaps
INVARIANTS
  TypeOK
  InRoom
  MapExact
  HeapReady
PROPERTY
  Terminates
CHECK_DEADLOCK FALSE

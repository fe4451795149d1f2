CONSTANTS
  Kinds = {"disk", "packet", "none"}
  Sectors = 4
  Words = 2
  Many = 3
  Units = {"master", "slave", "secondary", "unknown"}
  Calls <- MCCalls
  MaxCalls = 3
SPECIFICATION Spec
INVARIANTS TypeOK MovesWhenReady MovesAsAsked RegistersDisk PanicsOnJunk
PROPERTIES ProbeEnds ReadsEnd
CHECK_DEADLOCK FALSE

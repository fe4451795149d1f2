SPECIFICATION Spec
CONSTANTS
  Lines = {0, 1, 14, 15}
  Faults = {0, 13}
  Traps = {3}
  MaxTasks = 5
  NumTests = 3
  Junk <- MCJunk
  Starts = {0, 1, 9}
  Period = 3
PROPERTY
  HaltsOnException

SPECIFICATION Spec
CONSTANTS
  Word = 20
  HdrSize = 2
  HeadBase = 2
  HeadSize = 9
  NextRegion = 16
  Sizes = {0, 1, 3}
  MaxDepth = 1
  Boot <- MCBoot
  Scribbles <- MCScribbles
PROPERTY
  ReturnsIfSplitFails
CHECK_DEADLOCK FALSE

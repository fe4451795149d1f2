CONSTANTS
  Columns = 3
  Rows = 2
  Tab = 2
  Largest = 9
  MaxLines = 2
  font <- MCfont
  kbdus <- MCkbdus
  Alphabet <- MCAlphabet
  Taps <- MCTaps
  Messages <- MCMessages
SPECIFICATION Spec
INVARIANTS TypeOK CursorOnScreen ShiftFollowsKeys
PROPERTIES PrintsOnPaper TypesAsHeld

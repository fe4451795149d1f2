CONSTANTS
  CharMod = 16
  ShortMod = 256
  Word = 65536
  Texts <- MCTexts
  Letters <- MCLetters
  Calls <- MCCalls
  BufferSizes = {1, 9, 24}
SPECIFICATION Spec
INVARIANTS TypeOK WritesInside
PROPERTIES FormatsAsMeant GoesOn

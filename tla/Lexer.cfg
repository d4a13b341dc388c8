SPECIFICATION Spec
CONSTANTS
  Texts <- ShortTexts
CHECK_DEADLOCK FALSE
INVARIANTS
  LongestMatch
  PositionRight
PROPERTIES
  ScannerEnds

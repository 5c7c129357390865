CONSTANTS
  Menu <- Lines
  MaxLines = 3
SPECIFICATION Spec
INVARIANTS TypeOK OwnWords NothingGarbledSent FaultlessLineParsed RestoreCutShort
CHECK_DEADLOCK FALSE

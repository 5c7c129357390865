CONSTANTS
  Names = {a, b}
  Elems = {1, 3}
  MaxIndex = 2
  MaxElems <- TwoThenNone
  MinBits = 0
  MaxBits = 2
  HeadMax = 1
  MsgMax = 2
  InitSize = 1
  MaxHoles = 1
  Hole = Hole
  Garbled = 9
  NoSet = NoSet
  NoMsg = NoMsg
  NoBucket = NoBucket
  NoName = NoName
SPECIFICATION Spec
INVARIANTS TypeOK ListingExact OutputWellFormed BrokenOnlyByRename
PROPERTY ListingEnds
CHECK_DEADLOCK FALSE

SPECIFICATION Spec
CONSTANTS
  a = a
  b = b
  x = x
  y = y
  Names = {a, b}
  Elems = {x, y}
  NoName = NoName
  NoElem = NoElem
  Absent = Absent
  Menu <- AllLines
  MaxLines = 4
  BatchMax = 2
INVARIANTS
  TypeOK
  LinesInOrder
  RefusedLineReported
  CacheTrue
  LostLinesAreOneBatch
CHECK_DEADLOCK FALSE

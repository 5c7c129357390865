CONSTANTS
  Tables = {t1, t2, t3}
  FirstTable = t1
  NoTable = NoTable
  Readers = {r1}
  Dumpers = {p1, p2}
  Elems = {e1}
SPECIFICATION MCSpec
SYMMETRY Symmetry
INVARIANTS TypeOK AliveWithoutOverlap OldTablesFreed CurrentCommentsAlive

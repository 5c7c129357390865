CONSTANTS
  Tables = {t1, t2, t3}
  FirstTable = t1
  NoTable = NoTable
  Readers = {r1}
  Dumpers = {p1}
  Elems = {e1}
SPECIFICATION Spec
INVARIANT TablesAlive

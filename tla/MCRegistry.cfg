CONSTANTS
  Sets = {s1, s2, s3}
  Names = {a, b, c}
  Rules = {r1, r2}
  Packets = {k1}
  Dumps = {d1}
  Threads = {t1, t2}
  NoSet = NoSet
  NoName = NoName
  NoRule = NoRule
  NoOne = NoOne
  IdLimit = 4
  InitMax = 1
  Inc = 1
SPECIFICATION MCSpec
SYMMETRY Symmetry
INVARIANTS
  TypeOK NamesUnique RefsCountRules ModulePinned CommandSetAlive FreedOnlyAfterSwap
  NetlinkRefsCountDumps DumpedSetStays
PROPERTIES IndexKeepsName DumpAllComplete

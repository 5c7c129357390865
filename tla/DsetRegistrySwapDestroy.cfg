CONSTANTS
  Sets = {s1, s2}
  Names = {a, b}
  Rules = {r1}
  Packets = {k1}
  Dumps = {}
  Threads = {t1}
  NoSet = NoSet
  NoName = NoName
  NoRule = NoRule
  NoOne = NoOne
  IdLimit = 4
  InitMax = 1
  Inc = 1
SPECIFICATION Spec
INVARIANT PacketSetAlive

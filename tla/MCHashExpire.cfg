CONSTANTS
  d1 = d1
  d2 = d2
  d3 = d3
  Domains = {d1, d2, d3}
  NoElem = NoElem
  NoBucket = NoBucket
  Parent <- BelowD1
  Hash <- OnceCollide
  InitSize = 1
  MaxSize = 2
  InitBits = 0
  MaxBits = 1
  MaxElem = 3
  Timeouts = {"perm", "live"}
  WithCounter = TRUE
  WithForceadd = FALSE
  CanFail = TRUE
  MaxPackets = 1
SPECIFICATION Spec
SYMMETRY Symmetry
INVARIANTS TypeOK ElementsExact
PROPERTIES ImplementsSet CountersKept

CONSTANTS
  d1 = d1
  d2 = d2
  d3 = d3
  Domains = {d1, d2, d3}
  NoElem = NoElem
  NoBucket = NoBucket
  Parent <- BelowD1
  Hash <- OnceCollide
  InitSize = 2
  MaxSize = 4
  InitBits = 1
  MaxBits = 1
  MaxElem = 2
  Timeouts = {"perm"}
  WithCounter = FALSE
  WithForceadd = TRUE
  CanFail = FALSE
  MaxPackets = 0
SPECIFICATION Spec
INVARIANT ForceaddEvictsEntry

CONSTANTS
  d1 = d1
  d2 = d2
  d3 = d3
  Domains = {d1, d2, d3, d4}
  NoElem = NoElem
  NoBucket = NoBucket
  Parent <- BelowD1
  Hash <- TwiceCollide
  InitSize = 2
  MaxSize = 2
  InitBits = 0
  MaxBits = 2
  MaxElem = 3
  Timeouts = {"perm", "live"}
  WithCounter = FALSE
  WithForceadd = FALSE
  CanFail = FALSE
  MaxPackets = 0
SPECIFICATION FairSpec
INVARIANT StoredOnce
PROPERTIES ImplementsSet AddsAnswered

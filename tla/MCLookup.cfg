CONSTANTS
  Domains <- ThreeDomains
  Packets <- FewPackets
  SignedChar = TRUE
  MaxLen = 6
  InitSize = 1
  MaxSize = 2
  Timeouts = {0, 1}
  MaxNow = 3
  MaxOps = 2
  NoDomain = NoDomain
  NoArray = NoArray
  NoPacket = NoPacket
SPECIFICATION Spec
INVARIANTS TypeOK NameInBuffer
PROPERTIES NoFalseMiss FalseMatchOnlyByReuse

SPECIFICATION Spec
CONSTANTS
  b1 = b1
  b2 = b2
  absent = absent
  None <- NoWord
  N = 6
  Bits <- BitSet
  Owner <- OwnerOf
  Bit <- BitOf
  Legal <- LegalOf
  Packets <- AllPackets
INVARIANTS
  TypeOK
  PresenceIsTheTruth
  FailsForACause
  RoundTrip
  ForwardIsIdentity
  LenIsWritten
CHECK_DEADLOCK FALSE

SPECIFICATION Spec
CONSTANTS
  Byte <- Bytes
  Values <- AllValues
  Varint <- Varints
  MaxSizes = {2, 5}
  DefaultMax = 4
  MaxCalls = 3
INVARIANTS
  TypeOK
  WithinLimit
  PacketIsItsValues
  PrecheckIsExact
CHECK_DEADLOCK FALSE

SPECIFICATION FairDecoderSpec
CONSTANTS
  GroupBits = 2
  Base = 4
  MaxBytes = 3
  TopGroup = 2
  Weight <- WeightValues
  MaxInput = 4
INVARIANTS
  DecoderTypeOK
  Canonical
  RefusesOnlyInvalid
  LenIsExact
  ReadIsBounded
  OneOperation
PROPERTIES
  CallEnds
CHECK_DEADLOCK FALSE

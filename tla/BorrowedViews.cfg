SPECIFICATION Spec
CONSTANTS
  GroupBits = 1
  Base = 2
  MaxBytes = 3
  TopGroup = 2
  Weight <- WeightValues
  NotUtf8 = 3
  Types <- ViewTypes
  Fields <- ViewFields
  Limits <- LimitChoices
  DefaultItems = 2
  Packets <- AllPackets
INVARIANTS
  TypeOK
  IterNeverPanics
  WalkedIsDecoded
  DecodedIsWalked
  IteratorMeetsScan
CHECK_DEADLOCK FALSE

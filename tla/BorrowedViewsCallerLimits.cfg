SPECIFICATION Spec
CONSTANTS
  GroupBits = 1
  Base = 2
  MaxBytes = 3
  TopGroup = 2
  Weight <- WeightValues
  NotUtf8 = 3
  Types <- AllTypes
  Fields <- NestedViews
  Limits <- CustomChoice
  DefaultItems = 2
  Packets <- AllPackets
INVARIANTS
  CallerLimitsHold
CHECK_DEADLOCK FALSE

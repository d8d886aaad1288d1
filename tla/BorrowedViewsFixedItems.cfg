SPECIFICATION Spec
CONSTANTS
  GroupBits = 1
  Base = 2
  MaxBytes = 3
  TopGroup = 2
  Weight <- WeightValues
  NotUtf8 = 3
  Types <- AllTypes
  Fields <- FixedItems
  Limits <- DefaultChoice
  DefaultItems = 2
  Packets <- AllPackets
INVARIANTS
  FixedItemsHaveNoLength
CHECK_DEADLOCK FALSE

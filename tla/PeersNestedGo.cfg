SPECIFICATION Spec
CONSTANTS
  Normal <- MCNormal
  Catalogue <- NestedSchemas
  Values <- MCValues
  MaxHops = 1
INVARIANT
  NestingArrivesInGo
CHECK_DEADLOCK FALSE

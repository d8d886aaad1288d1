SPECIFICATION Spec
CONSTANTS
  Normal <- MCNormal
  Catalogue <- MCSchemas
  Values <- MCValues
  MaxHops = 1
INVARIANTS
  
  
  LazyItemsAreDecoded
CHECK_DEADLOCK FALSE

SPECIFICATION Spec
CONSTANTS
  Normal <- MCNormal
  Catalogue <- ReadmeSchemas
  Values <- MCValues
  MaxHops = 1
INVARIANT
  LinkedBitIsSet
CHECK_DEADLOCK FALSE

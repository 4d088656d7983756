SPECIFICATION Spec
CONSTANTS
  Aligns = {1, 2, 4}
  Bytes = {1, 2, 4}
  Lists <- OnlyVaryingLists
  FixedCount = {1, 3}
  VaryingCount = {0, 1, 3}
  VaryingBytes = {0, 6, 12}
  MaxElements = 2
INVARIANT ElementsFit
CHECK_DEADLOCK FALSE

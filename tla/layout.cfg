SPECIFICATION Spec
CONSTANTS
  Aligns = {1, 2, 4}
  Bytes = {1, 2, 3, 4}
  Lists <- RightLists
  FixedCount = {0, 3}
  VaryingCount = {0, 1, 3}
  VaryingBytes = {6, 12}
  MaxElements = 2
INVARIANTS ObjectsAligned ObjectsDisjoint ElementsFit CopyReadsBack
CHECK_DEADLOCK FALSE

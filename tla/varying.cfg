SPECIFICATION Spec
CONSTANTS
  e = e
  s = s
  l = l
  Value <- MCValue
  Units <- MCUnits
  Raw = Raw
  Indeterminate = Indeterminate
  Kinds <- BothKinds
  MaxCapacity = 3
  MaxVarying = 5
  Avoided = {"erase_nothing", "erase_back", "erase_narrow", "reserve_empty", "reserve_unfilled", "reserve_too_few_bytes"}
INVARIANTS TypeOK ElementsIntact ElementsInOrder ElementsAligned NoStrayObject NeverUndefined NothingWasted
PROPERTY ImplementsContainer
CHECK_DEADLOCK FALSE

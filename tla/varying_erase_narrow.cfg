SPECIFICATION Spec
CONSTANTS
  e = e
  s = s
  l = l
  Value <- TwoValue
  Units <- MCUnits
  Raw = Raw
  Indeterminate = Indeterminate
  Kinds <- OnlyPacked
  MaxCapacity = 3
  MaxVarying = 4
  Avoided = {"erase_nothing", "erase_back", "reserve_empty", "reserve_unfilled", "reserve_too_few_bytes"}
INVARIANT ElementsIntact
CHECK_DEADLOCK FALSE

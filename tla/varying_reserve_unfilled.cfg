SPECIFICATION Spec
CONSTANTS
  e = e
  s = s
  l = l
  Value <- TwoValue
  Units <- MCUnits
  Raw = Raw
  Indeterminate = Indeterminate
  Kinds <- OnlyPacked
  MaxCapacity = 3
  MaxVarying = 4
  Avoided = {"erase_nothing", "erase_back", "erase_narrow", "reserve_empty", "reserve_too_few_bytes"}
PROPERTY ImplementsContainer
CHECK_DEADLOCK FALSE

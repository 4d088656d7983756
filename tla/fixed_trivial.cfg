SPECIFICATION Spec
CONSTANTS
  Value = {a, b, c}
  Param <- MCParam
  NonTrivial <- AllTrivial
  Raw = Raw
  Moved = Moved
  MaxCapacity = 5
  MoveMayThrow = FALSE
  ReservesEmpty = TRUE
INVARIANT TypeOK
PROPERTY ImplementsContainer

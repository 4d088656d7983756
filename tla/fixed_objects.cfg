SPECIFICATION FairSpec
CONSTANTS
  Value = {a, b, c}
  Param <- MCParam
  NonTrivial <- LastTwoNonTrivial
  Raw = Raw
  Moved = Moved
  MaxCapacity = 5
  MoveMayThrow = TRUE
  ReservesEmpty = FALSE
INVARIANTS ObjectsAreElements GrowIsConsistent
PROPERTIES ImplementsContainer MethodsReturn

SPECIFICATION Spec
CONSTANTS
  Vector = {v, w}
  small = small
  large = large
  Value = {small, large}
  Parts <- Sizes
  Allocator = {a1, a2}
  Block = {b1, b2, b3}
  Null = Null
  Raw = Raw
  Moved = Moved
  Unspecified = Unspecified
  UnitBytes = 2
  Kinds <- AllKinds
  Traits <- SomeTraits
  MaxCapacity = 2
  MaxVarying = 1
  MaxUnits = 4
  Avoided = {"use_moved_from", "reserve_default", "erase_nothing", "erase_back", "erase_narrow", "relocate", "move_into_smaller", "propagating_move", "reserve_too_few_bytes"}
INVARIANTS SoleOwner ReleasedByItsAllocator EdgeInOwnMemory ObjectsAreElements NeverUndefined
PROPERTY ImplementsValues
SYMMETRY Symmetric
CHECK_DEADLOCK FALSE

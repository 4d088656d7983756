SPECIFICATION Spec
CONSTANTS
  Vector = {u, v}
  Value = {x, y}
  Allocator = {a1, a2}
  Block = {b1, b2, b3}
  Table = {t1, t2, t3}
  Null = Null
  Raw = Raw
  Moved = Moved
  Unspecified = Unspecified
  UnitBytes = 2
  MaxCapacity = 3
  MaxUnits = 6
  Avoided = {"use_moved_from", "reserve_default", "copy_empty", "copy_unfilled", "clear_empty", "swap_allocators"}
INVARIANTS SoleOwner ReleasedByItsAllocator ObjectsAreElements NeverUndefined
PROPERTY ImplementsValues
SYMMETRY Symmetric
CHECK_DEADLOCK FALSE

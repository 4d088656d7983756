SPECIFICATION Spec
CONSTANTS
  Vector = {u, v}
  Value = {x, y}
  Allocator = {a1, a2}
  Block = {b1, b2, b3}
  Table = {t1, t2, t3}
  Null = Null
  Raw = Raw
  Moved = Moved
  Unspecified = Unspecified
  UnitBytes = 2
  MaxCapacity = 1
  MaxUnits = 2
  Avoided = {"use_moved_from", "reserve_default", "copy_empty", "copy_unfilled", "clear_empty"}
INVARIANT ReleasedByItsAllocator
SYMMETRY Symmetric
CHECK_DEADLOCK FALSE

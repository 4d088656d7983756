SPECIFICATION IteratorsSpec
CONSTANTS
  Iterator = {x}
  Buffer = {t1, t2, t3}
  Orders <- SomeOrders
  Vector = {v, w}
  small = small
  large = large
  Value = {small, large}
  Parts <- Sizes
  Allocator = {a1, a2}
  Block = {b1, b2, b3}
  Null = Null
  Raw = Raw
  Moved = Moved
  Unspecified = Unspecified
  UnitBytes = 1
  Kinds <- AllKinds
  Traits <- SomeTraits
  MaxCapacity = 2
  MaxVarying = 1
  MaxUnits = 3
  Avoided = {"use_moved_from", "reserve_default", "erase_nothing", "erase_back", "erase_narrow", "relocate", "move_into_smaller", "propagating_move", "reserve_too_few_bytes", "grow_table", "copy_tables", "compare_sizes", "compare_gaps"}
INVARIANTS IteratorsFollow IteratorsTellApart  
SYMMETRY Symmetric
CHECK_DEADLOCK FALSE

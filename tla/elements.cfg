SPECIFICATION Spec
CONSTANTS
  s1 = s1
  s2 = s2
  Slot = {s1, s2}
  Element = {e, f}
  Block = {b1, b2, b3}
  Allocator = {a1, a2}
  Fillings <- SomeFillings
  Traits <- SomeTraits
  Vectors <- SomeVectors
  Shapes <- SomeShapes
  Raw = Raw
  Moved = Moved
  Null = Null
  Avoided = {"use_moved_from", "other_sizes", "units_as_bytes"}
INVARIANTS SoleOwner ReleasedByItsAllocator ObjectsAtHome NeverUndefined EqualComparesValues LessIsLexicographic
PROPERTY ImplementsValues
SYMMETRY Symmetric
CHECK_DEADLOCK FALSE

\* The main line prints; a key press prints in the middle of it.
SPECIFICATION Spec
CONSTANTS
  MIN_CAPACITY = 3
  MaxEntries = 4
  Chars = {"a", "b"}
  KeyLen = 3
  MaxKeys = 2
INVARIANTS
  StoreInBounds
  WalkEnds
PROPERTIES
  LogSpec

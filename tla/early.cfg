\* Every list of up to three tags, then every call of the library.
SPECIFICATION Spec
CONSTANTS
  TagLists <- MCTagLists
  MULTIBOOT_TAG_ALIGN = 8
  Block = 4
  Top = 13
  Longest = 10
  Bits = 6
  Bases = {2, 3, 10, 16}
INVARIANTS
  InfoExact
  CopyExact
  NumbersExact
\* Each call is explored on its own.
CHECK_DEADLOCK FALSE

\* The choice of the region and the marking of what is not available.
SPECIFICATION Spec
CONSTANTS
  Word = 24
  PageSize = 4
  kernel_end = 5
  Entries <- SomeEntries
  MaxEntries = 3
  Places = {1, 9}
INVARIANTS
  TypeOK
  RegionUsable
  RegionLargest
  MarksExact
\* The boot code ends when the map has been read, or panics.
CHECK_DEADLOCK FALSE

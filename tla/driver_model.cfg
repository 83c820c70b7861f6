\* Three built-in images, good and bad, on each bus; one allocation may fail.
SPECIFICATION FairSpec
CONSTANTS
  KernelNames = {"print", "kmalloc"}
  MaxFailures = 1
  Queues <- MCQueues
  Plain = 2
  Buses <- MCBuses
  LastFn = 2
INVARIANTS
  DriversLinked
  DevicesServed
  DevicesOnce
PROPERTIES
  BootEnds
\* The boot ends.
CHECK_DEADLOCK FALSE

\* From the boot loader to a kernel that waits, with faults and lost ticks.
SPECIFICATION FairSpec
CONSTANTS
  Word = 8
  Delays = {0, 2}
  Faults = {0, 13}
  Burst = 2
  Nesting = 3
INVARIANTS
  TypeOK
  InServiceHandled
  IretClean
PROPERTIES
  WaitNotEarly
  WaitEnds
  KeysServed
\* An exception stops the machine.
CHECK_DEADLOCK FALSE

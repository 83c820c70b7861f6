\* The IDE probe, then the EHCI bind, against every kind of hardware.
SPECIFICATION DevicesFairSpec
CONSTANTS
  Drives <- DriveSets
  NullSets <- NullEntries
  LowEntries <- MCLowEntries
  NumPorts = 1
  PowerControl = TRUE
  Stores <- MCStores
  Legacies <- MCLegacies
INVARIANTS
  DrivesReported
  RunsPrepared
PROPERTIES
  ProbeEnds
  BindReturns
\* Both end.
CHECK_DEADLOCK FALSE

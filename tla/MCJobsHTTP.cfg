SPECIFICATION WatchFairSpec
CONSTANTS
  LastEvent = 4
  MaxFaults = 3
INVARIANT WatchInv
PROPERTY WatcherEnds
CHECK_DEADLOCK FALSE

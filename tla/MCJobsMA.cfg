CONSTANTS
  Jobs = {j1}
  Closers = {c1, c2}
  MaxEvents = 2
SPECIFICATION FairSpec
INVARIANT CancelWins
INVARIANT ResultInv
INVARIANT WatchExactlyOnce
INVARIANT CloseDrains
PROPERTY ImplementsLifecycle
PROPERTY EveryJobEnds
PROPERTY CloseReturns
CHECK_DEADLOCK FALSE

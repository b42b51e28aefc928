CONSTANTS
  Jobs = {j1}
  Closers = {c1}
  MaxEvents = 0
SPECIFICATION Spec
INVARIANT NoWorkerAfterClose
CHECK_DEADLOCK FALSE

CONSTANTS
  m1 = m1  m2 = m2
  Modes = {m1, m2}
  MaxTurns = 3
  MaxSids = 3
  MaxTries = 2
  MaxHash = 1
  MaxTracedTurn = 2
  CallLists <- MCCallLists
SPECIFICATION TraceSpec
SYMMETRY Symmetry
INVARIANT SessionInv
INVARIANT UserMessageOnce
INVARIANT TraceInv
CHECK_DEADLOCK FALSE

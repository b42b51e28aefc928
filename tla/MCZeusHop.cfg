CONSTANTS
  a = a  b = b  k1 = k1
  Calls = {a, b}
  Scopes = {k1}
  ScopeOf <- OneScope
  HowSets <- Pairs
  IdleTTL = 2
  HardTTL = 3
  Margin = 1
  MaxTime = 3
  MaxSids = 2
  MaxPwd = 1
  MaxRevoked = 1
  MayClose = TRUE
  OwnsHTTP = TRUE
SPECIFICATION Spec
SYMMETRY Symmetry
INVARIANT HopInv
INVARIANT MarginCovers
INVARIANT CallNeverStuck
PROPERTY NoStoreAfterClose
PROPERTY CallsComeHome
CHECK_DEADLOCK FALSE

SPECIFICATION UnitSpec
CONSTANTS
  Maps <- SmallMaps
INVARIANT UnitsInv
INVARIANT OneLateUnit
CHECK_DEADLOCK FALSE

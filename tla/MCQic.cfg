SPECIFICATION Spec
CONSTANTS
  MaxConn = 2
  MaxStm = 1
  MaxData = 1
  MaxCalls = 5
  Names = {"x", "y"}
  Vals = {"1", "2"}
  MaxSlots = 3
INVARIANT HandedOnce
INVARIANT PostedOnce
INVARIANT HeadersSound
CHECK_DEADLOCK FALSE

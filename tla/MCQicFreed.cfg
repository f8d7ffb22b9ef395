SPECIFICATION Spec
CONSTANTS
  MaxConn = 1
  MaxStm = 1
  MaxData = 1
  MaxCalls = 6
  Names = {"x", "y"}
  Vals = {"1", "2"}
  MaxSlots = 3
INVARIANT NoFreedUse

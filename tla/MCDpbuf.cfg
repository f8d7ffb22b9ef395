CONSTANTS
  b1 = b1
  b2 = b2
  Buf = {b1, b2}
  Data <- MCData
  Modes = {"dup"}
  Until <- MCUntil
  Batch = 2
  SSize = 0
  MaxSize = 8
  MaxLen = 4
  Peers = {b2}
  PairLen = 2
  Reads = {"file"}
  FullDet = FALSE
SPECIFICATION Spec
INVARIANTS InStorage RefCounted StopsAtFirst
PROPERTY ImplementsWindow
CHECK_DEADLOCK FALSE

CONSTANTS
  Kinds = {"read", "read_must", "read_data", "read_some", "write", "write_must", "write_data", "write_some", "poll"}
  Lens = {3}
  Cap = 2
  Batch = 2
  Closes = TRUE
SPECIFICATION FairSpec
INVARIANTS NoLostEdge Accounted
PROPERTIES Progress CloseEndsWait

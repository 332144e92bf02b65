SPECIFICATION Spec
CONSTANTS
  Devices = {d0, d1}
  Host = host
  Pointers = {p0, p1, p2, p3}
  MaxCalls = 4
  Threads = 2
  Kinds = {"h2d", "execute", "delete"}
  Size = 1
  Capacity = 3
  Reserved = 1
  RevokeInUse = TRUE
SYMMETRY Symmetry
CONSTRAINT UploadsFirst
INVARIANTS
  InputsBeforeResults
  PendingWorkKeepsMemory
  QuietMemory
CHECK_DEADLOCK FALSE

SPECIFICATION Spec
CONSTANTS
  Devices = {d0}
  Host = host
  Pointers = {p0, p1}
  MaxCalls = 2
  Threads = 2
  Kinds = {"h2d", "copy", "d2h", "delete", "destroy"}
  Size = 1
  Capacity = 3
  Reserved = 1
  RevokeInUse = TRUE
SYMMETRY Symmetry
INVARIANTS
  PendingWorkKeepsMemory
CHECK_DEADLOCK FALSE

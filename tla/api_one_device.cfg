SPECIFICATION Spec
CONSTANTS
  Devices = {d0}
  Host = host
  Pointers = {p0, p1}
  MaxCalls = 3
  Threads = 2
  Kinds = {"h2d", "copy", "d2h", "execute", "delete", "destroy"}
  Size = 1
  Capacity = 3
  Reserved = 1
  RevokeInUse = FALSE
SYMMETRY Symmetry
INVARIANTS
  TypeOK
  InputsBeforeResults
  PendingWorkKeepsMemory
  QuietMemory
CHECK_DEADLOCK FALSE

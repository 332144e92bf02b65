SPECIFICATION Spec
CONSTANTS
  Aliases = {a0, s1}
  First = a0
  Bytes = 1
  MaxTransfers = 2
  Events = {e0}
  Placeholder = FALSE
INVARIANT PendingTransfersKeepMemory
CHECK_DEADLOCK FALSE

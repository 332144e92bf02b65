SPECIFICATION Spec
CONSTANTS
  Handles = {h0, h1}
  Sessions = 2
  Activities = {a0, a1}
  Batch <- MCBatch
  MaxEvents = 3
  MaxTime = 2
SYMMETRY Symmetry
INVARIANTS
  TypeOK
  RunningIsOwned
  CollectedIsComplete
  TraceWithinSession
PROPERTY StoppedIsFinal
CHECK_DEADLOCK FALSE

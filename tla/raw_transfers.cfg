SPECIFICATION FairSpec
CONSTANTS
  Aliases = {a0, s1}
  First = a0
  Bytes = 2
  MaxTransfers = 2
  Events = {e0}
  Placeholder = FALSE
INVARIANTS
  TypeOK
  OneCopyAtATime
  ReadsLastWrite
  ErrorsReachAllLater
  NothingWrittenAfterFailure
PROPERTY TransfersResolve
CHECK_DEADLOCK FALSE

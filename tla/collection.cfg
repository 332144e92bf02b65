CONSTANTS
  NoId = NoId
  NoQueue = NoQueue
  NoLabel = NoLabel
  None = None
  q1 = q1
  q2 = q2
  OtherKey = "other"
  Keys <- MCKeys
  Foreign = {"plain"}
  NameOf <- MCNameOf
  DevicesOf <- MCDevicesOf
  Fingerprint <- MCFingerprint
  ModuleIds = {1}
  Devices = {1, 2}
  Spans <- MCSpans
  Queues <- MCQueues
  Noise <- MCNoise
  MaxCompiles = 1
  MaxLaunches = 3
  MaxMissed = 1
  MaxQueries = 2
SYMMETRY MCSymmetry
SPECIFICATION Spec
INVARIANTS
  WholeLaunches
  TimedAsQueried
CHECK_DEADLOCK FALSE

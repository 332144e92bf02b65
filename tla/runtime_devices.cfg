SPECIFICATION Spec
CONSTANTS
  Devices = {d0, d1}
  Host = host
  MaxCalls = 2
  MaxInputs = 1
  Durations = {0, 1}
  LaunchNs = 1
  HostPromises = {}
  Horizon = 2
SYMMETRY Symmetry
INVARIANTS
  TypeOK
  NoEarlySuccess
  ExclusiveResources
  CausalStart
PROPERTIES
  ImplementsPromise
CHECK_DEADLOCK FALSE

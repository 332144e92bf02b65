SPECIFICATION FairSpec
CONSTANTS
  Devices = {d0}
  Host = host
  MaxCalls = 2
  MaxInputs = 1
  Durations = {1}
  LaunchNs = 0
  HostPromises = {cpu}
  Horizon = 2
PROPERTIES
  ImplementsPromise
  EveryFutureResolves
  DestructorReturns
CHECK_DEADLOCK FALSE

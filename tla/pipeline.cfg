SPECIFICATION Spec
CONSTANTS
  Bundles <- MCBundles
  MaxBundles = 4
  MaxDeps = 1
  Resources = {"x", "y"}
  Counters = {"f"}
  Services = {"hbm"}
  InitialReady <- MCInitialReady
  InitialCredits <- MCInitialCredits
INVARIANTS
  TypeOK
  ExclusiveReservations
  EarliestIssue
  CreditsExact
CHECK_DEADLOCK FALSE

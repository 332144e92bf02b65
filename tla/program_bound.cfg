CONSTANTS
  WordBits = 3
  Allocations <- MCAllocations
  SpillSlots <- MCSpillSlots
  Kernels <- MCKernels
  PredicateRegisters <- MCPredicateRegisters
  Programs <- MCPrograms
  Place <- MCPlace
  Extent = 2
  MaxSteps = 48
  UnrollLimit = 8
  MaxDepth = 14
  Latency <- MCLatency
  ExtraCycles <- MCExtraCycles
  Granule = 2
  Transaction = 4
  BytesPerCycle = 2
  DmaLatency = 1
  MrbSlots = 2
SPECIFICATION Spec
INVARIANTS
  ExecutionsCovered
  ScalarsSound
  JoinsPostdominate
  BoundCovers
  OperandsReady
PROPERTIES
  EstimateEnds

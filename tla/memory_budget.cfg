SPECIFICATION BudgetSpec
CONSTANTS
  Devices = {d0, d1}
  Allocations = {a0, a1, a2, a3, a4}
  Sizes <- MCSizes
  Capacity = 4
  Reserved = 1
SYMMETRY Symmetry
INVARIANTS
  BudgetTypeOK
  StatsExact
CHECK_DEADLOCK FALSE

--------------------------- MODULE MCMemoryBudget ---------------------------
(* MemoryBudget for TLC: byte counts below zero, zero and at the limit.    *)
EXTENDS MemoryBudget, TLC

MCSizes == {-1, 0, 1, 2, 4}

Symmetry == Permutations(Allocations) \cup Permutations(Devices)
============================================================================

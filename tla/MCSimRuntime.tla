---------------------------- MODULE MCSimRuntime ----------------------------
(* SimRuntime on small instances: devices are interchangeable. *)
EXTENDS SimRuntime, TLC

Symmetry == Permutations(Devices)
============================================================================

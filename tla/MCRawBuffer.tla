---------------------------- MODULE MCRawBuffer -----------------------------
(* RawBuffer on small instances: slices are interchangeable.               *)
EXTENDS RawBuffer, TLC

Symmetry == Permutations(Aliases \ {First})
============================================================================

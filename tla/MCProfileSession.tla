-------------------------- MODULE MCProfileSession ---------------------------
(* ProfileSession on small instances.                                      *)
EXTENDS ProfileSession, TLC

MCBatch == <<<<0, 1>>, <<1, 3>>>>

Symmetry == Permutations(Handles) \cup Permutations(Activities)
==============================================================================

-------------------------------- MODULE MCReplay --------------------------------
(* A capture of a program on two devices, one on one, of the same name, and
   one that isn't observed; then a run that uses it.                       *)
EXTENDS Replay, TLC

CONSTANTS q1, q2

MCKeys == {"two", "one", "plain"}
MCNameOf == [k \in MCKeys |-> "jit_f"]
MCDevicesOf == [k \in MCKeys |-> IF k = "two" THEN 2 ELSE 1]
MCFingerprint == [k \in MCKeys |-> IF k = "plain" THEN 91 ELSE 92]
MCSpans == {[gap |-> 0, dur |-> 5], [gap |-> 3, dur |-> 4]}
MCQueues == {q1, q2}

Sample ==
  [launch |-> 0, plane |-> "TPU", track |-> "XLA_Modules", clock |-> "device", device |-> 1,
   ts |-> 1, dur |-> 3, name |-> [base |-> "jit_f", label |-> "one"], suffix |-> 92,
   arg |-> 92, queue |-> NoQueue]
MCNoise ==
  {[Sample EXCEPT !.clock = "simulated"], [Sample EXCEPT !.plane = "Sparse"],
   [Sample EXCEPT !.dur = 0]}

MCSymmetry == Permutations(MCQueues)
================================================================================

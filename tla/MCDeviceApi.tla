---------------------------- MODULE MCDeviceApi ----------------------------
(* DeviceApi on small instances: addresses are interchangeable. *)
EXTENDS DeviceApi, TLC

Symmetry == Permutations(Pointers) \cup Permutations(Devices)

(* State constraint of the run on two devices: the first two calls are uploads
   to different devices, each ready before the next call; api_one_device has
   uploads that fail or are pending.                                       *)
Uploaded(c) ==
  At(c, "h2d", "done") /\ \A id \in IdsOf(c) : Done(id) /\ status[id] = "ok"
UploadsFirst ==
  \A c \in Calls : call[c].kind # "none" =>
    \A b \in 1..2 : b < c => Uploaded(b) /\ (c = 2 => call[b].nodes # call[c].nodes)
============================================================================

---------------------------- MODULE MemoryBudget ----------------------------
(***************************************************************************)
(* MemoryBudget (src/src/memory.{h,cc}): the logical HBM of each device.   *)
(* An allocation exists as long as somebody shares it; its destructor      *)
(* gives its bytes back.  Allocate and Release hold mutex_.                *)
(***************************************************************************)
EXTENDS Integers, FiniteSets, FiniteSetsExt

CONSTANTS
  Devices,      (* device ordinals                                         *)
  Allocations,  (* names of the MemoryAllocation objects ever made         *)
  Sizes,        (* byte counts that are requested                          *)
  Capacity,     (* capacity_                                               *)
  Reserved      (* reserved_                                               *)

(* RuntimeConfig::FromEnvironment refuses a reservation above capacity.    *)
ASSUME BudgetAssumption ==
  /\ Capacity \in Nat /\ Reserved \in 0..Capacity
  /\ Sizes \subseteq Int

VARIABLES
  usage,  (* devices_: used, peak and allocations of each device           *)
  live    (* the MemoryAllocation objects; Unmade before, Freed after      *)

budgetVars == <<usage, live>>

Unmade == [device |-> "unmade", bytes |-> 0]
Freed == [device |-> "freed", bytes |-> 0]
NoUsage == [used |-> 0, peak |-> 0, allocations |-> 0]

Live == {a \in Allocations : live[a] \notin {Unmade, Freed}}

BudgetInit ==
  /\ usage = [d \in Devices |-> NoUsage]
  /\ live = [a \in Allocations |-> Unmade]

(* Mutant of Fits: a negative size is granted.                              *)
FitsNegative(d, bytes) == bytes <= Capacity - Reserved - usage[d].used

Fits(d, bytes) == bytes >= 0 /\ bytes <= Capacity - Reserved - usage[d].used

Allocate(a, d, bytes) ==
  /\ live[a] = Unmade
  /\ Fits(d, bytes)
  /\ live' = [live EXCEPT ![a] = [device |-> d, bytes |-> bytes]]
  /\ LET used == usage[d].used + bytes
     IN  usage' = [usage EXCEPT ![d] =
           [used |-> used,
            peak |-> IF used > @.peak THEN used ELSE @.peak,
            allocations |-> @.allocations + 1]]

(* Mutant of Release: the count of the allocation's device is not lowered. *)
ReleaseNothing(a) ==
  /\ a \in Live
  /\ live' = [live EXCEPT ![a] = Freed]
  /\ UNCHANGED usage

(* ~MemoryAllocation                                                       *)
Release(a) ==
  /\ a \in Live
  /\ usage' = [usage EXCEPT ![live[a].device].used = @ - live[a].bytes]
  /\ live' = [live EXCEPT ![a] = Freed]

Stats(d) ==
  [used |-> usage[d].used + Reserved, peak |-> usage[d].peak + Reserved]

BudgetNext ==
  \E a \in Allocations :
    \/ \E d \in Devices, bytes \in Sizes : Allocate(a, d, bytes)
    \/ Release(a)

BudgetSpec == BudgetInit /\ [][BudgetNext]_budgetVars

----------------------------------------------------------------------------
(* The types of the bookkeeping of memory.h: no allocation of a negative
   size is ever made, or its release would raise the count.                *)
BudgetTypeOK ==
  /\ usage \in [Devices -> [used : Int, peak : Int, allocations : Nat]]
  /\ live \in [Allocations ->
       {Unmade, Freed} \cup [device : Devices, bytes : Sizes \cap Nat]]

(* The bytes counted as used are those of the allocations that exist.      *)
UsedIsLive ==
  \A d \in Devices :
    usage[d].used = MapThenSumSet(LAMBDA a : live[a].bytes,
                                  {a \in Live : live[a].device = d})

(* Used never exceeds peak, peak never the limit, with the reserved part.  *)
StatsInOrder ==
  \A d \in Devices :
    /\ Stats(d).used <= Stats(d).peak
    /\ Stats(d).peak <= Capacity

(* What MemoryStats reports is exact and within the limit: no release is lost
   or repeated, whatever order allocations and releases of several devices
   come in, and the part that is reserved is granted to nobody.            *)
StatsExact == UsedIsLive /\ StatsInOrder
============================================================================

------------------------------ MODULE MemoryProofs ------------------------------
(***************************************************************************)
(* Proofs about device memory: what the budget counts (MemoryBudget), and  *)
(* what the raw aliases of a buffer read and write (RawBuffer).            *)
(***************************************************************************)
EXTENDS MemoryBudget, RawBuffer, SetSums

----------------------------------------------------------------------------
(* The budget.                                                             *)
(* The inductive core of StatsInOrder: what the reservation leaves bounds the
   peak, whatever comes and goes.                                          *)
PeakBounds ==
  \A d \in Devices :
    /\ usage[d].used <= usage[d].peak
    /\ usage[d].peak <= Capacity - Reserved

BudgetInv == BudgetTypeOK /\ PeakBounds

(* An allocation that exists has a device of the model and a size that isn't
   negative (memory.h, MemoryAllocation).                                  *)
LEMMA LiveIsRecord ==
  ASSUME BudgetTypeOK, NEW a \in Allocations, a \in Live
  PROVE  live[a].device \in Devices /\ live[a].bytes \in Nat
  BY DEF BudgetTypeOK, Live

(* Allocate keeps the books in order.                                      *)
LEMMA AllocateKeeps ==
  ASSUME BudgetInv, NEW a \in Allocations, NEW d \in Devices, NEW bytes \in Sizes,
         Allocate(a, d, bytes)
  PROVE  BudgetInv'
<1> DEFINE used == usage[d].used + bytes
           peak == IF used > usage[d].peak THEN used ELSE usage[d].peak
           new == [used |-> used, peak |-> peak,
                   allocations |-> usage[d].allocations + 1]
<1>1. bytes \in Nat /\ used <= Capacity - Reserved
  BY BudgetAssumption DEF Allocate, Fits, BudgetInv, BudgetTypeOK
<1>2. /\ new \in [used : Int, peak : Int, allocations : Nat]
      /\ new.used <= new.peak /\ new.peak <= Capacity - Reserved
  BY <1>1, BudgetAssumption DEF BudgetInv, BudgetTypeOK, PeakBounds
<1>3. usage' = [usage EXCEPT ![d] = new]
  BY DEF Allocate
<1>4. live' = [live EXCEPT ![a] = [device |-> d, bytes |-> bytes]]
  BY DEF Allocate
<1> HIDE DEF new
<1>5. BudgetTypeOK'
  BY <1>1, <1>2, <1>3, <1>4 DEF BudgetInv, BudgetTypeOK
<1>6. PeakBounds'
  <2> SUFFICES ASSUME NEW e \in Devices
               PROVE  usage'[e].used <= usage'[e].peak
                      /\ usage'[e].peak <= Capacity - Reserved
    BY DEF PeakBounds
  <2>1. CASE e = d
    BY <2>1, <1>2, <1>3 DEF BudgetInv, BudgetTypeOK
  <2>2. CASE e # d
    BY <2>2, <1>3 DEF BudgetInv, BudgetTypeOK, PeakBounds
  <2> QED BY <2>1, <2>2
<1> QED BY <1>5, <1>6 DEF BudgetInv

(* So does Release.                                                        *)
LEMMA ReleaseKeeps ==
  ASSUME BudgetInv, NEW a \in Allocations, Release(a)
  PROVE  BudgetInv'
<1> DEFINE d == live[a].device
           n == live[a].bytes
<1>1. d \in Devices /\ n \in Nat
  BY LiveIsRecord DEF BudgetInv, Release
<1>2. usage' = [usage EXCEPT ![d].used = @ - n] /\ live' = [live EXCEPT ![a] = Freed]
  BY DEF Release
<1> HIDE DEF d, n
<1>3. BudgetTypeOK'
  BY <1>1, <1>2 DEF BudgetInv, BudgetTypeOK
<1>4. PeakBounds'
  BY <1>1, <1>2, BudgetAssumption DEF BudgetInv, BudgetTypeOK, PeakBounds
<1> QED BY <1>3, <1>4 DEF BudgetInv

(* The inductive invariant holds in every reachable state.                 *)
LEMMA Inductive == BudgetSpec => []BudgetInv
<1>1. BudgetInit => BudgetInv
  BY BudgetAssumption
  DEF BudgetInit, BudgetInv, BudgetTypeOK, PeakBounds, NoUsage, Unmade
<1>2. BudgetInv /\ [BudgetNext]_budgetVars => BudgetInv'
  <2> SUFFICES ASSUME BudgetInv, [BudgetNext]_budgetVars PROVE BudgetInv'
    OBVIOUS
  <2>1. CASE UNCHANGED budgetVars
    BY <2>1 DEF budgetVars, BudgetInv, BudgetTypeOK, PeakBounds
  <2>2. CASE BudgetNext
    <3>1. PICK a \in Allocations :
            \/ \E d \in Devices, bytes \in Sizes : Allocate(a, d, bytes)
            \/ Release(a)
      BY <2>2 DEF BudgetNext
    <3> QED BY <3>1, AllocateKeeps, ReleaseKeeps
  <2> QED BY <2>1, <2>2
<1> QED BY <1>1, <1>2, PTL DEF BudgetSpec

(* Type correctness: no allocation of a negative size is made.             *)
THEOREM BudgetTypes == BudgetSpec => []BudgetTypeOK
<1>1. BudgetInv => BudgetTypeOK
  BY DEF BudgetInv
<1> QED BY <1>1, Inductive, PTL

(* MemoryStats never reports more used than peak or a peak above the limit,
   for every capacity, reservation and sequence of requests.               *)
THEOREM StatsAlwaysInOrder == BudgetSpec => []StatsInOrder
<1>1. BudgetInv => StatsInOrder
  BY BudgetAssumption DEF BudgetInv, BudgetTypeOK, PeakBounds, StatsInOrder, Stats
<1> QED BY <1>1, Inductive, PTL
----------------------------------------------------------------------------
(* The accounts: SetSums for the sizes of allocations.                     *)
BytesOf(m, S) == MapThenSumSet(LAMBDA a : m[a].bytes, S)

OnDevice(m, d) == {a \in Allocations : m[a] \notin {Unmade, Freed} /\ m[a].device = d}

Sized(m, S) == [a \in S |-> m[a].bytes]

(* Only finitely many allocations exist at a time, so that there is a sum. *)
AccountsInv ==
  /\ BudgetInv
  /\ IsFiniteSet(Live)
  /\ \A d \in Devices : usage[d].used = BytesOf(live, OnDevice(live, d))

LEMMA BytesAreTotal ==
  ASSUME NEW m, NEW S, IsFiniteSet(S)
  PROVE  BytesOf(m, S) = Total(Sized(m, S), S)
<1> DEFINE Sums(f) == f = [s \in SUBSET S |->
                       IF s = {} THEN 0
                       ELSE m[CHOOSE x \in s : TRUE].bytes + f[s \ {CHOOSE x \in s : TRUE}]]
           w == Sized(m, S)
<1>1. BytesOf(m, S) = (CHOOSE f : Sums(f))[S]
  BY DEF BytesOf, MapThenSumSet, MapThenFoldSet
<1>2. ASSUME NEW f
      PROVE  Sums(f) <=> Solves(f, w, S)
  <2>1. \A s \in SUBSET S : s # {} => w[Pick(s)] = m[Pick(s)].bytes
    BY PickIsIn DEF Sized
  <2>2. ASSUME NEW s \in SUBSET S
        PROVE  Step(f, w, s) = IF s = {} THEN 0 ELSE m[Pick(s)].bytes + f[s \ {Pick(s)}]
    BY <2>1 DEF Step
  <2>3. [s \in SUBSET S |-> Step(f, w, s)]
          = [s \in SUBSET S |-> IF s = {} THEN 0 ELSE m[Pick(s)].bytes + f[s \ {Pick(s)}]]
    BY <2>2
  <2>4. Sums(f) <=> f = [s \in SUBSET S |-> Step(f, w, s)]
    <3>1. [s \in SUBSET S |-> Step(f, w, s)]
            = [s \in SUBSET S |->
                 IF s = {} THEN 0
                 ELSE m[CHOOSE x \in s : TRUE].bytes + f[s \ {CHOOSE x \in s : TRUE}]]
      BY ONLY <2>3 DEF Pick
    <3> QED BY ONLY <3>1
  <2> QED BY <2>4 DEF Solves
<1>3. Sums(CHOOSE f : Sums(f))
  <2>1. \E f : Solves(f, w, S)
    BY SolutionExists
  <2> HIDE DEF Sums
  <2> QED BY <1>2, <2>1
<1> HIDE DEF Sums, w
<1>4. PICK f : f = (CHOOSE g : Sums(g))
  OBVIOUS
<1>5. Solves(f, w, S)
  BY <1>2, <1>3, <1>4
<1>6. Total(w, S) = f[S]
  BY <1>5, TotalSolves
<1> QED BY <1>1, <1>4, <1>6 DEF w

(* What a change of one allocation does to the bytes of a set.             *)
LEMMA BytesSame ==
  ASSUME NEW m, NEW k, NEW S, IsFiniteSet(S), \A a \in S : m[a] = k[a]
  PROVE  BytesOf(m, S) = BytesOf(k, S)
<1>1. \A a \in S : Sized(m, S)[a] = Sized(k, S)[a]
  BY DEF Sized
<1> QED BY <1>1, BytesAreTotal, TotalSame

LEMMA BytesRemove ==
  ASSUME NEW m, NEW S, IsFiniteSet(S), \A x \in S : m[x].bytes \in Nat, NEW a \in S
  PROVE  /\ BytesOf(m, S) = m[a].bytes + BytesOf(m, S \ {a})
         /\ BytesOf(m, S) \in Int /\ BytesOf(m, S \ {a}) \in Int
<1> DEFINE T == S \ {a}
           w == Sized(m, S)
<1>1. IsFiniteSet(T)
  BY FS_RemoveElement
<1>2. \A x \in S : w[x] \in Int /\ w[x] = m[x].bytes
  BY DEF Sized
<1>3. BytesOf(m, S) = Total(w, S)
  BY BytesAreTotal
<1>4. BytesOf(m, T) = Total(w, T)
  <2>1. \A x \in T : Sized(m, T)[x] = w[x]
    BY DEF Sized
  <2> HIDE DEF T, w
  <2> QED BY <1>1, <2>1, BytesAreTotal, TotalSame
<1>5. Total(w, S) = w[a] + Total(w, T)
  <2> HIDE DEF w
  <2> QED BY <1>2, TotalRemove
<1>6. Total(w, S) \in Int /\ Total(w, T) \in Int
  <2> HIDE DEF w
  <2>1. \A x \in T : w[x] \in Int
    BY <1>2
  <2> HIDE DEF T
  <2> QED BY <1>1, <1>2, <2>1, TotalInt
<1> QED BY <1>2, <1>3, <1>4, <1>5, <1>6

LEMMA OnDeviceFinite ==
  ASSUME IsFiniteSet(Live), NEW d
  PROVE  IsFiniteSet(OnDevice(live, d))
<1>1. OnDevice(live, d) \subseteq Live
  BY DEF OnDevice, Live
<1> QED BY <1>1, FS_Subset

(* Allocate adds the bytes it counts.                                      *)
LEMMA AllocateCounts ==
  ASSUME AccountsInv, NEW a \in Allocations, NEW e \in Devices, NEW bytes \in Sizes,
         Allocate(a, e, bytes)
  PROVE  AccountsInv'
<1> DEFINE r == [device |-> e, bytes |-> bytes]
<1>1. /\ live[a] = Unmade /\ live' = [live EXCEPT ![a] = r] /\ bytes \in Nat
      /\ r.device = e /\ r.bytes = bytes
  BY BudgetAssumption DEF Allocate, Fits
<1> HIDE DEF r
<1>2. live \in [Allocations -> {Unmade, Freed} \cup [device : Devices, bytes : Sizes \cap Nat]]
      /\ usage \in [Devices -> [used : Int, peak : Int, allocations : Nat]]
  BY DEF AccountsInv, BudgetInv, BudgetTypeOK
<1>3. live'[a] = r /\ \A x \in Allocations \ {a} : live'[x] = live[x]
  BY <1>1, <1>2
<1>4. /\ usage'[e].used = usage[e].used + bytes
      /\ \A d \in Devices \ {e} : usage'[d].used = usage[d].used
  BY <1>2 DEF Allocate
<1>5. BudgetInv'
  BY AllocateKeeps DEF AccountsInv
<1>6. IsFiniteSet(Live')
  <2>1. Live' \subseteq Live \cup {a}
    BY <1>3 DEF Live
  <2>2. IsFiniteSet(Live \cup {a})
    BY FS_AddElement DEF AccountsInv
  <2> QED BY <2>1, <2>2, FS_Subset
<1>7. ASSUME NEW d \in Devices
      PROVE  usage'[d].used = BytesOf(live', OnDevice(live', d))
  <2> DEFINE S == OnDevice(live, d)
             T == OnDevice(live', d)
  <2>1. IsFiniteSet(S) /\ a \notin S /\ usage[d].used = BytesOf(live, S)
    BY <1>1, OnDeviceFinite DEF AccountsInv, OnDevice
  <2>2. BytesOf(live', S) = BytesOf(live, S)
    <3>1. \A x \in S : live'[x] = live[x]
      BY <1>3, <2>1 DEF OnDevice
    <3> HIDE DEF S
    <3> QED BY <2>1, <3>1, BytesSame
  <2>3. CASE a \in T
    <3>1. d = e /\ T = S \cup {a} /\ T \ {a} = S
      BY <1>1, <1>3, <2>1, <2>3 DEF OnDevice
    <3>2. IsFiniteSet(T)
      BY <2>1, <3>1, FS_AddElement
    <3>3. \A x \in T : live'[x].bytes \in Nat
      BY <1>1, <1>2, <1>3 DEF OnDevice
    <3> HIDE DEF S, T
    <3>4. /\ BytesOf(live', T) = live'[a].bytes + BytesOf(live', T \ {a})
          /\ BytesOf(live', T \ {a}) \in Int
      BY <2>3, <3>2, <3>3, BytesRemove
    <3>5. BytesOf(live', T) = bytes + BytesOf(live, S) /\ BytesOf(live, S) \in Int
      BY <1>1, <1>3, <2>2, <3>1, <3>4
    <3>6. usage'[d].used = bytes + BytesOf(live, S)
      BY <1>1, <1>4, <2>1, <3>1, <3>5
    <3>7. usage'[d].used = BytesOf(live', T)
      BY <3>5, <3>6
    <3> QED BY <3>7 DEF T
  <2>4. CASE a \notin T
    <3>1. T = S
      BY <1>1, <1>3, <2>1, <2>4 DEF OnDevice
    <3>2. d = e => bytes = 0
      BY <1>1, <1>3, <2>4 DEF OnDevice, Unmade, Freed
    <3>3. usage'[d].used = usage[d].used
      BY <1>2, <1>4, <3>2
    <3> QED BY <2>1, <2>2, <3>1, <3>3
  <2> QED BY <2>3, <2>4
<1> QED BY <1>5, <1>6, <1>7 DEF AccountsInv

(* ~MemoryAllocation takes off what it had added.                          *)
LEMMA ReleaseCounts ==
  ASSUME AccountsInv, NEW a \in Allocations, Release(a)
  PROVE  AccountsInv'
<1> DEFINE e == live[a].device
           n == live[a].bytes
<1>1. /\ a \in Live /\ e \in Devices /\ n \in Nat
      /\ usage' = [usage EXCEPT ![e].used = @ - n] /\ live' = [live EXCEPT ![a] = Freed]
  BY LiveIsRecord DEF AccountsInv, BudgetInv, Release
<1>2. live \in [Allocations -> {Unmade, Freed} \cup [device : Devices, bytes : Sizes \cap Nat]]
      /\ usage \in [Devices -> [used : Int, peak : Int, allocations : Nat]]
  BY DEF AccountsInv, BudgetInv, BudgetTypeOK
<1>3. live'[a] = Freed /\ \A x \in Allocations \ {a} : live'[x] = live[x]
  BY <1>1, <1>2
<1>4. /\ usage'[e].used = usage[e].used - n
      /\ \A d \in Devices \ {e} : usage'[d].used = usage[d].used
  BY <1>1, <1>2
<1>5. BudgetInv'
  BY ReleaseKeeps DEF AccountsInv
<1>6. IsFiniteSet(Live')
  <2>1. Live' \subseteq Live
    BY <1>3 DEF Live
  <2> QED BY <2>1, FS_Subset DEF AccountsInv
<1>7. ASSUME NEW d \in Devices
      PROVE  usage'[d].used = BytesOf(live', OnDevice(live', d))
  <2> DEFINE S == OnDevice(live, d)
             T == OnDevice(live', d)
  <2>1. IsFiniteSet(S) /\ usage[d].used = BytesOf(live, S)
    BY OnDeviceFinite DEF AccountsInv
  <2>2. T = S \ {a} /\ IsFiniteSet(T)
    <3>1. T = S \ {a}
      BY <1>3 DEF OnDevice
    <3> QED BY <2>1, <3>1, FS_RemoveElement
  <2>3. BytesOf(live', T) = BytesOf(live, T)
    <3>1. \A x \in T : live'[x] = live[x]
      BY <1>3, <2>2 DEF OnDevice
    <3> HIDE DEF T
    <3> QED BY <2>2, <3>1, BytesSame
  <2>4. CASE d = e
    <3>1. a \in S
      BY <1>1, <2>4 DEF OnDevice, Live
    <3>2. \A x \in S : live[x].bytes \in Nat
      BY <1>2 DEF OnDevice
    <3> HIDE DEF S, T
    <3>3. BytesOf(live, S) = n + BytesOf(live, T) /\ BytesOf(live, T) \in Int
      BY <2>1, <2>2, <3>1, <3>2, BytesRemove
    <3>4. usage'[d].used = BytesOf(live', T)
      BY <1>1, <1>2, <1>4, <2>1, <2>3, <2>4, <3>3
    <3> QED BY <3>4 DEF T
  <2>5. CASE d # e
    <3>1. T = S
      BY <1>1, <2>2, <2>5 DEF OnDevice
    <3> QED BY <1>4, <2>1, <2>3, <2>5, <3>1
  <2> QED BY <2>4, <2>5
<1> QED BY <1>5, <1>6, <1>7 DEF AccountsInv

LEMMA AccountsInductive == BudgetSpec => []AccountsInv
<1>1. BudgetInit => AccountsInv
  <2> SUFFICES ASSUME BudgetInit PROVE AccountsInv
    OBVIOUS
  <2>1. BudgetInv
    BY BudgetAssumption
    DEF BudgetInit, BudgetInv, BudgetTypeOK, PeakBounds, NoUsage, Unmade
  <2>2. Live = {} /\ \A d \in Devices : OnDevice(live, d) = {} /\ usage[d].used = 0
    BY DEF BudgetInit, Live, OnDevice, NoUsage
  <2>3. IsFiniteSet({})
    BY FS_EmptySet
  <2>4. BytesOf(live, {}) = 0
    BY <2>3, BytesAreTotal, TotalEmpty
  <2> QED BY <2>1, <2>2, <2>3, <2>4 DEF AccountsInv
<1>2. AccountsInv /\ [BudgetNext]_budgetVars => AccountsInv'
  <2> SUFFICES ASSUME AccountsInv, [BudgetNext]_budgetVars PROVE AccountsInv'
    OBVIOUS
  <2>1. CASE UNCHANGED budgetVars
    BY <2>1 DEF budgetVars, AccountsInv, BudgetInv, BudgetTypeOK, PeakBounds, Live
  <2>2. CASE BudgetNext
    <3>1. PICK a \in Allocations :
            \/ \E d \in Devices, bytes \in Sizes : Allocate(a, d, bytes)
            \/ Release(a)
      BY <2>2 DEF BudgetNext
    <3> QED BY <3>1, AllocateCounts, ReleaseCounts
  <2> QED BY <2>1, <2>2
<1> QED BY <1>1, <1>2, PTL DEF BudgetSpec

(* memory.cc: the bytes in use are those of the allocations that exist, for
   any sizes and any order in which they are made and released.            *)
THEOREM UsageCountsLive == BudgetSpec => []UsedIsLive
<1>1. AccountsInv => UsedIsLive
  <2> SUFFICES ASSUME AccountsInv, NEW d \in Devices
               PROVE  usage[d].used = MapThenSumSet(LAMBDA a : live[a].bytes,
                                                    {a \in Live : live[a].device = d})
    BY DEF UsedIsLive
  <2>1. OnDevice(live, d) = {a \in Live : live[a].device = d}
    BY DEF OnDevice, Live
  <2>2. usage[d].used = BytesOf(live, OnDevice(live, d))
    BY DEF AccountsInv
  <2> QED BY <2>1, <2>2 DEF BytesOf
<1> QED BY <1>1, AccountsInductive, PTL

(* Both: what MemoryStats reports is exact and within the limit.           *)
THEOREM StatsAreExact == BudgetSpec => []StatsExact
<1>1. UsedIsLive /\ StatsInOrder => StatsExact
  BY DEF StatsExact
<1> QED BY <1>1, UsageCountsLive, StatsAlwaysInOrder, PTL

----------------------------------------------------------------------------
(* The raw aliases.                                                        *)
(* Each transfer is behind the one before it: the tail never skips one.    *)
Chained ==
  /\ \A t \in Transfers : t \in Submitted <=> t <= tail
  /\ \A t \in Submitted : transfer[t].prev = t - 1

(* A transfer that wasn't submitted is blank.                              *)
Fresh == \A t \in Transfers \ Submitted : transfer[t] = NoTransfer

(* Everything before t has succeeded, and so have the events given to it.  *)
Clear(t) ==
  /\ \A u \in 0..(t - 1) : Completion(u) = "ok"
  /\ \A e \in transfer[t].needs : event[e] = "ok"

(* A copy starts behind transfers that are over, and only if all of them and
   its events succeeded; its promise is set when it leaves the pool thread. *)
Ordered ==
  \A t \in Submitted :
    /\ transfer[t].stage = "over" <=> transfer[t].promise # "pending"
    /\ transfer[t].stage # "waiting" =>
         \A u \in 0..(t - 1) : Completion(u) \in Settled
    /\ transfer[t].stage = "copying" \/ transfer[t].promise = "ok" => Clear(t)

(* Only a transfer that is clear has written.                              *)
WritersClear ==
  \A b \in AllBytes : memory[b] # 0 => memory[b] \in Submitted /\ Clear(memory[b])

(* A slice ends where its buffer does, or before.                          *)
Within == \A a \in Aliases : alias[a].base + alias[a].size <= Bytes

RawInv == TypeOK /\ Within /\ Chained /\ Fresh /\ Ordered /\ WritersClear

(* The values that never change once they are set.                         *)
Kept ==
  /\ \A u \in 0..MaxTransfers : Completion(u) \in Settled => Completion(u)' = Completion(u)
  /\ \A e \in Events : event[e] \in Settled => event'[e] = event[e]
  /\ \A t \in Submitted :
       t \in Submitted' /\ transfer'[t].needs = transfer[t].needs

(* JoinFutures of two settled futures is settled, of others pending.       *)
LEMMA JoinIs ==
  ASSUME NEW s \in Statuses, NEW t \in Statuses
  PROVE  /\ Join(s, t) \in Statuses
         /\ Join(s, t) \in Settled <=> s \in Settled /\ t \in Settled
         /\ Join(s, t) = "ok" <=> s = "ok" /\ t = "ok"
  BY DEF Join, Statuses, Settled

(* A completion is one of the statuses.                                    *)
LEMMA CompletionType ==
  ASSUME TypeOK, NEW t \in 0..MaxTransfers
  PROVE  Completion(t) \in Statuses
<1>1. CASE t = 0
  BY <1>1 DEF Completion, TypeOK
<1>2. CASE t # 0
  <2>1. t \in Transfers
    BY <1>2, RawAssumption DEF Transfers
  <2>2. transfer[t].modelled \in Statuses /\ transfer[t].promise \in Statuses
    BY <2>1 DEF TypeOK
  <2> QED BY <2>2, <1>2, JoinIs DEF Completion
<1> QED BY <1>1, <1>2

(* A transfer's completion is settled, or a success, when both its parts are. *)
LEMMA CompletionParts ==
  ASSUME TypeOK, NEW t \in Transfers
  PROVE  /\ Completion(t) \in Settled <=>
              transfer[t].modelled \in Settled /\ transfer[t].promise \in Settled
         /\ Completion(t) = "ok" <=>
              transfer[t].modelled = "ok" /\ transfer[t].promise = "ok"
<1>1. transfer[t].modelled \in Statuses /\ transfer[t].promise \in Statuses
  BY DEF TypeOK
<1>2. t # 0
  BY DEF Transfers
<1> QED BY <1>1, <1>2, JoinIs DEF Completion

(* What is clear stays clear, and what is over stays over.                 *)
LEMMA StaysClear ==
  ASSUME TypeOK, Kept, NEW t \in Submitted
  PROVE  /\ Clear(t) => Clear(t)'
         /\ (\A u \in 0..(t - 1) : Completion(u) \in Settled) =>
              \A u \in 0..(t - 1) : Completion(u)' \in Settled
<1>1. \A u \in 0..(t - 1) : u \in 0..MaxTransfers
  BY RawAssumption DEF Submitted, Transfers
<1>2. transfer[t].needs \subseteq Events
  BY DEF TypeOK, Submitted
<1>3. transfer'[t].needs = transfer[t].needs
  BY DEF Kept
<1>4. (\A u \in 0..(t - 1) : Completion(u) \in Settled) =>
        \A u \in 0..(t - 1) : Completion(u)' \in Settled
  BY <1>1 DEF Kept
<1>5. ASSUME Clear(t) PROVE Clear(t)'
  <2>1. \A u \in 0..(t - 1) : Completion(u)' = "ok"
    BY <1>1, <1>5 DEF Kept, Clear, Settled
  <2>2. \A e \in transfer[t].needs : event'[e] = "ok"
    BY <1>2, <1>5 DEF Kept, Clear, Settled
  <2> QED BY <2>1, <2>2, <1>3 DEF Clear
<1> QED BY <1>4, <1>5

(* A completion depends on the buffer's producer and the transfer's record. *)
LEMMA CompletionDepends ==
  ASSUME NEW t \in 0..MaxTransfers, producer' = producer,
         t \in Transfers => transfer'[t] = transfer[t]
  PROVE  Completion(t)' = Completion(t)
<1>1. CASE t = 0
  BY <1>1 DEF Completion
<1>2. CASE t # 0
  <2>1. t \in Transfers
    BY <1>2, RawAssumption DEF Transfers
  <2> QED BY <2>1, <1>2 DEF Completion
<1> QED BY <1>1, <1>2

(* If a step keeps what is settled, and leaves a submitted transfer as it was,
   it keeps its part of Ordered.                                           *)
LEMMA OrderedKept ==
  ASSUME TypeOK, Kept, NEW t \in Submitted, Ordered, transfer'[t] = transfer[t]
  PROVE  /\ transfer'[t].stage = "over" <=> transfer'[t].promise # "pending"
         /\ transfer'[t].stage # "waiting" =>
              \A u \in 0..(t - 1) : Completion(u)' \in Settled
         /\ transfer'[t].stage = "copying" \/ transfer'[t].promise = "ok" => Clear(t)'
  BY StaysClear DEF Ordered

(* The invariant holds at first.                                           *)
LEMMA RawInitInv == Init => RawInv
<1> SUFFICES ASSUME Init PROVE RawInv
  OBVIOUS
<1>1. First \in Aliases /\ Bytes \in Nat /\ MaxTransfers \in Nat
  BY RawAssumption
<1>2. Submitted = {}
  BY DEF Init, Submitted, NoTransfer
<1>3. TypeOK
  BY <1>1 DEF Init, TypeOK, NoAlias, NoTransfer, NoData, Statuses, Transfers,
              AllBytes, Offsets
<1>4. Chained
  BY <1>1, <1>2 DEF Chained, Init, Transfers
<1>5. Fresh
  BY DEF Fresh, Init
<1>6. Ordered
  BY <1>2 DEF Ordered
<1>7. WritersClear
  BY DEF WritersClear, Init, NoData
<1>8. Within
  <2> SUFFICES ASSUME NEW a \in Aliases PROVE alias[a].base + alias[a].size <= Bytes
    BY DEF Within
  <2>1. alias[a] = IF a = First THEN [state |-> "held", base |-> 0, size |-> Bytes]
                                ELSE [state |-> "none", base |-> 0, size |-> 0]
    BY DEF Init, NoAlias
  <2> QED BY <1>1, <2>1
<1> QED BY <1>3, <1>4, <1>5, <1>6, <1>7, <1>8 DEF RawInv

(* A step that changes no transfer, and keeps what is settled.             *)
LEMMA IdleKeeps ==
  ASSUME RawInv, Kept, UNCHANGED <<tail, transfer, memory>>
  PROVE  Chained' /\ Fresh' /\ Ordered' /\ WritersClear'
<1>1. Submitted' = Submitted
  BY DEF Submitted
<1>2. Chained' /\ Fresh'
  BY <1>1 DEF RawInv, Chained, Fresh
<1>3. Ordered'
  BY <1>1, OrderedKept DEF RawInv, Ordered
<1>4. WritersClear'
  BY <1>1, StaysClear DEF RawInv, WritersClear
<1> QED BY <1>2, <1>3, <1>4

(* Slicing and dropping aliases changes no transfer.                       *)
LEMMA AliasKeeps ==
  ASSUME RawInv, Within',
         alias' \in [Aliases -> [state : {"none", "held", "dropped"},
                               base : Offsets, size : Offsets]],
         UNCHANGED <<producer, event, tail, transfer, memory>>
  PROVE  RawInv'
<1>1. TypeOK'
  BY DEF RawInv, TypeOK
<1>2. Kept
  BY CompletionDepends DEF Kept, Submitted
<1> QED BY <1>1, <1>2, IdleKeeps DEF RawInv

(* The buffer's own readiness and the callers' events settle once.         *)
LEMMA OutsideKeeps ==
  ASSUME RawInv, ProducerSettles \/ \E e \in Events : EventSettles(e)
  PROVE  RawInv'
<1>1. /\ UNCHANGED <<alias, tail, transfer, memory>>
      /\ producer' \in Statuses /\ event' \in [Events -> Statuses]
      /\ producer \in Settled => producer' = producer
      /\ \A e \in Events : event[e] \in Settled => event'[e] = event[e]
  BY DEF RawInv, TypeOK, ProducerSettles, EventSettles, Statuses, Settled
<1>2. TypeOK' /\ Within'
  BY <1>1 DEF RawInv, TypeOK, Within
<1>3. ASSUME NEW u \in 0..MaxTransfers, Completion(u) \in Settled
      PROVE  Completion(u)' = Completion(u)
  BY <1>1, <1>3 DEF Completion
<1>4. Kept
  BY <1>1, <1>3 DEF Kept, Submitted
<1> QED BY <1>1, <1>2, <1>4, IdleKeeps DEF RawInv

(* A slice stays within the bytes of the alias it is made of.              *)
LEMMA SliceKeeps ==
  ASSUME RawInv, NEW a \in Aliases, NEW b \in Aliases, NEW offset \in Offsets,
         NEW size \in Offsets, Slice(a, b, offset, size)
  PROVE  RawInv'
<1> DEFINE base == alias[a].base + offset
<1>1. /\ alias[a].base \in Nat /\ alias[a].size \in Nat
      /\ offset \in Nat /\ size \in Nat /\ Bytes \in Nat
  BY RawAssumption DEF RawInv, TypeOK, Offsets
<1>2. base + size <= Bytes /\ base \in Offsets
  BY <1>1 DEF RawInv, Within, Slice, InRange, Offsets
<1>3. alias' = [alias EXCEPT ![b] = [state |-> "held", base |-> base, size |-> size]]
  BY DEF Slice
<1> HIDE DEF base
<1>4. alias' \in [Aliases -> [state : {"none", "held", "dropped"},
                             base : Offsets, size : Offsets]]
  BY <1>2, <1>3 DEF RawInv, TypeOK
<1>5. Within'
  BY <1>2, <1>3 DEF RawInv, TypeOK, Within
<1> QED BY <1>4, <1>5, AliasKeeps DEF Slice

(* Dropping an alias keeps the invariant.                                  *)
LEMMA DropKeeps ==
  ASSUME RawInv, NEW a \in Aliases, Drop(a)
  PROVE  RawInv'
<1>1. alias' = [alias EXCEPT ![a].state = "dropped"]
  BY DEF Drop
<1>2. alias' \in [Aliases -> [state : {"none", "held", "dropped"},
                             base : Offsets, size : Offsets]]
  BY <1>1 DEF RawInv, TypeOK
<1>3. Within'
  BY <1>1 DEF RawInv, TypeOK, Within
<1> QED BY <1>2, <1>3, AliasKeeps DEF Drop

(* A submission goes behind the tail, which is the transfer before it.     *)
LEMMA SubmitKeeps ==
  ASSUME RawInv, NEW t \in Transfers, NEW a \in Aliases, NEW h2d \in BOOLEAN,
         NEW offset \in Offsets, NEW size \in Offsets, NEW needs \in SUBSET Events,
         Submit(t, a, h2d, offset, size, needs)
  PROVE  RawInv'
<1> DEFINE bytes == {alias[a].base + offset + i : i \in 0..(size - 1)}
           r == [NoTransfer EXCEPT !.stage = "waiting", !.h2d = h2d, !.needs = needs,
                                   !.prev = tail, !.bytes = bytes]
<1>1. bytes \subseteq AllBytes
  <2>1. /\ alias[a].base \in Nat /\ alias[a].size \in Nat
        /\ offset \in Nat /\ size \in Nat /\ Bytes \in Nat
    BY RawAssumption DEF RawInv, TypeOK, Offsets
  <2>2. alias[a].base + offset + size <= Bytes
    BY <2>1 DEF RawInv, Within, Submit, InRange
  <2> QED BY <2>1, <2>2 DEF AllBytes, Offsets
<1> HIDE DEF bytes
<1>2. /\ r.stage = "waiting" /\ r.promise = "pending" /\ r.modelled = "pending"
      /\ r.prev = tail /\ r.needs = needs
  BY DEF NoTransfer
<1>3. r \in [stage : {"new", "waiting", "copying", "over"}, h2d : BOOLEAN,
             bytes : SUBSET AllBytes, needs : SUBSET Events,
             prev : {0} \cup Transfers, copied : SUBSET AllBytes,
             data : [AllBytes -> {0} \cup Transfers],
             promise : Statuses, modelled : Statuses]
  BY <1>1 DEF RawInv, TypeOK, NoTransfer, NoData, Statuses
<1>4. /\ transfer' = [transfer EXCEPT ![t] = r]
      /\ tail' = t /\ UNCHANGED <<alias, producer, event, memory>>
  BY DEF Submit, bytes
<1>5. t \notin Submitted /\ \A u \in 1..(t - 1) : u \in Submitted
  BY DEF Submit, Submitted
<1> HIDE DEF r
<1>6. tail = t - 1
  <2>1. tail \in Nat /\ t \in Nat /\ tail < t
    BY <1>5, RawAssumption DEF RawInv, TypeOK, Chained, Transfers
  <2>2. t > 1 => t - 1 \in Transfers /\ t - 1 \in 1..(t - 1)
    BY RawAssumption DEF Transfers
  <2>3. t > 1 => t - 1 <= tail
    BY <2>2, <1>5 DEF RawInv, Chained
  <2> QED BY <2>1, <2>3 DEF Transfers
<1>7. Submitted' = Submitted \cup {t}
  BY <1>2, <1>4 DEF RawInv, TypeOK, Submitted
<1>8. TypeOK'
  BY <1>3, <1>4 DEF RawInv, TypeOK
<1>9. Chained'
  BY <1>2, <1>4, <1>5, <1>6, <1>7, RawAssumption
  DEF RawInv, TypeOK, Chained, Submitted, Transfers
<1>10. Kept
  <2>1. \A e \in Events : event'[e] = event[e]
    BY <1>4
  <2>2. ASSUME NEW u \in 0..MaxTransfers, Completion(u) \in Settled
        PROVE  Completion(u)' = Completion(u)
    <3>1. u # t
      <4>1. transfer[t].promise = "pending"
        BY <1>5 DEF RawInv, Fresh, NoTransfer
      <4> QED BY <4>1, <2>2, CompletionParts DEF RawInv, Settled
    <3> QED BY <3>1, <1>4, CompletionDepends
  <2>3. \A u \in Submitted : transfer'[u] = transfer[u]
    BY <1>4, <1>5 DEF RawInv, TypeOK, Submitted
  <2> QED BY <2>1, <2>2, <2>3, <1>7 DEF Kept
<1>11. Ordered'
  <2> SUFFICES ASSUME NEW u \in Submitted'
               PROVE  /\ transfer'[u].stage = "over" <=> transfer'[u].promise # "pending"
                      /\ transfer'[u].stage # "waiting" =>
                           \A v \in 0..(u - 1) : Completion(v)' \in Settled
                      /\ transfer'[u].stage = "copying" \/ transfer'[u].promise = "ok"
                           => Clear(u)'
    BY DEF Ordered
  <2>1. CASE u = t
    <3>1. transfer'[u] = r
      BY <2>1, <1>4 DEF RawInv, TypeOK
    <3> QED BY <3>1, <1>2
  <2>2. CASE u # t
    <3>1. u \in Submitted /\ transfer'[u] = transfer[u]
      BY <2>2, <1>4, <1>7 DEF RawInv, TypeOK, Submitted
    <3> QED BY <3>1, <1>10, OrderedKept DEF RawInv
  <2> QED BY <2>1, <2>2
<1>12. WritersClear'
  BY <1>4, <1>7, <1>10, StaysClear DEF RawInv, WritersClear
<1>13. Fresh' /\ Within'
  BY <1>4, <1>7 DEF RawInv, TypeOK, Fresh, Within, Submitted
<1> QED BY <1>8, <1>9, <1>11, <1>12, <1>13 DEF RawInv

(* What a step of one transfer t does to its record.                       *)
Moves(t) ==
  /\ transfer' = [transfer EXCEPT ![t] = transfer'[t]]
  /\ transfer'[t].needs = transfer[t].needs
  /\ transfer'[t].prev = transfer[t].prev
  /\ transfer'[t].stage # "new"
  /\ UNCHANGED <<alias, producer, event, tail>>

(* A step of one transfer that is well typed, changes no settled part of it,
   and keeps its own part of Ordered, keeps the invariant.                 *)
LEMMA MoveKeeps ==
  ASSUME RawInv, TypeOK', NEW t \in Submitted, Moves(t),
         transfer[t].promise # "pending" => transfer'[t].promise = transfer[t].promise,
         transfer[t].modelled # "pending" => transfer'[t].modelled = transfer[t].modelled,
         transfer'[t].stage = "over" <=> transfer'[t].promise # "pending",
         transfer'[t].stage # "waiting" =>
           \A u \in 0..(t - 1) : Completion(u) \in Settled,
         transfer'[t].stage = "copying" \/ transfer'[t].promise = "ok" => Clear(t),
         \A b \in AllBytes : memory'[b] = memory[b] \/ (memory'[b] = t /\ Clear(t))
  PROVE  RawInv'
<1>1. t \in Transfers
  BY DEF Submitted
<1>2. \A u \in Transfers : u # t => transfer'[u] = transfer[u]
  BY <1>1 DEF Moves, RawInv, TypeOK
<1>3. Submitted' = Submitted
  BY <1>1, <1>2 DEF Submitted, Moves
<1>4. Kept
  <2>1. ASSUME NEW u \in 0..MaxTransfers, Completion(u) \in Settled
        PROVE  Completion(u)' = Completion(u)
    <3>1. CASE u # t
      BY <3>1, <1>2, CompletionDepends DEF Moves
    <3>2. CASE u = t
      <4>1. transfer[t].modelled \in Settled /\ transfer[t].promise \in Settled
        BY <3>2, <2>1, <1>1, CompletionParts DEF RawInv
      <4>2. transfer'[t].modelled = transfer[t].modelled
            /\ transfer'[t].promise = transfer[t].promise
        BY <4>1 DEF Settled
      <4> QED BY <3>2, <4>2 DEF Completion, Moves
    <3> QED BY <3>1, <3>2
  <2>2. \A u \in Submitted : transfer'[u].needs = transfer[u].needs
    BY <1>2 DEF Moves, Submitted
  <2> QED BY <2>1, <2>2, <1>3 DEF Kept, Moves
<1>5. Chained' /\ Fresh' /\ Within'
  <2>1. \A u \in Submitted : transfer'[u].prev = transfer[u].prev
    BY <1>2 DEF Moves, Submitted
  <2>2. Chained'
    BY <2>1, <1>3 DEF RawInv, Chained, Moves
  <2>3. Fresh'
    BY <1>2, <1>3 DEF RawInv, Fresh
  <2> QED BY <2>2, <2>3 DEF RawInv, Within, Moves
<1>6. Ordered'
  <2> SUFFICES ASSUME NEW u \in Submitted
               PROVE  /\ transfer'[u].stage = "over" <=> transfer'[u].promise # "pending"
                      /\ transfer'[u].stage # "waiting" =>
                           \A v \in 0..(u - 1) : Completion(v)' \in Settled
                      /\ transfer'[u].stage = "copying" \/ transfer'[u].promise = "ok"
                           => Clear(u)'
    BY <1>3 DEF Ordered
  <2>1. CASE u = t
    BY <2>1, <1>4, StaysClear DEF RawInv
  <2>2. CASE u # t
    <3>1. transfer'[u] = transfer[u]
      BY <2>2, <1>2 DEF Submitted
    <3> QED BY <3>1, <1>4, OrderedKept DEF RawInv
  <2> QED BY <2>1, <2>2
<1>7. WritersClear'
  <2> SUFFICES ASSUME NEW b \in AllBytes, memory'[b] # 0
               PROVE  (memory[b] \in Submitted /\ Clear(memory[b]))'
    BY DEF WritersClear
  <2>1. memory'[b] \in Submitted /\ Clear(memory'[b])
    <3>1. CASE memory'[b] = memory[b]
      BY <3>1 DEF RawInv, WritersClear
    <3>2. CASE memory'[b] = t /\ Clear(t)
      BY <3>2
    <3> QED BY <3>1, <3>2
  <2>2. PICK w \in Submitted : w = memory'[b] /\ Clear(w)
    BY <2>1
  <2>3. Clear(w)'
    BY <2>2, <1>4, StaysClear DEF RawInv
  <2>4. \A u \in 0..(memory'[b] - 1) : Completion(u)' = "ok"
    BY <2>2, <2>3 DEF Clear
  <2>5. \A e \in transfer'[memory'[b]].needs : event'[e] = "ok"
    BY <2>2, <2>3 DEF Clear
  <2> QED BY <2>2, <2>4, <2>5, <1>3 DEF Clear
<1> QED BY <1>5, <1>6, <1>7 DEF RawInv

(* A closure runs when what it waits for is over.                          *)
LEMMA RunKeeps ==
  ASSUME RawInv, NEW t \in Transfers, RunWhenReady(t)
  PROVE  RawInv'
<1>1. t \in Submitted /\ t - 1 \in 0..MaxTransfers /\ transfer[t].prev = t - 1
  BY RawAssumption DEF RawInv, RunWhenReady, Submitted, Chained, Transfers
<1>2. /\ Completion(t - 1) # "pending"
      /\ \A e \in transfer[t].needs : event[e] # "pending"
  BY <1>1 DEF RunWhenReady, Dependencies
<1>3. \A u \in 0..(t - 1) : Completion(u) \in Settled
  <2>1. Completion(t - 1) \in Settled
    BY <1>1, <1>2, CompletionType DEF RawInv, Statuses, Settled
  <2>2. CASE t = 1
    BY <2>1, <2>2
  <2>3. CASE t # 1
    <3>1. t - 1 \in Transfers /\ t - 1 \in Submitted
      BY <2>3, <1>1, RawAssumption DEF RawInv, Chained, TypeOK, Transfers
    <3>2. transfer[t - 1].stage = "over"
      <4>1. transfer[t - 1].promise # "pending"
        BY <3>1, <2>1, CompletionParts DEF RawInv, Settled
      <4> QED BY <3>1, <4>1 DEF RawInv, Ordered
    <3>3. \A u \in 0..(t - 1 - 1) : Completion(u) \in Settled
      BY <3>1, <3>2 DEF RawInv, Ordered
    <3> QED BY <3>3, <2>1, <1>1 DEF Transfers
  <2> QED BY <2>2, <2>3
<1>4. ~Failed(t) => Clear(t)
  <2> SUFFICES ASSUME ~Failed(t) PROVE Clear(t)
    OBVIOUS
  <2>1. Completion(t - 1) = "ok"
    BY <1>1, <1>2, CompletionType DEF RawInv, Failed, Dependencies, Statuses
  <2>2. \A e \in transfer[t].needs : event[e] = "ok"
    <3>1. \A e \in transfer[t].needs : event[e] \in Statuses
      BY DEF RawInv, TypeOK
    <3> QED BY <3>1, <1>2 DEF Failed, Dependencies, Statuses
  <2>3. \A u \in 0..(t - 1) : Completion(u) = "ok"
    <3>1. CASE t = 1
      BY <3>1, <2>1
    <3>2. CASE t # 1
      <4>1. t - 1 \in Transfers /\ t - 1 \in Submitted
        BY <3>2, <1>1, RawAssumption DEF RawInv, Chained, TypeOK, Transfers
      <4>2. transfer[t - 1].promise = "ok"
        BY <4>1, <2>1, CompletionParts DEF RawInv
      <4>3. Clear(t - 1)
        BY <4>1, <4>2 DEF RawInv, Ordered
      <4> QED BY <4>3, <2>1, <1>1 DEF Clear, Transfers
    <3> QED BY <3>1, <3>2
  <2> QED BY <2>2, <2>3 DEF Clear
<1> DEFINE r == IF Failed(t)
                  THEN [transfer[t] EXCEPT !.stage = "over", !.promise = "error"]
                ELSE IF transfer[t].bytes = {} \/ Placeholder
                  THEN [transfer[t] EXCEPT !.stage = "over", !.promise = "ok"]
                  ELSE [transfer[t] EXCEPT !.stage = "copying"]
<1>5. transfer' = [transfer EXCEPT ![t] = r] /\ UNCHANGED <<alias, producer, event, tail, memory>>
  BY DEF RunWhenReady
<1>6. transfer[t].stage = "waiting" /\ transfer[t].promise = "pending"
  BY <1>1 DEF RawInv, Ordered, RunWhenReady
<1>7. /\ r.needs = transfer[t].needs /\ r.prev = transfer[t].prev
      /\ r.modelled = transfer[t].modelled
      /\ r.stage \in {"over", "copying"}
      /\ r.stage = "over" <=> r.promise # "pending"
      /\ r.stage = "copying" \/ r.promise = "ok" => ~Failed(t)
      /\ r \in [stage : {"new", "waiting", "copying", "over"}, h2d : BOOLEAN,
                 bytes : SUBSET AllBytes, needs : SUBSET Events,
                 prev : {0} \cup Transfers, copied : SUBSET AllBytes,
                 data : [AllBytes -> {0} \cup Transfers],
                 promise : Statuses, modelled : Statuses]
  <2>1. transfer[t] \in [stage : {"new", "waiting", "copying", "over"}, h2d : BOOLEAN,
                 bytes : SUBSET AllBytes, needs : SUBSET Events,
                 prev : {0} \cup Transfers, copied : SUBSET AllBytes,
                 data : [AllBytes -> {0} \cup Transfers],
                 promise : Statuses, modelled : Statuses]
    BY DEF RawInv, TypeOK
  <2> QED BY <2>1, <1>6 DEF Statuses
<1> HIDE DEF r
<1>8. transfer'[t] = r
  BY <1>5 DEF RawInv, TypeOK
<1>9. TypeOK'
  BY <1>5, <1>7 DEF RawInv, TypeOK
<1>10. Moves(t)
  BY <1>5, <1>7, <1>8 DEF Moves
<1> QED BY <1>1, <1>3, <1>4, <1>5, <1>6, <1>7, <1>8, <1>9, <1>10, MoveKeeps

(* A byte is copied: a write lands only if the transfer is clear.          *)
LEMMA CopyByteKeeps ==
  ASSUME RawInv, NEW t \in Transfers, NEW b \in AllBytes, CopyByte(t, b)
  PROVE  RawInv'
<1>1. t \in Submitted /\ transfer[t].stage = "copying" /\ Clear(t)
  BY DEF CopyByte, Submitted, RawInv, Ordered
<1>2. transfer[t] \in [stage : {"new", "waiting", "copying", "over"}, h2d : BOOLEAN,
               bytes : SUBSET AllBytes, needs : SUBSET Events,
               prev : {0} \cup Transfers, copied : SUBSET AllBytes,
               data : [AllBytes -> {0} \cup Transfers],
               promise : Statuses, modelled : Statuses]
  BY DEF RawInv, TypeOK
<1>3. PICK r : /\ transfer' = [transfer EXCEPT ![t] = r]
               /\ r \in {[transfer[t] EXCEPT !.copied = @ \cup {b}],
                         [transfer[t] EXCEPT !.copied = @ \cup {b}, !.data[b] = memory[b]]}
  BY DEF CopyByte
<1>4. /\ r.needs = transfer[t].needs /\ r.prev = transfer[t].prev
      /\ r.stage = transfer[t].stage /\ r.promise = transfer[t].promise
      /\ r.modelled = transfer[t].modelled
  BY <1>2, <1>3
<1>5. r \in [stage : {"new", "waiting", "copying", "over"}, h2d : BOOLEAN,
             bytes : SUBSET AllBytes, needs : SUBSET Events,
             prev : {0} \cup Transfers, copied : SUBSET AllBytes,
             data : [AllBytes -> {0} \cup Transfers],
             promise : Statuses, modelled : Statuses]
  <2> DEFINE d == [transfer[t].data EXCEPT ![b] = memory[b]]
  <2>1. d \in [AllBytes -> {0} \cup Transfers]
    BY <1>2 DEF RawInv, TypeOK
  <2>2. r \in {[transfer[t] EXCEPT !.copied = @ \cup {b}],
              [transfer[t] EXCEPT !.copied = @ \cup {b}, !.data = d]}
    BY <1>3
  <2> HIDE DEF d
  <2>3. CASE r = [transfer[t] EXCEPT !.copied = @ \cup {b}]
    BY <1>2, <2>3
  <2>4. CASE r = [transfer[t] EXCEPT !.copied = @ \cup {b}, !.data = d]
    BY <1>2, <2>1, <2>4
  <2> QED BY <2>2, <2>3, <2>4
<1>6. transfer'[t] = r
  BY <1>3 DEF RawInv, TypeOK
<1>7. /\ UNCHANGED <<alias, producer, event, tail>>
      /\ memory' = memory \/ memory' = [memory EXCEPT ![b] = t]
  BY DEF CopyByte
<1>8. TypeOK'
  BY <1>3, <1>5, <1>7 DEF RawInv, TypeOK
<1>9. Moves(t)
  BY <1>1, <1>3, <1>4, <1>6, <1>7 DEF Moves
<1>10. \A c \in AllBytes : memory'[c] = memory[c] \/ (memory'[c] = t /\ Clear(t))
  BY <1>1, <1>7 DEF RawInv, TypeOK
<1>11. /\ transfer[t].stage = "over" <=> transfer[t].promise # "pending"
       /\ \A u \in 0..(t - 1) : Completion(u) \in Settled
  BY <1>1 DEF RawInv, Ordered
<1> QED BY <1>1, <1>4, <1>6, <1>8, <1>9, <1>10, <1>11, MoveKeeps

(* The CPU copy is over, well or badly.                                    *)
LEMMA CopyOverKeeps ==
  ASSUME RawInv, NEW t \in Transfers, CopyOver(t)
  PROVE  RawInv'
<1>1. t \in Submitted /\ transfer[t].stage = "copying" /\ Clear(t)
  BY DEF CopyOver, Submitted, RawInv, Ordered
<1>2. PICK s \in Settled : transfer' =
        [transfer EXCEPT ![t] = [transfer[t] EXCEPT !.stage = "over", !.promise = s]]
  <2>1. PICK s \in Settled :
          transfer' = [transfer EXCEPT ![t].stage = "over", ![t].promise = s]
    BY DEF CopyOver
  <2> QED BY <2>1 DEF RawInv, TypeOK
<1>3. UNCHANGED <<alias, producer, event, tail, memory>>
  BY DEF CopyOver
<1>4. TypeOK'
  <2> DEFINE r == [transfer[t] EXCEPT !.stage = "over", !.promise = s]
  <2>1. r \in [stage : {"new", "waiting", "copying", "over"}, h2d : BOOLEAN,
               bytes : SUBSET AllBytes, needs : SUBSET Events,
               prev : {0} \cup Transfers, copied : SUBSET AllBytes,
               data : [AllBytes -> {0} \cup Transfers],
               promise : Statuses, modelled : Statuses]
    <3>1. s \in Statuses
      BY DEF Statuses, Settled
    <3>2. transfer[t] \in [stage : {"new", "waiting", "copying", "over"},
                 h2d : BOOLEAN, bytes : SUBSET AllBytes, needs : SUBSET Events,
                 prev : {0} \cup Transfers, copied : SUBSET AllBytes,
                 data : [AllBytes -> {0} \cup Transfers],
                 promise : Statuses, modelled : Statuses]
      BY DEF RawInv, TypeOK
    <3> QED BY <3>1, <3>2
  <2>2. transfer' = [transfer EXCEPT ![t] = r]
    BY <1>2
  <2> HIDE DEF r
  <2> QED BY <2>1, <2>2, <1>3 DEF RawInv, TypeOK
<1>5. transfer'[t] = [transfer[t] EXCEPT !.stage = "over", !.promise = s]
  BY <1>2 DEF RawInv, TypeOK
<1>6. /\ transfer'[t].needs = transfer[t].needs /\ transfer'[t].prev = transfer[t].prev
      /\ transfer'[t].modelled = transfer[t].modelled
      /\ transfer'[t].stage = "over" /\ transfer'[t].promise # "pending"
  BY <1>5 DEF RawInv, TypeOK, Settled
<1>7. Moves(t)
  BY <1>2, <1>3, <1>5, <1>6 DEF Moves
<1>8. /\ transfer[t].promise = "pending"
      /\ \A u \in 0..(t - 1) : Completion(u) \in Settled
  BY <1>1 DEF RawInv, Ordered
<1> QED BY <1>1, <1>3, <1>4, <1>6, <1>7, <1>8, MoveKeeps

(* The modelled transfer resolves.                                         *)
LEMMA ModelledKeeps ==
  ASSUME RawInv, NEW t \in Transfers, ModelledSettles(t)
  PROVE  RawInv'
<1>1. t \in Submitted /\ transfer[t].modelled = "pending"
  BY DEF ModelledSettles
<1>2. PICK s \in Settled : transfer' = [transfer EXCEPT ![t].modelled = s]
  BY DEF ModelledSettles, Settled
<1>3. UNCHANGED <<alias, producer, event, tail, memory>>
  BY DEF ModelledSettles
<1>4. TypeOK'
  BY <1>2, <1>3 DEF RawInv, TypeOK, Statuses, Settled
<1>5. transfer'[t] = [transfer[t] EXCEPT !.modelled = s]
  BY <1>2 DEF RawInv, TypeOK
<1>6. /\ transfer'[t].needs = transfer[t].needs /\ transfer'[t].prev = transfer[t].prev
      /\ transfer'[t].promise = transfer[t].promise
      /\ transfer'[t].stage = transfer[t].stage
  BY <1>5 DEF RawInv, TypeOK
<1>7. Moves(t)
  BY <1>1, <1>2, <1>3, <1>5, <1>6 DEF Moves, Submitted
<1>8. /\ transfer[t].stage = "over" <=> transfer[t].promise # "pending"
      /\ transfer[t].stage # "waiting" =>
           \A u \in 0..(t - 1) : Completion(u) \in Settled
      /\ transfer[t].stage = "copying" \/ transfer[t].promise = "ok" => Clear(t)
  BY <1>1 DEF RawInv, Ordered
<1> QED BY <1>1, <1>3, <1>4, <1>6, <1>7, <1>8, MoveKeeps

(* The invariant holds in every reachable state.                           *)
LEMMA RawInductive == Spec => []RawInv
<1>1. RawInv /\ [Next]_vars => RawInv'
  <2> SUFFICES ASSUME RawInv, [Next]_vars PROVE RawInv'
    OBVIOUS
  <2>1. CASE UNCHANGED vars
    <3>1. UNCHANGED <<alias, producer, event, tail, transfer, memory>>
      BY <2>1 DEF vars
    <3>2. Within' /\ alias' \in [Aliases -> [state : {"none", "held", "dropped"},
                                            base : Offsets, size : Offsets]]
      BY <3>1 DEF RawInv, Within, TypeOK
    <3> QED BY <3>1, <3>2, AliasKeeps
  <2>2. CASE Caller
    <3>1. ASSUME NEW a \in Aliases, NEW b \in Aliases, NEW offset \in Offsets,
                 NEW size \in Offsets, Slice(a, b, offset, size)
          PROVE  RawInv'
      BY <3>1, SliceKeeps
    <3>2. ASSUME NEW a \in Aliases, Drop(a) PROVE RawInv'
      BY <3>2, DropKeeps
    <3>3. ASSUME NEW t \in Transfers, NEW a \in Aliases, NEW h2d \in BOOLEAN,
                 NEW offset \in Offsets, NEW size \in Offsets,
                 NEW needs \in SUBSET Events, Submit(t, a, h2d, offset, size, needs)
          PROVE  RawInv'
      BY <3>3, SubmitKeeps
    <3> QED BY <2>2, <3>1, <3>2, <3>3 DEF Caller
  <2>3. ASSUME NEW t \in Transfers, Progress(t) PROVE RawInv'
    BY <2>3, RunKeeps, CopyByteKeeps, CopyOverKeeps, ModelledKeeps DEF Progress
  <2>4. CASE ProducerSettles \/ \E e \in Events : EventSettles(e)
    BY <2>4, OutsideKeeps
  <2> QED BY <2>1, <2>2, <2>3, <2>4 DEF Next
<1> QED BY <1>1, RawInitInv, PTL DEF Spec

(* Every reachable state is well typed: no transfer reaches outside its alias,
   through slices of slices.                                               *)
THEOREM RawTypes == Spec => []TypeOK
<1>1. RawInv => TypeOK
  BY DEF RawInv
<1> QED BY <1>1, RawInductive, PTL

(* Copies of one buffer never overlap in time.                             *)
THEOREM CopiesAreSerial == Spec => []OneCopyAtATime
<1>1. RawInv => OneCopyAtATime
  <2> SUFFICES ASSUME RawInv, NEW t \in Transfers, NEW u \in Transfers,
                      transfer[t].stage = "copying", transfer[u].stage = "copying",
                      t < u
               PROVE  FALSE
    BY RawAssumption DEF OneCopyAtATime, Transfers
  <2>1. t \in Submitted /\ u \in Submitted /\ t \in 0..(u - 1)
    BY RawAssumption DEF Submitted, Transfers
  <2>2. Completion(t) \in Settled
    BY <2>1 DEF RawInv, Ordered
  <2>3. transfer[t].promise # "pending"
    BY <2>2, CompletionParts DEF RawInv, Settled
  <2> QED BY <2>1, <2>3 DEF RawInv, Ordered
<1> QED BY <1>1, RawInductive, PTL

(* A transfer succeeds only behind transfers and events that did.          *)
THEOREM ErrorsPropagate == Spec => []ErrorsReachAllLater
<1>1. RawInv => ErrorsReachAllLater
  <2> SUFFICES ASSUME RawInv, NEW t \in Submitted, Completion(t) = "ok"
               PROVE  Clear(t)
    BY DEF ErrorsReachAllLater, Clear
  <2>1. transfer[t].promise = "ok"
    BY CompletionParts DEF RawInv, Submitted
  <2> QED BY <2>1 DEF RawInv, Ordered
<1> QED BY <1>1, RawInductive, PTL

(* No write lands after a failure.                                         *)
THEOREM FailureStopsWrites == Spec => []NothingWrittenAfterFailure
<1>1. RawInv => NothingWrittenAfterFailure
  BY DEF RawInv, WritersClear, Clear, NothingWrittenAfterFailure
<1> QED BY <1>1, RawInductive, PTL

----------------------------------------------------------------------------
(* What downloads return.                                                  *)

(* w is the last write to b before t, or 0.                                *)
IsLastWrite(w, b, t) ==
  /\ w \in {0} \cup Writes(b) /\ w < t
  /\ \A v \in Writes(b) : v < t => v <= w

(* A byte holds a write to it, and none that is older than one copied to it; a
   byte read is the last write before the read; a success copied all.      *)
DataInv ==
  /\ \A b \in AllBytes : memory[b] \in {0} \cup Writes(b)
  /\ \A t \in Submitted :
       /\ \A b \in transfer[t].copied :
            IF transfer[t].h2d THEN t <= memory[b]
                               ELSE IsLastWrite(transfer[t].data[b], b, t)
       /\ transfer[t].promise = "ok" /\ ~Placeholder =>
            transfer[t].copied = transfer[t].bytes
       /\ transfer[t].stage = "copying" => ~Placeholder
       /\ transfer[t].copied \subseteq transfer[t].bytes

(* There is at most one last write.                                        *)
LEMMA LastWriteIs ==
  ASSUME NEW t \in Transfers, NEW b \in AllBytes, NEW w, IsLastWrite(w, b, t)
  PROVE  LastWrite(b, t) = w
<1> DEFINE P(v) == v < t /\ \A x \in Writes(b) : x < t => x <= v
<1>1. Writes(b) \subseteq Nat \ {0}
  BY DEF Writes, Transfers
<1>2. w \in {0} \cup Writes(b) /\ P(w)
  BY DEF IsLastWrite
<1>3. \A v \in {0} \cup Writes(b) : P(v) => v = w
  BY <1>1, <1>2
<1>4. LastWrite(b, t) = CHOOSE v \in {0} \cup Writes(b) : P(v)
  BY DEF LastWrite
<1> HIDE DEF P
<1> QED BY <1>2, <1>3, <1>4

(* A step that leaves the data of transfers and memory alone.              *)
LEMMA DataKept ==
  ASSUME RawInv, DataInv, memory' = memory, Submitted' = Submitted,
         \A t \in Submitted :
           /\ transfer'[t].h2d = transfer[t].h2d
           /\ transfer'[t].bytes = transfer[t].bytes
           /\ transfer'[t].copied = transfer[t].copied
           /\ transfer'[t].data = transfer[t].data
           /\ transfer'[t].promise = "ok" /\ ~Placeholder =>
                transfer[t].copied = transfer[t].bytes
           /\ transfer'[t].stage = "copying" => ~Placeholder,
         \A t \in Transfers \ Submitted : transfer'[t] = transfer[t]
  PROVE  DataInv'
<1>1. \A t \in Transfers : transfer'[t].h2d = transfer[t].h2d
                           /\ transfer'[t].bytes = transfer[t].bytes
  BY DEF Submitted
<1>2. \A b \in AllBytes : Writes(b)' = Writes(b)
  BY <1>1 DEF Writes
<1>3. \A b \in AllBytes : memory'[b] \in {0} \cup Writes(b)'
  BY <1>2 DEF DataInv
<1>4. ASSUME NEW t \in Submitted, NEW b \in transfer[t].copied
      PROVE  IF transfer[t].h2d THEN t <= memory[b]
                                ELSE IsLastWrite(transfer[t].data[b], b, t)'
  <2>1. b \in AllBytes
    BY DEF RawInv, TypeOK, Submitted
  <2>2. Writes(b)' = Writes(b)
    BY <1>2, <2>1
  <2>3. transfer'[t].data = transfer[t].data
    OBVIOUS
  <2> QED BY <2>2, <2>3 DEF DataInv, IsLastWrite
<1> QED BY <1>3, <1>4 DEF DataInv

(* Before a transfer copies, all writes before it are complete.            *)
LEMMA EarlierWritesLanded ==
  ASSUME RawInv, DataInv, ~Placeholder, NEW t \in Submitted,
         transfer[t].stage = "copying", NEW b \in AllBytes,
         NEW v \in Writes(b), v < t
  PROVE  v <= memory[b]
<1>1. v \in Transfers /\ v \in 0..(t - 1) /\ b \in transfer[v].bytes /\ transfer[v].h2d
  BY DEF Writes, Transfers, Submitted
<1>2. v \in Submitted
  BY <1>1, RawAssumption DEF RawInv, TypeOK, Chained, Transfers, Submitted
<1>3. Completion(v) = "ok"
  BY <1>1 DEF RawInv, Ordered, Clear
<1>4. transfer[v].promise = "ok"
  BY <1>1, <1>3, CompletionParts DEF RawInv
<1>5. b \in transfer[v].copied
  BY <1>1, <1>2, <1>4 DEF DataInv
<1> QED BY <1>1, <1>2, <1>5 DEF DataInv

(* No write after a transfer lands while it copies.                        *)
LEMMA NoLaterWriteLanded ==
  ASSUME RawInv, NEW t \in Submitted, transfer[t].stage = "copying",
         NEW b \in AllBytes
  PROVE  memory[b] <= t
<1> SUFFICES ASSUME t < memory[b] PROVE FALSE
  BY RawAssumption DEF RawInv, TypeOK, Submitted, Transfers
<1>1. memory[b] \in Submitted /\ t \in 0..(memory[b] - 1)
  BY RawAssumption DEF RawInv, TypeOK, WritersClear, Submitted, Transfers
<1>2. Completion(t) = "ok"
  BY <1>1 DEF RawInv, WritersClear, Clear, Submitted, Transfers
<1>3. transfer[t].promise = "ok"
  BY <1>2, CompletionParts DEF RawInv, Submitted
<1> QED BY <1>3 DEF RawInv, Ordered

(* A copied byte is the last write before the transfer, or becomes it.     *)
LEMMA CopyByteKeepsData ==
  ASSUME RawInv, DataInv, NEW t \in Transfers, NEW b \in AllBytes, CopyByte(t, b)
  PROVE  DataInv'
<1>1. t \in Submitted /\ transfer[t].stage = "copying" /\ ~Placeholder
      /\ b \in transfer[t].bytes
  BY DEF CopyByte, Submitted, DataInv
<1>2. /\ transfer[t] \in [stage : {"new", "waiting", "copying", "over"}, h2d : BOOLEAN,
               bytes : SUBSET AllBytes, needs : SUBSET Events,
               prev : {0} \cup Transfers, copied : SUBSET AllBytes,
               data : [AllBytes -> {0} \cup Transfers],
               promise : Statuses, modelled : Statuses]
      /\ memory \in [AllBytes -> {0} \cup Transfers]
  BY DEF RawInv, TypeOK
<1>3. /\ \A u \in Transfers : u # t => transfer'[u] = transfer[u]
      /\ transfer'[t].h2d = transfer[t].h2d /\ transfer'[t].bytes = transfer[t].bytes
      /\ transfer'[t].stage = "copying" /\ transfer'[t].promise = transfer[t].promise
      /\ transfer'[t].copied = transfer[t].copied \cup {b}
  BY <1>1, <1>2 DEF CopyByte, RawInv, TypeOK
<1>4. Submitted' = Submitted /\ \A c \in AllBytes : Writes(c)' = Writes(c)
  BY <1>1, <1>3 DEF Submitted, Writes
<1>5. transfer[t].promise = "pending"
  BY <1>1 DEF RawInv, Ordered
<1>6. CASE transfer[t].h2d
  <2>1. memory' = [memory EXCEPT ![b] = t] /\ transfer'[t].data = transfer[t].data
    BY <1>2, <1>6 DEF CopyByte, RawInv, TypeOK
  <2>2. \A c \in AllBytes : memory'[c] \in {0} \cup Writes(c)
    BY <1>1, <1>2, <1>6, <2>1 DEF DataInv, Writes
  <2>3. ASSUME NEW u \in Submitted, NEW c \in transfer'[u].copied
        PROVE  IF transfer'[u].h2d THEN u <= memory'[c]
                                   ELSE IsLastWrite(transfer[u].data[c], c, u)'
    <3>1. c \in AllBytes /\ u \in Transfers
      BY <1>2, <1>3 DEF RawInv, TypeOK, Submitted
    <3>2. CASE transfer'[u].h2d
      <4>1. CASE c = b /\ u = t
        BY <4>1, <3>2, <2>1, <1>2, <1>1 DEF Transfers
      <4>2. CASE c = b /\ u # t
        <5>1. u <= memory[b] /\ memory[b] <= t
          BY <4>2, <3>2, <1>1, <1>3, <3>1, NoLaterWriteLanded DEF DataInv
        <5> QED BY <5>1, <4>2, <3>2, <2>1, <1>2, <3>1 DEF Transfers
      <4>3. CASE c # b
        <5>1. c \in transfer[u].copied /\ transfer[u].h2d
          BY <4>3, <1>3, <3>1, <3>2
        <5> QED BY <5>1, <4>3, <3>2, <2>1, <1>2, <3>1 DEF DataInv
      <4> QED BY <4>1, <4>2, <4>3
    <3>3. CASE ~transfer'[u].h2d
      <4>1. u # t /\ transfer'[u] = transfer[u]
        BY <3>3, <1>3, <1>6, <3>1
      <4>2. IsLastWrite(transfer[u].data[c], c, u)
        BY <4>1, <3>3 DEF DataInv
      <4> QED BY <4>1, <4>2, <3>3, <3>1, <1>4 DEF IsLastWrite
    <3> QED BY <3>2, <3>3
  <2>4. \A u \in Submitted :
          /\ transfer'[u].promise = "ok" /\ ~Placeholder =>
               transfer'[u].copied = transfer'[u].bytes
          /\ transfer'[u].stage = "copying" => ~Placeholder
          /\ transfer'[u].copied \subseteq transfer'[u].bytes
    BY <1>1, <1>3, <1>5 DEF DataInv, Submitted
  <2> QED BY <2>2, <2>3, <2>4, <1>4 DEF DataInv
<1>7. CASE ~transfer[t].h2d
  <2>1. memory' = memory /\ transfer'[t].data = [transfer[t].data EXCEPT ![b] = memory[b]]
    BY <1>2, <1>7 DEF CopyByte, RawInv, TypeOK
  <2>2. IsLastWrite(memory[b], b, t)
    <3>1. memory[b] \in {0} \cup Writes(b) /\ memory[b] <= t
      BY <1>1, NoLaterWriteLanded DEF DataInv
    <3>2. memory[b] # t
      BY <3>1, <1>7 DEF Writes, Transfers
    <3>3. memory[b] < t
      BY <3>1, <3>2, <1>2 DEF Transfers
    <3> QED BY <3>1, <3>3, <1>1, EarlierWritesLanded DEF IsLastWrite
  <2>3. ASSUME NEW u \in Submitted, NEW c \in transfer'[u].copied
        PROVE  IF transfer'[u].h2d THEN u <= memory'[c]
                                   ELSE IsLastWrite(transfer[u].data[c], c, u)'
    <3>1. c \in AllBytes /\ u \in Transfers
      BY <1>2, <1>3 DEF RawInv, TypeOK, Submitted
    <3>2. CASE u = t /\ c = b
      <4>1. transfer'[u].data[c] = memory[b]
        BY <3>2, <2>1, <1>2
      <4> QED BY <4>1, <3>2, <2>2, <1>3, <1>4, <1>7 DEF IsLastWrite
    <3>3. CASE u = t /\ c # b
      <4>1. c \in transfer[t].copied /\ transfer'[u].data[c] = transfer[t].data[c]
        BY <3>3, <2>1, <1>2, <1>3, <3>1
      <4>2. IsLastWrite(transfer[t].data[c], c, t)
        BY <4>1, <1>1, <1>7 DEF DataInv
      <4> QED BY <4>1, <4>2, <3>3, <3>1, <1>3, <1>4, <1>7 DEF IsLastWrite
    <3>4. CASE u # t
      <4>1. transfer'[u] = transfer[u]
        BY <3>4, <1>3, <3>1
      <4> QED BY <4>1, <2>1, <1>4, <3>1 DEF DataInv, IsLastWrite
    <3> QED BY <3>2, <3>3, <3>4
  <2>4. \A u \in Submitted :
          /\ transfer'[u].promise = "ok" /\ ~Placeholder =>
               transfer'[u].copied = transfer'[u].bytes
          /\ transfer'[u].stage = "copying" => ~Placeholder
          /\ transfer'[u].copied \subseteq transfer'[u].bytes
    BY <1>1, <1>3, <1>5 DEF DataInv, Submitted
  <2>5. \A c \in AllBytes : memory'[c] \in {0} \cup Writes(c)
    BY <2>1 DEF DataInv
  <2> QED BY <2>3, <2>4, <2>5, <1>4 DEF DataInv
<1> QED BY <1>6, <1>7, <1>2

(* A new transfer is a write after all others.                             *)
LEMMA SubmitKeepsData ==
  ASSUME RawInv, DataInv, NEW t \in Transfers, NEW a \in Aliases, NEW h2d \in BOOLEAN,
         NEW offset \in Offsets, NEW size \in Offsets, NEW needs \in SUBSET Events,
         Submit(t, a, h2d, offset, size, needs)
  PROVE  DataInv'
<1>1. /\ t \notin Submitted
      /\ \A u \in Transfers : u # t => transfer'[u] = transfer[u]
      /\ transfer'[t].copied = {} /\ transfer'[t].promise = "pending"
      /\ transfer'[t].stage = "waiting" /\ memory' = memory
  BY DEF Submit, Submitted, NoTransfer, RawInv, TypeOK
<1>2. Submitted' = Submitted \cup {t}
  BY <1>1 DEF Submitted
<1>3. \A u \in Submitted : u < t
  BY <1>1, RawAssumption DEF RawInv, TypeOK, Chained, Submitted, Transfers
<1>4. ~transfer[t].h2d
  BY <1>1 DEF RawInv, Fresh, NoTransfer
<1>5. \A b \in AllBytes : Writes(b) \subseteq Writes(b)' /\ Writes(b)' \subseteq Writes(b) \cup {t}
  BY <1>1, <1>4 DEF Writes
<1>6. ASSUME NEW u \in Submitted, NEW b \in transfer'[u].copied
      PROVE  IF transfer'[u].h2d THEN u <= memory'[b]
                                 ELSE IsLastWrite(transfer[u].data[b], b, u)'
  <2>1. u # t /\ u \in Transfers /\ transfer'[u] = transfer[u] /\ u < t
    BY <1>1, <1>3 DEF Submitted
  <2>2. b \in AllBytes
    BY <2>1 DEF RawInv, TypeOK
  <2>3. CASE transfer[u].h2d
    BY <2>1, <2>3, <1>1 DEF DataInv
  <2>4. CASE ~transfer[u].h2d
    <3>1. IsLastWrite(transfer[u].data[b], b, u)
      BY <2>1, <2>4 DEF DataInv
    <3>2. \A v \in Writes(b)' : v < u => v \in Writes(b)
      BY <1>5, <2>1, <2>2 DEF Transfers
    <3> QED BY <3>1, <3>2, <1>5, <2>1, <2>2, <2>4 DEF IsLastWrite
  <2> QED BY <2>3, <2>4, <2>1
<1>7. \A u \in Submitted :
        /\ transfer'[u].promise = "ok" /\ ~Placeholder =>
             transfer'[u].copied = transfer'[u].bytes
        /\ transfer'[u].stage = "copying" => ~Placeholder
        /\ transfer'[u].copied \subseteq transfer'[u].bytes
  BY <1>1 DEF DataInv, Submitted
<1>8. \A b \in AllBytes : memory'[b] \in {0} \cup Writes(b)'
  BY <1>1, <1>5 DEF DataInv
<1> QED BY <1>1, <1>2, <1>6, <1>7, <1>8 DEF DataInv

(* The other steps of a transfer copy nothing.                             *)
LEMMA OthersKeepData ==
  ASSUME RawInv, DataInv, NEW t \in Transfers,
         RunWhenReady(t) \/ CopyOver(t) \/ ModelledSettles(t)
  PROVE  DataInv'
<1>1. t \in Submitted
  BY DEF RunWhenReady, CopyOver, ModelledSettles, Submitted
<1>2. transfer[t] \in [stage : {"new", "waiting", "copying", "over"}, h2d : BOOLEAN,
               bytes : SUBSET AllBytes, needs : SUBSET Events,
               prev : {0} \cup Transfers, copied : SUBSET AllBytes,
               data : [AllBytes -> {0} \cup Transfers],
               promise : Statuses, modelled : Statuses]
  BY DEF RawInv, TypeOK
<1> DEFINE Keeps(r) ==
             /\ r.h2d = transfer[t].h2d /\ r.bytes = transfer[t].bytes
             /\ r.copied = transfer[t].copied /\ r.data = transfer[t].data
             /\ r.stage # "new"
             /\ r.promise = "ok" /\ ~Placeholder => transfer[t].copied = transfer[t].bytes
             /\ r.stage = "copying" => ~Placeholder
<1>3. /\ memory' = memory
      /\ \E r : transfer' = [transfer EXCEPT ![t] = r] /\ Keeps(r)
  <2>1. CASE RunWhenReady(t)
    <3> DEFINE r1 == [transfer[t] EXCEPT !.stage = "over", !.promise = "error"]
               r2 == [transfer[t] EXCEPT !.stage = "over", !.promise = "ok"]
               r3 == [transfer[t] EXCEPT !.stage = "copying"]
    <3>1. transfer[t].copied \subseteq transfer[t].bytes /\ transfer[t].promise = "pending"
      BY <1>1, <2>1 DEF DataInv, RunWhenReady, RawInv, Ordered
    <3>2. Keeps(r1)
      BY <1>2
    <3>3. transfer[t].bytes = {} \/ Placeholder => Keeps(r2)
      BY <1>2, <3>1
    <3>4. ~(transfer[t].bytes = {} \/ Placeholder) => Keeps(r3)
      BY <1>2, <3>1
    <3>5. /\ memory' = memory
          /\ \/ transfer' = [transfer EXCEPT ![t] = r1]
             \/ (transfer[t].bytes = {} \/ Placeholder)
                /\ transfer' = [transfer EXCEPT ![t] = r2]
             \/ ~(transfer[t].bytes = {} \/ Placeholder)
                /\ transfer' = [transfer EXCEPT ![t] = r3]
      BY <2>1 DEF RunWhenReady
    <3> HIDE DEF r1, r2, r3, Keeps
    <3> QED BY <3>2, <3>3, <3>4, <3>5
  <2>2. CASE CopyOver(t)
    <3>1. PICK s \in Settled :
            /\ s = "ok" => transfer[t].copied = transfer[t].bytes
            /\ transfer' = [transfer EXCEPT ![t].stage = "over", ![t].promise = s]
      BY <2>2 DEF CopyOver
    <3> DEFINE r == [transfer[t] EXCEPT !.stage = "over", !.promise = s]
    <3>2. transfer' = [transfer EXCEPT ![t] = r] /\ memory' = memory
      BY <3>1, <2>2 DEF CopyOver, RawInv, TypeOK
    <3>3. Keeps(r)
      BY <3>1, <1>2
    <3> HIDE DEF r, Keeps
    <3> QED BY <3>2, <3>3
  <2>3. CASE ModelledSettles(t)
    <3>1. PICK s : transfer' = [transfer EXCEPT ![t].modelled = s]
      BY <2>3 DEF ModelledSettles
    <3> DEFINE r == [transfer[t] EXCEPT !.modelled = s]
    <3>2. transfer' = [transfer EXCEPT ![t] = r] /\ memory' = memory
      BY <3>1, <2>3 DEF ModelledSettles, RawInv, TypeOK
    <3>3. Keeps(r)
      BY <1>1, <1>2 DEF DataInv, Submitted
    <3> HIDE DEF r, Keeps
    <3> QED BY <3>2, <3>3
  <2> QED BY <2>1, <2>2, <2>3
<1>4. /\ \A u \in Transfers : u # t => transfer'[u] = transfer[u]
      /\ Keeps(transfer'[t])
  BY <1>1, <1>3 DEF RawInv, TypeOK
<1>5. Submitted' = Submitted
  BY <1>1, <1>4 DEF Submitted
<1>6. \A u \in Submitted :
        /\ transfer'[u].h2d = transfer[u].h2d /\ transfer'[u].bytes = transfer[u].bytes
        /\ transfer'[u].copied = transfer[u].copied /\ transfer'[u].data = transfer[u].data
        /\ transfer'[u].promise = "ok" /\ ~Placeholder =>
             transfer[u].copied = transfer[u].bytes
        /\ transfer'[u].stage = "copying" => ~Placeholder
  <2> TAKE u \in Submitted
  <2>1. CASE u = t
    BY <2>1, <1>4
  <2>2. CASE u # t
    BY <2>2, <1>4 DEF DataInv, Submitted
  <2> QED BY <2>1, <2>2
<1>7. \A u \in Transfers \ Submitted : transfer'[u] = transfer[u]
  BY <1>1, <1>4
<1> QED BY <1>3, <1>5, <1>6, <1>7, DataKept

(* A download that succeeds returned, byte by byte, the last write submitted
   before it: for any number of transfers, through any slices.             *)
THEOREM DownloadsReadLastWrite == Spec => []ReadsLastWrite
<1>1. Init => DataInv
  <2> SUFFICES ASSUME Init PROVE DataInv
    OBVIOUS
  <2>1. Submitted = {}
    BY DEF Init, Submitted, NoTransfer
  <2>2. \A b \in AllBytes : memory[b] = 0
    BY DEF Init, NoData
  <2> QED BY <2>1, <2>2 DEF DataInv
<1>2. RawInv /\ DataInv /\ [Next]_vars => DataInv'
  <2> SUFFICES ASSUME RawInv, DataInv, [Next]_vars PROVE DataInv'
    OBVIOUS
  <2>1. ASSUME UNCHANGED <<transfer, memory>> PROVE DataInv'
    BY <2>1, DataKept DEF DataInv, Submitted
  <2>2. CASE Caller
    <3>1. ASSUME NEW t \in Transfers, NEW a \in Aliases, NEW h2d \in BOOLEAN,
                 NEW offset \in Offsets, NEW size \in Offsets,
                 NEW needs \in SUBSET Events, Submit(t, a, h2d, offset, size, needs)
          PROVE  DataInv'
      BY <3>1, SubmitKeepsData
    <3>2. CASE \/ \E a, b \in Aliases, offset, size \in Offsets : Slice(a, b, offset, size)
               \/ \E a \in Aliases : Drop(a)
      BY <3>2, <2>1 DEF Slice, Drop
    <3> QED BY <2>2, <3>1, <3>2 DEF Caller
  <2>3. ASSUME NEW t \in Transfers, Progress(t) PROVE DataInv'
    BY <2>3, CopyByteKeepsData, OthersKeepData DEF Progress
  <2>4. CASE ProducerSettles \/ \E e \in Events : EventSettles(e)
    BY <2>4, <2>1 DEF ProducerSettles, EventSettles
  <2>5. CASE UNCHANGED vars
    BY <2>5, <2>1 DEF vars
  <2> QED BY <2>2, <2>3, <2>4, <2>5 DEF Next
<1>3. RawInv /\ DataInv => ReadsLastWrite
  <2> SUFFICES ASSUME RawInv, DataInv, NEW t \in Submitted, ~transfer[t].h2d,
                      transfer[t].promise = "ok", ~Placeholder,
                      NEW b \in transfer[t].bytes
               PROVE  transfer[t].data[b] = LastWrite(b, t)
    BY DEF ReadsLastWrite
  <2>1. t \in Transfers /\ b \in AllBytes
    BY DEF RawInv, TypeOK, Submitted
  <2>2. IsLastWrite(transfer[t].data[b], b, t)
    BY DEF DataInv
  <2> QED BY <2>1, <2>2, LastWriteIs
<1> QED BY <1>1, <1>2, <1>3, RawInductive, PTL DEF Spec
==================================================================================

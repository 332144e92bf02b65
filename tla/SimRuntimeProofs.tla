-------------------------- MODULE SimRuntimeProofs --------------------------
(***************************************************************************)
(* Theorems about SimRuntime, for any devices, bounds, durations and clock *)
(* horizon.                                                                *)
(***************************************************************************)
EXTENDS SimRuntime, TLAPS

(* What an instant chosen by LatestOf is: a member, and no member is later. *)
LEMMA LatestIsUpperBound ==
  ASSUME NEW S, NEW t \in LatestOf(S)
  PROVE  t \in S /\ \A u \in S : u <= t
BY DEF LatestOf

(* A device list is a sequence of devices of natural length.               *)
LEMMA OrderIsSequence ==
  ASSUME NEW order \in DeviceOrders
  PROVE  /\ order \in Seq(Devices) /\ Len(order) \in Nat
         /\ DOMAIN order = 1..Len(order)
         /\ Range(order) \subseteq Devices
<1>1. PICK n \in 1..Cardinality(Devices) : order \in [1..n -> Devices]
  BY DEF DeviceOrders
<1>2. n \in Nat
  BY <1>1
<1>3. order \in Seq(Devices)
  BY <1>1, <1>2
<1>4. QED
  BY <1>1, <1>3 DEF Range

(* A reserved start is the earliest allowed one or a later instant, and not
   before any resource it takes is free.                                   *)
LEMMA ReserveStartBounds ==
  ASSUME TypeOK, NEW release \in Nat, NEW duration \in Nat,
         NEW uses \in SUBSET Resources,
         NEW start \in ReserveStart(release, duration, uses)
  PROVE  /\ start \in Nat
         /\ release <= start
         /\ duration > 0 => \A r \in uses : resources[r] <= start
<1>1. CASE duration = 0
  BY <1>1 DEF ReserveStart
<1>2. CASE duration # 0
  <2>1. start \in LatestOf({release} \cup {resources[r] : r \in uses})
    BY <1>2 DEF ReserveStart
  <2>2. /\ start \in {release} \cup {resources[r] : r \in uses}
        /\ \A u \in {release} \cup {resources[r] : r \in uses} : u <= start
    BY <2>1, LatestIsUpperBound
  <2>3. \A r \in uses : resources[r] \in Nat
    BY DEF TypeOK
  <2>4. QED
    BY <2>2, <2>3
<1>3. QED
  BY <1>1, <1>2

(* The instant an execution is released, and what it waits for.            *)
LEMMA ExecutionReleaseBounds ==
  ASSUME TypeOK, NEW ins \in SUBSET Ids, NEW devs \in SUBSET Devices,
         NEW release \in ExecutionRelease(ins, devs)
  PROVE  /\ release \in Nat
         /\ now <= release
         /\ \A i \in ins : completion[i].end <= release
         /\ \A d \in devs : tail[d].end <= release
<1>1. /\ release \in {now} \cup {completion[i].end : i \in ins}
                       \cup {tail[d].end : d \in devs}
      /\ \A u \in {now} \cup {completion[i].end : i \in ins}
                       \cup {tail[d].end : d \in devs} : u <= release
  BY LatestIsUpperBound DEF ExecutionRelease
<1>2. /\ now \in Nat
      /\ \A i \in ins : completion[i].end \in Nat
      /\ \A d \in devs : tail[d].end \in Nat
  BY DEF TypeOK, Completion
<1>3. QED
  BY <1>1, <1>2

LEMMA WaitsType ==
  ASSUME TypeOK, NEW ins \in SUBSET Ids, NEW hosts \in SUBSET HostPromises,
         NEW devs \in SUBSET Devices
  PROVE  /\ InputWaits(ins, hosts) \in SUBSET Promises
         /\ ExecutionWaits(ins, hosts, devs) \in SUBSET Promises
<1>1. \A i \in ins : completion[i].waits \in SUBSET Promises
  BY DEF TypeOK, Completion
<1>2. \A d \in devs : tail[d].waits \in SUBSET Promises
  BY DEF TypeOK, Completion
<1>3. InputWaits(ins, hosts) \in SUBSET Promises
  BY <1>1 DEF InputWaits, Promises
<1>4. QED
  BY <1>2, <1>3 DEF ExecutionWaits

LEMMA UsesType ==
  ASSUME NEW devs \in SUBSET Devices, NEW src \in Nodes, NEW dst \in Nodes
  PROVE  /\ ExecutionUses(devs) \in SUBSET Resources
         /\ TransferUses(src, dst) \in SUBSET Resources
BY DEF ExecutionUses, TransferUses, Resources

LEMMA SubmittedAreIds == TypeOK => Submitted \in SUBSET Ids
BY RuntimeAssumption DEF TypeOK, Submitted, Calls

LEMMA NewTimersType ==
  ASSUME TypeOK, NEW c \in Calls, NEW end \in Nat, NEW order \in Seq(Nodes)
  PROVE  NewTimers(c, end, order) \subseteq Timer
<1>1. \A k \in DOMAIN order : k \in Nat /\ k >= 1 /\ order[k] \in Nodes
  OBVIOUS
<1>2. QED
  BY <1>1 DEF NewTimers, Timer, TypeOK, Ids

(* What Submit supplies to the four operations.                            *)
LEMMA SubmitCases ==
  ASSUME TypeOK, Submit
  PROVE  \E hosts \in SUBSET HostPromises, ins \in SUBSET Ids,
            src \in Nodes, dst \in Nodes, duration \in Nat :
           /\ ins \subseteq Submitted
           /\ \/ \E order \in DeviceOrders :
                   \/ ExecuteTimed(order, duration, ins, hosts)
                   \/ ExecuteUntimed(order, ins, hosts)
              \/ Transfer(src, dst, duration, ins, hosts)
              \/ TransferUntimed(src, dst, ins, hosts)
BY SubmittedAreIds, RuntimeAssumption DEF Submit, Inputs, Nodes

----------------------------------------------------------------------------
(* Type correctness *)

LEMMA RecordType ==
  ASSUME TypeOK, submitted < MaxCalls,
         NEW kind \in {"execute", "transfer"}, NEW ids \in SUBSET Ids,
         NEW ins \in SUBSET Ids, NEW start \in Nat, NEW duration \in Nat,
         NEW uses \in SUBSET Resources,
         Record(submitted + 1, kind, ids, ins, start, duration, uses)
  PROVE  /\ submitted + 1 \in Calls
         /\ submitted' \in 0..MaxCalls
         /\ call' \in [Calls -> [kind : {"none", "execute", "transfer"},
                                 ids : SUBSET Ids, inputs : SUBSET Ids,
                                 start : Nat, duration : Nat,
                                 uses : SUBSET Resources]]
<1>1. submitted + 1 \in Calls
  BY RuntimeAssumption DEF TypeOK, Calls
<1>2. QED
  BY <1>1, RuntimeAssumption DEF TypeOK, Record, Calls

LEMMA ReserveUntilType ==
  ASSUME TypeOK, NEW start \in Nat, NEW duration \in Nat, NEW uses
  PROVE  ReserveUntil(start, duration, uses) \in [Resources -> Nat]
BY DEF TypeOK, ReserveUntil

LEMMA JoinTimerType ==
  ASSUME NEW id \in Ids, NEW end \in Nat, NEW waits \in SUBSET Promises
  PROVE  JoinTimer(id, end, waits) \in Completion
BY DEF JoinTimer, Completion, Promises

LEMMA NotifiedType ==
  ASSUME TypeOK
  PROVE  Notified(worker) \in {"check", "wait", "sleep", "hand", "exit"}
BY DEF TypeOK, Notified

(* What a timed execution does, with the instants it chose.                *)
LEMMA ExecuteEffect ==
  ASSUME TypeOK, NEW order \in DeviceOrders, NEW duration \in Nat,
         NEW ins \in SUBSET Ids, NEW hosts \in SUBSET HostPromises,
         ExecuteTimed(order, duration, ins, hosts)
  PROVE  LET c == submitted + 1
             devs == Range(order)
             ids == {<<c, d>> : d \in devs}
             waits == ExecutionWaits(ins, hosts, devs)
             uses == ExecutionUses(devs)
         IN  \E release \in Nat, start \in Nat :
               /\ release + LaunchNs <= start
               /\ now <= release
               /\ \A i \in ins : completion[i].end <= release
               /\ \A d \in devs : tail[d].end <= release
               /\ duration > 0 => \A r \in uses : resources[r] <= start
               /\ resources' = ReserveUntil(start, duration, uses)
               /\ timers' = timers \cup NewTimers(c, start + duration, order)
               /\ completion' = [id \in Ids |->
                    IF id \in ids THEN JoinTimer(id, start + duration, waits)
                                  ELSE completion[id]]
               /\ tail' = [d \in Devices |->
                    IF d \in devs
                      THEN JoinTimer(<<c, d>>, start + duration, waits)
                      ELSE tail[d]]
               /\ Record(c, "execute", ids, ins, start, duration, uses)
<1> DEFINE c == submitted + 1
           devs == Range(order)
           ids == {<<c, d>> : d \in devs}
           waits == ExecutionWaits(ins, hosts, devs)
           uses == ExecutionUses(devs)
           Effect(start) ==
             /\ resources' = ReserveUntil(start, duration, uses)
             /\ timers' = timers \cup NewTimers(c, start + duration, order)
             /\ completion' = [id \in Ids |->
                  IF id \in ids THEN JoinTimer(id, start + duration, waits)
                                ELSE completion[id]]
             /\ tail' = [d \in Devices |->
                  IF d \in devs
                    THEN JoinTimer(<<c, d>>, start + duration, waits)
                    ELSE tail[d]]
             /\ Record(c, "execute", ids, ins, start, duration, uses)
<1>1. PICK release \in ExecutionRelease(ins, devs) :
        \E start \in ReserveStart(release + LaunchNs, duration, uses) :
          Effect(start)
  BY DEF ExecuteTimed
<1>2. PICK start \in ReserveStart(release + LaunchNs, duration, uses) :
        Effect(start)
  BY <1>1
<1>3. devs \in SUBSET Devices
  BY OrderIsSequence
<1>4. /\ release \in Nat /\ release + LaunchNs \in Nat
      /\ now <= release
      /\ \A i \in ins : completion[i].end <= release
      /\ \A d \in devs : tail[d].end <= release
  BY <1>1, <1>3, ExecutionReleaseBounds, RuntimeAssumption
<1>5. uses \in SUBSET Resources
  BY <1>3 DEF ExecutionUses, Resources
<1>6. /\ start \in Nat
      /\ release + LaunchNs <= start
      /\ duration > 0 => \A r \in uses : resources[r] <= start
  BY <1>2, <1>4, <1>5, ReserveStartBounds
<1>7. QED
  BY <1>2, <1>4, <1>6

LEMMA TransferEffect ==
  ASSUME TypeOK, NEW src \in Nodes, NEW dst \in Nodes, NEW duration \in Nat,
         NEW ins \in SUBSET Ids, NEW hosts \in SUBSET HostPromises,
         Transfer(src, dst, duration, ins, hosts)
  PROVE  LET c == submitted + 1
             id == <<c, dst>>
             waits == InputWaits(ins, hosts)
             uses == TransferUses(src, dst)
         IN  \E start \in Nat :
               /\ now <= start
               /\ \A i \in ins : completion[i].end <= start
               /\ duration > 0 => \A r \in uses : resources[r] <= start
               /\ resources' = ReserveUntil(start, duration, uses)
               /\ timers' = timers \cup NewTimers(c, start + duration,
                                                  [k \in 1..1 |-> dst])
               /\ completion' = [completion EXCEPT
                    ![id] = JoinTimer(id, start + duration, waits)]
               /\ Record(c, "transfer", {id}, ins, start, duration, uses)
<1> DEFINE c == submitted + 1
           id == <<c, dst>>
           waits == InputWaits(ins, hosts)
           uses == TransferUses(src, dst)
           Effect(start) ==
             /\ resources' = ReserveUntil(start, duration, uses)
             /\ timers' = timers \cup NewTimers(c, start + duration,
                                                [k \in 1..1 |-> dst])
             /\ completion' = [completion EXCEPT
                  ![id] = JoinTimer(id, start + duration, waits)]
             /\ Record(c, "transfer", {id}, ins, start, duration, uses)
<1>1. PICK ready \in LatestOf({now} \cup InputEnd(ins)) :
        \E start \in ReserveStart(ready, duration, uses) : Effect(start)
  BY DEF Transfer
<1>2. PICK start \in ReserveStart(ready, duration, uses) : Effect(start)
  BY <1>1
<1>3. /\ now \in Nat /\ \A i \in ins : completion[i].end \in Nat
  BY DEF TypeOK, Completion
<1>4. /\ ready \in Nat /\ now <= ready
      /\ \A i \in ins : completion[i].end <= ready
  BY <1>1, <1>3 DEF LatestOf, InputEnd
<1>5. uses \in SUBSET Resources
  BY DEF TransferUses, Resources
<1>6. /\ start \in Nat
      /\ ready <= start
      /\ duration > 0 => \A r \in uses : resources[r] <= start
  BY <1>2, <1>4, <1>5, ReserveStartBounds
<1>7. /\ now <= start /\ \A i \in ins : completion[i].end <= start
  BY <1>3, <1>4, <1>6
<1>8. QED
  BY <1>2, <1>6, <1>7

LEMMA TypeOKExecuteTimed ==
  ASSUME TypeOK, NEW order \in DeviceOrders, NEW duration \in Nat,
         NEW ins \in SUBSET Ids, NEW hosts \in SUBSET HostPromises,
         ExecuteTimed(order, duration, ins, hosts)
  PROVE  TypeOK'
<1> DEFINE c == submitted + 1
           devs == Range(order)
           ids == {<<c, d>> : d \in devs}
           waits == ExecutionWaits(ins, hosts, devs)
           uses == ExecutionUses(devs)
<1>1. /\ devs \in SUBSET Devices /\ order \in Seq(Nodes) /\ Len(order) \in Nat
  BY OrderIsSequence DEF Nodes
<1>2. waits \in SUBSET Promises
  BY <1>1, WaitsType
<1>3. PICK start \in Nat :
          /\ resources' = ReserveUntil(start, duration, uses)
          /\ timers' = timers \cup NewTimers(c, start + duration, order)
          /\ completion' = [id \in Ids |->
               IF id \in ids THEN JoinTimer(id, start + duration, waits)
                             ELSE completion[id]]
          /\ tail' = [d \in Devices |->
               IF d \in devs THEN JoinTimer(<<c, d>>, start + duration, waits)
                             ELSE tail[d]]
          /\ Record(c, "execute", ids, ins, start, duration, uses)
  BY ExecuteEffect
<1>4. uses \in SUBSET Resources /\ start + duration \in Nat
  BY <1>1 DEF ExecutionUses, Resources
<1>5. submitted < MaxCalls /\ c \in Calls
  BY RuntimeAssumption DEF ExecuteTimed, Accepts, TypeOK, Calls
<1>6. ids \in SUBSET Ids /\ \A d \in devs : <<c, d>> \in Ids
  BY <1>1, <1>5 DEF Ids, Nodes
<1>7. /\ submitted' \in 0..MaxCalls
      /\ call' \in [Calls -> [kind : {"none", "execute", "transfer"},
                              ids : SUBSET Ids, inputs : SUBSET Ids,
                              start : Nat, duration : Nat,
                              uses : SUBSET Resources]]
  BY <1>3, <1>4, <1>5, <1>6, RecordType
<1>8. completion' \in [Ids -> Completion]
  BY <1>2, <1>3, <1>4, JoinTimerType DEF TypeOK
<1>9. tail' \in [Devices -> Completion]
  BY <1>2, <1>3, <1>4, <1>6, JoinTimerType DEF TypeOK
<1>10. resources' \in [Resources -> Nat]
  BY <1>3, ReserveUntilType
<1>11. timers' \subseteq Timer
  BY <1>1, <1>3, <1>4, <1>5, NewTimersType DEF TypeOK
<1>12. /\ sequence' \in Nat /\ worker' = Notified(worker)
       /\ UNCHANGED <<simulateTiming, now, wakeAt, hand, pool, promise,
                      stopping, destructor>>
  BY <1>1 DEF ExecuteTimed, workerVars, TypeOK
<1>13. QED
  BY <1>7, <1>8, <1>9, <1>10, <1>11, <1>12, NotifiedType DEF TypeOK

LEMMA TypeOKTransfer ==
  ASSUME TypeOK, NEW src \in Nodes, NEW dst \in Nodes, NEW duration \in Nat,
         NEW ins \in SUBSET Ids, NEW hosts \in SUBSET HostPromises,
         Transfer(src, dst, duration, ins, hosts)
  PROVE  TypeOK'
<1> DEFINE c == submitted + 1
           id == <<c, dst>>
           waits == InputWaits(ins, hosts)
           uses == TransferUses(src, dst)
           order == [k \in 1..1 |-> dst]
<1>1. waits \in SUBSET Promises
  BY WaitsType
<1>2. PICK start \in Nat :
          /\ resources' = ReserveUntil(start, duration, uses)
          /\ timers' = timers \cup NewTimers(c, start + duration, order)
          /\ completion' = [completion EXCEPT
               ![id] = JoinTimer(id, start + duration, waits)]
          /\ Record(c, "transfer", {id}, ins, start, duration, uses)
  BY TransferEffect
<1>3. uses \in SUBSET Resources /\ start + duration \in Nat
  BY DEF TransferUses, Resources
<1>4. submitted < MaxCalls /\ c \in Calls
  BY RuntimeAssumption DEF Transfer, Accepts, TypeOK, Calls
<1>5. id \in Ids /\ {id} \in SUBSET Ids
  BY <1>4 DEF Ids
<1>6. /\ submitted' \in 0..MaxCalls
      /\ call' \in [Calls -> [kind : {"none", "execute", "transfer"},
                              ids : SUBSET Ids, inputs : SUBSET Ids,
                              start : Nat, duration : Nat,
                              uses : SUBSET Resources]]
  BY <1>2, <1>3, <1>4, <1>5, RecordType
<1>7. completion' \in [Ids -> Completion]
  BY <1>1, <1>2, <1>3, <1>5, JoinTimerType DEF TypeOK
<1>8. resources' \in [Resources -> Nat]
  BY <1>2, ReserveUntilType
<1>9. timers' \subseteq Timer
  <2>1. order \in Seq(Nodes)
    OBVIOUS
  <2>2. QED
    BY <1>2, <1>3, <1>4, <2>1, NewTimersType DEF TypeOK
<1>10. /\ sequence' \in Nat /\ worker' = Notified(worker)
       /\ UNCHANGED <<simulateTiming, now, tail, wakeAt, hand, pool, promise,
                      stopping, destructor>>
  BY DEF Transfer, workerVars, TypeOK
<1>11. QED
  BY <1>6, <1>7, <1>8, <1>9, <1>10, NotifiedType DEF TypeOK

LEMMA TypeOKUntimed ==
  ASSUME TypeOK, NEW ins \in SUBSET Ids, NEW hosts \in SUBSET HostPromises,
         NEW src \in Nodes, NEW dst \in Nodes,
         \/ \E order \in DeviceOrders : ExecuteUntimed(order, ins, hosts)
         \/ TransferUntimed(src, dst, ins, hosts)
  PROVE  TypeOK'
<1>1. InputWaits(ins, hosts) \in SUBSET Promises
  BY WaitsType
<1>2. ASSUME NEW order \in DeviceOrders, ExecuteUntimed(order, ins, hosts)
      PROVE  TypeOK'
  <2>1. submitted < MaxCalls /\ submitted + 1 \in Calls
    BY <1>2, RuntimeAssumption DEF ExecuteUntimed, Accepts, TypeOK, Calls
  <2>2. {<<submitted + 1, d>> : d \in Range(order)} \in SUBSET Ids
    BY <2>1, OrderIsSequence DEF Ids, Nodes
  <2>3. Record(submitted + 1, "execute",
               {<<submitted + 1, d>> : d \in Range(order)}, ins, 0, 0, {})
    BY <1>2 DEF ExecuteUntimed
  <2>4. /\ submitted' \in 0..MaxCalls
        /\ call' \in [Calls -> [kind : {"none", "execute", "transfer"},
                                ids : SUBSET Ids, inputs : SUBSET Ids,
                                start : Nat, duration : Nat,
                                uses : SUBSET Resources]]
    <3>1. 0 \in Nat /\ {} \in SUBSET Resources
      OBVIOUS
    <3>2. QED
      BY <2>1, <2>2, <2>3, <3>1, RecordType, Zenon
  <2>5. completion' \in [Ids -> Completion]
    BY <1>1, <1>2 DEF ExecuteUntimed, TypeOK, Completion
  <2>6. QED
    BY <1>2, <2>4, <2>5 DEF ExecuteUntimed, TypeOK, workerVars
<1>3. ASSUME TransferUntimed(src, dst, ins, hosts)
      PROVE  TypeOK'
  <2>1. submitted < MaxCalls /\ submitted + 1 \in Calls
    BY <1>3, RuntimeAssumption DEF TransferUntimed, Accepts, TypeOK, Calls
  <2>2. {<<submitted + 1, dst>>} \in SUBSET Ids
    BY <2>1 DEF Ids
  <2>3. Record(submitted + 1, "transfer", {<<submitted + 1, dst>>}, ins, 0, 0,
               {})
    BY <1>3 DEF TransferUntimed
  <2>4. /\ submitted' \in 0..MaxCalls
        /\ call' \in [Calls -> [kind : {"none", "execute", "transfer"},
                                ids : SUBSET Ids, inputs : SUBSET Ids,
                                start : Nat, duration : Nat,
                                uses : SUBSET Resources]]
    <3>1. 0 \in Nat /\ {} \in SUBSET Resources
      OBVIOUS
    <3>2. QED
      BY <2>1, <2>2, <2>3, <3>1, RecordType, Zenon
  <2>5. completion' \in [Ids -> Completion]
    <3>1. PICK end \in LatestOf({0} \cup InputEnd(ins)) :
            completion' = [completion EXCEPT
              ![<<submitted + 1, dst>>] =
                 [end |-> end, waits |-> InputWaits(ins, hosts)]]
      BY <1>3 DEF TransferUntimed
    <3>2. end \in Nat
      <4>1. \A i \in ins : completion[i].end \in Nat
        BY DEF TypeOK, Completion
      <4>2. QED
        BY <4>1 DEF LatestOf, InputEnd
    <3>3. QED
      BY <1>1, <3>1, <3>2 DEF TypeOK, Completion
  <2>6. QED
    BY <1>3, <2>4, <2>5 DEF TransferUntimed, TypeOK, workerVars
<1>4. QED
  BY <1>2, <1>3

(* Every variable of every reachable state has its type.                   *)
THEOREM TypeCorrect == Spec => []TypeOK
<1>1. Init => TypeOK
  <2>1. NoCompletion \in Completion
    BY DEF NoCompletion, Completion
  <2>2. NoCall \in [kind : {"none", "execute", "transfer"}, ids : SUBSET Ids,
                    inputs : SUBSET Ids, start : Nat, duration : Nat,
                    uses : SUBSET Resources]
    BY DEF NoCall
  <2>3. ASSUME Init
        PROVE  /\ call \in [Calls -> [kind : {"none", "execute", "transfer"},
                             ids : SUBSET Ids, inputs : SUBSET Ids,
                             start : Nat, duration : Nat,
                             uses : SUBSET Resources]]
               /\ completion \in [Ids -> Completion]
               /\ tail \in [Devices -> Completion]
    BY <2>1, <2>2, <2>3 DEF Init
  <2>4. ASSUME Init
        PROVE  /\ now \in Nat /\ submitted \in 0..MaxCalls /\ sequence \in Nat
    BY <2>4, RuntimeAssumption DEF Init
  <2>5. [p \in Promises |-> "unset"]
          \in [Promises -> {"unset", "ok", "cancelled", "error"}]
    <3>1. DEFINE S == {"unset", "ok", "cancelled", "error"}
    <3>2. "unset" \in S
      OBVIOUS
    <3> HIDE DEF S
    <3>3. [p \in Promises |-> "unset"] \in [Promises -> S]
      BY <3>2
    <3>4. QED
      BY <3>3 DEF S
  <2>6. ASSUME Init PROVE resources \in [Resources -> Nat]
    BY <2>6 DEF Init
  <2>7. ASSUME Init
        PROVE promise \in [Promises -> {"unset", "ok", "cancelled", "error"}]
    BY <2>5, <2>7, Zenon DEF Init
  <2>8. ASSUME Init
        PROVE /\ simulateTiming \in BOOLEAN /\ stopping \in BOOLEAN
              /\ destructor \in {"none", "notify", "join", "done"}
    BY <2>8, Zenon DEF Init
  <2>9. ASSUME Init
        PROVE /\ worker \in {"check", "wait", "sleep", "hand", "exit"}
    BY <2>9 DEF Init
  <2>10. ASSUME Init
        PROVE /\ wakeAt \in Nat
              /\ timers \subseteq Timer
              /\ hand \subseteq Closure /\ pool \subseteq Closure
    BY <2>10 DEF Init
  <2>11. QED
    BY <2>3, <2>4, <2>6, <2>7, <2>8, <2>9, <2>10, Zenon DEF TypeOK
<1>2. ASSUME TypeOK, [Next]_vars PROVE TypeOK'
  <2> USE <1>2
  <2>1. CASE Submit
    BY <2>1, SubmitCases, TypeOKExecuteTimed, TypeOKTransfer, TypeOKUntimed
  <2>2. CASE Worker
    <3> USE DEF TypeOK, apiVars, workerVars
    <3>1. CASE WorkerExit
      BY <3>1 DEF WorkerExit
    <3>2. CASE WorkerWait
      BY <3>2 DEF WorkerWait
    <3>3. CASE WorkerSleep
      BY <3>3 DEF WorkerSleep, Top, Timer
    <3>4. CASE WorkerPop
      BY <3>4 DEF WorkerPop, Top, Timer, Closure, TimerStatus
    <3>5. CASE WorkerSchedule
      BY <3>5 DEF WorkerSchedule
    <3>6. CASE WorkerTimeout
      BY <3>6 DEF WorkerTimeout
    <3>7. QED
      BY <2>2, <3>1, <3>2, <3>3, <3>4, <3>5, <3>6 DEF Worker
  <2>3. CASE WorkerSpuriousWake
    BY <2>3 DEF WorkerSpuriousWake, TypeOK, apiVars, workerVars
  <2>4. ASSUME NEW cl \in pool, RunClosure(cl) PROVE TypeOK'
    <3>1. cl.id \in Promises /\ cl.status \in {"ok", "cancelled"}
      BY DEF TypeOK, Closure, Promises
    <3>2. QED
      BY <2>4, <3>1 DEF RunClosure, TypeOK, apiVars, workerVars
  <2>5. CASE Destroy
    BY <2>5, NotifiedType
    DEF Destroy, Stop, StopNotify, StopJoin, TypeOK, apiVars, workerVars
  <2>6. CASE Tick
    BY <2>6 DEF Tick, TypeOK, apiVars, workerVars
  <2>7. ASSUME NEW h \in HostPromises, NEW status \in {"ok", "error"},
               HostResolve(h, status)
        PROVE  TypeOK'
    BY <2>7 DEF HostResolve, TypeOK, apiVars, workerVars, Promises
  <2>8. CASE UNCHANGED vars
    BY <2>8 DEF TypeOK, vars, apiVars, workerVars
  <2>9. QED
    BY <2>1, <2>2, <2>3, <2>4, <2>5, <2>6, <2>7, <2>8 DEF Next
<1>3. QED
  BY <1>1, <1>2, PTL DEF Spec

----------------------------------------------------------------------------
(* The inductive invariants *)

(* A resource is free no earlier than the end of any call that took it.    *)
Reservations ==
  \A c \in 1..submitted : \A r \in call[c].uses :
    call[c].duration > 0 => call[c].start + call[c].duration <= resources[r]

(* A call owns the ids that carry its number, and depends on older calls.  *)
Provenance ==
  \A c \in 1..submitted :
    /\ \A id \in call[c].ids : id[1] = c
    /\ \A i \in call[c].inputs : i[1] < c

(* A timer carries its call's modelled end; a closure or a promise that says
   ok was taken from its timer when the clock had reached that end.        *)
Firing ==
  /\ \A t \in timers : t.id[1] <= submitted /\ t.deadline = completion[t.id].end
  /\ \A cl \in hand \cup pool :
       /\ cl.id[1] <= submitted
       /\ cl.status = "ok" => completion[cl.id].end <= now
  /\ \A id \in Ids :
       /\ promise[id] # "unset" => id[1] <= submitted
       /\ promise[id] = "ok" => completion[id].end <= now

(* A device's tail ends no earlier than any execution submitted to it.     *)
TailIsLast ==
  simulateTiming =>
    \A c \in 1..submitted : \A d \in Devices :
      (call[c].kind = "execute" /\ <<c, d>> \in call[c].ids)
        => completion[<<c, d>>].end <= tail[d].end

----------------------------------------------------------------------------
(* ExclusiveResources *)

LEMMA OnlySubmitBooks ==
  ASSUME [Next]_vars, ~Submit
  PROVE  UNCHANGED <<simulateTiming, submitted, call, completion, resources,
                      tail>>
BY DEF Next, vars, apiVars, workerVars, Worker, WorkerExit, WorkerWait,
       WorkerSleep, WorkerPop, WorkerSchedule, WorkerTimeout,
       WorkerSpuriousWake, RunClosure, Destroy, Stop, StopNotify, StopJoin,
       Tick, HostResolve

(* Every call books its resources from an instant they are free at.        *)
Books(start, duration, uses) ==
  /\ submitted < MaxCalls
  /\ \E kind, ids, ins :
       Record(submitted + 1, kind, ids, ins, start, duration, uses)
  /\ duration > 0 => \A r \in uses : resources[r] <= start
  /\ resources' = ReserveUntil(start, duration, uses)

LEMMA SubmitBooks ==
  ASSUME TypeOK, Submit
  PROVE  \E start, duration \in Nat, uses \in SUBSET Resources :
           Books(start, duration, uses)
<1>1. PICK hosts \in SUBSET HostPromises, ins \in SUBSET Ids,
           src \in Nodes, dst \in Nodes, duration \in Nat :
        \/ \E order \in DeviceOrders :
             \/ ExecuteTimed(order, duration, ins, hosts)
             \/ ExecuteUntimed(order, ins, hosts)
        \/ Transfer(src, dst, duration, ins, hosts)
        \/ TransferUntimed(src, dst, ins, hosts)
  BY SubmitCases
<1>2. ASSUME NEW order \in DeviceOrders,
             ExecuteTimed(order, duration, ins, hosts)
      PROVE  \E start \in Nat :
               Books(start, duration, ExecutionUses(Range(order)))
  BY <1>2, ExecuteEffect DEF Books, ExecuteTimed, Accepts
<1>3. ASSUME Transfer(src, dst, duration, ins, hosts)
      PROVE  \E start \in Nat : Books(start, duration, TransferUses(src, dst))
  BY <1>3, TransferEffect DEF Books, Transfer, Accepts
<1>4. ASSUME \/ \E order \in DeviceOrders : ExecuteUntimed(order, ins, hosts)
             \/ TransferUntimed(src, dst, ins, hosts)
      PROVE  Books(0, 0, {})
  BY <1>4 DEF Books, ExecuteUntimed, TransferUntimed, ReserveUntil, Accepts
<1>5. \A order \in DeviceOrders :
        ExecutionUses(Range(order)) \in SUBSET Resources
  BY OrderIsSequence DEF ExecutionUses, Resources
<1>6. TransferUses(src, dst) \in SUBSET Resources
  BY DEF TransferUses, Resources
<1>7. QED
  BY <1>1, <1>2, <1>3, <1>4, <1>5, <1>6

LEMMA ReservationsStep ==
  ASSUME TypeOK, Reservations, ExclusiveResources, [Next]_vars
  PROVE  Reservations' /\ ExclusiveResources'
<1>1. CASE Submit
  <2>1. PICK start \in Nat, duration \in Nat, uses \in SUBSET Resources :
          Books(start, duration, uses)
    BY <1>1, SubmitBooks
  <2>2. /\ submitted' = submitted + 1
        /\ submitted \in Nat
        /\ submitted + 1 \in Calls
    BY <2>1, RuntimeAssumption DEF Books, Record, TypeOK, Calls
  <2>3. /\ call'[submitted + 1].start = start
        /\ call'[submitted + 1].duration = duration
        /\ call'[submitted + 1].uses = uses
        /\ \A c \in 1..submitted : call'[c] = call[c]
    BY <2>1, <2>2 DEF Books, Record, TypeOK
  <2>4. \A c \in 1..submitted :
          /\ call[c].start \in Nat /\ call[c].duration \in Nat
          /\ call[c].uses \in SUBSET Resources
    BY RuntimeAssumption DEF TypeOK, Calls
  <2>5. \A r \in Resources : resources[r] \in Nat
    BY DEF TypeOK
  <2>6. \A r \in Resources :
          resources'[r] = IF r \in uses /\ duration # 0 THEN start + duration
                                                       ELSE resources[r]
    BY <2>1 DEF Books, ReserveUntil, TypeOK
  <2>7. \A r \in Resources : resources[r] <= resources'[r]
    BY <2>1, <2>5, <2>6 DEF Books
  <2>8. Reservations'
    <3> SUFFICES ASSUME NEW c \in 1..(submitted + 1), NEW r \in call'[c].uses,
                        call'[c].duration > 0
                 PROVE  call'[c].start + call'[c].duration <= resources'[r]
      BY <2>2 DEF Reservations
    <3>1. CASE c = submitted + 1
      BY <2>3, <2>6, <3>1
    <3>2. CASE c \in 1..submitted
      <4>1. call[c].start + call[c].duration <= resources[r]
        BY <2>3, <3>2 DEF Reservations
      <4>2. QED
        BY <2>3, <2>4, <2>5, <2>6, <2>7, <3>2, <4>1
    <3>3. QED
      BY <2>2, <3>1, <3>2
  <2>9. ExclusiveResources'
    <3> SUFFICES ASSUME NEW c \in 1..(submitted + 1),
                        NEW d \in 1..(submitted + 1), c < d,
                        call'[c].uses \cap call'[d].uses # {},
                        call'[c].duration > 0, call'[d].duration > 0
                 PROVE  call'[c].start + call'[c].duration <= call'[d].start
      BY <2>2 DEF ExclusiveResources
    <3>1. c \in 1..submitted
      BY <2>2
    <3>2. CASE d = submitted + 1
      <4>1. PICK r \in uses : r \in call[c].uses
        BY <2>3, <3>1, <3>2
      <4>2. call[c].start + call[c].duration <= resources[r]
        BY <2>3, <3>1, <4>1 DEF Reservations
      <4>3. resources[r] <= start
        BY <2>1, <2>3, <3>2, <4>1 DEF Books
      <4>4. QED
        BY <2>3, <2>4, <2>5, <3>1, <3>2, <4>1, <4>2, <4>3
    <3>3. CASE d \in 1..submitted
      BY <2>3, <3>1, <3>3 DEF ExclusiveResources
    <3>4. QED
      BY <2>2, <3>2, <3>3
  <2>10. QED
    BY <2>8, <2>9
<1>2. CASE ~Submit
  BY <1>2, OnlySubmitBooks DEF Reservations, ExclusiveResources
<1>3. QED
  BY <1>1, <1>2

(* No resource is booked twice for the same instant, for any number of
   devices and any mix of overlapping executions and transfers.            *)
THEOREM ResourcesExclusive == Spec => []ExclusiveResources
<1>1. Init => Reservations /\ ExclusiveResources
  BY DEF Init, Reservations, ExclusiveResources
<1>2. Spec => []TypeOK
  BY TypeCorrect
<1>3. QED
  BY <1>1, <1>2, ReservationsStep, PTL DEF Spec

----------------------------------------------------------------------------
(* NoEarlySuccess *)

(* A call changes no completion but its own, and its timers carry its end. *)
Completes ==
  /\ submitted' = submitted + 1
  /\ \A id \in Ids : id[1] <= submitted => completion'[id] = completion[id]
  /\ \A t \in timers' :
       \/ t \in timers
       \/ t.id[1] = submitted + 1 /\ t.deadline = completion'[t.id].end
  /\ UNCHANGED <<now, hand, pool, promise>>

LEMMA ExecuteCompletes ==
  ASSUME TypeOK, NEW order \in DeviceOrders, NEW duration \in Nat,
         NEW ins \in SUBSET Ids, NEW hosts \in SUBSET HostPromises,
         ExecuteTimed(order, duration, ins, hosts)
  PROVE  Completes
<1> DEFINE c == submitted + 1
           devs == Range(order)
           ids == {<<c, d>> : d \in devs}
           waits == ExecutionWaits(ins, hosts, devs)
<1>1. PICK start \in Nat :
        /\ timers' = timers \cup NewTimers(c, start + duration, order)
        /\ completion' = [id \in Ids |->
             IF id \in ids THEN JoinTimer(id, start + duration, waits)
                           ELSE completion[id]]
        /\ Record(c, "execute", ids, ins, start, duration, ExecutionUses(devs))
  BY ExecuteEffect
<1>2. submitted \in Nat /\ c \in Calls
  BY RuntimeAssumption DEF ExecuteTimed, Accepts, TypeOK, Calls
<1>3. \A id \in Ids : id[1] <= submitted => completion'[id] = completion[id]
  BY <1>1, <1>2
<1>4. ASSUME NEW t \in NewTimers(c, start + duration, order)
      PROVE  t.id[1] = c /\ t.deadline = completion'[t.id].end
  <2>1. PICK k \in DOMAIN order :
          t.deadline = start + duration /\ t.id = <<c, order[k]>>
    BY <1>4 DEF NewTimers
  <2>2. order[k] \in devs /\ devs \in SUBSET Devices
    BY <2>1, OrderIsSequence DEF Range
  <2>3. t.id \in ids /\ t.id \in Ids
    BY <1>2, <2>1, <2>2 DEF Ids, Nodes
  <2>4. completion'[t.id].end = start + duration
    BY <1>1, <2>3 DEF JoinTimer
  <2>5. QED
    BY <2>1, <2>4
<1>5. QED
  BY <1>1, <1>3, <1>4
  DEF Completes, Record, ExecuteTimed, workerVars

LEMMA TransferCompletes ==
  ASSUME TypeOK, NEW src \in Nodes, NEW dst \in Nodes, NEW duration \in Nat,
         NEW ins \in SUBSET Ids, NEW hosts \in SUBSET HostPromises,
         Transfer(src, dst, duration, ins, hosts)
  PROVE  Completes
<1> DEFINE c == submitted + 1
           id == <<c, dst>>
           waits == InputWaits(ins, hosts)
<1>1. PICK start \in Nat :
        /\ timers' = timers \cup NewTimers(c, start + duration,
                                           [k \in 1..1 |-> dst])
        /\ completion' = [completion EXCEPT
             ![id] = JoinTimer(id, start + duration, waits)]
        /\ Record(c, "transfer", {id}, ins, start, duration,
                  TransferUses(src, dst))
  BY TransferEffect
<1>2. submitted \in Nat /\ c \in Calls /\ id \in Ids
  BY RuntimeAssumption DEF Transfer, Accepts, TypeOK, Calls, Ids
<1>3. \A i \in Ids : i[1] <= submitted => completion'[i] = completion[i]
  BY <1>1, <1>2 DEF TypeOK
<1>4. ASSUME NEW t \in NewTimers(c, start + duration, [k \in 1..1 |-> dst])
      PROVE  t.id[1] = c /\ t.deadline = completion'[t.id].end
  <2>1. t.deadline = start + duration /\ t.id = id
    BY <1>4 DEF NewTimers
  <2>2. completion'[id].end = start + duration
    BY <1>1, <1>2 DEF JoinTimer, TypeOK
  <2>3. QED
    BY <2>1, <2>2
<1>5. QED
  BY <1>1, <1>3, <1>4 DEF Completes, Record, Transfer, workerVars

LEMMA SubmitCompletes ==
  ASSUME TypeOK, Submit
  PROVE  Completes
<1>1. PICK hosts \in SUBSET HostPromises, ins \in SUBSET Ids,
           src \in Nodes, dst \in Nodes, duration \in Nat :
        \/ \E order \in DeviceOrders :
             \/ ExecuteTimed(order, duration, ins, hosts)
             \/ ExecuteUntimed(order, ins, hosts)
        \/ Transfer(src, dst, duration, ins, hosts)
        \/ TransferUntimed(src, dst, ins, hosts)
  BY SubmitCases
<1>2. ASSUME NEW order \in DeviceOrders, ExecuteUntimed(order, ins, hosts)
      PROVE  Completes
  <2>1. submitted \in Nat
    BY DEF TypeOK
  <2>2. \A id \in Ids : id[1] <= submitted => completion'[id] = completion[id]
    BY <1>2, <2>1 DEF ExecuteUntimed
  <2>3. QED
    BY <1>2, <2>2 DEF ExecuteUntimed, Completes, Record, workerVars
<1>3. ASSUME TransferUntimed(src, dst, ins, hosts)
      PROVE  Completes
  <2>1. submitted \in Nat
    BY DEF TypeOK
  <2>2. \A id \in Ids : id[1] <= submitted => completion'[id] = completion[id]
    BY <1>3, <2>1 DEF TransferUntimed, TypeOK
  <2>3. QED
    BY <1>3, <2>2 DEF TransferUntimed, Completes, Record, workerVars
<1>4. QED
  BY <1>1, <1>2, <1>3, ExecuteCompletes, TransferCompletes

LEMMA FiringStep ==
  ASSUME TypeOK, Firing, [Next]_vars
  PROVE  Firing'
<1> USE DEF Firing
<1>0. /\ submitted \in Nat /\ now \in Nat
      /\ \A id \in Ids : id[1] \in Nat /\ completion[id].end \in Nat
      /\ \A t \in timers : t.id \in Ids
      /\ \A cl \in hand \cup pool : cl.id \in Ids
  BY DEF TypeOK, Completion, Ids, Calls, Timer, Closure
<1>1. CASE Submit
  <2>1. Completes
    BY <1>1, SubmitCompletes
  <2>2. \A t \in timers' :
          t.id[1] <= submitted' /\ t.deadline = completion'[t.id].end
    <3> SUFFICES ASSUME NEW t \in timers'
                 PROVE  t.id[1] <= submitted' /\ t.deadline = completion'[t.id].end
      OBVIOUS
    <3>1. CASE t \in timers
      BY <1>0, <2>1, <3>1 DEF Completes
    <3>2. CASE t.id[1] = submitted + 1 /\ t.deadline = completion'[t.id].end
      BY <1>0, <2>1, <3>2 DEF Completes
    <3>3. QED
      BY <2>1, <3>1, <3>2 DEF Completes
  <2>3. \A cl \in hand' \cup pool' :
          /\ cl.id[1] <= submitted'
          /\ cl.status = "ok" => completion'[cl.id].end <= now'
    BY <1>0, <2>1 DEF Completes
  <2>4. \A id \in Ids :
          /\ promise'[id] # "unset" => id[1] <= submitted'
          /\ promise'[id] = "ok" => completion'[id].end <= now'
    <3>1. \A id \in Ids : promise[id] = "ok" => promise[id] # "unset"
      OBVIOUS
    <3>2. QED
      BY <1>0, <2>1, <3>1 DEF Completes
  <2>5. QED
    BY <2>2, <2>3, <2>4
<1>2. CASE WorkerPop
  <2>1. PICK t \in timers :
          /\ Due(t)
          /\ timers' = timers \ {t}
          /\ hand' = {[id |-> t.id, status |-> TimerStatus]}
    BY <1>2 DEF WorkerPop, Top
  <2>2. TimerStatus = "ok" => t.deadline <= now
    BY <2>1 DEF TimerStatus, Due
  <2>3. \A cl \in hand' :
          /\ cl.id[1] <= submitted
          /\ cl.status = "ok" => completion[cl.id].end <= now
    BY <2>1, <2>2
  <2>4. UNCHANGED <<now, submitted, completion, pool, promise>>
    BY <1>2 DEF WorkerPop, apiVars
  <2>5. QED
    BY <2>1, <2>3, <2>4
<1>3. CASE WorkerSchedule
  BY <1>3 DEF WorkerSchedule, apiVars
<1>4. ASSUME NEW cl \in pool, RunClosure(cl)
      PROVE  Firing'
  <2>1. /\ cl.id[1] <= submitted
        /\ cl.status = "ok" => completion[cl.id].end <= now
    OBVIOUS
  <2>2. /\ pool' = pool \ {cl}
        /\ \A id \in Ids : promise'[id] = IF id = cl.id THEN cl.status
                                                      ELSE promise[id]
    BY <1>0, <1>4 DEF RunClosure, TypeOK, Promises
  <2>3. UNCHANGED <<now, submitted, completion, timers, hand>>
    BY <1>4 DEF RunClosure, apiVars, workerVars
  <2>4. QED
    BY <2>1, <2>2, <2>3
<1>5. CASE Tick
  <2>1. now' = now + 1 /\ UNCHANGED <<submitted, completion, timers, hand, pool,
                                     promise>>
    BY <1>5 DEF Tick, apiVars, workerVars
  <2>2. QED
    BY <1>0, <2>1
<1>6. ASSUME NEW h \in HostPromises, NEW status \in {"ok", "error"},
             HostResolve(h, status)
      PROVE  Firing'
  <2>1. \A id \in Ids : promise'[id] = promise[id]
    BY <1>6, PromisesAssumption DEF HostResolve, TypeOK, Promises
  <2>2. UNCHANGED <<now, submitted, completion, timers, hand, pool>>
    BY <1>6 DEF HostResolve, apiVars, workerVars
  <2>3. QED
    BY <2>1, <2>2
<1>7. CASE \/ WorkerExit \/ WorkerWait \/ WorkerSleep \/ WorkerTimeout
           \/ WorkerSpuriousWake \/ Destroy \/ UNCHANGED vars
  <2>1. UNCHANGED <<now, submitted, completion, timers, hand, pool, promise>>
    BY <1>7
    DEF WorkerExit, WorkerWait, WorkerSleep, WorkerTimeout, WorkerSpuriousWake,
        Destroy, Stop, StopNotify, StopJoin, vars, apiVars, workerVars
  <2>2. QED
    BY <2>1
<1>8. QED
  BY <1>1, <1>2, <1>3, <1>4, <1>5, <1>6, <1>7 DEF Next, Worker

(* A future that succeeds was never early: at that instant the clock has
   passed every modelled end it joins, however submissions, timers, pool
   threads and the destructor interleave.                                  *)
THEOREM SuccessNeverEarly == Spec => []NoEarlySuccess
<1>1. Init => Firing
  <2>1. ASSUME Init PROVE \A id \in Ids : promise[id] = "unset"
    BY <2>1 DEF Init, Promises
  <2>2. QED
    BY <2>1 DEF Init, Firing
<1>2. ASSUME TypeOK, Firing PROVE NoEarlySuccess
  <2> SUFFICES ASSUME NEW id \in Submitted, Succeeded(id),
                      NEW p \in completion[id].waits \cap Ids
               PROVE  completion[p].end <= now
    BY DEF NoEarlySuccess
  <2>1. promise[p] # "unset" /\ promise[p] \notin {"cancelled", "error"}
    BY DEF Succeeded, Ready, Resolved, Failed
  <2>2. promise[p] \in {"unset", "ok", "cancelled", "error"}
    BY <1>2 DEF TypeOK, Promises
  <2>3. promise[p] = "ok"
    BY <2>1, <2>2
  <2>4. QED
    BY <1>2, <2>3 DEF Firing
<1>3. Spec => []TypeOK
  BY TypeCorrect
<1>4. QED
  BY <1>1, <1>2, <1>3, FiringStep, PTL DEF Spec

----------------------------------------------------------------------------
(* CausalStart *)

CausalInv == simulateTiming => Provenance /\ TailIsLast /\ CausalStart

(* A timed execution starts LaunchNs after its inputs and its devices' tails,
   and becomes those tails.                                                *)
LEMMA ExecuteCausal ==
  ASSUME TypeOK, CausalInv, simulateTiming,
         NEW order \in DeviceOrders, NEW duration \in Nat,
         NEW ins \in SUBSET Ids, NEW hosts \in SUBSET HostPromises,
         ins \subseteq Submitted,
         ExecuteTimed(order, duration, ins, hosts)
  PROVE  CausalInv'
<1> DEFINE n == submitted + 1
           devs == Range(order)
           ids == {<<n, d>> : d \in devs}
           waits == ExecutionWaits(ins, hosts, devs)
<1>1. PICK release \in Nat, start \in Nat :
        /\ release + LaunchNs <= start
        /\ \A i \in ins : completion[i].end <= release
        /\ \A d \in devs : tail[d].end <= release
        /\ completion' = [id \in Ids |->
             IF id \in ids THEN JoinTimer(id, start + duration, waits)
                           ELSE completion[id]]
        /\ tail' = [d \in Devices |->
             IF d \in devs THEN JoinTimer(<<n, d>>, start + duration, waits)
                           ELSE tail[d]]
        /\ Record(n, "execute", ids, ins, start, duration, ExecutionUses(devs))
  BY ExecuteEffect
<1>2. /\ submitted \in Nat /\ n \in Calls /\ submitted' = n
      /\ devs \in SUBSET Devices
      /\ LaunchNs \in Nat
      /\ \A id \in Ids : id[1] \in Nat /\ completion[id].end \in Nat
      /\ \A d \in Devices : tail[d].end \in Nat
  <2>1. submitted < MaxCalls /\ submitted \in Nat /\ MaxCalls \in Nat
    BY RuntimeAssumption DEF ExecuteTimed, Accepts, TypeOK
  <2>2. n \in Calls /\ submitted' = n
    BY <1>1, <2>1 DEF Calls, Record
  <2>3. /\ \A id \in Ids : id[1] \in Nat /\ completion[id].end \in Nat
        /\ \A d \in Devices : tail[d].end \in Nat
    BY DEF TypeOK, Completion, Ids, Calls
  <2>4. QED
    BY <2>1, <2>2, <2>3, OrderIsSequence, RuntimeAssumption
<1>3. /\ call'[n].kind = "execute" /\ call'[n].ids = ids
      /\ call'[n].inputs = ins /\ call'[n].start = start
      /\ \A c \in 1..submitted : call'[c] = call[c]
  BY <1>1, <1>2 DEF Record, TypeOK
<1>4. \A id \in Ids : id[1] <= submitted => completion'[id] = completion[id]
  BY <1>1, <1>2
<1>5. \A i \in ins : i \in Ids /\ i[1] <= submitted
  BY <1>2 DEF CausalInv, Provenance, Submitted
<1>6. \A c \in 1..submitted :
        /\ call[c].ids \in SUBSET Ids /\ call[c].inputs \in SUBSET Ids
        /\ call[c].start \in Nat
        /\ c \in Calls
  BY RuntimeAssumption DEF TypeOK, Calls
<1>7. Provenance'
  <2> SUFFICES ASSUME NEW c \in 1..n
               PROVE  /\ \A id \in call'[c].ids : id[1] = c
                      /\ \A i \in call'[c].inputs : i[1] < c
    BY <1>2 DEF Provenance
  <2>1. CASE c = n
    BY <1>2, <1>3, <1>5, <2>1
  <2>2. CASE c \in 1..submitted
    BY <1>3, <2>2 DEF CausalInv, Provenance
  <2>3. QED
    BY <1>2, <2>1, <2>2
<1>8. TailIsLast'
  <2> SUFFICES ASSUME NEW c \in 1..n, NEW d \in Devices,
                      call'[c].kind = "execute", <<c, d>> \in call'[c].ids
               PROVE  completion'[<<c, d>>].end <= tail'[d].end
    BY <1>2 DEF TailIsLast
  <2>1. CASE c = n
    <3>1. d \in devs /\ <<c, d>> \in Ids
      BY <1>2, <1>3, <2>1 DEF Ids, Nodes
    <3>2. QED
      BY <1>1, <1>2, <2>1, <3>1 DEF JoinTimer
  <2>2. CASE c \in 1..submitted
    <3>1. completion[<<c, d>>].end <= tail[d].end
      BY <1>3, <2>2 DEF CausalInv, TailIsLast
    <3>2. <<c, d>> \in Ids /\ completion'[<<c, d>>] = completion[<<c, d>>]
      BY <1>4, <1>6, <2>2 DEF Ids, Nodes
    <3>3. CASE d \in devs
      BY <1>1, <1>2, <3>1, <3>2, <3>3 DEF JoinTimer
    <3>4. CASE d \notin devs
      BY <1>1, <3>1, <3>2, <3>4
    <3>5. QED
      BY <3>3, <3>4
  <2>3. QED
    BY <1>2, <2>1, <2>2
<1>9. CausalStart'
  <2>1. ASSUME NEW c, c = n PROVE StartsAfterInputs(c)'
    BY <1>1, <1>2, <1>3, <1>4, <1>5, <2>1 DEF StartsAfterInputs
  <2>2. ASSUME NEW c, c = n PROVE StartsAfterEarlier(c)'
    <3> SUFFICES ASSUME NEW b \in 1..submitted, NEW d \in Devices,
                        call'[b].kind = "execute", <<b, d>> \in call'[b].ids,
                        <<n, d>> \in call'[n].ids
                 PROVE  completion'[<<b, d>>].end + LaunchNs <= call'[n].start
      BY <1>2, <2>2 DEF StartsAfterEarlier
    <3>1. completion[<<b, d>>].end <= tail[d].end /\ <<b, d>> \in Ids
      BY <1>3, <1>6 DEF CausalInv, TailIsLast
    <3>2. d \in devs
      BY <1>3
    <3>3. completion'[<<b, d>>] = completion[<<b, d>>]
      BY <1>4, <3>1
    <3>4. completion[<<b, d>>].end \in Nat /\ tail[d].end \in Nat
      BY <1>2, <3>1
    <3>5. tail[d].end <= release
      BY <1>1, <3>2
    <3>6. QED
      BY <1>1, <1>2, <1>3, <3>1, <3>3, <3>4, <3>5
  <2>3. ASSUME NEW c \in 1..submitted
        PROVE  StartsAfterInputs(c)' /\ StartsAfterEarlier(c)'
    <3>1. StartsAfterInputs(c) /\ StartsAfterEarlier(c)
      BY DEF CausalInv, CausalStart
    <3>2. \A i \in call[c].inputs : completion'[i] = completion[i]
      BY <1>2, <1>4, <1>6 DEF CausalInv, Provenance
    <3>3. ASSUME NEW b \in 1..(c - 1), NEW d \in Devices,
                 <<b, d>> \in call'[b].ids
          PROVE  /\ call'[b] = call[b]
                 /\ completion'[<<b, d>>] = completion[<<b, d>>]
      <4>1. b \in 1..submitted
        BY <1>2
      <4>2. <<b, d>> \in Ids
        BY <1>3, <1>6, <3>3, <4>1
      <4>3. QED
        BY <1>3, <1>4, <4>1, <4>2
    <3>4. QED
      BY <1>3, <3>1, <3>2, <3>3 DEF StartsAfterInputs, StartsAfterEarlier
  <2>4. ASSUME NEW c \in 1..n
        PROVE  StartsAfterInputs(c)' /\ StartsAfterEarlier(c)'
    <3>1. c = n \/ c \in 1..submitted
      BY <1>2
    <3>2. QED
      BY <2>1, <2>2, <2>3, <3>1
  <2>5. QED
    BY <1>2, <2>4 DEF CausalStart
<1>10. QED
  BY <1>7, <1>8, <1>9 DEF CausalInv

(* A timed transfer starts after its inputs and changes no tail.           *)
LEMMA TransferCausal ==
  ASSUME TypeOK, CausalInv, simulateTiming,
         NEW src \in Nodes, NEW dst \in Nodes, NEW duration \in Nat,
         NEW ins \in SUBSET Ids, NEW hosts \in SUBSET HostPromises,
         ins \subseteq Submitted,
         Transfer(src, dst, duration, ins, hosts)
  PROVE  CausalInv'
<1> DEFINE n == submitted + 1
           id == <<n, dst>>
           waits == InputWaits(ins, hosts)
<1>1. PICK start \in Nat :
        /\ \A i \in ins : completion[i].end <= start
        /\ completion' = [completion EXCEPT
             ![id] = JoinTimer(id, start + duration, waits)]
        /\ Record(n, "transfer", {id}, ins, start, duration,
                  TransferUses(src, dst))
  BY TransferEffect
<1>2. /\ submitted \in Nat /\ n \in Calls /\ submitted' = n
      /\ \A i \in Ids : i[1] \in Nat
  <2>1. submitted < MaxCalls /\ submitted \in Nat /\ MaxCalls \in Nat
    BY RuntimeAssumption DEF Transfer, Accepts, TypeOK
  <2>2. QED
    BY <1>1, <2>1 DEF Calls, Record, Ids
<1>3. /\ call'[n].kind = "transfer" /\ call'[n].ids = {id}
      /\ call'[n].inputs = ins /\ call'[n].start = start
      /\ \A c \in 1..submitted : call'[c] = call[c]
  BY <1>1, <1>2 DEF Record, TypeOK
<1>4. \A i \in Ids : i[1] <= submitted => completion'[i] = completion[i]
  BY <1>1, <1>2 DEF TypeOK
<1>5. \A i \in ins : i \in Ids /\ i[1] <= submitted
  BY <1>2 DEF CausalInv, Provenance, Submitted
<1>6. \A c \in 1..submitted :
        /\ call[c].ids \in SUBSET Ids /\ call[c].inputs \in SUBSET Ids
        /\ c \in Calls
  BY RuntimeAssumption DEF TypeOK, Calls
<1>7. Provenance'
  <2> SUFFICES ASSUME NEW c \in 1..n
               PROVE  /\ \A j \in call'[c].ids : j[1] = c
                      /\ \A i \in call'[c].inputs : i[1] < c
    BY <1>2 DEF Provenance
  <2>1. CASE c = n
    BY <1>2, <1>3, <1>5, <2>1
  <2>2. CASE c \in 1..submitted
    BY <1>3, <2>2 DEF CausalInv, Provenance
  <2>3. QED
    BY <1>2, <2>1, <2>2
<1>8. TailIsLast'
  <2> SUFFICES ASSUME NEW c \in 1..n, NEW d \in Devices,
                      call'[c].kind = "execute", <<c, d>> \in call'[c].ids
               PROVE  completion'[<<c, d>>].end <= tail'[d].end
    BY <1>2 DEF TailIsLast
  <2>1. c \in 1..submitted
    BY <1>2, <1>3
  <2>2. completion[<<c, d>>].end <= tail[d].end
    BY <1>3, <2>1 DEF CausalInv, TailIsLast
  <2>3. completion'[<<c, d>>] = completion[<<c, d>>]
    BY <1>3, <1>4, <1>6, <2>1
  <2>4. tail' = tail
    BY DEF Transfer
  <2>5. QED
    BY <2>2, <2>3, <2>4
<1>9. CausalStart'
  <2>1. ASSUME NEW c, c = n
        PROVE  StartsAfterInputs(c)' /\ StartsAfterEarlier(c)'
    BY <1>1, <1>3, <1>4, <1>5, <2>1 DEF StartsAfterInputs, StartsAfterEarlier
  <2>2. ASSUME NEW c \in 1..submitted
        PROVE  StartsAfterInputs(c)' /\ StartsAfterEarlier(c)'
    <3>1. StartsAfterInputs(c) /\ StartsAfterEarlier(c)
      BY DEF CausalInv, CausalStart
    <3>2. \A i \in call[c].inputs : completion'[i] = completion[i]
      BY <1>2, <1>4, <1>6 DEF CausalInv, Provenance
    <3>3. ASSUME NEW b \in 1..(c - 1), NEW d \in Devices,
                 <<b, d>> \in call'[b].ids
          PROVE  /\ call'[b] = call[b]
                 /\ completion'[<<b, d>>] = completion[<<b, d>>]
      <4>1. b \in 1..submitted
        BY <1>2
      <4>2. <<b, d>> \in Ids
        BY <1>3, <1>6, <3>3, <4>1
      <4>3. QED
        BY <1>3, <1>4, <4>1, <4>2
    <3>4. QED
      BY <1>3, <3>1, <3>2, <3>3 DEF StartsAfterInputs, StartsAfterEarlier
  <2>3. \A c \in 1..n : c = n \/ c \in 1..submitted
    BY <1>2
  <2>4. QED
    BY <1>2, <2>1, <2>2, <2>3 DEF CausalStart
<1>10. QED
  BY <1>7, <1>8, <1>9 DEF CausalInv

LEMMA CausalStep ==
  ASSUME TypeOK, CausalInv, [Next]_vars
  PROVE  CausalInv'
<1>1. CASE Submit
  <2>1. simulateTiming' = simulateTiming
    <3>1. PICK order, src, dst, duration, ins, hosts :
            \/ ExecuteTimed(order, duration, ins, hosts)
            \/ ExecuteUntimed(order, ins, hosts)
            \/ Transfer(src, dst, duration, ins, hosts)
            \/ TransferUntimed(src, dst, ins, hosts)
      BY <1>1 DEF Submit
    <3>2. CASE ExecuteTimed(order, duration, ins, hosts)
      BY <3>2 DEF ExecuteTimed
    <3>3. CASE ExecuteUntimed(order, ins, hosts)
      BY <3>3 DEF ExecuteUntimed
    <3>4. CASE Transfer(src, dst, duration, ins, hosts)
      BY <3>4 DEF Transfer
    <3>5. CASE TransferUntimed(src, dst, ins, hosts)
      BY <3>5 DEF TransferUntimed
    <3>6. QED
      BY <3>1, <3>2, <3>3, <3>4, <3>5
  <2>2. CASE simulateTiming
    <3>1. \A order, ins, hosts : ~ExecuteUntimed(order, ins, hosts)
      BY <2>2 DEF ExecuteUntimed
    <3>2. \A src, dst, ins, hosts : ~TransferUntimed(src, dst, ins, hosts)
      BY <2>2 DEF TransferUntimed
    <3>3. QED
      BY <1>1, <2>2, <3>1, <3>2, SubmitCases, ExecuteCausal, TransferCausal
  <2>3. CASE ~simulateTiming
    BY <2>1, <2>3 DEF CausalInv
  <2>4. QED
    BY <2>2, <2>3
<1>2. CASE ~Submit
  BY <1>2, OnlySubmitBooks
  DEF CausalInv, Provenance, TailIsLast, CausalStart, StartsAfterInputs,
      StartsAfterEarlier
<1>3. QED
  BY <1>1, <1>2

(* Modelled time never runs ahead of its causes, in submission order and
   across devices, whatever instant the threads submit at.                 *)
THEOREM StartsAreCausal == Spec => []CausalStart
<1>1. Init => CausalInv
  BY DEF Init, CausalInv, Provenance, TailIsLast, CausalStart
<1>2. CausalInv => CausalStart
  BY DEF CausalInv, CausalStart
<1>3. Spec => []TypeOK
  BY TypeCorrect
<1>4. QED
  BY <1>1, <1>2, <1>3, CausalStep, PTL DEF Spec

----------------------------------------------------------------------------
(* ImplementsPromise *)

(* Call c runs on the given nodes, after the futures ins and, if timed and an
   execution, after its devices' tails, which it becomes: what it returns
   joins all that it waits for.                                            *)
Submits(c, nodes, ins, inOrder) ==
  /\ c = submitted + 1 /\ c \in Calls /\ submitted' = c /\ nodes # {}
  /\ call'[c].ids = {c} \X nodes /\ call'[c].inputs = ins
  /\ inOrder <=> simulateTiming /\ call'[c].kind = "execute"
  /\ \A b \in 1..submitted : call'[b] = call[b]
  /\ \A id \in Ids : id \notin {c} \X nodes => completion'[id] = completion[id]
  /\ \A id \in {c} \X nodes : \A i \in ins : completion[i].waits \subseteq completion'[id].waits
  /\ inOrder =>
       /\ nodes \subseteq Devices
       /\ \A id \in {c} \X nodes : \A d \in nodes : tail[d].waits \subseteq completion'[id].waits
       /\ \A id \in {c} \X nodes : completion'[id].waits \subseteq tail'[id[2]].waits
       /\ \A d \in Devices \ nodes : tail'[d] = tail[d]
  /\ ~inOrder => tail' = tail
  /\ \A t \in timers' : t \in timers \/ t.id[1] = c
  /\ \A t, u \in timers' \ timers : t.id = u.id => t = u
  /\ UNCHANGED <<simulateTiming, hand, pool, promise>>

LEMMA NewTimersDiffer ==
  ASSUME NEW c, NEW end, NEW order, \A j, k \in DOMAIN order : order[j] = order[k] => j = k,
         NEW t \in NewTimers(c, end, order), NEW u \in NewTimers(c, end, order)
  PROVE  t.id[1] = c /\ (t.id = u.id => t = u)
<1>1. PICK j \in DOMAIN order : t = [deadline |-> end, seq |-> sequence + j - 1, id |-> <<c, order[j]>>]
  BY DEF NewTimers
<1>2. PICK k \in DOMAIN order : u = [deadline |-> end, seq |-> sequence + k - 1, id |-> <<c, order[k]>>]
  BY DEF NewTimers
<1>3. t.id = <<c, order[j]>> /\ u.id = <<c, order[k]>>
  BY <1>1, <1>2
<1>4. t.id = u.id => j = k
  BY <1>3
<1> QED BY <1>1, <1>2, <1>3, <1>4

LEMMA RecordIs ==
  ASSUME TypeOK, NEW c, NEW kind, NEW ids, NEW ins, NEW start, NEW duration, NEW uses,
         c = submitted + 1, submitted < MaxCalls, Record(c, kind, ids, ins, start, duration, uses)
  PROVE  /\ c \in Calls /\ submitted' = c
         /\ call'[c].kind = kind /\ call'[c].ids = ids /\ call'[c].inputs = ins
         /\ \A b \in 1..submitted : call'[b] = call[b]
  BY RuntimeAssumption DEF TypeOK, Record, Calls

LEMMA ExecuteSubmits ==
  ASSUME TypeOK, NEW order \in DeviceOrders, NEW duration \in Nat,
         NEW ins \in SUBSET Ids, NEW hosts \in SUBSET HostPromises,
         ExecuteTimed(order, duration, ins, hosts)
  PROVE  Submits(submitted + 1, Range(order), ins, TRUE)
<1> DEFINE c == submitted + 1
           devs == Range(order)
           ids == {<<c, d>> : d \in devs}
           waits == ExecutionWaits(ins, hosts, devs)
<1>1. PICK start \in Nat :
        /\ timers' = timers \cup NewTimers(c, start + duration, order)
        /\ completion' = [id \in Ids |->
             IF id \in ids THEN JoinTimer(id, start + duration, waits)
                           ELSE completion[id]]
        /\ tail' = [d \in Devices |->
             IF d \in devs THEN JoinTimer(<<c, d>>, start + duration, waits)
                           ELSE tail[d]]
        /\ Record(c, "execute", ids, ins, start, duration, ExecutionUses(devs))
  BY ExecuteEffect
<1>2. submitted < MaxCalls /\ simulateTiming
      /\ UNCHANGED <<simulateTiming, hand, pool, promise>>
  BY DEF ExecuteTimed, Accepts, workerVars
<1>3. /\ c \in Calls /\ submitted' = c
      /\ call'[c].kind = "execute" /\ call'[c].ids = ids /\ call'[c].inputs = ins
      /\ \A b \in 1..submitted : call'[b] = call[b]
  BY <1>1, <1>2, RecordIs
<1>4. ids = {c} \X devs /\ devs \subseteq Devices /\ devs # {}
      /\ \A j, k \in DOMAIN order : order[j] = order[k] => j = k
  <2>1. PICK n \in 1..Cardinality(Devices) : order \in [1..n -> Devices]
    BY DEF DeviceOrders
  <2>2. order[1] \in devs
    BY <2>1 DEF Range
  <2> QED BY <2>2, OrderIsSequence DEF DeviceOrders
<1>5. \A i \in ins : completion[i].waits \subseteq waits
  BY DEF ExecutionWaits, InputWaits
<1>6. \A d \in devs : tail[d].waits \subseteq waits
  BY DEF ExecutionWaits
<1>7. \A id \in ids : id \in Ids /\ completion'[id].waits = waits \cup {id}
  BY <1>1, <1>3, <1>4 DEF Ids, Nodes, JoinTimer
<1>8. \A id \in ids : tail'[id[2]].waits = waits \cup {id}
  BY <1>1, <1>4 DEF JoinTimer
<1>9. \A t \in timers' : t \in timers \/ t \in NewTimers(c, start + duration, order)
  BY <1>1
<1>10. /\ \A t \in timers' : t \in timers \/ t.id[1] = c
       /\ \A t, u \in timers' \ timers : t.id = u.id => t = u
  BY <1>4, <1>9, NewTimersDiffer
<1>11. \A id \in Ids : id \notin ids => completion'[id] = completion[id]
  BY <1>1
<1>12. \A d \in Devices \ devs : tail'[d] = tail[d]
  BY <1>1
<1> HIDE DEF waits, ids, devs, c
<1> QED
  BY <1>2, <1>3, <1>4, <1>5, <1>6, <1>7, <1>8, <1>10, <1>11, <1>12 DEF Submits, c, devs

LEMMA TransferSubmits ==
  ASSUME TypeOK, NEW src \in Nodes, NEW dst \in Nodes, NEW duration \in Nat,
         NEW ins \in SUBSET Ids, NEW hosts \in SUBSET HostPromises,
         Transfer(src, dst, duration, ins, hosts)
  PROVE  Submits(submitted + 1, {dst}, ins, FALSE)
<1> DEFINE c == submitted + 1
           id == <<c, dst>>
           waits == InputWaits(ins, hosts)
           order == [k \in 1..1 |-> dst]
<1>1. PICK start \in Nat :
        /\ timers' = timers \cup NewTimers(c, start + duration, order)
        /\ completion' = [completion EXCEPT ![id] = JoinTimer(id, start + duration, waits)]
        /\ Record(c, "transfer", {id}, ins, start, duration, TransferUses(src, dst))
  BY TransferEffect
<1>2. submitted < MaxCalls /\ UNCHANGED <<simulateTiming, hand, pool, promise, tail>>
  BY DEF Transfer, Accepts, workerVars
<1>3. /\ c \in Calls /\ submitted' = c
      /\ call'[c].kind = "transfer" /\ call'[c].ids = {id} /\ call'[c].inputs = ins
      /\ \A b \in 1..submitted : call'[b] = call[b]
  BY <1>1, <1>2, RecordIs
<1>4. {id} = {c} \X {dst} /\ id \in Ids
  BY <1>3 DEF Ids
<1>5. \A i \in ins : completion[i].waits \subseteq waits
  BY DEF InputWaits
<1>6. completion'[id].waits = waits \cup {id}
  BY <1>1, <1>4 DEF JoinTimer, TypeOK
<1>7. \A j, k \in DOMAIN order : order[j] = order[k] => j = k
  OBVIOUS
<1>8. /\ \A t \in timers' : t \in timers \/ t.id[1] = c
      /\ \A t, u \in timers' \ timers : t.id = u.id => t = u
  <2>1. \A t \in timers' : t \in timers \/ t \in NewTimers(c, start + duration, order)
    BY <1>1
  <2> HIDE DEF order
  <2> QED BY <1>7, <2>1, NewTimersDiffer
<1>9. \A i \in Ids : i \notin {id} => completion'[i] = completion[i]
  BY <1>1 DEF TypeOK
<1> HIDE DEF waits, id, c
<1> QED
  BY <1>2, <1>3, <1>4, <1>5, <1>6, <1>8, <1>9 DEF Submits, c

LEMMA UntimedSubmits ==
  ASSUME TypeOK, NEW ins \in SUBSET Ids, NEW hosts \in SUBSET HostPromises,
         NEW src \in Nodes, NEW dst \in Nodes
  PROVE  /\ \A order \in DeviceOrders :
              ExecuteUntimed(order, ins, hosts) => Submits(submitted + 1, Range(order), ins, FALSE)
         /\ TransferUntimed(src, dst, ins, hosts) => Submits(submitted + 1, {dst}, ins, FALSE)
<1> DEFINE c == submitted + 1
           waits == InputWaits(ins, hosts)
<1>1. \A i \in ins : completion[i].waits \subseteq waits
  BY DEF InputWaits
<1>2. ASSUME NEW order \in DeviceOrders, ExecuteUntimed(order, ins, hosts)
      PROVE  Submits(submitted + 1, Range(order), ins, FALSE)
  <2> DEFINE devs == Range(order)
             ids == {<<c, d>> : d \in devs}
  <2>1. /\ submitted < MaxCalls /\ ~simulateTiming
        /\ completion' = [id \in Ids |-> IF id \in ids THEN [end |-> 0, waits |-> waits] ELSE completion[id]]
        /\ Record(c, "execute", ids, ins, 0, 0, {})
        /\ UNCHANGED <<simulateTiming, hand, pool, promise, tail, timers>>
    BY <1>2 DEF ExecuteUntimed, Accepts, workerVars
  <2>2. /\ c \in Calls /\ submitted' = c
        /\ call'[c].ids = ids /\ call'[c].inputs = ins
        /\ \A b \in 1..submitted : call'[b] = call[b]
    BY <2>1, RecordIs
  <2>3. ids = {c} \X devs /\ devs # {} /\ devs \subseteq Devices
    <3>1. PICK n \in 1..Cardinality(Devices) : order \in [1..n -> Devices]
      BY DEF DeviceOrders
    <3>2. order[1] \in devs
      BY <3>1 DEF Range
    <3> QED BY <3>2, OrderIsSequence
  <2>4. \A id \in ids : completion'[id].waits = waits
    BY <2>1, <2>2, <2>3 DEF Ids, Nodes
  <2>5. \A id \in Ids : id \notin ids => completion'[id] = completion[id]
    BY <2>1
  <2> HIDE DEF waits, ids, devs, c
  <2> QED BY <1>1, <2>1, <2>2, <2>3, <2>4, <2>5 DEF Submits, c, devs
<1>3. ASSUME TransferUntimed(src, dst, ins, hosts)
      PROVE  Submits(submitted + 1, {dst}, ins, FALSE)
  <2> DEFINE id == <<c, dst>>
  <2>1. PICK end :
        /\ submitted < MaxCalls /\ ~simulateTiming
        /\ completion' = [completion EXCEPT ![id] = [end |-> end, waits |-> waits]]
        /\ Record(c, "transfer", {id}, ins, 0, 0, {})
        /\ UNCHANGED <<simulateTiming, hand, pool, promise, tail, timers>>
    BY <1>3 DEF TransferUntimed, Accepts, workerVars
  <2>2. /\ c \in Calls /\ submitted' = c
        /\ call'[c].ids = {id} /\ call'[c].inputs = ins
        /\ \A b \in 1..submitted : call'[b] = call[b]
    BY <2>1, RecordIs
  <2>3. {id} = {c} \X {dst} /\ id \in Ids
    BY <2>2 DEF Ids
  <2>4. completion'[id].waits = waits
    BY <2>1, <2>3 DEF TypeOK
  <2>5. \A i \in Ids : i \notin {id} => completion'[i] = completion[i]
    BY <2>1 DEF TypeOK
  <2> HIDE DEF waits, id, c
  <2> QED BY <1>1, <2>1, <2>2, <2>3, <2>4, <2>5 DEF Submits, c
<1> QED BY <1>2, <1>3

LEMMA SubmitIs ==
  ASSUME TypeOK, Submit
  PROVE  \E nodes \in SUBSET Nodes, ins \in SUBSET Submitted, inOrder \in BOOLEAN :
           Submits(submitted + 1, nodes, ins, inOrder)
<1>1. PICK hosts \in SUBSET HostPromises, ins \in SUBSET Ids,
           src \in Nodes, dst \in Nodes, duration \in Nat :
        /\ ins \subseteq Submitted
        /\ \/ \E order \in DeviceOrders :
                \/ ExecuteTimed(order, duration, ins, hosts)
                \/ ExecuteUntimed(order, ins, hosts)
           \/ Transfer(src, dst, duration, ins, hosts)
           \/ TransferUntimed(src, dst, ins, hosts)
  BY SubmitCases
<1>2. \A order \in DeviceOrders : Range(order) \in SUBSET Nodes
  BY OrderIsSequence DEF Nodes
<1>3. {dst} \in SUBSET Nodes /\ ins \in SUBSET Submitted
  BY <1>1
<1>4. ASSUME NEW order \in DeviceOrders, ExecuteTimed(order, duration, ins, hosts)
      PROVE  Submits(submitted + 1, Range(order), ins, TRUE)
  BY <1>4, ExecuteSubmits
<1>5. Transfer(src, dst, duration, ins, hosts) => Submits(submitted + 1, {dst}, ins, FALSE)
  BY TransferSubmits
<1> QED BY <1>1, <1>2, <1>3, <1>4, <1>5, UntimedSubmits

(* The executions that are in order, and what the abstract state is.       *)
InOrder == {id \in Submitted : simulateTiming /\ call[id[1]].kind = "execute"}
Statuses == [id \in Ids |-> FutureStatus(id)]
Dependencies == [id \in Ids |-> DependsOn(id)]

(* A future joins all that its dependencies join, as a device's tail does of
   the executions on it.                                                   *)
Joined ==
  /\ Provenance
  /\ \A id \in Submitted : \A j \in DependsOn(id) :
       j \in Submitted /\ completion[j].waits \subseteq completion[id].waits
  /\ \A j \in InOrder : j[2] \in Devices /\ completion[j].waits \subseteq tail[j[2]].waits

(* Each id has one timer, then one closure; its promise is set once.       *)
OneFiring ==
  /\ \A t, u \in timers : t.id = u.id => t = u
  /\ \A t \in timers : promise[t.id] = "unset" /\ \A cl \in hand \cup pool : cl.id # t.id
  /\ \A cl \in hand \cup pool : promise[cl.id] = "unset"
  /\ \A cl \in hand, dl \in pool : cl.id # dl.id
  /\ \A cl, dl \in hand : cl.id = dl.id => cl = dl
  /\ \A cl, dl \in pool : cl.id = dl.id => cl = dl

LEMMA SubmittedFacts ==
  ASSUME TypeOK, Provenance
  PROVE  /\ \A id \in Submitted : id[1] \in 1..submitted /\ id \in call[id[1]].ids /\ id \in Ids
         /\ \A c \in 1..submitted : call[c].ids \subseteq Submitted
         /\ \A id \in Ids : id[1] \in Nat /\ id = <<id[1], id[2]>> /\ id[2] \in Nodes
         /\ submitted \in Nat
  BY SubmittedAreIds DEF TypeOK, Submitted, Provenance, Ids, Calls

LEMMA SubmitDepends ==
  ASSUME TypeOK, Provenance, NEW c, NEW nodes \in SUBSET Nodes, NEW ins \in SUBSET Submitted,
         NEW inOrder \in BOOLEAN, Submits(c, nodes, ins, inOrder)
  PROVE  /\ Provenance' /\ Submitted' = Submitted \cup ({c} \X nodes)
         /\ InOrder' = InOrder \cup (IF inOrder THEN {c} \X nodes ELSE {})
         /\ \A id \in Submitted : DependsOn(id)' = DependsOn(id)
         /\ \A id \in {c} \X nodes :
              DependsOn(id)' = ins \cup (IF inOrder THEN {j \in InOrder : j[2] \in nodes} ELSE {})
         /\ \A id \in Ids : id \notin Submitted' => DependsOn(id)' = {}
<1>1. /\ c = submitted + 1 /\ submitted' = c /\ submitted \in Nat
      /\ call'[c].ids = {c} \X nodes /\ call'[c].inputs = ins
      /\ inOrder <=> simulateTiming /\ call'[c].kind = "execute"
      /\ \A b \in 1..submitted : call'[b] = call[b]
      /\ simulateTiming' = simulateTiming
  BY DEF Submits, TypeOK
<1>2. \A b : b \in 1..submitted' <=> b \in 1..submitted \/ b = c
  BY <1>1
<1>3. Submitted' = Submitted \cup ({c} \X nodes)
  BY <1>1, <1>2 DEF Submitted
<1>4. Provenance'
  BY <1>1, <1>2, SubmittedFacts DEF Provenance
<1>5. InOrder' = InOrder \cup (IF inOrder THEN {c} \X nodes ELSE {})
  <2>1. \A id \in Submitted : call'[id[1]] = call[id[1]]
    BY <1>1, SubmittedFacts
  <2> QED BY <1>1, <1>3, <2>1 DEF InOrder
<1>6. ASSUME NEW id \in Submitted
      PROVE  DependsOn(id)' = DependsOn(id)
  <2>1. id[1] \in 1..submitted /\ id \in Submitted' /\ call'[id[1]] = call[id[1]]
    BY <1>1, <1>3, SubmittedFacts
  <2>2. EarlierOn(id)' = EarlierOn(id)
    <3>1. \A j \in {c} \X nodes : ~(j[1] < id[1])
      BY <1>1, <2>1
    <3>2. \A j \in Submitted : call'[j[1]] = call[j[1]]
      BY <1>1, SubmittedFacts
    <3> QED BY <1>3, <2>1, <3>1, <3>2 DEF EarlierOn
  <2> QED BY <1>1, <2>1, <2>2 DEF DependsOn
<1>7. ASSUME NEW id \in {c} \X nodes
      PROVE  DependsOn(id)' = ins \cup (IF inOrder THEN {j \in InOrder : j[2] \in nodes} ELSE {})
  <2>1. id[1] = c /\ id \in Submitted' /\ call'[id[1]].inputs = ins
    BY <1>1, <1>3
  <2>2. CASE inOrder
    <3>1. EarlierOn(id)' = {j \in InOrder : j[2] \in nodes}
      <4>1. \A j \in Submitted' : j[1] < c => j \in Submitted
        BY <1>1, <1>3
      <4>2. \A j \in Submitted : j[1] < c /\ call'[j[1]] = call[j[1]]
        BY <1>1, SubmittedFacts
      <4>3. \A j : (\E i \in call'[id[1]].ids : i[2] = j[2]) <=> j[2] \in nodes
        <5>1. call'[id[1]].ids = {c} \X nodes
          BY <1>1, <2>1
        <5>2. \A n \in nodes : <<c, n>> \in {c} \X nodes /\ <<c, n>>[2] = n
          OBVIOUS
        <5>3. \A i \in {c} \X nodes : i[2] \in nodes
          OBVIOUS
        <5> QED BY <5>1, <5>2, <5>3
      <4>4. EarlierOn(id)' = {j \in Submitted' : call'[j[1]].kind = "execute" /\ j[1] < c /\ j[2] \in nodes}
        BY <2>1, <4>3 DEF EarlierOn
      <4>5. InOrder = {j \in Submitted : call[j[1]].kind = "execute"}
        BY <1>1, <2>2 DEF InOrder
      <4> QED BY <1>3, <4>1, <4>2, <4>4, <4>5
    <3> QED BY <1>1, <2>1, <2>2, <3>1 DEF DependsOn
  <2>3. CASE ~inOrder
    BY <1>1, <2>1, <2>3 DEF DependsOn
  <2> QED BY <2>2, <2>3
<1>8. \A id \in Ids : id \notin Submitted' => DependsOn(id)' = {}
  BY DEF DependsOn
<1> QED BY <1>3, <1>4, <1>5, <1>6, <1>7, <1>8

LEMMA JoinedStep ==
  ASSUME TypeOK, Joined, [Next]_vars
  PROVE  Joined'
<1>1. CASE ~Submit
  BY <1>1, OnlySubmitBooks
  DEF Joined, Provenance, Submitted, DependsOn, EarlierOn, InOrder
<1>2. CASE Submit
  <2>1. PICK nodes \in SUBSET Nodes, ins \in SUBSET Submitted, inOrder \in BOOLEAN :
          Submits(submitted + 1, nodes, ins, inOrder)
    BY <1>2, SubmitIs
  <2> DEFINE c == submitted + 1
             new == {c} \X nodes
  <2>2. /\ \A id \in Ids : id \notin new => completion'[id] = completion[id]
        /\ \A id \in new : \A i \in ins : completion[i].waits \subseteq completion'[id].waits
        /\ inOrder =>
             /\ nodes \subseteq Devices
             /\ \A id \in new : \A d \in nodes : tail[d].waits \subseteq completion'[id].waits
             /\ \A id \in new : completion'[id].waits \subseteq tail'[id[2]].waits
             /\ \A d \in Devices \ nodes : tail'[d] = tail[d]
        /\ ~inOrder => tail' = tail
    BY <2>1 DEF Submits
  <2>3. Provenance
    BY DEF Joined
  <2>4. /\ Provenance' /\ Submitted' = Submitted \cup new
        /\ InOrder' = InOrder \cup (IF inOrder THEN new ELSE {})
        /\ \A id \in Submitted : DependsOn(id)' = DependsOn(id)
        /\ \A id \in new :
             DependsOn(id)' = ins \cup (IF inOrder THEN {j \in InOrder : j[2] \in nodes} ELSE {})
    BY <2>1, <2>3, SubmitDepends
  <2>5. \A id \in Submitted : id \in Ids /\ id \notin new /\ completion'[id] = completion[id]
    BY <2>2, <2>3, SubmittedFacts
  <2>6. InOrder \subseteq Submitted
    BY DEF InOrder
  <2>7. ASSUME NEW id \in Submitted', NEW j \in DependsOn(id)'
        PROVE  j \in Submitted' /\ completion'[j].waits \subseteq completion'[id].waits
    <3>1. CASE id \in Submitted
      <4>1. j \in Submitted /\ completion[j].waits \subseteq completion[id].waits
        BY <2>4, <2>7, <3>1 DEF Joined
      <4> QED BY <2>4, <2>5, <3>1, <4>1
    <3>2. CASE id \in new
      <4>1. CASE j \in ins
        BY <2>2, <2>4, <2>5, <3>2, <4>1
      <4>2. CASE inOrder /\ j \in InOrder /\ j[2] \in nodes
        <5>1. completion[j].waits \subseteq tail[j[2]].waits
          BY <4>2 DEF Joined
        <5> QED BY <2>2, <2>4, <2>5, <2>6, <3>2, <4>2, <5>1
      <4> QED BY <2>4, <2>7, <3>2, <4>1, <4>2
    <3> QED BY <2>4, <3>1, <3>2
  <2>8. ASSUME NEW j \in InOrder'
        PROVE  j[2] \in Devices /\ completion'[j].waits \subseteq tail'[j[2]].waits
    <3>1. CASE j \in new /\ inOrder
      BY <2>2, <3>1
    <3>2. CASE j \in InOrder
      <4>1. j[2] \in Devices /\ completion[j].waits \subseteq tail[j[2]].waits
        BY <3>2 DEF Joined
      <4>2. completion'[j] = completion[j]
        BY <2>5, <2>6, <3>2
      <4>3. CASE inOrder /\ j[2] \in nodes
        <5> DEFINE id == <<c, j[2]>>
        <5>1. id \in new /\ id[2] = j[2]
          BY <4>3
        <5>2. tail[j[2]].waits \subseteq completion'[id].waits /\ completion'[id].waits \subseteq tail'[j[2]].waits
          BY <2>2, <4>3, <5>1
        <5> QED BY <4>1, <4>2, <5>2
      <4>4. CASE ~(inOrder /\ j[2] \in nodes)
        <5>1. tail'[j[2]] = tail[j[2]]
          BY <2>2, <4>1, <4>4
        <5> QED BY <4>1, <4>2, <5>1
      <4> QED BY <4>3, <4>4
    <3> QED BY <2>4, <3>1, <3>2
  <2> QED BY <2>4, <2>7, <2>8 DEF Joined
<1> QED BY <1>1, <1>2

LEMMA OneFiringStep ==
  ASSUME TypeOK, Firing, OneFiring, [Next]_vars
  PROVE  OneFiring' /\ \A p \in Promises : promise[p] # "unset" => promise'[p] = promise[p]
<1>1. /\ submitted \in Nat
      /\ \A t \in timers : t.id \in Ids /\ t.id[1] <= submitted
      /\ \A cl \in hand \cup pool : cl.id \in Ids /\ cl.id[1] <= submitted /\ cl.status # "unset"
      /\ \A id \in Ids : id \in Promises /\ id[1] \in Nat /\ (promise[id] # "unset" => id[1] <= submitted)
  <2>1. \A t \in timers : t.id \in Ids /\ t.id[1] <= submitted
    BY DEF TypeOK, Firing, Timer
  <2>2. \A cl \in hand \cup pool : cl.id \in Ids /\ cl.id[1] <= submitted /\ cl.status # "unset"
    BY DEF TypeOK, Firing, Closure
  <2>3. \A id \in Ids : promise[id] # "unset" => id[1] <= submitted
    BY DEF Firing
  <2> QED BY <2>1, <2>2, <2>3 DEF TypeOK, Ids, Calls, Promises
<1>2. CASE Submit
  <2>1. PICK nodes \in SUBSET Nodes, ins \in SUBSET Submitted, inOrder \in BOOLEAN :
          Submits(submitted + 1, nodes, ins, inOrder)
    BY <1>2, SubmitIs
  <2>2. /\ \A t \in timers' : t \in timers \/ t.id[1] = submitted + 1
        /\ \A t, u \in timers' \ timers : t.id = u.id => t = u
        /\ UNCHANGED <<hand, pool, promise>>
    BY <2>1 DEF Submits
  <2>3. \A t \in timers' : t.id \in Ids
    <3>1. TypeOK'
      BY <1>2, SubmitCases, TypeOKExecuteTimed, TypeOKTransfer, TypeOKUntimed
    <3> QED BY <3>1 DEF TypeOK, Timer
  <2>4. ASSUME NEW t \in timers' \ timers
        PROVE  /\ promise[t.id] = "unset" /\ \A cl \in hand \cup pool : cl.id # t.id
               /\ \A u \in timers : u.id # t.id
    <3>1. t.id[1] = submitted + 1 /\ ~(submitted + 1 <= submitted)
      BY <1>1, <2>2
    <3> QED BY <1>1, <2>3, <3>1
  <2> QED BY <2>2, <2>4 DEF OneFiring
<1>3. CASE WorkerPop
  <2>1. PICK t \in timers : timers' = timers \ {t} /\ hand' = {[id |-> t.id, status |-> TimerStatus]}
    BY <1>3 DEF WorkerPop, Top
  <2>2. UNCHANGED <<pool, promise>>
    BY <1>3 DEF WorkerPop
  <2>3. \A cl \in hand' : cl.id = t.id
    BY <2>1
  <2> QED BY <2>1, <2>2, <2>3 DEF OneFiring
<1>4. CASE WorkerSchedule
  BY <1>4 DEF WorkerSchedule, OneFiring
<1>5. ASSUME NEW cl \in pool, RunClosure(cl)
      PROVE  OneFiring' /\ \A p \in Promises : promise[p] # "unset" => promise'[p] = promise[p]
  <2>1. /\ pool' = pool \ {cl} /\ UNCHANGED <<timers, hand>>
        /\ \A p \in Promises : promise'[p] = IF p = cl.id THEN cl.status ELSE promise[p]
    BY <1>1, <1>5 DEF RunClosure, TypeOK, workerVars
  <2>2. promise[cl.id] = "unset"
    BY DEF OneFiring
  <2>3. /\ \A t \in timers : t.id # cl.id
        /\ \A dl \in hand \cup pool' : dl.id # cl.id
    BY <2>1 DEF OneFiring
  <2>4. /\ \A t \in timers : promise'[t.id] = "unset"
        /\ \A dl \in hand \cup pool' : promise'[dl.id] = "unset"
    BY <1>1, <2>1, <2>3 DEF OneFiring
  <2> QED BY <2>1, <2>2, <2>4 DEF OneFiring
<1>6. ASSUME NEW h \in HostPromises, NEW status \in {"ok", "error"}, HostResolve(h, status)
      PROVE  OneFiring' /\ \A p \in Promises : promise[p] # "unset" => promise'[p] = promise[p]
  <2>1. /\ \A id \in Ids : promise'[id] = promise[id]
        /\ \A p \in Promises : promise[p] # "unset" => promise'[p] = promise[p]
    BY <1>6, PromisesAssumption DEF HostResolve, TypeOK, Promises
  <2>2. UNCHANGED <<timers, hand, pool>>
    BY <1>6 DEF HostResolve, workerVars
  <2> QED BY <1>1, <2>1, <2>2 DEF OneFiring
<1>7. CASE \/ WorkerExit \/ WorkerWait \/ WorkerSleep \/ WorkerTimeout
           \/ WorkerSpuriousWake \/ Destroy \/ Tick \/ UNCHANGED vars
  <2>1. UNCHANGED <<timers, hand, pool, promise>>
    BY <1>7
    DEF WorkerExit, WorkerWait, WorkerSleep, WorkerTimeout, WorkerSpuriousWake, Tick,
        Destroy, Stop, StopNotify, StopJoin, vars, apiVars, workerVars
  <2> QED BY <2>1 DEF OneFiring
<1>8. CASE WorkerPop \/ WorkerSchedule
  <2>1. promise' = promise
    BY <1>8 DEF WorkerPop, WorkerSchedule
  <2> QED BY <1>3, <1>4, <1>8, <2>1
<1>9. Submit => promise' = promise
  BY SubmitIs DEF Submits
<1> QED BY <1>2, <1>5, <1>6, <1>7, <1>8, <1>9 DEF Next, Worker, vars

(* The abstract definitions, in terms of this module's.                    *)
LEMMA PromisedLawful ==
  ASSUME NEW s, NEW b,
         \A id \in Ids : \A j \in b[id] :
           /\ s[id] \in Promised!Settled => s[j] \in Promised!Settled
           /\ s[id] = "ok" => s[j] = "ok"
  PROVE  Promised!Lawful(s, b)
<1>1. Promised!Ids = Ids
  BY DEF Promised!Ids, Ids
<1> QED BY <1>1 DEF Promised!Lawful

LEMMA PromisedSettle ==
  ASSUME NEW S, \A id \in S : Statuses[id] = "pending", NEW s \in [S -> Promised!Settled],
         Statuses' = [id \in Ids |-> IF id \in S THEN s[id] ELSE Statuses[id]],
         Promised!Lawful(Statuses', Dependencies), Dependencies' = Dependencies, InOrder' = InOrder
  PROVE  Promised!Settle(S)
  BY DEF Promised!Settle, Promised!Ids, Ids, Statuses, Dependencies, InOrder

(* No future settles before what it depends on, or hides its failure.      *)
LawfulFutures ==
  \A id \in Ids : \A j \in Dependencies[id] :
    /\ Statuses[id] \in Promised!Settled => Statuses[j] \in Promised!Settled
    /\ Statuses[id] = "ok" => Statuses[j] = "ok"

LEMMA JoinedIsLawful ==
  ASSUME TypeOK, Joined
  PROVE  LawfulFutures
<1> SUFFICES ASSUME NEW id \in Ids, NEW j \in DependsOn(id)
             PROVE  /\ FutureStatus(id) \in Promised!Settled => FutureStatus(j) \in Promised!Settled
                    /\ FutureStatus(id) = "ok" => FutureStatus(j) = "ok"
                    /\ j \in Ids
  BY Zenon DEF LawfulFutures, Statuses, Dependencies
<1>1. id \in Submitted
  BY DEF DependsOn
<1>2. j \in Submitted /\ j \in Ids /\ completion[j].waits \subseteq completion[id].waits
  BY <1>1, SubmittedFacts DEF Joined
<1>3. \A i \in Submitted : FutureStatus(i) =
        IF \E p \in completion[i].waits : promise[p] = "unset" THEN "pending"
        ELSE IF \E p \in completion[i].waits : promise[p] \in {"cancelled", "error"} THEN "error" ELSE "ok"
  BY DEF FutureStatus, Ready, Resolved, Succeeded, Failed
<1> QED BY <1>1, <1>2, <1>3 DEF Promised!Settled

(* Resolving promises settles futures, and only those that were pending.   *)
LEMMA ResolvesSettles ==
  ASSUME TypeOK, NEW id \in Ids,
         UNCHANGED <<simulateTiming, submitted, call, completion>>,
         \A p \in Promises : promise[p] # "unset" => promise'[p] = promise[p]
  PROVE  /\ DependsOn(id)' = DependsOn(id)
         /\ FutureStatus(id)' # FutureStatus(id) =>
              FutureStatus(id) = "pending" /\ FutureStatus(id)' \in Promised!Settled
<1> DEFINE W == completion[id].waits
<1>1. Submitted' = Submitted
  BY DEF Submitted
<1>2. DependsOn(id)' = DependsOn(id)
  BY <1>1 DEF DependsOn, EarlierOn
<1>3. W \subseteq Promises /\ completion'[id].waits = W
  BY DEF TypeOK, Completion
<1>4. FutureStatus(id) =
        IF id \notin Submitted THEN "new"
        ELSE IF \E p \in W : promise[p] = "unset" THEN "pending"
        ELSE IF \E p \in W : promise[p] \in {"cancelled", "error"} THEN "error" ELSE "ok"
  BY DEF FutureStatus, Ready, Resolved, Succeeded, Failed
<1>5. FutureStatus(id)' =
        IF id \notin Submitted THEN "new"
        ELSE IF \E p \in W : promise'[p] = "unset" THEN "pending"
        ELSE IF \E p \in W : promise'[p] \in {"cancelled", "error"} THEN "error" ELSE "ok"
  BY <1>1, <1>3 DEF FutureStatus, Ready, Resolved, Succeeded, Failed
<1> HIDE DEF W
<1> QED BY <1>2, <1>3, <1>4, <1>5 DEF Promised!Settled

LEMMA SettleStep ==
  ASSUME TypeOK, TypeOK', Joined, Joined',
         UNCHANGED <<simulateTiming, submitted, call, completion>>,
         \A p \in Promises : promise[p] # "unset" => promise'[p] = promise[p]
  PROVE  Promised!Settle({id \in Ids : Statuses'[id] # Statuses[id]})
<1> DEFINE S == {id \in Ids : Statuses'[id] # Statuses[id]}
           s == [id \in S |-> Statuses'[id]]
<1>1. \A id \in Ids :
        /\ DependsOn(id)' = DependsOn(id)
        /\ FutureStatus(id)' # FutureStatus(id) =>
             FutureStatus(id) = "pending" /\ FutureStatus(id)' \in Promised!Settled
  BY ResolvesSettles
<1>2. \A id \in S : Statuses[id] = "pending" /\ Statuses'[id] \in Promised!Settled
  BY <1>1 DEF Statuses
<1>3. s \in [S -> Promised!Settled]
  BY <1>2
<1>4. Statuses' = [id \in Ids |-> IF id \in S THEN s[id] ELSE Statuses[id]]
  BY DEF Statuses
<1>5. Dependencies' = Dependencies
  BY <1>1 DEF Dependencies
<1>6. Promised!Lawful(Statuses', Dependencies)
  <2>1. LawfulFutures'
    BY JoinedIsLawful, PTL
  <2> QED BY <1>5, <2>1, PromisedLawful DEF LawfulFutures
<1>7. InOrder' = InOrder
  BY DEF InOrder, Submitted
<1> HIDE DEF S, s
<1>8. Promised!Settle(S)
  BY <1>2, <1>3, <1>4, <1>5, <1>6, <1>7, PromisedSettle
<1> QED BY <1>8 DEF S

(* A call issued, in terms of this module.                                 *)
LEMMA PromisedIssue ==
  ASSUME NEW c, NEW nodes, NEW ins, NEW inOrder, nodes # {},
         \A id \in {c} \X Nodes : Statuses[id] = "new",
         \A i \in ins : i \in Ids /\ Statuses[i] # "new",
         Dependencies' = [id \in Ids |->
           IF id \in {c} \X nodes
           THEN ins \cup (IF inOrder THEN {j \in InOrder : j[2] \in nodes} ELSE {})
           ELSE Dependencies[id]],
         InOrder' = IF inOrder THEN InOrder \cup ({c} \X nodes) ELSE InOrder,
         NEW s \in [{c} \X nodes -> {"pending", "ok", "error"}],
         Statuses' = [id \in Ids |-> IF id \in {c} \X nodes THEN s[id] ELSE Statuses[id]],
         Promised!Lawful(Statuses', Dependencies')
  PROVE  Promised!Issue(c, nodes, ins, inOrder)
<1>1. Promised!Ids = Ids
  BY DEF Promised!Ids, Ids
<1>2. ins \subseteq Promised!Issued
  BY <1>1 DEF Promised!Issued, Statuses
<1>3. Promised!Earlier(nodes) = {j \in InOrder : j[2] \in nodes}
  BY DEF Promised!Earlier, InOrder
<1> QED BY <1>1, <1>2, <1>3 DEF Promised!Issue, Statuses, Dependencies, InOrder

(* Nothing has been issued at first.                                       *)
LEMMA PromisedInit == Init => Promised!Init
<1> SUFFICES ASSUME Init PROVE Promised!Init
  OBVIOUS
<1>1. Submitted = {}
  BY DEF Init, Submitted
<1>2. \A id \in Ids : FutureStatus(id) = "new" /\ DependsOn(id) = {}
  BY <1>1 DEF FutureStatus, DependsOn, Ready, Succeeded, Resolved, Failed
<1>3. Promised!Ids = Ids
  BY DEF Promised!Ids, Ids
<1> QED BY <1>1, <1>2, <1>3 DEF Promised!Init


(* A submission issues new futures and leaves the others as they were.     *)
LEMMA SubmitIssues ==
  ASSUME TypeOK, TypeOK', Joined, Joined', NEW c, NEW nodes \in SUBSET Nodes,
         NEW ins \in SUBSET Submitted, NEW inOrder \in BOOLEAN, Submits(c, nodes, ins, inOrder)
  PROVE  Promised!Issue(c, nodes, ins, inOrder)
<1> DEFINE new == {c} \X nodes
           s == [id \in new |-> Statuses'[id]]
<1>1. /\ c = submitted + 1 /\ submitted \in Nat /\ c \in Calls /\ nodes # {}
      /\ promise' = promise
      /\ \A id \in Ids : id \notin new => completion'[id] = completion[id]
  BY DEF Submits, TypeOK
<1>2. Provenance
  BY DEF Joined
<1>3. /\ Submitted' = Submitted \cup new
      /\ InOrder' = InOrder \cup (IF inOrder THEN new ELSE {})
      /\ \A id \in Submitted : DependsOn(id)' = DependsOn(id)
      /\ \A id \in new :
           DependsOn(id)' = ins \cup (IF inOrder THEN {j \in InOrder : j[2] \in nodes} ELSE {})
      /\ \A id \in Ids : id \notin Submitted' => DependsOn(id)' = {}
  <2>1. /\ Provenance' /\ Submitted' = Submitted \cup ({c} \X nodes)
        /\ InOrder' = InOrder \cup (IF inOrder THEN {c} \X nodes ELSE {})
        /\ \A id \in Submitted : DependsOn(id)' = DependsOn(id)
        /\ \A id \in {c} \X nodes :
             DependsOn(id)' = ins \cup (IF inOrder THEN {j \in InOrder : j[2] \in nodes} ELSE {})
        /\ \A id \in Ids : id \notin Submitted' => DependsOn(id)' = {}
    BY <1>2, SubmitDepends
  <2> QED BY <2>1
<1>4. \A id \in {c} \X Nodes : id \in Ids /\ id \notin Submitted
  <2>1. \A id \in Submitted : id[1] \in 1..submitted
    BY <1>2, SubmittedFacts
  <2>2. c \notin 1..submitted
    BY <1>1
  <2> QED BY <1>1, <2>1, <2>2 DEF Ids
<1>5. \A id \in Ids : id \notin Submitted => FutureStatus(id) = "new" /\ DependsOn(id) = {}
  BY DEF FutureStatus, DependsOn, Ready, Succeeded, Resolved, Failed
<1>6. new \subseteq {c} \X Nodes
  OBVIOUS
<1>7. \A id \in {c} \X Nodes : Statuses[id] = "new"
  BY <1>4, <1>5 DEF Statuses
<1>8. \A i \in ins : i \in Ids /\ Statuses[i] # "new"
  <2>1. \A i \in Submitted : i \in Ids /\ FutureStatus(i) # "new"
    BY <1>2, SubmittedFacts DEF FutureStatus, Ready, Succeeded, Resolved, Failed
  <2> QED BY <2>1 DEF Statuses
<1>9. Dependencies' = [id \in Ids |->
        IF id \in new
        THEN ins \cup (IF inOrder THEN {j \in InOrder : j[2] \in nodes} ELSE {})
        ELSE Dependencies[id]]
  <2>1. ASSUME NEW id \in Ids, id \notin new
        PROVE  DependsOn(id)' = DependsOn(id)
    BY <1>3, <1>5, <2>1
  <2> QED BY <1>3, <2>1 DEF Dependencies
<1>10. InOrder' = IF inOrder THEN InOrder \cup new ELSE InOrder
  BY <1>3
<1>11. \A id \in Ids : FutureStatus(id)' =
         IF id \notin Submitted' THEN "new"
         ELSE IF \E p \in completion'[id].waits : promise'[p] = "unset" THEN "pending"
         ELSE IF \E p \in completion'[id].waits : promise'[p] \in {"cancelled", "error"} THEN "error" ELSE "ok"
  BY DEF FutureStatus, Ready, Resolved, Succeeded, Failed
<1>12. \A id \in Ids : FutureStatus(id) =
         IF id \notin Submitted THEN "new"
         ELSE IF \E p \in completion[id].waits : promise[p] = "unset" THEN "pending"
         ELSE IF \E p \in completion[id].waits : promise[p] \in {"cancelled", "error"} THEN "error" ELSE "ok"
  BY DEF FutureStatus, Ready, Resolved, Succeeded, Failed
<1>13. s \in [new -> {"pending", "ok", "error"}]
  BY <1>3, <1>4, <1>6, <1>11 DEF Statuses
<1>14. \A id \in Ids : id \notin new => FutureStatus(id)' = FutureStatus(id)
  BY <1>1, <1>3, <1>11, <1>12
<1>15. Statuses' = [id \in Ids |-> IF id \in new THEN s[id] ELSE Statuses[id]]
  BY <1>14 DEF Statuses
<1>16. Promised!Lawful(Statuses', Dependencies')
  <2>1. LawfulFutures'
    BY JoinedIsLawful, PTL
  <2> QED BY <2>1, PromisedLawful DEF LawfulFutures
<1> HIDE DEF s
<1> QED BY <1>1, <1>7, <1>8, <1>9, <1>10, <1>13, <1>15, <1>16, PromisedIssue

LEMMA PromisedStep ==
  ASSUME TypeOK, TypeOK', Firing, OneFiring, Joined, Joined', [Next]_vars
  PROVE  Promised!Next
<1>1. CASE Submit
  <2>1. PICK nodes \in SUBSET Nodes, ins \in SUBSET Submitted, inOrder \in BOOLEAN :
          Submits(submitted + 1, nodes, ins, inOrder)
    BY <1>1, SubmitIs
  <2>2. Promised!Issue(submitted + 1, nodes, ins, inOrder)
    BY <2>1, SubmitIssues
  <2>3. submitted + 1 \in Calls
    BY <2>1 DEF Submits
  <2>4. ins \in SUBSET Promised!Issued
    BY <2>2 DEF Promised!Issue
  <2> QED BY <2>2, <2>3, <2>4 DEF Promised!Next
<1>2. CASE ~Submit
  <2>1. UNCHANGED <<simulateTiming, submitted, call, completion>>
    BY <1>2, OnlySubmitBooks
  <2>2. \A p \in Promises : promise[p] # "unset" => promise'[p] = promise[p]
    BY OneFiringStep
  <2>3. Promised!Settle({id \in Ids : Statuses'[id] # Statuses[id]})
    BY <2>1, <2>2, SettleStep
  <2>4. Promised!Ids = Ids
    BY DEF Promised!Ids, Ids
  <2> QED BY <2>3, <2>4 DEF Promised!Next, Statuses
<1> QED BY <1>1, <1>2

(* The runtime keeps the promise of AsyncDevices: whatever the threads do,
   a future settles once, after all it depends on, and never hides the
   failure of one of them; executions are in order on each device.         *)
THEOREM RuntimeKeepsPromise == Spec => ImplementsPromise
<1>1. Init => Promised!Init
  BY PromisedInit
<1>2. Init => Firing /\ Joined /\ OneFiring
  <2> SUFFICES ASSUME Init PROVE Firing /\ Joined /\ OneFiring
    OBVIOUS
  <2>1. /\ 1..submitted = {} /\ Submitted = {} /\ timers = {} /\ hand = {} /\ pool = {}
        /\ \A p \in Promises : promise[p] = "unset"
    BY DEF Init, Submitted
  <2>2. Joined
    BY <2>1 DEF Joined, Provenance, InOrder
  <2> QED BY <2>1, <2>2 DEF Firing, OneFiring, Promises
<1>3. TypeOK /\ TypeOK' /\ Firing /\ Joined /\ OneFiring /\ [Next]_vars
        => Firing' /\ Joined' /\ OneFiring' /\ [Promised!Next]_(Promised!vars)
  BY FiringStep, JoinedStep, OneFiringStep, PromisedStep
<1>4. Spec => []TypeOK
  BY TypeCorrect
<1> QED BY <1>1, <1>2, <1>3, <1>4, PTL DEF Spec, ImplementsPromise, Promised!Spec
=============================================================================

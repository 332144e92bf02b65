----------------------------- MODULE SimRuntime -----------------------------
(***************************************************************************)
(* SimRuntime (src/src/runtime.{h,cc}): the wall-clock scheduler of the    *)
(* simulator.  API threads submit executions and transfers; the runtime    *)
(* reserves named resources, returns a Completion (a modelled end time and *)
(* a future), and one worker thread fires each timer at its deadline by    *)
(* handing a closure to a pool whose threads resolve promises in any       *)
(* order.  Every section that holds mutex_ is one action.                  *)
(*                                                                         *)
(* A future is represented by the set of promises it joins: JoinFutures    *)
(* resolves when all of them have, with an error if one of them failed.    *)
(***************************************************************************)
EXTENDS Integers, Sequences, FiniteSets, Functions

CONSTANTS
  Devices,        (* device ordinals                                        *)
  Host,           (* the -1 end of a host transfer                          *)
  MaxCalls,       (* bound: calls submitted in a behaviour                  *)
  MaxInputs,      (* bound: completions one execution depends on            *)
  Durations,      (* modelled durations of a call, zero included            *)
  LaunchNs,       (* RuntimeConfig::launch_ns                               *)
  HostPromises,   (* promises resolved outside the runtime (CPU results)    *)
  Horizon         (* bound: the last instant of the clock                   *)

ASSUME RuntimeAssumption ==
  /\ Host \notin Devices
  /\ MaxCalls \in Nat /\ MaxInputs \in Nat /\ Horizon \in Nat
  /\ Durations \subseteq Nat
  /\ LaunchNs \in Nat

Calls == 1..MaxCalls
Nodes == Devices \cup {Host}
(* A call on one device yields one completion and, if timed, one timer.    *)
Ids == Calls \X Nodes

ASSUME PromisesAssumption == HostPromises \cap Ids = {}

Promises == Ids \cup HostPromises

Compute(d) == <<"compute", d>>
Hbm(d) == <<"hbm", d>>
Link(src, dst) == <<"link", src, dst>>
Resources == {Compute(d) : d \in Devices} \cup {Hbm(d) : d \in Devices}
               \cup {Link(src, dst) : src \in Nodes, dst \in Nodes}

Completion == [end : Nat, waits : SUBSET Promises]
(* Completion{}: time zero and an already successful future.               *)
NoCompletion == [end |-> 0, waits |-> {}]

VARIABLES
  simulateTiming,  (* config_.simulate_timing, fixed by the constructor    *)
  now,         (* steady_clock                                             *)
  submitted,   (* calls submitted so far; the next one is submitted + 1    *)
  call,        (* history: what each call reserved and depended on         *)
  completion,  (* the Completion returned for each id                      *)
  resources,   (* resources_: the instant each resource is free again      *)
  tail,        (* execution_tail_                                          *)
  sequence,    (* sequence_                                                *)
  timers,      (* timers_                                                  *)
  worker,      (* check | wait | sleep | hand | exit                       *)
  wakeAt,      (* deadline of the worker's wait_until                      *)
  hand,        (* closure popped and not yet given to SchedClosure         *)
  pool,        (* closures scheduled and not yet run                       *)
  promise,     (* unset | ok | cancelled | error                           *)
  stopping,    (* stopping_                                                *)
  destructor   (* none | notify | join | done                              *)

apiVars == <<simulateTiming, submitted, call, completion, resources, tail,
             sequence>>
workerVars == <<wakeAt, hand>>
vars == <<now, apiVars, timers, worker, workerVars, pool, promise, stopping,
          destructor>>

NoCall == [kind |-> "none", ids |-> {}, inputs |-> {}, start |-> 0,
           duration |-> 0, uses |-> {}]

Timer == [deadline : Nat, seq : Nat, id : Ids]
Closure == [id : Ids, status : {"ok", "cancelled"}]

TypeOK ==
  /\ simulateTiming \in BOOLEAN
  /\ now \in Nat /\ submitted \in 0..MaxCalls /\ sequence \in Nat
  /\ call \in [Calls -> [kind : {"none", "execute", "transfer"},
                         ids : SUBSET Ids, inputs : SUBSET Ids, start : Nat,
                         duration : Nat, uses : SUBSET Resources]]
  /\ completion \in [Ids -> Completion]
  /\ resources \in [Resources -> Nat]
  /\ tail \in [Devices -> Completion]
  /\ timers \subseteq Timer
  /\ worker \in {"check", "wait", "sleep", "hand", "exit"}
  /\ wakeAt \in Nat
  /\ hand \subseteq Closure /\ pool \subseteq Closure
  /\ promise \in [Promises -> {"unset", "ok", "cancelled", "error"}]
  /\ stopping \in BOOLEAN
  /\ destructor \in {"none", "notify", "join", "done"}

----------------------------------------------------------------------------
(* Futures *)

Resolved(ps) == \A p \in ps : promise[p] # "unset"
Failed(ps) == \E p \in ps : promise[p] \in {"cancelled", "error"}

(* What a caller sees of the future returned for id.                       *)
Ready(id) == Resolved(completion[id].waits)
Succeeded(id) == Ready(id) /\ ~Failed(completion[id].waits)

Submitted == UNION {call[c].ids : c \in 1..submitted}

(* The latest of a set of instants: the one member no other exceeds.       *)
LatestOf(S) == {t \in S : \A u \in S : u <= t}

----------------------------------------------------------------------------
Init ==
  /\ simulateTiming \in BOOLEAN
  /\ now = 0
  /\ submitted = 0
  /\ call = [c \in Calls |-> NoCall]
  /\ completion = [id \in Ids |-> NoCompletion]
  /\ resources = [r \in Resources |-> 0]
  /\ tail = [d \in Devices |-> NoCompletion]
  /\ sequence = 0
  /\ timers = {}
  /\ worker = "check"
  /\ wakeAt = 0
  /\ hand = {}
  /\ pool = {}
  /\ promise = [p \in Promises |-> "unset"]
  /\ stopping = FALSE
  /\ destructor = "none"

(* Mutant of Notified: CompleteAt and ~SimRuntime don't notify.            *)
NotifyNobody(w) == w

(* changed_.notify_one(): the worker, if blocked, runs again.              *)
Notified(w) == IF w \in {"wait", "sleep"} THEN "check" ELSE w

(* Reserve: a call of zero duration neither waits for nor takes anything.  *)
ReserveStart(start, duration, uses) ==
  IF duration = 0 THEN {start}
                  ELSE LatestOf({start} \cup {resources[r] : r \in uses})

(* Mutant of ReserveUntil: the start of the reservation is stored.         *)
ReserveFrom(start, duration, uses) ==
  IF duration = 0 THEN resources
  ELSE [r \in Resources |-> IF r \in uses THEN start ELSE resources[r]]

ReserveUntil(start, duration, uses) ==
  IF duration = 0 THEN resources
  ELSE [r \in Resources |-> IF r \in uses THEN start + duration
                                          ELSE resources[r]]

(* CompleteAt for the devices of a call, in the order the call lists them. *)
NewTimers(c, end, order) ==
  {[deadline |-> end, seq |-> sequence + k - 1, id |-> <<c, order[k]>>] :
     k \in DOMAIN order}

(* Mutant of JoinTimer: inputs_ready is not joined.                        *)
TimerAlone(id, end, waits) == [end |-> end, waits |-> {id}]

(* The future of id: everything the call waits for and the id's own timer. *)
JoinTimer(id, end, waits) == [end |-> end, waits |-> waits \cup {id}]

InputWaits(ins, hosts) == hosts \cup UNION {completion[i].waits : i \in ins}

(* Open to calls: the caller holds the runtime, so ~SimRuntime hasn't run. *)
Accepts == submitted < MaxCalls /\ ~stopping

Record(c, kind, ids, ins, start, duration, uses) ==
  /\ submitted' = c
  /\ call' = [call EXCEPT ![c] =
                [kind |-> kind, ids |-> ids, inputs |-> ins, start |-> start,
                 duration |-> duration, uses |-> uses]]

ExecutionUses(devs) ==
  {Compute(d) : d \in devs} \cup {Hbm(d) : d \in devs}

(* Mutant of ExecutionRelease: inputs.end_ns is not considered.            *)
ReleaseWithoutInputs(ins, devs) ==
  LatestOf({now} \cup {tail[d].end : d \in devs})

(* max(Now(), inputs' ends, the devices' execution tails).                 *)
ExecutionRelease(ins, devs) ==
  LatestOf({now} \cup {completion[i].end : i \in ins}
                 \cup {tail[d].end : d \in devs})

(* Mutant of ExecutionWaits: execution_tail_'s futures are not joined.     *)
WaitsWithoutTails(ins, hosts, devs) == InputWaits(ins, hosts)

ExecutionWaits(ins, hosts, devs) ==
  InputWaits(ins, hosts) \cup UNION {tail[d].waits : d \in devs}

ExecuteTimed(order, duration, ins, hosts) ==
  LET c == submitted + 1
      devs == Range(order)
      ids == {<<c, d>> : d \in devs}
      waits == ExecutionWaits(ins, hosts, devs)
  IN  /\ simulateTiming /\ Accepts
      /\ \E release \in ExecutionRelease(ins, devs) :
         \E start \in ReserveStart(release + LaunchNs, duration,
                                   ExecutionUses(devs)) :
           LET end == start + duration IN
           /\ end <= Horizon
           /\ resources' = ReserveUntil(start, duration, ExecutionUses(devs))
           /\ timers' = timers \cup NewTimers(c, end, order)
           /\ sequence' = sequence + Len(order)
           /\ completion' = [id \in Ids |->
                IF id \in ids THEN JoinTimer(id, end, waits)
                              ELSE completion[id]]
           /\ tail' = [d \in Devices |->
                IF d \in devs THEN JoinTimer(<<c, d>>, end, waits)
                              ELSE tail[d]]
           /\ Record(c, "execute", ids, ins, start, duration,
                     ExecutionUses(devs))
      /\ worker' = Notified(worker)
      /\ UNCHANGED <<simulateTiming, now, workerVars, pool, promise, stopping,
                     destructor>>

(* Without timing an execution is the join of its inputs: no tail, no timer,
   no reservation.                                                         *)
ExecuteUntimed(order, ins, hosts) ==
  LET c == submitted + 1
      ids == {<<c, d>> : d \in Range(order)}
  IN  /\ ~simulateTiming /\ Accepts
      /\ completion' = [id \in Ids |->
           IF id \in ids THEN [end |-> 0, waits |-> InputWaits(ins, hosts)]
                         ELSE completion[id]]
      /\ Record(c, "execute", ids, ins, 0, 0, {})
      /\ UNCHANGED <<simulateTiming, now, resources, tail, sequence, timers,
                     worker, workerVars, pool, promise, stopping, destructor>>

TransferUses(src, dst) ==
  {Link(src, dst)} \cup {Hbm(d) : d \in {src, dst} \cap Devices}

(* A transfer depends on one Completion: that of a call (or none), to which
   the caller may have joined results of its own.                          *)
InputEnd(ins) == {completion[i].end : i \in ins}

Transfer(src, dst, duration, ins, hosts) ==
  LET c == submitted + 1
      id == <<c, dst>>
  IN  /\ simulateTiming /\ Accepts
      /\ \E ready \in LatestOf({now} \cup InputEnd(ins)) :
         \E start \in ReserveStart(ready, duration, TransferUses(src, dst)) :
           LET end == start + duration IN
           /\ end <= Horizon
           /\ resources' = ReserveUntil(start, duration, TransferUses(src, dst))
           /\ timers' = timers \cup NewTimers(c, end, [k \in 1..1 |-> dst])
           /\ sequence' = sequence + 1
           /\ completion' = [completion EXCEPT
                ![id] = JoinTimer(id, end, InputWaits(ins, hosts))]
           /\ Record(c, "transfer", {id}, ins, start, duration,
                     TransferUses(src, dst))
      /\ worker' = Notified(worker)
      /\ UNCHANGED <<simulateTiming, now, tail, workerVars, pool, promise,
                     stopping, destructor>>

(* Without timing a transfer returns its input.                            *)
TransferUntimed(src, dst, ins, hosts) ==
  LET c == submitted + 1
      id == <<c, dst>>
  IN  /\ ~simulateTiming /\ Accepts
      /\ \E end \in LatestOf({0} \cup InputEnd(ins)) :
           completion' = [completion EXCEPT
             ![id] = [end |-> end, waits |-> InputWaits(ins, hosts)]]
      /\ Record(c, "transfer", {id}, ins, 0, 0, {})
      /\ UNCHANGED <<simulateTiming, now, resources, tail, sequence, timers,
                     worker, workerVars, pool, promise, stopping, destructor>>

----------------------------------------------------------------------------
(* The worker thread: Run *)

(* timers_.top(): the earliest deadline, then the lowest sequence.         *)
Top == {t \in timers : \A u \in timers :
          \/ t.deadline < u.deadline
          \/ t.deadline = u.deadline /\ t.seq <= u.seq}

WorkerExit ==
  /\ worker = "check" /\ stopping /\ timers = {}
  /\ worker' = "exit"
  /\ UNCHANGED <<now, apiVars, timers, workerVars, pool, promise, stopping,
                 destructor>>

WorkerWait ==
  /\ worker = "check" /\ ~stopping /\ timers = {}
  /\ worker' = "wait"
  /\ UNCHANGED <<now, apiVars, timers, workerVars, pool, promise, stopping,
                 destructor>>

WorkerSleep ==
  /\ worker = "check" /\ ~stopping
  /\ \E t \in Top : t.deadline > now /\ wakeAt' = t.deadline
  /\ worker' = "sleep"
  /\ UNCHANGED <<now, apiVars, timers, hand, pool, promise, stopping,
                 destructor>>

(* Mutants of TimerStatus: no cancellation; the wrong error.               *)
StatusAlwaysOk == "ok"
StatusInternalError == IF stopping THEN "error" ELSE "ok"

(* The status a popped timer resolves with.                                *)
TimerStatus == IF stopping THEN "cancelled" ELSE "ok"

(* Mutant of Due: a stopping runtime still waits for deadlines.            *)
DueOnTimeOnly(t) == t.deadline <= now

Due(t) == stopping \/ t.deadline <= now

WorkerPop ==
  /\ worker = "check"
  /\ \E t \in Top :
       /\ Due(t)
       /\ timers' = timers \ {t}
       /\ hand' = {[id |-> t.id, status |-> TimerStatus]}
  /\ worker' = "hand"
  /\ UNCHANGED <<now, apiVars, wakeAt, pool, promise, stopping, destructor>>

(* SchedClosure, with the lock released.                                   *)
WorkerSchedule ==
  /\ worker = "hand"
  /\ pool' = pool \cup hand
  /\ hand' = {}
  /\ worker' = "check"
  /\ UNCHANGED <<now, apiVars, timers, wakeAt, promise, stopping, destructor>>

WorkerTimeout ==
  /\ worker = "sleep" /\ wakeAt <= now
  /\ worker' = "check"
  /\ UNCHANGED <<now, apiVars, timers, workerVars, pool, promise, stopping,
                 destructor>>

(* A condition variable may return for no reason.                          *)
WorkerSpuriousWake ==
  /\ worker \in {"wait", "sleep"}
  /\ worker' = "check"
  /\ UNCHANGED <<now, apiVars, timers, workerVars, pool, promise, stopping,
                 destructor>>

(* promise->Set(status), on any thread of the pool.                        *)
RunClosure(cl) ==
  /\ cl \in pool
  /\ pool' = pool \ {cl}
  /\ promise' = [promise EXCEPT ![cl.id] = cl.status]
  /\ UNCHANGED <<now, apiVars, timers, worker, workerVars, stopping,
                 destructor>>

----------------------------------------------------------------------------
(* ~SimRuntime *)

Stop ==
  /\ destructor = "none"
  /\ stopping' = TRUE
  /\ destructor' = "notify"
  /\ UNCHANGED <<now, apiVars, timers, worker, workerVars, pool, promise>>

StopNotify ==
  /\ destructor = "notify"
  /\ worker' = Notified(worker)
  /\ destructor' = "join"
  /\ UNCHANGED <<now, apiVars, timers, workerVars, pool, promise, stopping>>

StopJoin ==
  /\ destructor = "join" /\ worker = "exit"
  /\ destructor' = "done"
  /\ UNCHANGED <<now, apiVars, timers, worker, workerVars, pool, promise,
                 stopping>>

----------------------------------------------------------------------------
(* The environment *)

Tick ==
  /\ now < Horizon
  /\ now' = now + 1
  /\ UNCHANGED <<apiVars, timers, worker, workerVars, pool, promise, stopping,
                 destructor>>

(* The CPU backend, or whoever holds the promise, succeeds or fails.       *)
HostResolve(h, status) ==
  /\ promise[h] = "unset"
  /\ promise' = [promise EXCEPT ![h] = status]
  /\ UNCHANGED <<now, apiVars, timers, worker, workerVars, pool, stopping,
                 destructor>>

(* Device lists of an execution: distinct devices in mesh order.           *)
DeviceOrders ==
  {order \in UNION {[1..n -> Devices] : n \in 1..Cardinality(Devices)} :
     \A j, k \in DOMAIN order : order[j] = order[k] => j = k}

Inputs(n) == {ins \in SUBSET Submitted : Cardinality(ins) <= n}

Submit ==
  \E hosts \in SUBSET HostPromises :
    \/ \E order \in DeviceOrders, ins \in Inputs(MaxInputs) :
         \/ \E duration \in Durations :
              ExecuteTimed(order, duration, ins, hosts)
         \/ ExecuteUntimed(order, ins, hosts)
    \/ \E src \in Nodes, dst \in Nodes, ins \in Inputs(1) :
         /\ src \in Devices \/ dst \in Devices
         /\ \/ \E duration \in Durations :
                 Transfer(src, dst, duration, ins, hosts)
            \/ TransferUntimed(src, dst, ins, hosts)

Worker ==
  \/ WorkerExit
  \/ WorkerWait
  \/ WorkerSleep
  \/ WorkerPop
  \/ WorkerSchedule
  \/ WorkerTimeout

Destroy == Stop \/ StopNotify \/ StopJoin

Next ==
  \/ Submit
  \/ Worker
  \/ WorkerSpuriousWake
  \/ \E cl \in pool : RunClosure(cl)
  \/ Destroy
  \/ Tick
  \/ \E h \in HostPromises, status \in {"ok", "error"} : HostResolve(h, status)

Spec == Init /\ [][Next]_vars

(* The threads of the process run, on a clock that may stand still; nothing
   makes a caller submit, destroy the client or resolve a promise of its own. *)
FairSpec ==
  /\ Spec
  /\ WF_vars(Worker)
  /\ WF_vars(\E cl \in pool : RunClosure(cl))
  /\ WF_vars(StopNotify)
  /\ WF_vars(StopJoin)

----------------------------------------------------------------------------
(* Properties *)

(* A future that succeeded is never ahead of the clock: no modelled end it
   joins lies in the future (WorkerPop's deadline test, and the status a
   stopping runtime gives to what it fires early).                         *)
NoEarlySuccess ==
  \A id \in Submitted :
    Succeeded(id) =>
      \A p \in completion[id].waits \cap Ids : completion[p].end <= now

(* Reserve never books one resource for two calls at the same instant, for
   any mix of executions and transfers submitted in any order.             *)
ExclusiveResources ==
  \A c, d \in 1..submitted :
    (/\ c < d
     /\ call[c].uses \cap call[d].uses # {}
     /\ call[c].duration > 0 /\ call[d].duration > 0)
       => call[c].start + call[c].duration <= call[d].start

(* Modelled time respects dependencies: a call starts after the modelled end
   of its inputs, an execution launches after them and after every earlier
   execution on its devices ("waits for input producers and earlier work on
   participating devices", docs/compilation-architecture.md).              *)
StartsAfterInputs(c) ==
  \A i \in call[c].inputs :
    /\ completion[i].end <= call[c].start
    /\ call[c].kind = "execute" => completion[i].end + LaunchNs <= call[c].start

StartsAfterEarlier(c) ==
  \A b \in 1..(c - 1), d \in Devices :
    (/\ call[b].kind = "execute" /\ <<b, d>> \in call[b].ids
     /\ call[c].kind = "execute" /\ <<c, d>> \in call[c].ids)
      => completion[<<b, d>>].end + LaunchNs <= call[c].start

CausalStart ==
  simulateTiming =>
    \A c \in 1..submitted : StartsAfterInputs(c) /\ StartsAfterEarlier(c)

(* If time passes, every future whose outside parts are resolved resolves,
   deadline reached or runtime destroyed: no wake-up of the worker is missed. *)
EveryFutureResolves ==
  WF_vars(Tick) =>
    \A id \in Ids :
      (id \in Submitted /\ Resolved(completion[id].waits \cap HostPromises))
        ~> Ready(id)

(* The destructor returns although the clock never reaches the deadlines
   that are pending ("Cancels timers", instrumentation.cc).                *)
DestructorReturns == (destructor # "none") ~> (destructor = "done")

(* The promise made to callers: see AsyncDevices.                          *)
FutureStatus(id) ==
  IF id \notin Submitted THEN "new"
  ELSE IF ~Ready(id) THEN "pending"
  ELSE IF Succeeded(id) THEN "ok" ELSE "error"

EarlierOn(id) ==
  {j \in Submitted :
     /\ call[j[1]].kind = "execute" /\ j[1] < id[1]
     /\ \E i \in call[id[1]].ids : i[2] = j[2]}

DependsOn(id) ==
  IF id \notin Submitted THEN {}
  ELSE call[id[1]].inputs
         \cup (IF simulateTiming /\ call[id[1]].kind = "execute"
               THEN EarlierOn(id) ELSE {})

Promised == INSTANCE AsyncDevices
  WITH status <- [id \in Ids |-> FutureStatus(id)],
       before <- [id \in Ids |-> DependsOn(id)],
       ordered <- {id \in Submitted :
                     simulateTiming /\ call[id[1]].kind = "execute"}

ImplementsPromise == Promised!Spec
============================================================================

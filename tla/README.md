# Verification of sim-pjrt

TLA+ modules that model the simulator's plugin, TLC configurations that check
them on small instances, and TLAPS proofs of what matters most for every
instance. Paths are relative to the repository.

sim-pjrt is a PJRT plugin that presents TPU devices to JAX and executes programs
on XLA's CPU backend. Programs are compiled twice: by libtpu, whose final
bundles are timed by a model of the TPU, and for the CPU, with outputs that only
stand for the real ones. Each operation thus has a *CPU result* and a *modelled
completion*, an instant on the wall clock. Callers see it complete when both are
over.

## Parts of the system

| Part | State | Operations | Where |
|---|---|---|---|
| `SimRuntime` | per-resource busy-until times, per-device execution tails, a heap of timers, one worker thread | `ExecuteTimed`, `Transfer`, `CompleteAt`, `Run`, destructor | `src/runtime.cc` |
| `MemoryBudget` | bytes in use and their peak, per device | `Allocate`, `Release` (destructor of an allocation), `Stats` | `src/memory.cc` |
| Virtual HBM | the allocation of each `VirtualBuffer`; the parameter and alias tables of each `VirtualExecutable` | create, copy, delete, execute with donation; module rewriting | `src/virtual_hbm.cc` |
| API registry | producer and ready flag of each buffer by address, work of each executable, runtime of each client | the wrapped PJRT entries | `src/instrumentation.cc` |
| Raw aliases | shared state of an alias and its slices: lock, tail, allocation | `Slice`, H2D and D2H transfers | `src/raw_buffer.cc` |
| Profiling | the active session, each session's events, the handles of the C API | calls and callbacks begin and finish events; start, stop, collect | `src/profiler.cc`, `src/profiler_api.cc` |
| TPU compilation | libraries loaded, dump directory, environment | `Load`, `CompileTpuBundles` | `src/tpu_compilation.cc` |
| Program compilation | none of its own; chooses replay or libtpu | `CompileProgram` | `src/compilation.cc` |
| Estimator | per-run: pipeline calendars, credits, producers, path | `estimate_bundles`, `build_execution`, `simulate`, `resolve_scalar_operands` | `python/sim_pjrt/llo/` |
| Prediction and collection | replay database, lookup outcomes | `CompilationPredictor.predict`, `compilation_observer`, `import_profile` | `python/sim_pjrt/` |
| Scripts | none | cache selection, reports, command line | `.github/scripts/`, `python/` |

How they interact. An API entry (`instrumentation.cc`) takes the registry lock
to look up the producers of its buffers, calls XLA's implementation, which calls
Virtual HBM, which asks the budget and then the CPU backend; afterwards it
submits the call to the runtime and takes the registry lock again to record the
producers of its results. No lock is held across two of these, so calls of
several threads interleave between them. Completions come back as futures,
resolved by the runtime's pool and by the CPU backend's threads, whose callbacks
release allocations and finish profile events. Raw aliases bypass the registry
and order their transfers themselves. Profiling is told about calls from every
thread and loads the active session without a lock.

What is hard: interleavings between the sections of a call, and with deletion,
donation and destruction of its buffers; the reuse of addresses; callbacks that
come late; one of several devices failing; the worker's sleep racing with
submission and destruction; the wall clock. In the estimator: the boundary cases
of 32-bit arithmetic, loops and branch joins, and the order of effects inside a
bundle.

`PROJECT.json` lists every component with its state of modelling, and under
`hazards` the lines where these difficulties bite, with the properties that
cover them.

## Modules

    AsyncDevices <== SimRuntime --- SimRuntimeProofs      (<== : is implemented by)
         |
         +---- DeviceApi --- MemoryBudget --- MemoryProofs --- SetSums
                   |
                   +-------- DeviceApiProofs
    RawBuffer --- MemoryProofs
    ProfileSession --- ProfileSessionProofs
    Pipeline --- PipelineProofs --- SetSums
    ScalarValues --- ControlFlow --- KernelFacts --- LloMachine --- ProgramBound --- BoundChecks
       |                |                                              |                |
       |                +--- ScalarProofs --- SetSums                  |         MCProgramBound
       +--- InstructionModel --- Segments -----------------------------+
    ProfileImport --- Capture --- Replay --- MCReplay
                                 |
                                 +--- ReplayProofs --- SetSums

Each `MC*` module instantiates the module it is named after for TLC.

**SimRuntime** (`runtime.{h,cc}`). A section that holds `mutex_` is one action.
`ExecuteTimed` and `Transfer` compute the release time, reserve resources
(`ReserveStart`, `ReserveUntil`), push timers and notify the worker. The worker
is a state machine with the control points of `Run`: testing (`check`), blocked
on the condition variable without or with a deadline (`wait`, `sleep`), holding a
popped closure with the lock released (`hand`). Closures run on the pool in any
order. A future is the set of promises it joins. `call` is a history variable.
Spurious wake-ups, a destructor at any moment and promises of the CPU backend
that fail are included; nothing is submitted once the destructor has begun,
because a caller holds a reference to the runtime. `simulateTiming`, fixed by
the constructor, is either value; without timing no timer exists.

**AsyncDevices** states what a caller relies on, with no clock, threads or
timers: a future settles once, after all it depends on, with success only if all
of them succeeded; timed executions are ordered on each device. `ImplementsPromise` is
the refinement from `SimRuntime`, and `DeviceApi` is built on this module instead
of the runtime, which keeps its state space small.

**MemoryBudget** (`memory.cc`) counts what exists on each device against a
capacity and a reservation.

**DeviceApi** (`instrumentation.cc` over `virtual_hbm.cc`) composes an instance of
the budget and `AsyncDevices`. Each call has a program counter `at`, whose steps are the
sections of the code: asking the budget, creating the buffer, submitting to the
runtime, recording the producer, keeping the allocation alive by a callback. A
buffer is an address, reused once `DestroyBuffer` has freed it. Shared ownership
is a set: an allocation is referenced by buffers, by locals of calls (`memory`)
and by callbacks (`holds`), and is released when nothing references it. `uses`
is a history variable: the memory the work in flight reads or writes.
`RevokeInUse` says whether callers may delete or donate a buffer on one thread
while another thread's call, still in progress, was given it. All three
documented front ends forbid it for donation, PJRT does not, so it is explored
too. In that case the code also reads and writes `allocation_`, a plain
`shared_ptr`, from two threads at once; the model gives this race the two
outcomes of a whole read before or after the write.

**RawBuffer** (`raw_buffer.cc`). A transfer is named by its place in the order in
which the shared lock was taken. `Submit` is the locked section; `RunWhenReady`
the closure of `ExecuteWhenReady`; `CopyByte` and `CopyOver` the CPU's copy,
which may fail half way; `ModelledSettles` the runtime's completion. A byte
holds the number of the transfer that wrote it. The runtime's part follows
`AsyncDevices`.

**ProfileSession** (`profiler.cc`, `profiler_api.cc`). Calls load the active
session in one step and report in later ones; handles stop in two (the session,
then `active_session`), with `session_mutex` held. The clock moves in either
direction. `Serialize` gives the set of events of a trace, after the expansion
of deferred activities; an executable's activities don't run backwards, as
`bundle_timing.cc:93` checks. Stop and collection are separate calls of the handle's
owner.

**Pipeline** (`llo/pipeline.py`). `simulate` on a path: each turn of its loop is a
fetch (checks of the bundle, earliest start, what its waits wait for), the turns
of the calendar loop (`Shift`, `Settle`), a commit of each operation and the end
of the turn (`Close`: credits, bookings, holds, release). `bundle`s come from a
set. The code's lists of (cycle, units) are sets of records; `gaps` only says
whether there is one. `booked`, `applied`, `finished` and `floor` are history
variables that the properties compare with what the code forgets or folds.

### The estimator

`estimate_final_program` bounds the time of a compiled program from the bundles
of its kernels. Its modules follow the files of `llo/`:

**ScalarValues** (`scalar.py`): what is known of a scalar (nothing, a word, an
interval of unsigned words, an address as an allocation plus an offset), and
`Evaluate`, what one instruction makes of it. `Machine` is the reference: what
the scalar unit does to words. Words have `WordBits` bits.

**ControlFlow** (`control_flow.py`): `resolve_scalar_operands` walks the bundles
of a kernel. The recursion of `walk` is the stack `frames`, and
each action is one turn of its loop: entering a bundle (phis, polls), summarizing
a loop, splitting at an unknown guard and merging the arms at their join, taking a
branch, writing registers and spill slots, giving up. The result is a tree of
bundles, alternatives and repeated bodies. `KernelAssumption` says what a dumped
kernel is: operands as the instructions' forms have them, targets that are labels,
and predicates in registers of their own (`PredicateRegisters`, the dump's `%p`
names), written only by instructions that give 0 or 1.

**KernelFacts** (`control_flow.py`): `Prepared` works out what the walk looks up:
postdominators, counted loops, latches of polls and private spill slots. Its
recursive operators are kept out of `ControlFlow`, which has a theorem.

**InstructionModel** (`execution.py`): `build_execution` as a fold over a run of
bundles, with the producers of registers, predicates and phis, result FIFOs and
slots, DMA and synchronisation credits. Latencies and resources of opcodes are
constants: the tables are data.

**Segments** (`runtime.py`): `estimate_bundles` cuts the run at branches and
loops, schedules each segment alone, takes the slowest arm and multiplies
bodies. `Simulate` is the part of `pipeline.simulate` that concerns
dependencies, DMA queues and credits; reservations and holds are in `Pipeline`.

**ProgramBound** (`program.py`) composes them: kernels are resolved for the
inputs they are called with, calls are expanded in place, loop bounds of the HLO
metadata are applied, and what comes out is bounded.

**LloMachine** and **BoundChecks** are the reference the estimate is compared with:
they execute kernels on words, callee by callee, and cost the bundles that an
execution really visits without any cut.

### Collection and replay

**ProfileImport** (`profiling/importer.py`, `timeline.py`): pure operators from a
trace and the identities of compilations to a database: which events are
measurements, warmup, the invocation that contains an operation, the identity
of a program, the grouping of the samples of several devices, medians, and the
timeline of the invocation nearest to the median. A tick is half a nanosecond,
so that rounding up to nanoseconds matters.

**Capture** (`profiling/capture.py`, `identity.py`): the observer labels and
records compilations, devices launch programs, the trace may miss an interval, and
the importer runs. **Replay** (`prediction.py`, `identity.py`, `run.py`, the `run`
command of `cli.py`, `compilation.cc`, `ReadReplayTiming`) continues with a run
that uses the database: `Run` fixes options and environment, `Observe` looks a
compilation up and annotates its module, `CompileObserved` is the native
compiler's decision, `RemoveAnnotations` the observer's `finally`. A process that
inherits the environment without the observer compiles by `CompileUnobserved`.

## Runs

Every run explores all reachable states within its bounds. `CHECK_DEADLOCK FALSE`
is set where the systems may stop: the bounded number of calls is used
up, or nobody calls. `program_bound` checks for deadlocks: the estimator never stops
before it has an answer.

| Run | Question | Bounds |
|---|---|---|
| `runtime_devices` | resources exclusive, starts causal, no early success, no timer lost; SimRuntime implements AsyncDevices | 2 devices, 2 calls, durations 0 and 1, launch overhead 1, horizon 2, with and without timing |
| `runtime_progress` | an outside input that fails, also late, fails all that depends on it (`ImplementsPromise`, where `runtime_devices` has no outside promise); every future resolves once its outside parts have; the destructor returns | 1 device, 2 calls, horizon 2, 1 outside promise; fair threads, a clock that may stand still |
| `memory_budget` | reported usage is the sum of what exists and the reservation, within the limit | 5 allocations, sizes -1 to 4, capacity 4 |
| `api_one_device` | all operations on one device, by two threads: results follow inputs, pending work is counted, once all is quiet exactly what exists | 3 calls, 2 addresses, room for two buffers |
| `api_two_devices` | executions over a mesh, by callers that race: a buffer is deleted or donated on one thread while another executes with it; one output is refused after the other was granted, or the CPU fails after both: all is given back | 2 devices, 4 addresses, room for two buffers each, `RevokeInUse`; 4 calls, the first two an upload to each device, one after the other and ready (`UploadsFirst`) |
| `raw_transfers` | copies never overlap; downloads read the last write submitted before; failures reach all later transfers, and no byte is written after one; transfers resolve | 2 transfers of up to 2 bytes, a slice, 1 event; fair pool, copies and runtime |
| `profile_sessions` | one running session, owned by one handle; what was collected is complete and within its session, whatever the clock does; a stopped session never changes | 2 handles, 2 sessions, 2 activities, 3 events, 3 instants |
| `pipeline` | reservations exclusive, issue as early as possible, credits exact | paths of 4 bundles out of 14, 2 resources, a counter, a queue, 1 dependency each |
| `program_bound` | the walk's tree covers every execution, scalars are sound, joins postdominate, the estimate bounds every execution's cost and knows every producer; it always ends | 3-bit words; every pair of intervals of words (the second from 8), counted loops of every start, step, bound and relation tried, and 30-odd kernels by hand, composed into programs with calls; unrolling up to 8, 48 visits, 14 nested walks |
| `collection` | measured invocations are whole launches, none of another launch is mixed in; every compilation is timed by what its query says | 3 launches of a program on two devices, one on one, one not observed; 2 queues, 1 missing interval, gaps of 0 and 1.5 ns, warmup 0 and 1; 2 queries |
| `api_keep_after_revoke`, `raw_memory` | end in a violation, see below | 2 calls; 2 transfers |

The bounds suffice for the interesting cases: two calls are enough for two
bookings of a resource or for one that depends on a failed one; three API calls
make a buffer, use it and revoke it or reuse its address, with two of them
overlapping; on two devices, a third upload fills one of them before the fourth call
executes on both, or two executions are given the same buffers. `UploadsFirst` is a
state constraint: it leaves out uploads to these devices that fail or overlap, which
`api_one_device` has; two transfers overlap, follow or fail one another, and the theorems
about `RawBuffer` cover chains of any length and placeholders, whose transfers
copy nothing; two sessions are enough for a late callback to meet its successor;
four bundles are enough for a bundle that is shifted twice around future
reservations; words of three bits have a sign, wrap, and are few enough to try all
operands; the kernels by hand each put one construct of the walk in the way of
another (a loop that is also left from its middle, whose joins take the fixpoint a
second pass; loops in loops, predicated setup before its branch, spills across calls,
halts in one arm, polls, recursion), and every action of the walk is taken; three
launches have a median that is none of the extremes and a neighbour on each side
of a launch; limits (capacity, events, horizon) are all reached. Addresses, devices,
allocations, handles and activities are interchangeable, and are declared
symmetric in runs without liveness.

Fairness. Threads of the process run (the worker, pool threads, the destructor's
own steps): weak fairness, because each of their steps stays enabled until it is
taken. Time need not pass: `EveryFutureResolves` has the progress of the clock as
its premise, `DestructorReturns` must not depend on it. In `RawBuffer` pool threads, CPU copies
and the runtime are fair (the last by `EveryFutureResolves`). The estimator is one
thread that nothing stops: it takes steps until it is over (`Progress`), which is
when it has an answer or has nested as deep as `MaxDepth`, which stands for
Python's recursion limit; `EstimateEnds` says that it is always the answer. Callers, CPU results
and events that callers pass promise nothing, and the properties are conditional
on them.

### Disagreements with the documentation

Two runs end in a violation. `docs/compilation-architecture.md:71` says that
pending work retains its allocations.

- `api_keep_after_revoke`: a copy or download takes hold of the source's
  allocation only after it was submitted (`instrumentation.cc:161`). When another
  thread deletes or donates the source in between, the bytes are counted as free
  while the work is pending. `Execute` captures its inputs first and does not
  have the gap (`api_two_devices`).
- `raw_memory`: the closure that holds the raw alias goes away with the CPU copy
  (`raw_buffer.cc:113`), while the transfer also waits for its modelled
  completion. If the caller has dropped the alias and the buffer, the allocation
  is released before the transfer is complete.

Both concern the accounting of modelled memory; the CPU's own storage is kept by
XLA.

## Proofs

The theorems hold for every number of devices, calls, sessions, bytes, aliases and
every set of durations, bundles or programs of a capture, under the assumptions named in the modules:
numbers are naturals; kernels are as `KernelAssumption` says; the host is no device, and no device is one of the marks
by which `MemoryBudget` tells an allocation that does not exist; the null
address is no buffer; the counter updates of an operation are finitely many.
The refinement of `AsyncDevices` is a theorem.

- `SimRuntimeProofs`: `TypeCorrect`; `ResourcesExclusive`, from the invariant
  `Reservations` that a resource's busy-until time is no earlier than the end of
  any call that booked it; `SuccessNeverEarly`, from `Firing`: a promise that is
  set, or a closure in the pool or the worker's hand, with status ok has its end
  in the past, and a timer's deadline is its id's end; `StartsAreCausal`, from
  `Provenance` (a completion's end is its call's) and `TailIsLast` (a device's
  tail is no earlier than any execution on it). `RuntimeKeepsPromise` is the
  refinement of `AsyncDevices`. Of each submission it needs what a new future
  joins (`ExecuteSubmits`, `TransferSubmits`, `UntimedSubmits`); in between, `Joined`: a
  future joins every promise that one of its dependencies joins, and a device's
  tail those of the executions on it, so the promises alone decide that nothing
  settles too soon or hides a failure (`LawfulFutures`); and of the steps that
  set a promise, `OneFiring`: an id has one timer, then one closure, then a
  promise that is set for good, so no future settles twice. Every other step is
  a stutter of the abstract state.
- `SetSums` has what the modules below need of sums over finite sets, as
  `MapThenSumSet` computes them by choosing one element after the other: the
  order makes no difference, an element taken out or put in, a disjoint union,
  and that an element of the largest weight exists. Induction over finite sets is
  stated with a set of subsets for the induction hypothesis (`SubsetInduction`),
  because the library's form takes an operator.
- `DeviceApiProofs`: `ApiTypes`, `ResultsFollowInputs` and
  `QuietDevices`, from one invariant `ApiInv`,
  for callers that race as they like. Its parts: `ShapeInv`, the locals of a call
  at each of its steps, and that a buffer a call is making is no other call's; `RegistryInv`,
  that a buffer's registered producer is the result that made it, from
  its association on and across the reuse of its address; `NeedsInv`, that what a
  call was made from is among what its results wait for, or succeeded before;
  `SharedInv`, that what is referenced exists, that no two buffers share an
  allocation, and that a callback waits for something; `CountInv`, that the budget
  counts `Size` for each of them. Rather than one by one, steps are taken by what they do:
  a call begins, goes on, places its outputs, submits, associates, or keeps
  its source; a buffer is deleted or freed; results resolve. Each action is shown
  to be of its class, and each class to keep the invariants.
  `PendingWorkKeeps` adds `PinnedInv`: the memory of a result in flight is held by
  a callback, or by the call that is about to give it to one. It is stated for
  runs in which copies and downloads do not meet callers that revoke a buffer in
  use (`NoRevokedSource`). The hypothesis holds of `api_one_device` and
  `api_two_devices`, and is needed: `api_keep_after_revoke` is what happens
  without it. Executions need no such hypothesis.
- `MemoryProofs`, of `MemoryBudget`: `BudgetTypes`, `StatsAlwaysInOrder`, from
  `PeakBounds`; `UsageCountsLive`, from `AccountsInv`: the allocations of a device
  are finite in number, their bytes are naturals, and their sum is what is used;
  `StatsAreExact` is both.
  Of `RawBuffer`: `RawTypes`; `CopiesAreSerial`, `ErrorsPropagate` and
  `FailureStopsWrites` from `RawInv`, whose core is `Chained` (each transfer's
  predecessor is the one submitted before it) and `Ordered` (one that has left the
  waiting state has only resolved transfers before it); `DownloadsReadLastWrite`
  adds `DataInv`, which says for each byte which write it holds. None of these is
  inductive by itself: mutual exclusion depends on the chain, and the chain's
  strength on every earlier transfer being resolved, which is shown by going back
  one place at a time.
- `ProfileSessionProofs`: every property of `ProfileSession`. Of one session,
  `Whole` is preserved by each operation (`BeginWhole` to `StopWhole`): events are
  in order, and those of a stopped session end with it unless they start later.
  `TracesWithinSessions` needs it of the expanded activities too
  (`ExpandedInOrder`). Of the system, `Owned` says that a handle which is about to
  clear `active_session`, or doesn't run, has a stopped session; so a clear never
  takes the claim of a running one (`SessionsAreOwned`), and what is collected
  belongs to a stopped session, which no step changes (`StoppedSessionsFinal`,
  `CollectedTracesComplete`). `TypeCorrect` needs that events are never taken away
  from a session whose index an activity holds.
- `PipelineProofs`: `ReservationsExclusive`, from `Retained` (what a calendar has
  dropped was over at the current start), `InOrder` (starts never decrease, for
  which results, holds and waits must be at cycles, `Cycles`), `Disjoint` and
  `Clear`; `IssuesEarliest`, because a reservation that meets a booking meets it
  until it is behind (`MeetsUntilBehind`). `CreditsAreExact` is about counters:
  the credits seen by a wait are the initial ones, those given at once and those of
  all updates that finished by then, although the code folds old updates into a base and forgets them. Its
  invariant `Accounts` says that what has been folded is over at the current cycle
  (`Completions`) and that the base is its sum (`Balanced`), so the credit at any later
  cycle is the sum over all that finished (`CreditIs`), and the cycle at which a
  wait is satisfied is the first with enough of it (`SatisfiedIsFirst`).
  `PipelineTypes` adds the types that `Accounts` doesn't give (`Shapes`).
- `ScalarProofs`: `WalkSound` is `ScalarsSound` of the walk through any kernels, for
  words of every width, allocations at any addresses, and any scalar inputs.
  `WalkSpec` is the part of `ProgramBound` that concerns `walkVars`: a walk starts
  (`Start`), takes turns (`Walk`) and its result is taken (`Forgotten`, in `Learn`).
  The property is not inductive: what a frame knows at a join was known by arms that
  have returned, and what it knows after a halted arm by callers several frames
  below. `WalkInv` therefore speaks of the whole stack. `FrameIs` says of each frame
  that it has a value of the analysis for each register and each word of memory, 0,
  1 or nothing for a predicate, a pending jump that goes to a bundle or the end, and
  the same of the states of its finished arms. There is one lemma for each thing a
  turn makes of a frame (`EnteredIs` for phis and polls, `ArmIs`, `DeliveredIs`,
  `MergeIs`, `EnterBodyIs`, `LeaveBodyIs`, `WritesAre`, `StoredIs`, `RememberedIs`,
  `JumpIs`) and one for each action (`SplitKeeps`, `HaltKeeps` and so on); that the
  turn's checks come first (`Problem`) is what makes phis readable, joins known and
  delays given when they are used.
  What is concluded at a bundle comes from one instruction: `EvaluateSound`, for words of every width and allocations placed
  anywhere: whatever the machine writes, when an instruction reads any words that
  its operands stand for, is among the words of the value that `Evaluate` finds.
  Loads are left out, by the property too: what they find is in `memory`, which
  `ExecutionsCovered` compares with the machine's. That the value is again one of the analysis (`IsValue`), and one of a predicate
  0, 1 or unknown (`EvaluateIs`), lets the next instruction read it. `Operands` is the hypothesis:
  an instruction that negates or selects has its one or three operands, predicates
  are 0, 1 or unknown, and a compared address lies within the address space
  (`Unwrapped`), which the code takes for granted.
  `ArithmeticSound` is the case of two intervals, signed or not. The arguments: a
  word and its signed number differ by a multiple of the modulus, so that sums,
  differences and products of either leave the same word (`Congruent`,
  `ShiftedLeft`), and so does an address whose base is anywhere (`MovedAddress`); a
  span of numbers of one sign whose ends fit in a word keeps its order when it is
  wrapped (`SpanSound`); a word is the sum of its bits (`WordIsItsBits`), so that
  the bitwise operations make words, and `And` none above its operands (`BitsAreWords`).
  `PowerAssumption` says what is needed of powers of two, because the prover
  cannot derive it for a symbolic exponent; TLC evaluates it.
- `ReplayProofs`: `LaunchesStayWhole` and `CompilationsTimed`, from one invariant
  `ReplayInv` of the way from a capture to a replaying run. It is about the trace
  (`TraceInv`) for as long as there is no database, because the import reads all of
  it at once. `EventsAgree` compares the events two by two: of one launch, one event
  of a kind on each device, one name and one queue, and intervals that overlap; of
  two, one is over on a device before the other starts there. `EventFits` says that
  an event was made by a launch of a recorded key, or of one that nothing leads to.
  `MissedFit` counts: a launch of a program has at most an interval for each of its
  devices, and what one launch, or two, lack of theirs is within `missed`.
  The import is then taken operator by operator. The samples of a key are the
  intervals of its launches (`SamplesAre`), and the importer's groups, cut where an
  interval starts that no earlier one reaches, keep launches whole
  (`GroupsKeepLaunches`). A group of the right size with one sample for each device is one launch
  (`GroupIsLaunch`): if it held intervals of two, both would be in it whole, and more than
  the devices of one, since the capture loses too few. Conversely a launch that nothing touches is a group (`IsolatedIsGroup`).
  An operation lies in the launch that ran it and in no other (`ContainedIsOfLaunch`,
  which needs that intervals are longer than the tolerance), rounding keeps order
  (`Rounding`), and minima, medians and the nearest invocation exist
  (`MinIs`, `MedianIs`, `NearestIs`).
  So a record has one module interval for each device and every activity within
  the nearest invocation: what `ReadReplayTiming` accepts (`TimingAccepted`), and
  marking an entry as invalid doesn't change that (`MarkedStays`). From there
  `CompilingFits` says that the annotations in place are those of the query of the
  module that is being compiled, and all others are removed, so the key is
  computed of an unannotated module, and the native side reaches
  the decision that the query announced (`CompiledAsQueried`).

Only model-checked:

- liveness (`EveryFutureResolves`, `DestructorReturns`, `TransfersResolve`,
  `EstimateEnds`), which rests on fairness and `ENABLED` or on a measure over
  recursive data;
- the other properties of the estimator (`ExecutionsCovered`, `JoinsPostdominate`,
  `BoundCovers`, `OperandsReady`): the walk's postdominators, the reference machine and the evaluation of nested segments are
  recursive operators, which the prover does not take.

## What the models assume

- `DeviceApi`: the CPU backend's execution over several devices donates the
  arguments of all of them or, when it fails, of none. The plugin relies on it:
  on an error `VirtualExecutable::Execute` returns before `ReleaseDonations`
  (`virtual_hbm.cc:327`), so an argument that the backend had already consumed on
  one device would stay charged until its caller deletes or destroys it, and
  `QuietMemory` would not hold until then.
- `ControlFlow`: scalar inputs of the caller are words; the code compares a
  negative one as the integer it is. Addresses of one allocation are compared by
  their offsets, as in the code, which is right as long as an allocation doesn't
  wrap around the address space. What a callee does to memory is unknown, so a
  call forgets all but private spills. A loop of unknown exit whose counter
  changes splits the walk at every visit and goes on until the visit budget is
  spent or Python's recursion limit is reached; `MaxDepth` stands for the latter.
- `InstructionModel`: an alias made by a cast sees a co-issued write of its
  source, and a call is expanded even when its predicate is known to be false.
  Both are as in the code. Latencies and extra cycles are constants.
- `Segments`: `Simulate` leaves out reservations and holds, which `Pipeline` has
  on its own.
- `BoundCovers` compares cycles of the same cost model. It excuses what the
  report itself calls a gap, and says nothing of real hardware.
- `Capture` (`CaptureAssumption`): the whole trace misses fewer intervals than any
  program of several devices has, the intervals of one launch overlap across
  devices and are longer than the importer's tolerance of a nanosecond, and the
  program ids of unobserved programs are not ids of modules. Of more missing intervals, or
  launches whose intervals don't overlap, two launches could be paired as one;
  the importer has nothing to tell them apart by. `Noise` is what the importer
  must leave out.
- `Replay` (`NoneAssumption`): an absent value is none of the values it stands in
  for.

## Not modelled

- Client and executable life cycle: registration and destruction of clients,
  executables and their work (`instrumentation.cc`). `DeviceApi` has one client
  and one executable that live throughout, so a leftover registry entry at a
  reused address is not explored.
- The assignment of intervals to lanes and planes of a serialized trace
  (`profiler.cc`): a layout; the events are modelled.
- `tpu_compilation.cc`: attribution of dump files by listing a shared directory;
  what it does depends on the file system and on libtpu.
- Rewriting of HLO (`virtual_hbm.cc`, `output_simulation.cc`,
  `partitioning.cc`), which works on XLA's data structures.
- SparseCore bounds, calibrated floors of bundle issue, scenario files, scopes
  and the rendering of timelines.
- Matching of HLO operations, their metadata and asynchronous pairs in the
  importer.
- Parsing of dumps, traces and reports, the content of cost tables, configuration
  checks, process spawning, the command line and the scripts of the build.

XLA, the CPU backend and libtpu appear only through what the code relies on
(`external` in the map): CPU results resolve at any time, in any order, or not at
all. Durations are small integers instead of rounded floating-point numbers,
except in `ProfileImport`, where rounding matters.

## Plan

Done: the runtime, the budget, the buffer API, raw aliases, sessions, the pipeline,
the estimator of whole programs, collection and replay, with the proofs above.
What would be worth adding, in this order:

1. `ClientLife`: registration and destruction of executables and clients over a
   reused address. `ProfileLanes`: lanes of a trace, with a proof that the
   intervals of a lane nest.
2. Reservations and holds in `Segments`, so that a bound also covers contention
   for units.
3. Proofs: `JoinsPostdominate` and `BoundCovers`, with postdominators and nested
   segments written as recursive functions.

------------------------------ MODULE DeviceApi ------------------------------
(***************************************************************************)
(* The plugin's buffer API (src/src/instrumentation.cc) over Virtual HBM   *)
(* (src/src/virtual_hbm.cc): uploads, copies, downloads, executions with   *)
(* donation, Delete and Destroy, called from several threads.  A call      *)
(* takes the registry lock, the budget's and the runtime's one after the   *)
(* other; each such section is a step, and other calls come in between.    *)
(* The runtime is what AsyncDevices promises (SimRuntime implements it).   *)
(*                                                                         *)
(* A buffer is named by its address, which the allocator reuses.  An       *)
(* allocation is named by the call and device it was made for.             *)
(***************************************************************************)
EXTENDS Integers, FiniteSets

CONSTANTS
  Devices, Host,
  Pointers,     (* addresses of PJRT_Buffer objects                        *)
  MaxCalls,     (* bound: calls made in a behaviour                        *)
  Threads,      (* bound: calls in progress at the same time               *)
  Kinds,        (* the operations a run explores                           *)
  Size,         (* bytes of a buffer                                       *)
  Capacity, Reserved,
  RevokeInUse   (* may a caller delete or donate a buffer that another of
                   its calls, still in progress, was given?                *)

Calls == 1..MaxCalls
Nodes == Devices \cup {Host}
Ids == Calls \X Nodes
Allocations == Calls \X Devices

(* No device is named like the markers of MemoryBudget, and no object lies at
   the null address.                                                       *)
ASSUME ApiAssumption ==
  /\ Host \notin Devices /\ {"unmade", "freed"} \cap Devices = {}
  /\ <<>> \notin Pointers
  /\ MaxCalls \in Nat /\ Threads \in Nat /\ Size \in Nat
  /\ Kinds \subseteq {"h2d", "copy", "d2h", "execute", "delete", "destroy"}
  /\ RevokeInUse \in BOOLEAN

VARIABLES
  call,        (* the progress and locals of each call                     *)
  buffer,      (* the PJRT_Buffer and VirtualBuffer at each address        *)
  registry,    (* State().buffers                                          *)
  destroying,  (* addresses between the two steps of DestroyBuffer         *)
  cpu,         (* the CPU backend's part of each result                    *)
  uses,        (* history: memory that work in flight reads or writes      *)
  holds,       (* allocations captured by OnReady callbacks, and until when*)
  usage, live,             (* MemoryBudget                                 *)
  status, before, ordered  (* AsyncDevices                                 *)

Budget == INSTANCE MemoryBudget WITH Sizes <- {Size}
Runtime == INSTANCE AsyncDevices

memoryVars == <<usage, live>>
runtimeVars == <<status, before, ordered>>
vars == <<call, buffer, registry, destroying, cpu, uses, holds, memoryVars,
          runtimeVars>>

None == <<>>
NoCall == [kind |-> "none", at |-> "start", nodes |-> {}, args |-> {},
           need |-> {}, deps |-> {}, memory |-> {}, donate |-> FALSE,
           out |-> [n \in Nodes |-> None]]
NoBuffer == [state |-> "free", device |-> None, alloc |-> None, origin |-> None]
Untracked == [tracked |-> FALSE, producer |-> None, ready |-> FALSE]

Over == {"done", "oom", "error"}
Steps == {"start", "create", "unwrap", "reserve", "dispatch", "enqueue",
          "associate", "keep"}

TypeOK ==
  /\ call \in [Calls ->
       [kind : {"none", "h2d", "copy", "d2h", "execute"}, at : Steps \cup Over,
        nodes : SUBSET Nodes, args : SUBSET Pointers, need : SUBSET Ids,
        deps : SUBSET Ids, memory : SUBSET Allocations, donate : BOOLEAN,
        out : [Nodes -> Pointers \cup {None}]]]
  /\ buffer \in [Pointers ->
       [state : {"free", "live", "deleted"}, device : Devices \cup {None},
        alloc : Allocations \cup {None}, origin : Ids \cup {None}]]
  /\ registry \in [Pointers -> [tracked : BOOLEAN, producer : Ids \cup {None},
                                ready : BOOLEAN]]
  /\ destroying \subseteq Pointers
  /\ cpu \in [Ids -> {"none", "pending", "done"}]
  /\ uses \subseteq Allocations \X Ids
  /\ holds \subseteq Allocations \X SUBSET Ids
  /\ Runtime!TypeOK
  /\ \A p \in Pointers : registry[p].producer \in Runtime!Issued \cup {None}

----------------------------------------------------------------------------
Active == {c \in Calls : call[c].kind # "none" /\ call[c].at \notin Over}

IdsOf(c) == {<<c, n>> : n \in call[c].nodes}

(* Modelled and CPU work of a result are both over: BufferReady.           *)
Done(id) == status[id] \in Runtime!Settled /\ cpu[id] = "done"

(* What still shares an allocation: buffers, locals and callbacks.         *)
Referenced ==
  ({buffer[p].alloc : p \in Pointers} \ {None})
    \cup (UNION {call[c].memory : c \in Calls})
    \cup {h[1] : h \in holds}

Init ==
  /\ call = [c \in Calls |-> NoCall]
  /\ buffer = [p \in Pointers |-> NoBuffer]
  /\ registry = [p \in Pointers |-> Untracked]
  /\ destroying = {}
  /\ cpu = [id \in Ids |-> "none"]
  /\ uses = {} /\ holds = {}
  /\ Budget!BudgetInit
  /\ Runtime!Init

(* Calls start in the order of their numbers, Threads of them at a time.   *)
MayStart(c, kind) ==
  /\ kind \in Kinds
  /\ call[c].kind = "none" /\ \A b \in 1..(c - 1) : call[b].kind # "none"
  /\ Cardinality(Active) < Threads

(* A caller has the buffer: its call returned it and it isn't destroyed.   *)
Visible(p) ==
  /\ buffer[p].state # "free" /\ p \notin destroying
  /\ \A c \in Active : \A n \in Nodes : call[c].out[n] # p

(* A caller may give the buffer to a call: another thread isn't donating it,
   unless the callers race.                                                *)
Usable(p) ==
  /\ Visible(p)
  /\ RevokeInUse \/ \A c \in Active : p \in call[c].args => ~call[c].donate

InUse(p) == \E c \in Active : p \in call[c].args

At(c, kind, step) == call[c].kind = kind /\ call[c].at = step
GoesTo(c, step) == call' = [call EXCEPT ![c].at = step]
(* The call returns an error; what it held is released.                    *)
FailsWith(c, outcome) ==
  call' = [call EXCEPT ![c].at = outcome, ![c].memory = {}]

AllocationOf(p) == {buffer[p].alloc} \ {None}

(* Mutant of KeepAllocation: the callback captures nothing.                *)
KeepNothing(p, ids) == {}

(* KeepAllocation: the buffer's allocation, if it still has one, is captured
   until the future resolves.                                              *)
KeepAllocation(p, ids) == {<<a, ids>> : a \in AllocationOf(p)}

(* A callback on a future that is already resolved runs at once.           *)
Pending(hs) == {h \in hs : \E id \in h[2] : ~Done(id)}

Producer(p) == {registry[p].producer} \ {None}

SetProducer(r, p, id) ==
  [r EXCEPT ![p] = [tracked |-> TRUE, producer |-> id, ready |-> FALSE]]

NewBuffer(d, a, id) ==
  [state |-> "live", device |-> d, alloc |-> a, origin |-> id]

----------------------------------------------------------------------------
(* FromHost *)

(* VirtualFromHost asks the budget first: a refusal leaves nothing behind. *)
StartH2D(c, d) ==
  LET new == [NoCall EXCEPT !.kind = "h2d", !.nodes = {d}]
  IN  /\ MayStart(c, "h2d")
      /\ \/ /\ Budget!Allocate(<<c, d>>, d, Size)
            /\ call' = [call EXCEPT ![c] = [new EXCEPT
                          !.at = "create", !.memory = {<<c, d>>}]]
         \/ /\ ~Budget!Fits(d, Size)
            /\ call' = [call EXCEPT ![c] = [new EXCEPT !.at = "oom"]]
            /\ UNCHANGED memoryVars
      /\ UNCHANGED <<buffer, registry, destroying, cpu, uses, holds,
                     runtimeVars>>

(* The CPU buffer, wrapped as a VirtualBuffer at a free address p; or the CPU
   backend fails, and the allocation goes with the call.                   *)
CreateH2D(c, p) ==
  /\ At(c, "h2d", "create")
  /\ \E d \in call[c].nodes :
       \/ /\ buffer[p].state = "free"
          /\ buffer' = [buffer EXCEPT ![p] = NewBuffer(d, <<c, d>>, <<c, d>>)]
          /\ call' = [call EXCEPT ![c].at = "enqueue", ![c].memory = {},
                                  ![c].out = [@ EXCEPT ![d] = p]]
          /\ cpu' = [cpu EXCEPT ![<<c, d>>] = "pending"]
          /\ uses' = uses \cup {<<<<c, d>>, <<c, d>>>>}
       \/ /\ FailsWith(c, "error")
          /\ UNCHANGED <<buffer, cpu, uses>>
  /\ UNCHANGED <<registry, destroying, holds, memoryVars, runtimeVars>>

(* Mutant of EnqueueH2D: the upload is never given to the runtime.         *)
EnqueueNothing(c) ==
  /\ At(c, "h2d", "enqueue")
  /\ GoesTo(c, "associate")
  /\ UNCHANGED <<buffer, registry, destroying, cpu, uses, holds, memoryVars,
                 runtimeVars>>

(* TransferBuffer: the runtime's Transfer ...                              *)
EnqueueH2D(c) ==
  /\ At(c, "h2d", "enqueue")
  /\ Runtime!Issue(c, call[c].nodes, {}, FALSE)
  /\ GoesTo(c, "associate")
  /\ UNCHANGED <<buffer, registry, destroying, cpu, uses, holds, memoryVars>>

(* ... then SetProducer and KeepAllocation of the new buffer, for an upload
   and for a copy.                                                         *)
AssociateTransfer(c, kind, next) ==
  /\ At(c, kind, "associate")
  /\ \E d \in call[c].nodes :
       LET p == call[c].out[d] IN
       /\ registry' = SetProducer(registry, p, <<c, d>>)
       /\ holds' = Pending(holds \cup KeepAllocation(p, {<<c, d>>}))
  /\ GoesTo(c, next)
  /\ UNCHANGED <<buffer, destroying, cpu, uses, memoryVars, runtimeVars>>

----------------------------------------------------------------------------
(* Copy and CopyToDevice *)

StartCopy(c, p, d) ==
  LET new == [NoCall EXCEPT !.kind = "copy", !.nodes = {d}, !.args = {p},
                            !.need = {buffer[p].origin}]
  IN  /\ MayStart(c, "copy")
      /\ Usable(p) /\ buffer[p].state = "live"
      /\ \/ /\ Budget!Allocate(<<c, d>>, d, Size)
            /\ call' = [call EXCEPT ![c] = [new EXCEPT
                          !.at = "create", !.memory = {<<c, d>>}]]
         \/ /\ ~Budget!Fits(d, Size)
            /\ call' = [call EXCEPT ![c] = [new EXCEPT !.at = "oom"]]
            /\ UNCHANGED memoryVars
      /\ UNCHANGED <<buffer, registry, destroying, cpu, uses, holds,
                     runtimeVars>>

(* storage_->CopyToMemorySpace fails on a buffer deleted in the meantime.  *)
CreateCopy(c, q) ==
  /\ At(c, "copy", "create")
  /\ \E p \in call[c].args, d \in call[c].nodes :
       \/ /\ buffer[p].state = "live" /\ buffer[q].state = "free"
          /\ buffer' = [buffer EXCEPT ![q] = NewBuffer(d, <<c, d>>, <<c, d>>)]
          /\ call' = [call EXCEPT ![c].at = "enqueue", ![c].memory = {},
                                  ![c].out = [@ EXCEPT ![d] = q]]
          /\ cpu' = [cpu EXCEPT ![<<c, d>>] = "pending"]
          /\ uses' = uses \cup ({<<c, d>>, buffer[p].alloc} \X {<<c, d>>})
       \/ /\ FailsWith(c, "error")
          /\ UNCHANGED <<buffer, cpu, uses>>
  /\ UNCHANGED <<registry, destroying, holds, memoryVars, runtimeVars>>

(* Transfer with the source's producer as input, of a copy or a download.  *)
EnqueueFrom(c, kind, next) ==
  /\ At(c, kind, "enqueue")
  /\ \E p \in call[c].args :
       Runtime!Issue(c, call[c].nodes, Producer(p), FALSE)
  /\ GoesTo(c, next)
  /\ UNCHANGED <<buffer, registry, destroying, cpu, uses, holds, memoryVars>>

(* KeepAllocation of the source, until the result is ready.                *)
KeepSource(c, kind) ==
  /\ At(c, kind, "keep")
  /\ \E p \in call[c].args :
       holds' = Pending(holds \cup KeepAllocation(p, IdsOf(c)))
  /\ GoesTo(c, "done")
  /\ UNCHANGED <<buffer, registry, destroying, cpu, uses, memoryVars,
                 runtimeVars>>

----------------------------------------------------------------------------
(* ToHost and RawToHost *)

StartD2H(c, p) ==
  /\ MayStart(c, "d2h")
  /\ Usable(p) /\ buffer[p].state = "live"
  /\ call' = [call EXCEPT ![c] = [NoCall EXCEPT
       !.kind = "d2h", !.at = "enqueue", !.nodes = {Host}, !.args = {p},
       !.need = {buffer[p].origin}]]
  /\ cpu' = [cpu EXCEPT ![<<c, Host>>] = "pending"]
  /\ uses' = uses \cup {<<buffer[p].alloc, <<c, Host>>>>}
  /\ UNCHANGED <<buffer, registry, destroying, holds, memoryVars, runtimeVars>>

----------------------------------------------------------------------------
(* Execute: one argument and one output on each of its devices *)

(* Mutant of ReadyNow: a future that failed counts as ready.               *)
KnownReady(p) ==
  registry[p].ready \/ \A id \in Producer(p) : status[id] \in Runtime!Settled

(* tracked.ready, once the producer is known to have succeeded.            *)
ReadyNow(p) ==
  registry[p].ready \/ \A id \in Producer(p) : status[id] = "ok"

(* Mutant of StartExecute: the inputs' allocations aren't captured.         *)
StartUnpinned(c, args, donate) ==
  /\ MayStart(c, "execute")
  /\ \A p \in args : Usable(p)
  /\ donate => RevokeInUse \/ \A p \in args : ~InUse(p)
  /\ args # {}
  /\ \A p, q \in args : buffer[p].device = buffer[q].device => p = q
  /\ registry' = [p \in Pointers |->
       IF p \in args THEN [registry[p] EXCEPT !.tracked = TRUE,
                                            !.ready = ReadyNow(p)]
                     ELSE registry[p]]
  /\ call' = [call EXCEPT ![c] = [NoCall EXCEPT
       !.kind = "execute", !.at = "unwrap",
       !.nodes = {buffer[p].device : p \in args}, !.args = args,
       !.need = {buffer[p].origin : p \in args},
       !.deps = UNION {Producer(p) : p \in {q \in args : ~ReadyNow(q)}},
       !.donate = donate]]
  /\ UNCHANGED <<buffer, destroying, cpu, uses, holds, memoryVars, runtimeVars>>

(* The snapshot, under the registry lock: the inputs' allocations and the
   producers that aren't known to have succeeded.                          *)
StartExecute(c, args, donate) ==
  /\ MayStart(c, "execute")
  /\ \A p \in args : Usable(p)
  /\ donate => RevokeInUse \/ \A p \in args : ~InUse(p)
  /\ args # {}
  /\ \A p, q \in args : buffer[p].device = buffer[q].device => p = q
  /\ registry' = [p \in Pointers |->
       IF p \in args THEN [registry[p] EXCEPT !.tracked = TRUE,
                                            !.ready = ReadyNow(p)]
                     ELSE registry[p]]
  /\ call' = [call EXCEPT ![c] = [NoCall EXCEPT
       !.kind = "execute", !.at = "unwrap",
       !.nodes = {buffer[p].device : p \in args}, !.args = args,
       !.need = {buffer[p].origin : p \in args},
       !.deps = UNION {Producer(p) : p \in {q \in args : ~ReadyNow(q)}},
       !.memory = UNION {AllocationOf(p) : p \in args},
       !.donate = donate]]
  /\ UNCHANGED <<buffer, destroying, cpu, uses, holds, memoryVars, runtimeVars>>

(* Unwrap refuses a deleted argument.                                      *)
Unwrap(c) ==
  /\ At(c, "execute", "unwrap")
  /\ IF \A p \in call[c].args : buffer[p].state = "live"
       THEN GoesTo(c, "reserve") ELSE FailsWith(c, "error")
  /\ UNCHANGED <<buffer, registry, destroying, cpu, uses, holds, memoryVars,
                 runtimeVars>>

(* An output aliased to a donated input shares its allocation.             *)
Aliased(c) == call[c].donate

(* The outputs for which ReserveOutputs still has to ask the budget.       *)
ToReserve(c) ==
  IF Aliased(c) THEN {}
                ELSE {d \in call[c].nodes : <<c, d>> \notin call[c].memory}

(* Mutant of ReserveOutput: a refusal keeps the ones already reserved.     *)
KeepReservations(c, d) ==
  /\ At(c, "execute", "reserve")
  /\ d \in ToReserve(c)
  /\ \/ /\ Budget!Allocate(<<c, d>>, d, Size)
        /\ call' = [call EXCEPT ![c].memory = @ \cup {<<c, d>>}]
     \/ /\ ~Budget!Fits(d, Size)
        /\ GoesTo(c, "oom")
        /\ UNCHANGED memoryVars
  /\ UNCHANGED <<buffer, registry, destroying, cpu, uses, holds, runtimeVars>>

(* ReserveOutputs: one output; a refusal drops the ones already reserved.  *)
ReserveOutput(c, d) ==
  /\ At(c, "execute", "reserve")
  /\ d \in ToReserve(c)
  /\ \/ /\ Budget!Allocate(<<c, d>>, d, Size)
        /\ call' = [call EXCEPT ![c].memory = @ \cup {<<c, d>>}]
     \/ /\ ~Budget!Fits(d, Size)
        /\ FailsWith(c, "oom")
        /\ UNCHANGED memoryVars
  /\ UNCHANGED <<buffer, registry, destroying, cpu, uses, holds, runtimeVars>>

OutputAllocation(c, p) ==
  IF Aliased(c) THEN buffer[p].alloc ELSE <<c, buffer[p].device>>

(* Mutant of Released: a donated argument keeps its share.                 *)
ReleasedNothing(c, p) == IF Aliased(c) THEN [buffer[p] EXCEPT !.state = "deleted"]
                                       ELSE buffer[p]

(* ReleaseDonation: an argument the backend has deleted gives up its share. *)
Released(c, p) ==
  IF Aliased(c) THEN [buffer[p] EXCEPT !.state = "deleted", !.alloc = None]
                ELSE buffer[p]

(* physical_->Execute, Wrap and ReleaseDonations; where[p] is the address of
   the output on p's device.  The backend refuses a deleted argument and may
   fail for reasons of its own: the reservations are dropped.  Assumed of the
   CPU backend: it donates the arguments of all devices or, when it fails, of
   none.                                                                   *)
Dispatch(c, where) ==
  LET args == call[c].args
      OutputAt(q) == CHOOSE p \in args : where[p] = q
      outs == {where[p] : p \in args}
  IN  /\ At(c, "execute", "reserve") /\ ToReserve(c) = {}
      /\ \/ /\ \A p \in args : buffer[p].state = "live"
            /\ \A q \in outs : buffer[q].state = "free"
            /\ buffer' = [q \in Pointers |->
                 IF q \in outs
                   THEN NewBuffer(buffer[OutputAt(q)].device,
                                  OutputAllocation(c, OutputAt(q)),
                                  <<c, buffer[OutputAt(q)].device>>)
                 ELSE IF q \in args THEN Released(c, q) ELSE buffer[q]]
            /\ call' = [call EXCEPT ![c].at = "enqueue",
                 ![c].memory = @ \ ({c} \X call[c].nodes),
                 ![c].out = [n \in Nodes |->
                   IF n \in call[c].nodes
                     THEN CHOOSE q \in outs : buffer[OutputAt(q)].device = n
                     ELSE None]]
            /\ cpu' = [id \in Ids |-> IF id \in IdsOf(c) THEN "pending"
                                                       ELSE cpu[id]]
            /\ uses' = uses \cup UNION
                 {{buffer[p].alloc, OutputAllocation(c, p)}
                    \X {<<c, buffer[p].device>>} : p \in args}
         \/ /\ FailsWith(c, "error")
            /\ UNCHANGED <<buffer, cpu, uses>>
      /\ UNCHANGED <<registry, destroying, holds, memoryVars, runtimeVars>>

EnqueueExecute(c) ==
  /\ At(c, "execute", "enqueue")
  /\ Runtime!Issue(c, call[c].nodes, call[c].deps, TRUE)
  /\ GoesTo(c, "associate")
  /\ UNCHANGED <<buffer, registry, destroying, cpu, uses, holds, memoryVars>>

(* Each output is kept until its device is done, the inputs until all are;
   then the outputs get their producers.                                   *)
AssociateExecute(c) ==
  /\ At(c, "execute", "associate")
  /\ holds' = Pending(holds
       \cup (UNION {KeepAllocation(call[c].out[n], {<<c, n>>}) :
                      n \in call[c].nodes})
       \cup {<<a, IdsOf(c)>> : a \in call[c].memory})
  /\ registry' = [p \in Pointers |->
       IF \E n \in call[c].nodes : call[c].out[n] = p
         THEN [tracked |-> TRUE, ready |-> FALSE, producer |->
                <<c, CHOOSE n \in call[c].nodes : call[c].out[n] = p>>]
         ELSE registry[p]]
  /\ call' = [call EXCEPT ![c].at = "done", ![c].memory = {}]
  /\ UNCHANGED <<buffer, destroying, cpu, uses, memoryVars, runtimeVars>>

----------------------------------------------------------------------------
(* Delete and Destroy *)

Delete(p) ==
  /\ "delete" \in Kinds
  /\ Visible(p) /\ buffer[p].state = "live"
  /\ RevokeInUse \/ ~InUse(p)
  /\ buffer' = [buffer EXCEPT ![p].state = "deleted", ![p].alloc = None]
  /\ UNCHANGED <<call, registry, destroying, cpu, uses, holds, memoryVars,
                 runtimeVars>>

(* Mutant of DestroyBuffer: the object is freed before its entry is erased. *)
DestroyThenErase(p) ==
  /\ "destroy" \in Kinds
  /\ \/ /\ Visible(p) /\ ~InUse(p)
        /\ buffer' = [buffer EXCEPT ![p] = NoBuffer]
        /\ destroying' = destroying \cup {p}
        /\ UNCHANGED registry
     \/ /\ p \in destroying
        /\ registry' = [registry EXCEPT ![p] = Untracked]
        /\ destroying' = destroying \ {p}
        /\ UNCHANGED buffer
  /\ UNCHANGED <<call, cpu, uses, holds, memoryVars, runtimeVars>>

(* The registry entry is erased, under the lock; then the object is freed and
   its address may be given to another buffer.                             *)
DestroyBuffer(p) ==
  /\ "destroy" \in Kinds
  /\ \/ /\ Visible(p) /\ ~InUse(p)
        /\ registry' = [registry EXCEPT ![p] = Untracked]
        /\ destroying' = destroying \cup {p}
        /\ UNCHANGED buffer
     \/ /\ p \in destroying
        /\ buffer' = [buffer EXCEPT ![p] = NoBuffer]
        /\ destroying' = destroying \ {p}
        /\ UNCHANGED registry
  /\ UNCHANGED <<call, cpu, uses, holds, memoryVars, runtimeVars>>

----------------------------------------------------------------------------
(* The runtime, the CPU backend and the last owner of an allocation *)

(* Callbacks of what is now resolved run and let go of their allocations.  *)
RunCallbacks ==
  /\ holds' = {h \in holds : \E id \in h[2] : ~Done(id)'}
  /\ uses' = {u \in uses : ~Done(u[2])'}

Settle(id) ==
  /\ Runtime!Settle({id})
  /\ UNCHANGED cpu
  /\ RunCallbacks
  /\ UNCHANGED <<call, buffer, registry, destroying, memoryVars>>

CpuDone(id) ==
  /\ cpu[id] = "pending"
  /\ cpu' = [cpu EXCEPT ![id] = "done"]
  /\ UNCHANGED runtimeVars
  /\ RunCallbacks
  /\ UNCHANGED <<call, buffer, registry, destroying, memoryVars>>

(* ~MemoryAllocation runs in the step that drops the last reference: nothing
   else happens before it.                                                 *)
Unreferenced == Budget!Live \ Referenced

DestroyAllocation ==
  /\ \E a \in Unreferenced : Budget!Release(a)
  /\ UNCHANGED <<call, buffer, registry, destroying, cpu, uses, holds,
                 runtimeVars>>

Upload(c) ==
  \/ \E d \in Devices : StartH2D(c, d)
  \/ \E p \in Pointers : CreateH2D(c, p)
  \/ EnqueueH2D(c)
  \/ AssociateTransfer(c, "h2d", "done")

Copy(c) ==
  \/ \E p \in Pointers, d \in Devices : StartCopy(c, p, d)
  \/ \E q \in Pointers : CreateCopy(c, q)
  \/ EnqueueFrom(c, "copy", "associate")
  \/ AssociateTransfer(c, "copy", "keep")
  \/ KeepSource(c, "copy")

Download(c) ==
  \/ \E p \in Pointers : StartD2H(c, p)
  \/ EnqueueFrom(c, "d2h", "keep")
  \/ KeepSource(c, "d2h")

Execute(c) ==
  \/ \E args \in SUBSET Pointers, donate \in BOOLEAN :
       StartExecute(c, args, donate)
  \/ Unwrap(c)
  \/ \E d \in Devices : ReserveOutput(c, d)
  \/ \E where \in [call[c].args -> Pointers] :
       /\ \A p, q \in call[c].args : where[p] = where[q] => p = q
       /\ Dispatch(c, where)
  \/ EnqueueExecute(c)
  \/ AssociateExecute(c)

Next ==
  \/ DestroyAllocation
  \/ /\ Unreferenced = {}
     /\ \/ \E c \in Calls : Upload(c) \/ Copy(c) \/ Download(c) \/ Execute(c)
        \/ \E p \in Pointers : Delete(p) \/ DestroyBuffer(p)
        \/ \E id \in Ids : Settle(id) \/ CpuDone(id)

Spec == Init /\ [][Next]_vars

----------------------------------------------------------------------------
(* Properties *)

(* A result settles only after the producers of the buffers it was made from,
   and succeeds only if they did, whatever was overwritten, cached as ready,
   destroyed or given the same address in the meantime.                    *)
InputsBeforeResults ==
  \A c \in Calls : \A id \in IdsOf(c) \cap Runtime!Issued : \A j \in call[c].need :
    /\ status[id] \in Runtime!Settled => status[j] \in Runtime!Settled
    /\ status[id] = "ok" => status[j] = "ok"

(* "Pending work retains its allocations" (docs/compilation-architecture.md):
   memory that work in flight reads or writes is counted, also after the
   caller has deleted, donated or destroyed the buffers.                   *)
PendingWorkKeepsMemory ==
  \A u \in uses : ~Done(u[2]) => u[1] \in Budget!Live

(* Once nothing is in progress or in flight, each device is charged for the
   buffers that exist on it: donated and deleted buffers aren't counted, nor
   what an execution had reserved on one device before another refused it or
   the CPU failed, and an allocation shared by donation is counted once.   *)
Quiet ==
  /\ Active = {} /\ destroying = {} /\ Unreferenced = {}
  /\ \A id \in Runtime!Issued : Done(id)

QuietMemory ==
  Quiet => \A d \in Devices :
    usage[d].used = Size * Cardinality({p \in Pointers :
      buffer[p].state = "live" /\ buffer[p].device = d})
============================================================================

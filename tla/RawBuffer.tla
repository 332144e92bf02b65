------------------------------ MODULE RawBuffer ------------------------------
(***************************************************************************)
(* Raw aliases of a device buffer (src/src/raw_buffer.cc).  An alias and   *)
(* its slices share a RawState: its lock, its runtime, its allocation and  *)
(* the completion of the transfer submitted last, the tail.  Transfers are *)
(* copied off-thread, when their dependencies allow; each is complete when *)
(* both its copy and its modelled transfer are.                            *)
(*                                                                         *)
(* A transfer is named by its place in the order of submission, which the  *)
(* lock of the shared state makes total.  A byte holds the number of the   *)
(* transfer that wrote it last, 0 at first.                                *)
(***************************************************************************)
EXTENDS Integers

CONSTANTS
  Aliases,      (* the first alias and the slices made of it               *)
  First,        (* the alias MakeRawAlias returns                          *)
  Bytes,        (* its size                                                *)
  MaxTransfers, (* bound: transfers submitted                              *)
  Events,       (* dependencies that callers pass                          *)
  Placeholder   (* is the payload only a scalar?                           *)

ASSUME RawAssumption ==
  /\ First \in Aliases
  /\ Bytes \in Nat /\ MaxTransfers \in Nat
  /\ Placeholder \in BOOLEAN

VARIABLES
  alias,    (* the base, size and owner of each RawAlias                   *)
  producer, (* the buffer's own readiness, when the alias was made         *)
  event,    (* the futures of Events                                       *)
  tail,     (* RawState.tail: the transfer submitted last, 0 for producer  *)
  transfer, (* the progress of each transfer                               *)
  memory    (* the CPU storage, byte by byte                               *)

vars == <<alias, producer, event, tail, transfer, memory>>

Transfers == 1..MaxTransfers
Offsets == 0..Bytes
AllBytes == {b \in Offsets : b < Bytes}

Statuses == {"pending", "ok", "error"}
Settled == {"ok", "error"}

NoAlias == [state |-> "none", base |-> 0, size |-> 0]
NoData == [b \in AllBytes |-> 0]
NoTransfer == [stage |-> "new", h2d |-> FALSE, bytes |-> {}, needs |-> {},
               prev |-> 0, copied |-> {}, data |-> NoData,
               promise |-> "pending", modelled |-> "pending"]

TypeOK ==
  /\ alias \in [Aliases -> [state : {"none", "held", "dropped"},
                            base : Offsets, size : Offsets]]
  /\ producer \in Statuses /\ event \in [Events -> Statuses]
  /\ tail \in {0} \cup Transfers
  /\ transfer \in [Transfers ->
       [stage : {"new", "waiting", "copying", "over"}, h2d : BOOLEAN,
        bytes : SUBSET AllBytes, needs : SUBSET Events,
        prev : {0} \cup Transfers, copied : SUBSET AllBytes,
        data : [AllBytes -> {0} \cup Transfers],
        promise : Statuses, modelled : Statuses]]
  /\ memory \in [AllBytes -> {0} \cup Transfers]

----------------------------------------------------------------------------
(* JoinFutures of two: pending until both are over, an error if one is.    *)
Join(s, t) ==
  IF "pending" \in {s, t} THEN "pending"
  ELSE IF "error" \in {s, t} THEN "error" ELSE "ok"

(* The future of completion: the modelled transfer and data_ready.         *)
Completion(t) ==
  IF t = 0 THEN producer ELSE Join(transfer[t].modelled, transfer[t].promise)

Submitted == {t \in Transfers : transfer[t].stage # "new"}

(* Mutant of Dependencies: the shared tail isn't one of them.              *)
DependenciesOfCaller(t) == {event[e] : e \in transfer[t].needs}

(* What the copy waits for: the caller's events and the tail before it.    *)
Dependencies(t) ==
  {event[e] : e \in transfer[t].needs} \cup {Completion(transfer[t].prev)}

Init ==
  /\ alias = [a \in Aliases |->
       IF a = First THEN [state |-> "held", base |-> 0, size |-> Bytes]
                    ELSE NoAlias]
  /\ producer \in Statuses
  /\ event = [e \in Events |-> "pending"]
  /\ tail = 0
  /\ transfer = [t \in Transfers |-> NoTransfer]
  /\ memory = NoData

(* Mutant of InRange: the end isn't compared with the size.                *)
StartsInRange(a, offset, size) == offset <= alias[a].size

(* CheckRange *)
InRange(a, offset, size) == offset + size <= alias[a].size

Slice(a, b, offset, size) ==
  /\ alias[a].state = "held" /\ alias[b].state = "none"
  /\ InRange(a, offset, size)
  /\ alias' = [alias EXCEPT ![b] =
       [state |-> "held", base |-> alias[a].base + offset, size |-> size]]
  /\ UNCHANGED <<producer, event, tail, transfer, memory>>

Drop(a) ==
  /\ alias[a].state = "held"
  /\ alias' = [alias EXCEPT ![a].state = "dropped"]
  /\ UNCHANGED <<producer, event, tail, transfer, memory>>

(* Mutant of Submit: the tail is read, but not advanced.                   *)
SubmitBehindSameTail(t, a, h2d, offset, size, needs) ==
  /\ alias[a].state = "held" /\ InRange(a, offset, size)
  /\ transfer[t].stage = "new" /\ \A u \in 1..(t - 1) : u \in Submitted
  /\ transfer' = [transfer EXCEPT ![t] = [NoTransfer EXCEPT
       !.stage = "waiting", !.h2d = h2d, !.needs = needs, !.prev = tail,
       !.bytes = {alias[a].base + offset + i : i \in 0..(size - 1)}]]
  /\ UNCHANGED <<alias, producer, event, tail, memory>>

(* The part of Transfer under the lock.  A range that is outside the alias, a
   null pointer or a buffer that isn't mutable is refused before.          *)
Submit(t, a, h2d, offset, size, needs) ==
  /\ alias[a].state = "held" /\ InRange(a, offset, size)
  /\ transfer[t].stage = "new" /\ \A u \in 1..(t - 1) : u \in Submitted
  /\ transfer' = [transfer EXCEPT ![t] = [NoTransfer EXCEPT
       !.stage = "waiting", !.h2d = h2d, !.needs = needs, !.prev = tail,
       !.bytes = {alias[a].base + offset + i : i \in 0..(size - 1)}]]
  /\ tail' = t
  /\ UNCHANGED <<alias, producer, event, memory>>

(* Mutant of Failed: the dependencies' errors are ignored.                 *)
NeverFailed(t) == FALSE

(* GetErrors *)
Failed(t) == "error" \in Dependencies(t)

(* Mutant of RunWhenReady: an error leaves the promise unset.              *)
RunForgetsPromise(t) ==
  /\ transfer[t].stage = "waiting"
  /\ "pending" \notin Dependencies(t)
  /\ transfer' = [transfer EXCEPT ![t] =
       IF Failed(t)
         THEN [@ EXCEPT !.stage = "over"]
       ELSE IF @.bytes = {} \/ Placeholder
         THEN [@ EXCEPT !.stage = "over", !.promise = "ok"]
         ELSE [@ EXCEPT !.stage = "copying"]]
  /\ UNCHANGED <<alias, producer, event, tail, memory>>

(* The closure of ExecuteWhenReady, on a pool thread: an error is passed on
   and nothing is copied; a placeholder has nothing to copy, its bytes read
   as zero; otherwise the CPU copy starts.                                 *)
RunWhenReady(t) ==
  /\ transfer[t].stage = "waiting"
  /\ "pending" \notin Dependencies(t)
  /\ transfer' = [transfer EXCEPT ![t] =
       IF Failed(t)
         THEN [@ EXCEPT !.stage = "over", !.promise = "error"]
       ELSE IF @.bytes = {} \/ Placeholder
         THEN [@ EXCEPT !.stage = "over", !.promise = "ok"]
         ELSE [@ EXCEPT !.stage = "copying"]]
  /\ UNCHANGED <<alias, producer, event, tail, memory>>

(* The CPU copy, a byte at a time.                                         *)
CopyByte(t, b) ==
  /\ transfer[t].stage = "copying" /\ b \in transfer[t].bytes \ transfer[t].copied
  /\ IF transfer[t].h2d
       THEN /\ memory' = [memory EXCEPT ![b] = t]
            /\ transfer' = [transfer EXCEPT ![t].copied = @ \cup {b}]
       ELSE /\ transfer' = [transfer EXCEPT ![t].copied = @ \cup {b},
                                            ![t].data[b] = memory[b]]
            /\ UNCHANGED memory
  /\ UNCHANGED <<alias, producer, event, tail>>

(* copy.OnReady: the promise takes the status of the copy; the closure, and
   with it its reference to the alias, goes away.                          *)
CopyOver(t) ==
  /\ transfer[t].stage = "copying"
  /\ \E s \in Settled :
       /\ s = "ok" => transfer[t].copied = transfer[t].bytes
       /\ transfer' = [transfer EXCEPT ![t].stage = "over", ![t].promise = s]
  /\ UNCHANGED <<alias, producer, event, tail, memory>>

(* The runtime's transfer, which has the tail as its input, resolves as
   AsyncDevices has it: after its input, never hiding its failure.         *)
ModelledSettles(t) ==
  /\ t \in Submitted /\ transfer[t].modelled = "pending"
  /\ LET input == Completion(transfer[t].prev)
     IN  /\ input \in Settled
         /\ \E s \in {input, "error"} :
              transfer' = [transfer EXCEPT ![t].modelled = s]
  /\ UNCHANGED <<alias, producer, event, tail, memory>>

ProducerSettles ==
  /\ producer = "pending"
  /\ producer' \in Settled
  /\ UNCHANGED <<alias, event, tail, transfer, memory>>

EventSettles(e) ==
  /\ event[e] = "pending"
  /\ \E s \in Settled : event' = [event EXCEPT ![e] = s]
  /\ UNCHANGED <<alias, producer, tail, transfer, memory>>

Caller ==
  \/ \E a, b \in Aliases, offset, size \in Offsets : Slice(a, b, offset, size)
  \/ \E a \in Aliases : Drop(a)
  \/ \E t \in Transfers, a \in Aliases, h2d \in BOOLEAN,
        offset, size \in Offsets, needs \in SUBSET Events :
       Submit(t, a, h2d, offset, size, needs)

Progress(t) ==
  \/ RunWhenReady(t)
  \/ \E b \in AllBytes : CopyByte(t, b)
  \/ CopyOver(t)
  \/ ModelledSettles(t)

Next ==
  \/ Caller
  \/ \E t \in Transfers : Progress(t)
  \/ ProducerSettles
  \/ \E e \in Events : EventSettles(e)

Spec == Init /\ [][Next]_vars

(* Pool threads run what is ready, CPU copies and the runtime finish; callers
   and their events promise nothing.                                       *)
FairSpec ==
  /\ Spec
  /\ \A t \in Transfers : WF_vars(RunWhenReady(t) \/ \E b \in AllBytes : CopyByte(t, b))
                          /\ WF_vars(CopyOver(t)) /\ WF_vars(ModelledSettles(t))

----------------------------------------------------------------------------
(* Properties *)

(* Copies of one buffer never run at the same time, through whatever slices
   they were submitted.                                                    *)
OneCopyAtATime ==
  \A t, u \in Transfers :
    transfer[t].stage = "copying" /\ transfer[u].stage = "copying" => t = u

Writes(b) == {w \in Transfers : transfer[w].h2d /\ b \in transfer[w].bytes}

(* The last of the writes to b submitted before t, 0 if there is none.     *)
LastWrite(b, t) ==
  CHOOSE w \in {0} \cup Writes(b) :
    /\ w < t
    /\ \A v \in Writes(b) : v < t => v <= w

(* A download that succeeds returns, for each byte, what the last write to it
   submitted before wrote: no later write, no torn or stale value.         *)
ReadsLastWrite ==
  \A t \in Submitted :
    ~transfer[t].h2d /\ transfer[t].promise = "ok" /\ ~Placeholder =>
      \A b \in transfer[t].bytes : transfer[t].data[b] = LastWrite(b, t)

(* A transfer that succeeds was submitted behind transfers, a buffer and
   events that all succeeded.                                              *)
ErrorsReachAllLater ==
  \A t \in Submitted :
    Completion(t) = "ok" =>
      /\ \A u \in 0..(t - 1) : Completion(u) = "ok"
      /\ \A e \in transfer[t].needs : event[e] = "ok"

(* A failure is never followed by a write, whoever submitted it.           *)
NothingWrittenAfterFailure ==
  \A b \in AllBytes : memory[b] # 0 =>
    /\ \A u \in 0..(memory[b] - 1) : Completion(u) = "ok"
    /\ \A e \in transfer[memory[b]].needs : event[e] = "ok"

(* A transfer resolves once the buffer and the events named by it and by the
   transfers before it have: nothing else can hold it up.                  *)
TransfersResolve ==
  \A t \in Transfers :
    []( /\ t \in Submitted /\ producer \in Settled
        /\ \A u \in 1..t : \A e \in transfer[u].needs : event[e] \in Settled
        => <>(Completion(t) \in Settled))

(* The shared state, and with it the allocation, lives while an alias or a
   closure holds it.                                                       *)
AllocationHeld ==
  \/ \E a \in Aliases : alias[a].state = "held"
  \/ \E t \in Transfers : transfer[t].stage \in {"waiting", "copying"}

(* "Pending work retains its allocations"
   (docs/compilation-architecture.md:71).                                  *)
PendingTransfersKeepMemory ==
  \A t \in Submitted : Completion(t) = "pending" => AllocationHeld
============================================================================

--------------------------- MODULE DeviceApiProofs ---------------------------
(***************************************************************************)
(* Theorems about DeviceApi, for any devices, addresses, number of calls   *)
(* and of threads, sizes and capacity.                                     *)
(***************************************************************************)
EXTENDS DeviceApi, FiniteSetTheorems, FunctionTheorems, TLAPS

----------------------------------------------------------------------------
(* The inductive invariant.                                                *)

(* Steps after which a call has its output buffers, or would have them.    *)
Placed == {"enqueue", "associate", "keep", "done"}

(* The locals of each kind of call at each of its steps.                   *)
CallShape(c) ==
  /\ call[c].kind = "none" => call[c] = NoCall
  /\ call[c].kind \in {"h2d", "copy"} =>
       /\ \E d \in Devices :
            /\ call[c].nodes = {d}
            /\ call[c].memory = IF call[c].at = "create" THEN {<<c, d>>} ELSE {}
       /\ call[c].at \notin {"start", "unwrap", "reserve", "dispatch"}
       /\ call[c].donate = FALSE
  /\ call[c].kind = "h2d" => call[c].args = {} /\ call[c].at # "keep"
  /\ call[c].kind \in {"copy", "d2h"} => \E p \in Pointers : call[c].args = {p}
  /\ call[c].kind = "d2h" =>
       /\ call[c].at \in {"enqueue", "keep", "done"} /\ call[c].donate = FALSE
       /\ call[c].nodes = {Host} /\ call[c].memory = {}
  /\ call[c].kind = "execute" =>
       /\ call[c].at \notin {"start", "create", "dispatch", "keep"}
       /\ call[c].nodes \subseteq Devices
  /\ call[c].at \in Over => call[c].memory = {}
  /\ \A n \in Nodes :
       call[c].out[n] # None <=>
         call[c].at \in Placed /\ call[c].kind # "d2h" /\ n \in call[c].nodes

BufferShape ==
  \A p \in Pointers :
    /\ buffer[p].state # "live" => buffer[p].alloc = None
    /\ buffer[p].state # "free" => buffer[p].device \in Devices /\ buffer[p].origin \in Ids
    /\ buffer[p].state = "live" => buffer[p].alloc \in Allocations

(* A buffer that a call is still making belongs to that call alone.         *)
OutOwner ==
  \A c \in Active : \A n \in Nodes : call[c].out[n] # None =>
    LET p == call[c].out[n]
    IN  /\ buffer[p].state = "live" /\ p \notin destroying
        /\ buffer[p].device = n /\ buffer[p].origin = <<c, n>>
        /\ \A b \in Active : \A m \in Nodes : call[b].out[m] = p => b = c /\ m = n

(* A buffer given to a call stays where it is until the call is over.      *)
ArgShape ==
  \A c \in Active :
    /\ \A p \in call[c].args :
         /\ buffer[p].state # "free" /\ p \notin destroying
         /\ \A b \in Active : \A m \in Nodes : call[b].out[m] # p
    /\ call[c].need = {buffer[p].origin : p \in call[c].args}
    /\ call[c].kind = "execute" =>
         /\ call[c].nodes = {buffer[p].device : p \in call[c].args}
         /\ \A p, q \in call[c].args : buffer[p].device = buffer[q].device => p = q

(* An object that is being destroyed is still there.                       *)
DestroyShape == \A p \in destroying : buffer[p].state # "free"

ShapeInv ==
  /\ TypeOK /\ \A c \in Calls : CallShape(c)
  /\ BufferShape /\ OutOwner /\ ArgShape /\ DestroyShape

(* A buffer that doesn't have its producer yet.                            *)
Unassociated(p) ==
  \E c \in Active : call[c].at \in {"enqueue", "associate"} /\ \E n \in Nodes : call[c].out[n] = p

RegistryInv ==
  \A p \in Pointers :
    buffer[p].state # "free" /\ p \notin destroying /\ ~Unassociated(p) =>
      /\ registry[p].producer = buffer[p].origin
      /\ registry[p].ready => status[buffer[p].origin] = "ok"

(* What a call was made from is among what its results wait for, or has
   succeeded already.                                                      *)
NeedsInv ==
  /\ Runtime!Lawful(status, before)
  /\ \A c \in Calls : \A n \in Nodes :
       status[<<c, n>>] # "new" => call[c].at \in {"associate", "keep", "done"}
  /\ \A c \in Calls : call[c].at \in {"associate", "keep", "done"} => IdsOf(c) \subseteq Runtime!Issued
  /\ \A c \in Active : call[c].kind = "execute" =>
       \A j \in call[c].need : j \in call[c].deps \/ status[j] = "ok"
  /\ \A c \in Calls : \A id \in IdsOf(c) \cap Runtime!Issued : \A j \in call[c].need :
       j \in before[id] \/ status[j] = "ok"

(* Allocations: what is shared exists, and no two buffers share one.       *)
SharedInv ==
  /\ Referenced \subseteq Budget!Live
  /\ \A p \in Pointers : buffer[p].state = "live" =>
       /\ buffer[p].alloc[2] = buffer[p].device
       /\ call[buffer[p].alloc[1]].at \in Placed
  /\ \A p, q \in Pointers :
       buffer[p].state = "live" /\ buffer[q].state = "live" /\ buffer[p].alloc = buffer[q].alloc
         => p = q
  /\ \A h \in holds : h[2] \subseteq Runtime!Issued /\ \E id \in h[2] : ~Done(id)

(* The budget counts Size for each allocation of a device.                 *)
LiveOn(d) == {a \in Budget!Live : a[2] = d}

CountInv ==
  /\ usage \in [Devices -> [used : Int, peak : Int, allocations : Int]]
  /\ live \in [Allocations -> {Budget!Unmade, Budget!Freed}
                             \cup {[device |-> d, bytes |-> Size] : d \in Devices}]
  /\ \A a \in Budget!Live : live[a] = [device |-> a[2], bytes |-> Size]
  /\ \A d \in Devices : usage[d].used = Size * Cardinality(LiveOn(d))

(* What keeps the memory of a result in flight: a callback, or the call that
   will give it to one.                                                    *)
Held(a, id) == \E h \in holds : h[1] = a /\ id \in h[2]

HeldByCall(a, c, n) ==
  /\ c \in Active /\ n \in call[c].nodes
  /\ \/ /\ call[c].at \in {"enqueue", "associate"}
        /\ \/ call[c].kind # "d2h" /\ buffer[call[c].out[n]].alloc = a
           \/ call[c].kind = "execute" /\ a \in call[c].memory
     \/ /\ call[c].kind \in {"copy", "d2h"} /\ call[c].at \in Placed
        /\ \E p \in call[c].args : buffer[p].alloc = a

PinnedInv ==
  /\ \A u \in uses :
       /\ call[u[2][1]].at \in Placed
       /\ ~Done(u[2]) => Held(u[1], u[2]) \/ HeldByCall(u[1], u[2][1], u[2][2])
  /\ \A c \in Active : call[c].kind = "execute" /\ call[c].at \in {"unwrap", "reserve"} =>
       \A p \in call[c].args : buffer[p].state = "live" => buffer[p].alloc \in call[c].memory
  /\ ~RevokeInUse => \A b, c \in Active : \A p \in call[b].args \cap call[c].args :
       call[b].donate => b = c

(* A run's calls are of the kinds it explores.                              *)
KindsInv == \A c \in Calls : call[c].kind \in Kinds \cup {"none"}

ApiInv ==
  ShapeInv /\ RegistryInv /\ NeedsInv /\ SharedInv /\ CountInv /\ KindsInv
----------------------------------------------------------------------------
(* What the model's notions say of identifiers and of what is in progress.  *)

LEMMA IdFacts ==
  /\ \A c \in Calls, n \in Nodes : <<c, n>> \in Ids /\ <<c, n>>[1] = c /\ <<c, n>>[2] = n
  /\ \A id \in Ids : id[1] \in Calls /\ id[2] \in Nodes /\ id = <<id[1], id[2]>> /\ id # None
  /\ \A c \in Calls, d \in Devices : <<c, d>> \in Allocations
  /\ \A a \in Allocations : a[1] \in Calls /\ a[2] \in Devices /\ a = <<a[1], a[2]>> /\ a # None
  /\ Devices \subseteq Nodes /\ Host \in Nodes /\ None \notin Pointers
  /\ Runtime!Ids = Ids
  BY ApiAssumption DEF Ids, Allocations, Nodes, None, Runtime!Ids

LEMMA ActiveFacts ==
  \A c \in Calls : c \in Active <=> call[c].kind # "none" /\ call[c].at \notin Over
  BY DEF Active

----------------------------------------------------------------------------
(* What the steps of a call do to its record.                              *)
CallRecord ==
  [kind : {"none", "h2d", "copy", "d2h", "execute"}, at : Steps \cup Over,
   nodes : SUBSET Nodes, args : SUBSET Pointers, need : SUBSET Ids,
   deps : SUBSET Ids, memory : SUBSET Allocations, donate : BOOLEAN,
   out : [Nodes -> Pointers \cup {None}]]

(* Call c goes on with the operands it was given; other calls don't move.  *)
Continues(c) ==
  /\ call'[c].kind = call[c].kind /\ call'[c].nodes = call[c].nodes
  /\ call'[c].args = call[c].args /\ call'[c].need = call[c].need
  /\ call'[c].deps = call[c].deps /\ call'[c].donate = call[c].donate
  /\ \A b \in Calls \ {c} : call'[b] = call[b]

LEMMA GoesToEffect ==
  ASSUME TypeOK, NEW c \in Calls, NEW s \in Steps \cup Over, GoesTo(c, s)
  PROVE  /\ call' \in [Calls -> CallRecord] /\ Continues(c)
         /\ call'[c].at = s /\ call'[c].memory = call[c].memory /\ call'[c].out = call[c].out
<1>1. call \in [Calls -> CallRecord]
  BY DEF TypeOK, CallRecord
<1>2. call' = [call EXCEPT ![c] = [call[c] EXCEPT !.at = s]]
  BY DEF GoesTo
<1>3. [call[c] EXCEPT !.at = s] \in CallRecord
  BY <1>1 DEF CallRecord
<1> QED BY <1>1, <1>2, <1>3 DEF Continues, CallRecord

LEMMA FailsWithEffect ==
  ASSUME TypeOK, NEW c \in Calls, NEW s \in Over, FailsWith(c, s)
  PROVE  /\ call' \in [Calls -> CallRecord] /\ Continues(c)
         /\ call'[c].at = s /\ call'[c].memory = {} /\ call'[c].out = call[c].out
<1>1. call \in [Calls -> CallRecord]
  BY DEF TypeOK, CallRecord
<1>2. call' = [call EXCEPT ![c] = [call[c] EXCEPT !.at = s, !.memory = {}]]
  BY <1>1 DEF FailsWith
<1>3. [call[c] EXCEPT !.at = s, !.memory = {}] \in CallRecord
  BY <1>1 DEF CallRecord
<1> QED BY <1>1, <1>2, <1>3 DEF Continues, CallRecord

----------------------------------------------------------------------------
(* The steps of a call, by what they do.                                   *)

(* The budget is left alone, or grants one allocation of call c.           *)
MayAllocate(c) ==
  UNCHANGED memoryVars \/ \E d \in Devices : Budget!Allocate(<<c, d>>, d, Size)

(* Call c begins: its operands are buffers that callers can see.           *)
Begins(c) ==
  LET new == call'[c]
  IN  /\ call[c] = NoCall /\ \A b \in Calls \ {c} : call'[b] = call[b]
      /\ CallShape(c)'
      /\ new.kind \in Kinds /\ new.kind # "none"
      /\ new.at \in {"create", "oom", "unwrap", "enqueue"}
      /\ new.at = "enqueue" <=> new.kind = "d2h"
      /\ new.at = "unwrap" <=> new.kind = "execute"
      /\ \A p \in new.args : Usable(p) /\ (new.kind # "execute" => buffer[p].state = "live")
      /\ new.need = {buffer[p].origin : p \in new.args}
      /\ new.donate => \A p \in new.args : RevokeInUse \/ ~InUse(p)
      /\ new.kind = "execute" =>
           /\ new.nodes = {buffer[p].device : p \in new.args}
           /\ \A p, q \in new.args : buffer[p].device = buffer[q].device => p = q
           /\ \A p \in new.args : ReadyNow(p) \/ Producer(p) \subseteq new.deps
           /\ \A p \in new.args : AllocationOf(p) \subseteq new.memory
      /\ \A p \in Pointers :
           /\ registry'[p].producer = registry[p].producer
           /\ registry'[p].ready => registry[p].ready \/ (p \in new.args /\ ReadyNow(p))
      /\ \A id \in Ids : cpu'[id] = cpu[id] \/ (cpu'[id] = "pending" /\ id = <<c, Host>>)
      /\ \A u \in uses' \ uses :
           /\ u[2] = <<c, Host>> /\ new.kind = "d2h"
           /\ \E p \in new.args : u[1] = buffer[p].alloc
      /\ MayAllocate(c) /\ \A a \in new.memory : a \in Referenced \/ Budget!Allocate(a, a[2], Size)
      /\ UNCHANGED <<buffer, destroying, holds, runtimeVars>>

(* Call c goes on or fails before it has results.                          *)
Stays(c) ==
  /\ c \in Active /\ call[c].at \notin Placed
  /\ Continues(c) /\ CallShape(c)' /\ call'[c].out = call[c].out
  /\ call'[c].at \in {"reserve", "oom", "error"}
  /\ call'[c].at = "reserve" =>
       call[c].kind = "execute" /\ call[c].memory \subseteq call'[c].memory
  /\ MayAllocate(c) /\ \A a \in call'[c].memory : a \in call[c].memory \/ Budget!Allocate(a, a[2], Size)
  /\ UNCHANGED <<buffer, registry, destroying, cpu, uses, holds, runtimeVars>>

(* Call c gets its output buffers; donated inputs are deleted.             *)
Places(c) ==
  LET out == call'[c].out
      nodes == call[c].nodes
      args == call[c].args
  IN  /\ c \in Active /\ call[c].at \notin Placed /\ call[c].kind # "d2h"
      /\ Continues(c) /\ CallShape(c)' /\ call'[c].at = "enqueue"
      /\ call'[c].memory = call[c].memory \ ({c} \X nodes)
      /\ \A p \in args : buffer[p].state = "live"
      /\ \A n \in nodes :
           /\ out[n] \in Pointers /\ buffer[out[n]].state = "free"
           /\ buffer'[out[n]].state = "live" /\ buffer'[out[n]].device = n
           /\ buffer'[out[n]].origin = <<c, n>>
           /\ \/ buffer'[out[n]].alloc = <<c, n>> /\ <<c, n>> \in call[c].memory
              \/ /\ call[c].donate
                 /\ \E p \in args : buffer[p].device = n /\ buffer'[out[n]].alloc = buffer[p].alloc
      /\ \A n \in Nodes \ nodes : out[n] = None
      /\ \A m, n \in nodes : out[m] = out[n] => m = n
      /\ \A q \in Pointers : (\A n \in nodes : out[n] # q) =>
           \/ ~(call[c].donate /\ q \in args) /\ buffer'[q] = buffer[q]
           \/ /\ call[c].donate /\ q \in args
              /\ buffer'[q].state = "deleted" /\ buffer'[q].alloc = None
              /\ buffer'[q].device = buffer[q].device /\ buffer'[q].origin = buffer[q].origin
      /\ \A id \in Ids : cpu'[id] = cpu[id] \/ (cpu'[id] = "pending" /\ id \in IdsOf(c))
      /\ \A u \in uses' \ uses : \E n \in nodes :
           /\ u[2] = <<c, n>>
           /\ u[1] = buffer'[out[n]].alloc \/ \E p \in args : u[1] = buffer[p].alloc
      /\ UNCHANGED <<registry, destroying, holds, memoryVars, runtimeVars>>

(* Call c gives its work to the runtime.                                   *)
Issues(c) ==
  /\ c \in Active /\ call[c].at = "enqueue"
  /\ Continues(c) /\ CallShape(c)'
  /\ call'[c].out = call[c].out /\ call'[c].memory = call[c].memory
  /\ call'[c].at \in {"associate", "keep"} /\ (call'[c].at = "keep" <=> call[c].kind = "d2h")
  /\ \E ins \in SUBSET Ids, inOrder \in BOOLEAN :
       /\ Runtime!Issue(c, call[c].nodes, ins, inOrder)
       /\ call[c].kind = "execute" => ins = call[c].deps
       /\ call[c].kind # "execute" => \A p \in call[c].args : Producer(p) \subseteq ins
  /\ UNCHANGED <<buffer, registry, destroying, cpu, uses, holds, memoryVars>>

(* The outputs of call c get their producers, and what it uses is kept.    *)
Associates(c) ==
  /\ c \in Active /\ call[c].at = "associate" /\ call[c].kind # "d2h"
  /\ Continues(c) /\ CallShape(c)' /\ call'[c].out = call[c].out
  /\ call'[c].at = IF call[c].kind = "copy" THEN "keep" ELSE "done"
  /\ call'[c].memory = {}
  /\ \A p \in Pointers : (\A n \in call[c].nodes : call[c].out[n] # p) => registry'[p] = registry[p]
  /\ \A n \in call[c].nodes :
       registry'[call[c].out[n]] = [tracked |-> TRUE, producer |-> <<c, n>>, ready |-> FALSE]
  /\ \E new \in SUBSET (Allocations \X SUBSET IdsOf(c)) :
       /\ holds' = Pending(holds \cup new)
       /\ \A h \in new : h[1] \in Referenced
       /\ \A n \in call[c].nodes : <<buffer[call[c].out[n]].alloc, {<<c, n>>}>> \in new
       /\ \A a \in call[c].memory : <<a, IdsOf(c)>> \in new
  /\ UNCHANGED <<buffer, destroying, cpu, uses, memoryVars, runtimeVars>>

(* Call c keeps what it read from, and is over.                            *)
Keeps(c) ==
  /\ c \in Active /\ call[c].at = "keep" /\ call[c].kind \in {"copy", "d2h"}
  /\ Continues(c) /\ CallShape(c)'
  /\ call'[c].out = call[c].out /\ call'[c].memory = call[c].memory
  /\ call'[c].at = "done"
  /\ \E p \in call[c].args :
       /\ call[c].args = {p}
       /\ holds' = Pending(holds \cup KeepAllocation(p, IdsOf(c)))
  /\ UNCHANGED <<buffer, registry, destroying, cpu, uses, memoryVars, runtimeVars>>

----------------------------------------------------------------------------
(* Each action of a call is one of these steps, and keeps the types.       *)

BufferRecord ==
  [state : {"free", "live", "deleted"}, device : Devices \cup {None},
   alloc : Allocations \cup {None}, origin : Ids \cup {None}]

RegistryRecord == [tracked : BOOLEAN, producer : Ids \cup {None}, ready : BOOLEAN]

LEMMA Typing ==
  TypeOK <=>
    /\ call \in [Calls -> CallRecord] /\ buffer \in [Pointers -> BufferRecord]
    /\ registry \in [Pointers -> RegistryRecord] /\ destroying \subseteq Pointers
    /\ cpu \in [Ids -> {"none", "pending", "done"}]
    /\ uses \subseteq Allocations \X Ids /\ holds \subseteq Allocations \X SUBSET Ids
    /\ Runtime!TypeOK
    /\ \A p \in Pointers : registry[p].producer \in Runtime!Issued \cup {None}
  BY DEF TypeOK, CallRecord, BufferRecord, RegistryRecord

LEMMA TypesKept ==
  ASSUME TypeOK, call' \in [Calls -> CallRecord], buffer' \in [Pointers -> BufferRecord],
         registry' \in [Pointers -> RegistryRecord], destroying' \subseteq Pointers,
         cpu' \in [Ids -> {"none", "pending", "done"}],
         uses' \subseteq Allocations \X Ids, holds' \subseteq Allocations \X SUBSET Ids,
         UNCHANGED runtimeVars,
         \A p \in Pointers : registry'[p].producer \in Runtime!Issued \cup {None}
  PROVE  TypeOK'
<1>1. Runtime!TypeOK' /\ Runtime!Issued' = Runtime!Issued
  BY DEF TypeOK, Runtime!TypeOK, runtimeVars, Runtime!Issued
<1> QED BY <1>1 DEF TypeOK, CallRecord, BufferRecord, RegistryRecord

(* The record of an upload, a copy or a download that begins.              *)
Fresh(r, kind, at, nodes, args, need, memory) ==
  /\ r.kind = kind /\ r.at = at /\ r.nodes = nodes /\ r.args = args /\ r.need = need
  /\ r.deps = {} /\ r.memory = memory /\ r.donate = FALSE /\ r.out = [n \in Nodes |-> None]
  /\ r \in CallRecord

LEMMA FreshBase ==
  ASSUME NEW kind \in {"h2d", "copy", "d2h"}, NEW nodes \in SUBSET Nodes,
         NEW args \in SUBSET Pointers, NEW need \in SUBSET Ids, NEW base
  PROVE  /\ base = [NoCall EXCEPT !.kind = kind, !.nodes = nodes, !.args = args, !.need = need]
              => Fresh(base, kind, "start", nodes, args, need, {})
         /\ base = [NoCall EXCEPT !.kind = kind, !.at = "enqueue", !.nodes = nodes, !.args = args,
                                  !.need = need]
              => Fresh(base, kind, "enqueue", nodes, args, need, {})
         /\ base = [NoCall EXCEPT !.kind = kind, !.nodes = nodes]
              => Fresh(base, kind, "start", nodes, {}, {}, {})
<1>1. {"start", "enqueue"} \subseteq Steps \cup Over /\ {} \in SUBSET Allocations
      /\ {} \in SUBSET Pointers /\ {} \in SUBSET Ids
  BY DEF Steps, Over
<1>2. ASSUME base = [NoCall EXCEPT !.kind = kind, !.nodes = nodes, !.args = args, !.need = need]
      PROVE  Fresh(base, kind, "start", nodes, args, need, {})
  BY <1>1, <1>2 DEF NoCall, Fresh, CallRecord
<1>3. ASSUME base = [NoCall EXCEPT !.kind = kind, !.at = "enqueue", !.nodes = nodes, !.args = args,
                                   !.need = need]
      PROVE  Fresh(base, kind, "enqueue", nodes, args, need, {})
  BY <1>1, <1>3 DEF NoCall, Fresh, CallRecord
<1>4. ASSUME base = [NoCall EXCEPT !.kind = kind, !.nodes = nodes]
      PROVE  Fresh(base, kind, "start", nodes, {}, {}, {})
  BY <1>1, <1>4 DEF NoCall, Fresh, CallRecord
<1> QED BY <1>2, <1>3, <1>4

(* VirtualFromHost and CopyToDevice: granted or refused.                    *)
LEMMA FreshReserved ==
  ASSUME NEW kind, NEW nodes, NEW args, NEW need, NEW memory \in SUBSET Allocations, NEW base,
         Fresh(base, kind, "start", nodes, args, need, {}), NEW granted, NEW refused,
         granted = [base EXCEPT !.at = "create", !.memory = memory],
         refused = [base EXCEPT !.at = "oom"]
  PROVE  /\ Fresh(granted, kind, "create", nodes, args, need, memory)
         /\ Fresh(refused, kind, "oom", nodes, args, need, {})
<1>1. {"create", "oom"} \subseteq Steps \cup Over
  BY DEF Steps, Over
<1> QED BY <1>1 DEF Fresh, CallRecord

LEMMA StartH2DBegins ==
  ASSUME ShapeInv, NEW c \in Calls, NEW d \in Devices, StartH2D(c, d)
  PROVE  Begins(c) /\ TypeOK'
<1>1. /\ call \in [Calls -> CallRecord] /\ call[c] = NoCall
      /\ UNCHANGED <<buffer, registry, destroying, cpu, uses, holds, runtimeVars>>
  BY Typing DEF ShapeInv, StartH2D, MayStart, CallShape
<1>2. PICK at \in {"create", "oom"}, new \in CallRecord :
        /\ call' = [call EXCEPT ![c] = new]
        /\ Fresh(new, "h2d", at, {d}, {}, {}, IF at = "create" THEN {<<c, d>>} ELSE {})
        /\ at = "create" => Budget!Allocate(<<c, d>>, d, Size)
        /\ at = "oom" => UNCHANGED memoryVars
  <2> DEFINE base == [NoCall EXCEPT !.kind = "h2d", !.nodes = {d}]
         granted == [base EXCEPT !.at = "create", !.memory = {<<c, d>>}]
         refused == [base EXCEPT !.at = "oom"]
  <2>1. \/ Budget!Allocate(<<c, d>>, d, Size) /\ call' = [call EXCEPT ![c] = granted]
        \/ UNCHANGED memoryVars /\ call' = [call EXCEPT ![c] = refused]
    BY Zenon DEF StartH2D
  <2>2. base = [NoCall EXCEPT !.kind = "h2d", !.nodes = {d}] /\ {d} \in SUBSET Nodes
    BY IdFacts
  <2> HIDE DEF base
  <2>3. Fresh(base, "h2d", "start", {d}, {}, {}, {})
    BY <2>2, FreshBase
  <2>4. granted = [base EXCEPT !.at = "create", !.memory = {<<c, d>>}]
        /\ refused = [base EXCEPT !.at = "oom"]
    OBVIOUS
  <2> HIDE DEF granted, refused
  <2>5. {<<c, d>>} \in SUBSET Allocations
    BY IdFacts
  <2>6. /\ Fresh(granted, "h2d", "create", {d}, {}, {}, {<<c, d>>})
        /\ Fresh(refused, "h2d", "oom", {d}, {}, {}, {})
    BY <2>3, <2>4, <2>5, FreshReserved
  <2>7. granted \in CallRecord /\ refused \in CallRecord
    BY <2>6 DEF Fresh
  <2> QED BY <2>1, <2>6, <2>7
<1> DEFINE memory == IF at = "create" THEN {<<c, d>>} ELSE {}
<1>3. /\ new.kind = "h2d" /\ new.at = at /\ new.nodes = {d} /\ new.args = {}
      /\ new.need = {} /\ new.memory = memory /\ new.donate = FALSE
      /\ new.out = [n \in Nodes |-> None]
  BY <1>2 DEF Fresh
<1>4. call'[c] = new /\ (\A b \in Calls \ {c} : call'[b] = call[b]) /\ call' \in [Calls -> CallRecord]
  BY <1>1, <1>2
<1>5. CallShape(c)'
  BY <1>3, <1>4 DEF CallShape, Placed, Over
<1>6. MayAllocate(c) /\ \A a \in new.memory : Budget!Allocate(a, a[2], Size)
  BY <1>2, <1>3 DEF MayAllocate
<1>7. Begins(c)
  BY <1>1, <1>3, <1>4, <1>5, <1>6 DEF Begins, StartH2D, MayStart
<1>8. TypeOK'
  BY <1>1, <1>4, Typing, TypesKept DEF ShapeInv
<1> QED BY <1>7, <1>8

LEMMA StartCopyBegins ==
  ASSUME ShapeInv, NEW c \in Calls, NEW p \in Pointers, NEW d \in Devices, StartCopy(c, p, d)
  PROVE  Begins(c) /\ TypeOK'
<1>1. /\ call \in [Calls -> CallRecord] /\ call[c] = NoCall
      /\ UNCHANGED <<buffer, registry, destroying, cpu, uses, holds, runtimeVars>>
      /\ Usable(p) /\ buffer[p].state = "live" /\ buffer[p].origin \in Ids
  BY Typing DEF ShapeInv, StartCopy, MayStart, CallShape, BufferShape
<1> DEFINE need == {buffer[p].origin}
<1>2. PICK at \in {"create", "oom"}, new \in CallRecord :
        /\ call' = [call EXCEPT ![c] = new]
        /\ Fresh(new, "copy", at, {d}, {p}, need, IF at = "create" THEN {<<c, d>>} ELSE {})
        /\ at = "create" => Budget!Allocate(<<c, d>>, d, Size)
        /\ at = "oom" => UNCHANGED memoryVars
  <2> DEFINE base == [NoCall EXCEPT !.kind = "copy", !.nodes = {d}, !.args = {p}, !.need = need]
         granted == [base EXCEPT !.at = "create", !.memory = {<<c, d>>}]
         refused == [base EXCEPT !.at = "oom"]
  <2>1. \/ Budget!Allocate(<<c, d>>, d, Size) /\ call' = [call EXCEPT ![c] = granted]
        \/ UNCHANGED memoryVars /\ call' = [call EXCEPT ![c] = refused]
    BY Zenon DEF StartCopy
  <2>2. base = [NoCall EXCEPT !.kind = "copy", !.nodes = {d}, !.args = {p}, !.need = need]
        /\ {d} \in SUBSET Nodes /\ {p} \in SUBSET Pointers /\ need \in SUBSET Ids
    BY <1>1, IdFacts
  <2> HIDE DEF base, need
  <2>3. Fresh(base, "copy", "start", {d}, {p}, need, {})
    BY <2>2, FreshBase
  <2>4. granted = [base EXCEPT !.at = "create", !.memory = {<<c, d>>}]
        /\ refused = [base EXCEPT !.at = "oom"]
    OBVIOUS
  <2> HIDE DEF granted, refused
  <2>5. {<<c, d>>} \in SUBSET Allocations
    BY IdFacts
  <2>6. /\ Fresh(granted, "copy", "create", {d}, {p}, need, {<<c, d>>})
        /\ Fresh(refused, "copy", "oom", {d}, {p}, need, {})
    BY <2>3, <2>4, <2>5, FreshReserved
  <2>7. granted \in CallRecord /\ refused \in CallRecord
    BY <2>6 DEF Fresh
  <2> QED BY <2>1, <2>6, <2>7
<1> DEFINE memory == IF at = "create" THEN {<<c, d>>} ELSE {}
<1>3. /\ new.kind = "copy" /\ new.at = at /\ new.nodes = {d} /\ new.args = {p}
      /\ new.need = need /\ new.memory = memory /\ new.donate = FALSE
      /\ new.out = [n \in Nodes |-> None]
  BY <1>2 DEF Fresh
<1>4. call'[c] = new /\ (\A b \in Calls \ {c} : call'[b] = call[b]) /\ call' \in [Calls -> CallRecord]
  BY <1>1, <1>2
<1>5. CallShape(c)'
  BY <1>3, <1>4 DEF CallShape, Placed, Over
<1>6. MayAllocate(c) /\ \A a \in new.memory : Budget!Allocate(a, a[2], Size)
  BY <1>2, <1>3 DEF MayAllocate
<1>7. Begins(c)
  BY <1>1, <1>3, <1>4, <1>5, <1>6 DEF Begins, StartCopy, MayStart
<1>8. TypeOK'
  BY <1>1, <1>4, Typing, TypesKept DEF ShapeInv
<1> QED BY <1>7, <1>8

(* ToHost and RawToHost.                                                   *)
LEMMA StartD2HBegins ==
  ASSUME ShapeInv, NEW c \in Calls, NEW p \in Pointers, StartD2H(c, p)
  PROVE  Begins(c) /\ TypeOK'
<1> DEFINE need == {buffer[p].origin}
           new == [NoCall EXCEPT !.kind = "d2h", !.at = "enqueue", !.nodes = {Host},
                                 !.args = {p}, !.need = need]
<1>1. /\ call \in [Calls -> CallRecord] /\ call[c] = NoCall
      /\ UNCHANGED <<buffer, registry, destroying, holds, memoryVars, runtimeVars>>
      /\ Usable(p) /\ buffer[p].state = "live" /\ buffer[p].origin \in Ids
      /\ buffer[p].alloc \in Allocations
  BY Typing DEF ShapeInv, StartD2H, MayStart, CallShape, BufferShape
<1>2. /\ call' = [call EXCEPT ![c] = new]
      /\ cpu' = [cpu EXCEPT ![<<c, Host>>] = "pending"]
      /\ uses' = uses \cup {<<buffer[p].alloc, <<c, Host>>>>}
  BY Zenon DEF StartD2H
<1>3. new = [NoCall EXCEPT !.kind = "d2h", !.at = "enqueue", !.nodes = {Host},
                           !.args = {p}, !.need = need]
      /\ {Host} \in SUBSET Nodes /\ {p} \in SUBSET Pointers /\ need \in SUBSET Ids
  BY <1>1, IdFacts
<1> HIDE DEF new
<1>4. Fresh(new, "d2h", "enqueue", {Host}, {p}, need, {})
  <2> HIDE DEF need
  <2> QED BY <1>3, FreshBase
<1>5. /\ new.kind = "d2h" /\ new.at = "enqueue" /\ new.nodes = {Host} /\ new.args = {p}
      /\ new.need = need /\ new.memory = {} /\ new.donate = FALSE
      /\ new.out = [n \in Nodes |-> None] /\ new \in CallRecord
  BY <1>4 DEF Fresh
<1>6. call'[c] = new /\ (\A b \in Calls \ {c} : call'[b] = call[b]) /\ call' \in [Calls -> CallRecord]
  BY <1>1, <1>2, <1>5
<1>7. CallShape(c)'
  BY <1>5, <1>6 DEF CallShape, Placed, Over
<1>8. /\ <<c, Host>> \in Ids /\ cpu' \in [Ids -> {"none", "pending", "done"}]
      /\ \A id \in Ids : cpu'[id] = cpu[id] \/ (cpu'[id] = "pending" /\ id = <<c, Host>>)
      /\ uses' \subseteq Allocations \X Ids
  BY <1>1, <1>2, IdFacts, Typing DEF ShapeInv
<1>9. Begins(c)
  <2>1. /\ \A u \in uses' \ uses : u[2] = <<c, Host>> /\ u[1] = buffer[p].alloc
        /\ "d2h" \in Kinds
        /\ \A q \in Pointers : registry'[q] = registry[q]
    BY <1>1, <1>2 DEF StartD2H, MayStart
  <2> HIDE DEF need
  <2>2. call'[c].need = {buffer[q].origin : q \in call'[c].args}
    BY <1>5, <1>6 DEF need
  <2> QED BY <1>1, <1>5, <1>6, <1>7, <1>8, <2>1, <2>2 DEF Begins, MayAllocate
<1>10. TypeOK'
  BY <1>1, <1>6, <1>8, Typing, TypesKept DEF ShapeInv
<1> QED BY <1>9, <1>10

(* Execute: the snapshot of the inputs.                                    *)
LEMMA StartExecuteBegins ==
  ASSUME ShapeInv, NEW c \in Calls, NEW args \in SUBSET Pointers, NEW donate \in BOOLEAN,
         StartExecute(c, args, donate)
  PROVE  Begins(c) /\ TypeOK'
<1> DEFINE nodes == {buffer[p].device : p \in args}
           need == {buffer[p].origin : p \in args}
           deps == UNION {Producer(p) : p \in {q \in args : ~ReadyNow(q)}}
           memory == UNION {AllocationOf(p) : p \in args}
           new == [NoCall EXCEPT !.kind = "execute", !.at = "unwrap", !.nodes = nodes,
                    !.args = args, !.need = need, !.deps = deps, !.memory = memory,
                    !.donate = donate]
<1>1. /\ call \in [Calls -> CallRecord] /\ call[c] = NoCall
      /\ UNCHANGED <<buffer, destroying, cpu, uses, holds, memoryVars, runtimeVars>>
      /\ \A p \in args : Usable(p)
      /\ donate => \A p \in args : RevokeInUse \/ ~InUse(p)
      /\ \A p, q \in args : buffer[p].device = buffer[q].device => p = q
      /\ "execute" \in Kinds
  BY Typing DEF ShapeInv, StartExecute, MayStart, CallShape
<1>2. /\ nodes \in SUBSET Devices /\ nodes \in SUBSET Nodes /\ need \in SUBSET Ids
      /\ deps \in SUBSET Ids /\ memory \in SUBSET Allocations
  <2>1. \A p \in args : buffer[p].device \in Devices /\ buffer[p].origin \in Ids
    BY <1>1 DEF ShapeInv, BufferShape, Usable, Visible
  <2>2. \A p \in args : Producer(p) \subseteq Ids /\ AllocationOf(p) \subseteq Allocations
    BY Typing DEF ShapeInv, Producer, AllocationOf, BufferRecord, RegistryRecord
  <2> QED BY <2>1, <2>2, IdFacts
<1>3. /\ call' = [call EXCEPT ![c] = new]
      /\ registry' = [p \in Pointers |->
           IF p \in args THEN [registry[p] EXCEPT !.tracked = TRUE, !.ready = ReadyNow(p)]
                         ELSE registry[p]]
  BY Zenon DEF StartExecute
<1>4. new = [NoCall EXCEPT !.kind = "execute", !.at = "unwrap", !.nodes = nodes,
               !.args = args, !.need = need, !.deps = deps, !.memory = memory,
               !.donate = donate]
  OBVIOUS
<1>5. /\ new.kind = "execute" /\ new.at = "unwrap" /\ new.nodes = nodes /\ new.args = args
      /\ new.need = need /\ new.deps = deps /\ new.memory = memory /\ new.donate = donate
      /\ new.out = [n \in Nodes |-> None] /\ new \in CallRecord
  <2>1. "unwrap" \in Steps \cup Over
    BY DEF Steps
  <2> HIDE DEF new, nodes, need, deps, memory
  <2> QED BY <1>2, <1>4, <2>1 DEF NoCall, CallRecord
<1> HIDE DEF new
<1>6. call'[c] = new /\ (\A b \in Calls \ {c} : call'[b] = call[b]) /\ call' \in [Calls -> CallRecord]
  BY <1>1, <1>3, <1>5
<1>7. CallShape(c)'
  <2> HIDE DEF nodes, need, deps, memory
  <2> QED BY <1>2, <1>5, <1>6 DEF CallShape, Placed, Over
<1>8. /\ registry' \in [Pointers -> RegistryRecord]
      /\ \A p \in Pointers :
           /\ registry'[p].producer = registry[p].producer
           /\ registry'[p].ready => registry[p].ready \/ (p \in args /\ ReadyNow(p))
  <2>1. \A p \in Pointers : registry[p] \in RegistryRecord /\ ReadyNow(p) \in BOOLEAN
    BY Typing DEF ShapeInv, RegistryRecord, ReadyNow
  <2> QED BY <1>3, <2>1 DEF RegistryRecord
<1>9. /\ \A p \in args : ReadyNow(p) \/ Producer(p) \subseteq deps
      /\ \A p \in args : AllocationOf(p) \subseteq memory
  OBVIOUS
<1>10. \A a \in memory : a \in Referenced
  <2>1. \A p \in args : AllocationOf(p) \subseteq Referenced
    BY DEF AllocationOf, Referenced
  <2> QED BY <2>1
<1>11. Begins(c)
  <2> HIDE DEF deps, memory
  <2> QED BY <1>1, <1>5, <1>6, <1>7, <1>8, <1>9, <1>10 DEF Begins, MayAllocate
<1>12. TypeOK'
  BY <1>1, <1>6, <1>8, Typing, TypesKept DEF ShapeInv
<1> QED BY <1>11, <1>12

(* A call that ends in an error before it has results.                     *)
LEMMA FailureStays ==
  ASSUME ShapeInv, NEW c \in Calls, call[c].kind # "none",
         call[c].at \in {"create", "unwrap", "reserve"},
         NEW s \in {"oom", "error"}, FailsWith(c, s),
         UNCHANGED <<buffer, registry, destroying, cpu, uses, holds, memoryVars, runtimeVars>>
  PROVE  Stays(c) /\ TypeOK'
<1>1. c \in Active /\ call[c].at \notin Placed /\ CallShape(c) /\ TypeOK
  BY DEF ShapeInv, Active, Over, Placed
<1>2. /\ call' \in [Calls -> CallRecord] /\ Continues(c)
      /\ call'[c].at = s /\ call'[c].memory = {} /\ call'[c].out = call[c].out
  BY <1>1, FailsWithEffect DEF Over
<1>3. CallShape(c)'
  BY <1>1, <1>2 DEF CallShape, Placed, Over, Continues
<1>4. TypeOK'
  BY <1>1, <1>2, Typing, TypesKept
<1> QED BY <1>1, <1>2, <1>3, <1>4 DEF Stays, MayAllocate

LEMMA UnwrapStays ==
  ASSUME ShapeInv, NEW c \in Calls, Unwrap(c)
  PROVE  Stays(c) /\ TypeOK'
<1>1. /\ call[c].kind = "execute" /\ call[c].at = "unwrap" /\ CallShape(c) /\ TypeOK
      /\ UNCHANGED <<buffer, registry, destroying, cpu, uses, holds, memoryVars, runtimeVars>>
  BY DEF ShapeInv, Unwrap, At
<1>2. CASE FailsWith(c, "error")
  BY <1>1, <1>2, FailureStays
<1>3. CASE GoesTo(c, "reserve")
  <2>1. /\ call' \in [Calls -> CallRecord] /\ Continues(c)
        /\ call'[c].at = "reserve" /\ call'[c].memory = call[c].memory
        /\ call'[c].out = call[c].out
    BY <1>1, <1>3, GoesToEffect DEF Steps
  <2>2. c \in Active /\ call[c].at \notin Placed
    BY <1>1 DEF Active, Over, Placed
  <2>3. CallShape(c)'
    BY <1>1, <2>1 DEF CallShape, Placed, Over, Continues
  <2>4. TypeOK'
    BY <1>1, <2>1, Typing, TypesKept
  <2> QED BY <1>1, <2>1, <2>2, <2>3, <2>4 DEF Stays, MayAllocate
<1> QED BY <1>2, <1>3 DEF Unwrap

LEMMA ReserveOutputStays ==
  ASSUME ShapeInv, NEW c \in Calls, NEW d \in Devices, ReserveOutput(c, d)
  PROVE  Stays(c) /\ TypeOK'
<1>1. /\ call[c].kind = "execute" /\ call[c].at = "reserve" /\ CallShape(c) /\ TypeOK
      /\ UNCHANGED <<buffer, registry, destroying, cpu, uses, holds, runtimeVars>>
  BY DEF ShapeInv, ReserveOutput, At
<1>2. CASE FailsWith(c, "oom") /\ UNCHANGED memoryVars
  BY <1>1, <1>2, FailureStays
<1>3. CASE /\ Budget!Allocate(<<c, d>>, d, Size)
           /\ call' = [call EXCEPT ![c].memory = @ \cup {<<c, d>>}]
  <2>1. /\ call' \in [Calls -> CallRecord] /\ Continues(c)
        /\ call'[c].at = "reserve" /\ call'[c].memory = call[c].memory \cup {<<c, d>>}
        /\ call'[c].out = call[c].out
    <3> DEFINE new == [call[c] EXCEPT !.memory = @ \cup {<<c, d>>}]
    <3>1. call \in [Calls -> CallRecord] /\ <<c, d>> \in Allocations
      BY <1>1, Typing, IdFacts
    <3>2. call' = [call EXCEPT ![c] = new]
      BY <1>3, <3>1
    <3>3. /\ new \in CallRecord /\ new.kind = call[c].kind /\ new.nodes = call[c].nodes
          /\ new.args = call[c].args /\ new.need = call[c].need /\ new.deps = call[c].deps
          /\ new.donate = call[c].donate /\ new.at = call[c].at
          /\ new.memory = call[c].memory \cup {<<c, d>>} /\ new.out = call[c].out
      BY <3>1 DEF CallRecord
    <3> HIDE DEF new
    <3> QED BY <1>1, <3>1, <3>2, <3>3 DEF Continues
  <2>2. c \in Active /\ call[c].at \notin Placed
    BY <1>1 DEF Active, Over, Placed
  <2>3. CallShape(c)'
    BY <1>1, <2>1 DEF CallShape, Placed, Over, Continues
  <2>4. TypeOK'
    BY <1>1, <2>1, Typing, TypesKept
  <2>5. MayAllocate(c) /\ \A a \in call'[c].memory :
                             a \in call[c].memory \/ Budget!Allocate(a, a[2], Size)
    BY <1>3, <2>1 DEF MayAllocate
  <2> QED BY <1>1, <2>1, <2>2, <2>3, <2>4, <2>5 DEF Stays
<1> QED BY <1>2, <1>3 DEF ReserveOutput

(* The record of a call that gets output buffers, in any of the three ways. *)
Placing(r, c, memory, out) ==
  /\ r \in CallRecord /\ r.kind = call[c].kind /\ r.nodes = call[c].nodes
  /\ r.args = call[c].args /\ r.need = call[c].need /\ r.deps = call[c].deps
  /\ r.donate = call[c].donate /\ r.at = "enqueue" /\ r.memory = memory /\ r.out = out

LEMMA PlacingFields ==
  ASSUME TypeOK, NEW c \in Calls, NEW memory \in SUBSET Allocations,
         NEW out \in [Nodes -> Pointers \cup {None}], NEW r,
         r = [call[c] EXCEPT !.at = "enqueue", !.memory = memory, !.out = out]
  PROVE  Placing(r, c, memory, out)
<1>1. call[c] \in CallRecord /\ "enqueue" \in Steps
  BY Typing DEF Steps
<1> QED BY <1>1 DEF CallRecord, Placing

LEMMA PlacedRecord ==
  ASSUME TypeOK, NEW c \in Calls, NEW memory, NEW out, NEW new, Placing(new, c, memory, out),
         call' = [call EXCEPT ![c] = new]
  PROVE  /\ call' \in [Calls -> CallRecord] /\ Continues(c)
         /\ call'[c].at = "enqueue" /\ call'[c].memory = memory /\ call'[c].out = out
<1>1. call \in [Calls -> CallRecord] /\ new \in CallRecord
  BY Typing DEF Placing
<1>2. call'[c] = new /\ (\A b \in Calls \ {c} : call'[b] = call[b]) /\ call' \in [Calls -> CallRecord]
  BY <1>1
<1> QED BY <1>2 DEF Continues, Placing

(* FromHost and Copy make one buffer, at address q.                        *)
ReadsInputs(c, d, read) ==
  /\ read \in SUBSET Allocations
  /\ \A p \in call[c].args : buffer[p].state = "live"
  /\ \A a \in read : a = <<c, d>> \/ \E p \in call[c].args : a = buffer[p].alloc

LEMMA OnePlaced ==
  ASSUME ShapeInv, NEW c \in Calls, NEW q \in Pointers, NEW d \in Devices,
         call[c].kind \in {"h2d", "copy"}, call[c].at = "create", call[c].nodes = {d},
         buffer[q].state = "free",
         buffer' = [buffer EXCEPT ![q] = NewBuffer(d, <<c, d>>, <<c, d>>)],
         NEW out, out = [call[c].out EXCEPT ![d] = q],
         NEW new, Placing(new, c, {}, out),
         call' = [call EXCEPT ![c] = new],
         cpu' = [cpu EXCEPT ![<<c, d>>] = "pending"],
         NEW read, ReadsInputs(c, d, read),
         uses' = uses \cup (read \X {<<c, d>>}),
         UNCHANGED <<registry, destroying, holds, memoryVars, runtimeVars>>
  PROVE  Places(c) /\ TypeOK'
<1>1. /\ call[c] \in CallRecord /\ CallShape(c) /\ TypeOK /\ d \in Nodes
      /\ buffer \in [Pointers -> BufferRecord] /\ <<c, d>> \in Ids /\ <<c, d>> \in Allocations
      /\ call[c].memory = {<<c, d>>} /\ call[c].donate = FALSE
      /\ cpu \in [Ids -> {"none", "pending", "done"}] /\ uses \subseteq Allocations \X Ids
      /\ None \notin Pointers
  <2>1. CallShape(c) /\ TypeOK
    BY DEF ShapeInv
  <2>2. /\ call[c] \in CallRecord /\ buffer \in [Pointers -> BufferRecord]
        /\ cpu \in [Ids -> {"none", "pending", "done"}] /\ uses \subseteq Allocations \X Ids
    BY <2>1, Typing
  <2>3. d \in Nodes /\ <<c, d>> \in Ids /\ <<c, d>> \in Allocations /\ None \notin Pointers
    BY IdFacts
  <2>4. call[c].memory = {<<c, d>>} /\ call[c].donate = FALSE
    BY <2>1 DEF CallShape
  <2> QED BY <2>1, <2>2, <2>3, <2>4
<1>2. /\ \A n \in Nodes : call[c].out[n] = None
      /\ out \in [Nodes -> Pointers \cup {None}] /\ out[d] = q
      /\ \A n \in Nodes \ {d} : out[n] = None
  BY <1>1 DEF CallShape, Placed, CallRecord
<1>4. /\ call' \in [Calls -> CallRecord] /\ Continues(c)
      /\ call'[c].at = "enqueue" /\ call'[c].memory = {} /\ call'[c].out = out
  <2>1. TypeOK
    BY <1>1
  <2>2. Placing(new, c, {}, out) /\ call' = [call EXCEPT ![c] = new]
    OBVIOUS
  <2> QED BY ONLY <2>1, <2>2, PlacedRecord, c \in Calls
<1>5. c \in Active /\ call[c].at \notin Placed
  BY DEF Active, Over, Placed
<1>6. CallShape(c)'
  <2> DEFINE k == call'[c]
  <2>1. /\ k.kind = call[c].kind /\ k.nodes = {d} /\ k.args = call[c].args /\ k.memory = {}
        /\ k.donate = FALSE /\ k.at = "enqueue" /\ k.out = out
    BY <1>1, <1>4 DEF Continues
  <2>2. \A n \in Nodes : out[n] # None <=> n = d
    BY <1>1, <1>2
  <2>3. /\ call[c].kind = "h2d" => call[c].args = {}
        /\ call[c].kind = "copy" => \E p \in Pointers : call[c].args = {p}
    BY <1>1 DEF CallShape
  <2> HIDE DEF k
  <2>4. /\ k.kind \in {"h2d", "copy"} /\ (k.kind = "h2d" => k.args = {})
        /\ (k.kind = "copy" => \E p \in Pointers : k.args = {p})
        /\ \A n \in Nodes : k.out[n] # None <=> n \in k.nodes
    BY <2>1, <2>2, <2>3
  <2> QED BY <2>1, <2>4 DEF CallShape, Placed, Over, k
<1>7. /\ buffer' \in [Pointers -> BufferRecord]
      /\ buffer'[q].state = "live" /\ buffer'[q].device = d /\ buffer'[q].alloc = <<c, d>>
      /\ buffer'[q].origin = <<c, d>>
      /\ \A p \in Pointers \ {q} : buffer'[p] = buffer[p]
  BY <1>1 DEF NewBuffer, BufferRecord
<1>8. /\ cpu' \in [Ids -> {"none", "pending", "done"}]
      /\ \A id \in Ids : cpu'[id] = cpu[id] \/ (cpu'[id] = "pending" /\ id \in IdsOf(c))
  BY <1>1 DEF IdsOf
<1>9. /\ uses' \subseteq Allocations \X Ids
      /\ \A u \in uses' \ uses : u[2] = <<c, d>> /\ u[1] \in read
  BY <1>1 DEF ReadsInputs
<1>10. TypeOK'
  BY <1>1, <1>4, <1>7, <1>8, <1>9, Typing, TypesKept
<1>11. call'[c].memory = call[c].memory \ ({c} \X {d})
  BY <1>1, <1>4
<1>12. Places(c)
  BY <1>1, <1>2, <1>4, <1>5, <1>6, <1>7, <1>8, <1>9, <1>11 DEF Places, ReadsInputs
<1> QED BY <1>10, <1>12

LEMMA CreateH2DPlaces ==
  ASSUME ShapeInv, NEW c \in Calls, NEW q \in Pointers, CreateH2D(c, q)
  PROVE  (Places(c) \/ Stays(c)) /\ TypeOK'
<1>1. /\ call[c].kind = "h2d" /\ call[c].at = "create" /\ CallShape(c) /\ TypeOK
      /\ UNCHANGED <<registry, destroying, holds, memoryVars, runtimeVars>>
  BY DEF ShapeInv, CreateH2D, At
<1>2. PICK d \in call[c].nodes :
        \/ /\ buffer[q].state = "free"
           /\ buffer' = [buffer EXCEPT ![q] = NewBuffer(d, <<c, d>>, <<c, d>>)]
           /\ call' = [call EXCEPT ![c].at = "enqueue", ![c].memory = {},
                                   ![c].out = [@ EXCEPT ![d] = q]]
           /\ cpu' = [cpu EXCEPT ![<<c, d>>] = "pending"]
           /\ uses' = uses \cup {<<<<c, d>>, <<c, d>>>>}
        \/ FailsWith(c, "error") /\ UNCHANGED <<buffer, cpu, uses>>
  BY Zenon DEF CreateH2D
<1>3. d \in Devices /\ call[c].nodes = {d} /\ call[c].args = {} /\ d \in Nodes
  BY <1>1, IdFacts DEF CallShape
<1>4. CASE FailsWith(c, "error") /\ UNCHANGED <<buffer, cpu, uses>>
  BY <1>1, <1>4, FailureStays
<1>5. CASE /\ buffer[q].state = "free"
           /\ buffer' = [buffer EXCEPT ![q] = NewBuffer(d, <<c, d>>, <<c, d>>)]
           /\ call' = [call EXCEPT ![c].at = "enqueue", ![c].memory = {},
                                   ![c].out = [@ EXCEPT ![d] = q]]
           /\ cpu' = [cpu EXCEPT ![<<c, d>>] = "pending"]
           /\ uses' = uses \cup {<<<<c, d>>, <<c, d>>>>}
  <2> DEFINE out == [call[c].out EXCEPT ![d] = q]
             new == [call[c] EXCEPT !.at = "enqueue", !.memory = {}, !.out = out]
             read == {<<c, d>>}
  <2>1. call' = [call EXCEPT ![c] = new]
    BY <1>1, <1>5, Typing
  <2>2. out = [call[c].out EXCEPT ![d] = q] /\ out \in [Nodes -> Pointers \cup {None}]
    BY <1>1, <1>3, Typing DEF CallRecord
  <2>3. new = [call[c] EXCEPT !.at = "enqueue", !.memory = {}, !.out = out]
    OBVIOUS
  <2>4. read \in SUBSET Allocations /\ (\A a \in read : a = <<c, d>>)
        /\ uses' = uses \cup (read \X {<<c, d>>})
    BY <1>3, <1>5, IdFacts
  <2> HIDE DEF new, out, read
  <2>5. Placing(new, c, {}, out)
    BY <1>1, <2>2, <2>3, PlacingFields
  <2>6. /\ buffer[q].state = "free"
        /\ buffer' = [buffer EXCEPT ![q] = NewBuffer(d, <<c, d>>, <<c, d>>)]
        /\ cpu' = [cpu EXCEPT ![<<c, d>>] = "pending"]
    BY <1>3, <1>5
  <2>7. call[c].kind \in {"h2d", "copy"} /\ ReadsInputs(c, d, read)
    BY <1>1, <1>3, <2>4 DEF ReadsInputs
  <2> QED BY ONLY ShapeInv, c \in Calls, q \in Pointers, <1>1, <1>3, <2>1, <2>2, <2>4, <2>5, <2>6,
             <2>7, OnePlaced
<1> QED BY <1>2, <1>4, <1>5

LEMMA CreateCopyPlaces ==
  ASSUME ShapeInv, NEW c \in Calls, NEW q \in Pointers, CreateCopy(c, q)
  PROVE  (Places(c) \/ Stays(c)) /\ TypeOK'
<1>1. /\ call[c].kind = "copy" /\ call[c].at = "create" /\ CallShape(c) /\ TypeOK
      /\ UNCHANGED <<registry, destroying, holds, memoryVars, runtimeVars>>
  BY DEF ShapeInv, CreateCopy, At
<1>2. PICK p \in call[c].args, d \in call[c].nodes :
        \/ /\ buffer[p].state = "live" /\ buffer[q].state = "free"
           /\ buffer' = [buffer EXCEPT ![q] = NewBuffer(d, <<c, d>>, <<c, d>>)]
           /\ call' = [call EXCEPT ![c].at = "enqueue", ![c].memory = {},
                                   ![c].out = [@ EXCEPT ![d] = q]]
           /\ cpu' = [cpu EXCEPT ![<<c, d>>] = "pending"]
           /\ uses' = uses \cup ({<<c, d>>, buffer[p].alloc} \X {<<c, d>>})
        \/ FailsWith(c, "error") /\ UNCHANGED <<buffer, cpu, uses>>
  BY Zenon DEF CreateCopy
<1>3. d \in Devices /\ call[c].nodes = {d} /\ call[c].args = {p} /\ d \in Nodes /\ p \in Pointers
  BY <1>1, IdFacts DEF CallShape
<1>4. CASE FailsWith(c, "error") /\ UNCHANGED <<buffer, cpu, uses>>
  BY <1>1, <1>4, FailureStays
<1>5. CASE /\ buffer[p].state = "live" /\ buffer[q].state = "free"
           /\ buffer' = [buffer EXCEPT ![q] = NewBuffer(d, <<c, d>>, <<c, d>>)]
           /\ call' = [call EXCEPT ![c].at = "enqueue", ![c].memory = {},
                                   ![c].out = [@ EXCEPT ![d] = q]]
           /\ cpu' = [cpu EXCEPT ![<<c, d>>] = "pending"]
           /\ uses' = uses \cup ({<<c, d>>, buffer[p].alloc} \X {<<c, d>>})
  <2> DEFINE out == [call[c].out EXCEPT ![d] = q]
             new == [call[c] EXCEPT !.at = "enqueue", !.memory = {}, !.out = out]
             read == {<<c, d>>, buffer[p].alloc}
  <2>1. call' = [call EXCEPT ![c] = new]
    BY <1>1, <1>5, Typing
  <2>2. out = [call[c].out EXCEPT ![d] = q] /\ out \in [Nodes -> Pointers \cup {None}]
    BY <1>1, <1>3, Typing DEF CallRecord
  <2>3. new = [call[c] EXCEPT !.at = "enqueue", !.memory = {}, !.out = out]
    OBVIOUS
  <2>4. read \in SUBSET Allocations /\ uses' = uses \cup (read \X {<<c, d>>})
    BY <1>3, <1>5, IdFacts DEF ShapeInv, BufferShape
  <2> HIDE DEF new, out, read
  <2>5. Placing(new, c, {}, out)
    BY <1>1, <2>2, <2>3, PlacingFields
  <2>6. /\ buffer[q].state = "free"
        /\ buffer' = [buffer EXCEPT ![q] = NewBuffer(d, <<c, d>>, <<c, d>>)]
        /\ cpu' = [cpu EXCEPT ![<<c, d>>] = "pending"]
    BY <1>3, <1>5
  <2>7. call[c].kind \in {"h2d", "copy"} /\ ReadsInputs(c, d, read)
    BY <1>1, <1>3, <1>5, <2>4 DEF ReadsInputs, read
  <2>8. /\ call[c].at = "create" /\ call[c].nodes = {d} /\ d \in Devices
        /\ UNCHANGED <<registry, destroying, holds, memoryVars, runtimeVars>>
    BY <1>1, <1>3
  <2>9. Places(c) /\ TypeOK'
    BY ONLY ShapeInv, c \in Calls, q \in Pointers, <2>8, <2>1, <2>2, <2>4, <2>5, <2>6,
            <2>7, OnePlaced
  <2> QED BY <2>9
<1> QED BY <1>2, <1>4, <1>5

(* The outputs of an execution: one at a free address for each input.      *)
LEMMA DispatchPlaces ==
  ASSUME ShapeInv, NEW c \in Calls, NEW where \in [call[c].args -> Pointers],
         \A p, q \in call[c].args : where[p] = where[q] => p = q, Dispatch(c, where)
  PROVE  (Places(c) \/ Stays(c)) /\ TypeOK'
<1> DEFINE args == call[c].args
           nodes == call[c].nodes
           OutputAt(q) == CHOOSE p \in args : where[p] = q
           outs == {where[p] : p \in args}
           out == [n \in Nodes |-> IF n \in nodes
                     THEN CHOOSE q \in outs : buffer[OutputAt(q)].device = n ELSE None]
           memory == call[c].memory \ ({c} \X nodes)
           new == [call[c] EXCEPT !.at = "enqueue", !.memory = memory, !.out = out]
           made == UNION {{buffer[p].alloc, OutputAllocation(c, p)} \X {<<c, buffer[p].device>>} :
                            p \in args}
<1>1. /\ call[c].kind = "execute" /\ call[c].at = "reserve" /\ CallShape(c) /\ TypeOK
      /\ c \in Active /\ call[c].at \notin Placed /\ ToReserve(c) = {}
      /\ UNCHANGED <<registry, destroying, holds, memoryVars, runtimeVars>>
  BY DEF ShapeInv, Dispatch, At, Active, Over, Placed
<1>2. CASE FailsWith(c, "error") /\ UNCHANGED <<buffer, cpu, uses>>
  BY <1>1, <1>2, FailureStays
<1>3. CASE
        /\ \A p \in args : buffer[p].state = "live"
        /\ \A q \in outs : buffer[q].state = "free"
        /\ buffer' = [q \in Pointers |->
             IF q \in outs THEN NewBuffer(buffer[OutputAt(q)].device,
                                          OutputAllocation(c, OutputAt(q)),
                                          <<c, buffer[OutputAt(q)].device>>)
             ELSE IF q \in args THEN Released(c, q) ELSE buffer[q]]
        /\ call' = [call EXCEPT ![c].at = "enqueue", ![c].memory = @ \ ({c} \X nodes),
                                ![c].out = out]
        /\ cpu' = [id \in Ids |-> IF id \in IdsOf(c) THEN "pending" ELSE cpu[id]]
        /\ uses' = uses \cup made
  <2>1. /\ call \in [Calls -> CallRecord] /\ buffer \in [Pointers -> BufferRecord]
        /\ args \subseteq Pointers /\ nodes \subseteq Devices /\ nodes \subseteq Nodes
        /\ nodes = {buffer[p].device : p \in args}
        /\ \A p, q \in args : buffer[p].device = buffer[q].device => p = q
        /\ None \notin Pointers
    BY <1>1, Typing, IdFacts DEF ShapeInv, ArgShape, CallRecord, CallShape
  <2>2. \A p \in args : OutputAt(where[p]) = p
    OBVIOUS
  <2>3. ASSUME NEW p \in args
        PROVE  /\ buffer[p].device \in nodes /\ out[buffer[p].device] = where[p]
               /\ where[p] \in outs /\ where[p] \in Pointers
    <3>1. buffer[p].device \in nodes /\ where[p] \in outs
      BY <2>1
    <3>2. buffer[OutputAt(where[p])].device = buffer[p].device
      BY <2>2
    <3>3. ASSUME NEW q \in outs, buffer[OutputAt(q)].device = buffer[p].device
          PROVE  q = where[p]
      <4>1. PICK r \in args : q = where[r]
        OBVIOUS
      <4>2. OutputAt(q) = r
        BY <2>2, <4>1
      <4> QED BY <2>1, <3>3, <4>1, <4>2
    <3> HIDE DEF outs, OutputAt
    <3>4. (CHOOSE q \in outs : buffer[OutputAt(q)].device = buffer[p].device) = where[p]
      BY <3>1, <3>2, <3>3
    <3> QED BY <2>1, <3>1, <3>4
  <2>4. ASSUME NEW n \in nodes
        PROVE  \E p \in args : buffer[p].device = n /\ out[n] = where[p]
    <3>1. PICK p \in args : buffer[p].device = n
      BY <2>1
    <3> HIDE DEF out
    <3> QED BY <2>3, <3>1
  <2>5. \A n \in Nodes \ nodes : out[n] = None
    OBVIOUS
  <2>6. out \in [Nodes -> Pointers \cup {None}]
    <3>1. \A n \in Nodes : out[n] \in Pointers \cup {None}
      BY <2>3, <2>4, <2>5
    <3>2. out = [n \in Nodes |-> out[n]]
      OBVIOUS
    <3> HIDE DEF out
    <3> QED BY <3>1, <3>2
  <2> HIDE DEF out
  <2>7. memory \in SUBSET Allocations
    BY <1>1, Typing DEF CallRecord
  <2>8. Placing(new, c, memory, out)
    <3>1. new = [call[c] EXCEPT !.at = "enqueue", !.memory = memory, !.out = out]
      OBVIOUS
    <3> HIDE DEF new, memory
    <3> QED BY <1>1, <2>6, <2>7, <3>1, PlacingFields
  <2>9. call' = [call EXCEPT ![c] = new]
    BY <1>1, <1>3, <2>1
  <2>10. /\ call' \in [Calls -> CallRecord] /\ Continues(c)
         /\ call'[c].at = "enqueue" /\ call'[c].memory = memory /\ call'[c].out = out
    <3>1. TypeOK
      BY <1>1
    <3> HIDE DEF new, memory
    <3> QED BY ONLY <3>1, c \in Calls, <2>8, <2>9, PlacedRecord
  <2>11. ASSUME NEW p \in args
         PROVE  /\ buffer'[where[p]] = NewBuffer(buffer[p].device, OutputAllocation(c, p),
                                                 <<c, buffer[p].device>>)
                /\ OutputAllocation(c, p) \in Allocations /\ buffer[p].device \in Devices
                /\ IF call[c].donate THEN OutputAllocation(c, p) = buffer[p].alloc
                   ELSE /\ OutputAllocation(c, p) = <<c, buffer[p].device>>
                        /\ <<c, buffer[p].device>> \in call[c].memory
    <3>1. buffer'[where[p]] = NewBuffer(buffer[p].device, OutputAllocation(c, p),
                                       <<c, buffer[p].device>>)
      BY <1>3, <2>2, <2>3
    <3>2. buffer[p].device \in nodes /\ buffer[p].device \in Devices /\ buffer[p].alloc \in Allocations
      BY <1>3, <2>1 DEF ShapeInv, BufferShape
    <3>3. ~call[c].donate => <<c, buffer[p].device>> \in call[c].memory
      BY <1>1, <3>2 DEF ToReserve, Aliased
    <3> QED BY <3>1, <3>2, <3>3, IdFacts DEF OutputAllocation, Aliased
  <2>12. ASSUME NEW q \in Pointers, q \notin outs
         PROVE  buffer'[q] = IF q \in args THEN Released(c, q) ELSE buffer[q]
    BY <1>3, <2>12
  <2>13. ASSUME NEW q \in Pointers, \A n \in nodes : out[n] # q
         PROVE  q \notin outs
    BY <2>3, <2>13
  <2>14. buffer' \in [Pointers -> BufferRecord]
    <3>1. ASSUME NEW q \in Pointers
          PROVE  buffer'[q] \in BufferRecord
      <4>1. CASE q \in outs
        <5>1. PICK p \in args : q = where[p]
          BY <4>1
        <5> DEFINE d == buffer[p].device
                   a == OutputAllocation(c, p)
        <5>2. d \in Devices /\ a \in Allocations /\ <<c, d>> \in Ids
          BY <2>11, IdFacts
        <5>3. buffer'[q] = NewBuffer(d, a, <<c, d>>)
          BY <2>11, <5>1
        <5> HIDE DEF d, a
        <5> QED BY ONLY <5>2, <5>3 DEF NewBuffer, BufferRecord
      <4>2. CASE q \notin outs
        <5>1. buffer[q] \in BufferRecord
          BY <2>1
        <5>2. Released(c, q) \in BufferRecord
          BY <5>1 DEF Released, BufferRecord
        <5> QED BY <2>12, <4>2, <5>1, <5>2
      <4> QED BY <4>1, <4>2
    <3>2. buffer' = [q \in Pointers |-> buffer'[q]]
      BY <1>3
    <3> QED BY <3>1, <3>2
  <2>15. /\ cpu' \in [Ids -> {"none", "pending", "done"}]
         /\ \A id \in Ids : cpu'[id] = cpu[id] \/ (cpu'[id] = "pending" /\ id \in IdsOf(c))
    BY <1>1, <1>3, Typing
  <2>16. ASSUME NEW u \in made
         PROVE  /\ u \in Allocations \X Ids
                /\ \E n \in nodes : /\ u[2] = <<c, n>>
                                    /\ \/ u[1] = buffer'[out[n]].alloc
                                       \/ \E p \in args : u[1] = buffer[p].alloc
    <3>1. PICK p \in args : u \in {buffer[p].alloc, OutputAllocation(c, p)} \X {<<c, buffer[p].device>>}
      BY <2>16
    <3>2. /\ u[2] = <<c, buffer[p].device>> /\ u = <<u[1], u[2]>>
          /\ u[1] = buffer[p].alloc \/ u[1] = OutputAllocation(c, p)
      BY <3>1
    <3>3. buffer[p].alloc \in Allocations /\ <<c, buffer[p].device>> \in Ids
      BY <1>3, <2>1, <2>3, IdFacts DEF ShapeInv, BufferShape
    <3>4. buffer'[out[buffer[p].device]].alloc = OutputAllocation(c, p)
      <4> DEFINE d == buffer[p].device
      <4>1. out[d] = where[p]
        BY <2>3
      <4>2. buffer'[where[p]] = NewBuffer(d, OutputAllocation(c, p), <<c, d>>)
        BY <2>11
      <4> HIDE DEF d
      <4>3. buffer'[out[d]].alloc = OutputAllocation(c, p)
        BY ONLY <4>1, <4>2 DEF NewBuffer
      <4> QED BY <4>3 DEF d
    <3> QED BY <2>3, <2>11, <3>2, <3>3, <3>4
  <2>17. CallShape(c)'
    <3> DEFINE k == call'[c]
    <3>1. /\ k.kind = "execute" /\ k.nodes = nodes /\ k.at = "enqueue" /\ k.out = out
      BY <1>1, <2>10 DEF Continues
    <3>2. \A n \in Nodes : out[n] # None <=> n \in nodes
      BY <2>1, <2>3, <2>4, <2>5
    <3> HIDE DEF k, memory
    <3> QED BY <2>1, <3>1, <3>2 DEF CallShape, Placed, Over, k
  <2>18. TypeOK'
    BY <1>1, <1>3, <2>10, <2>14, <2>15, <2>16, Typing, TypesKept
  <2>19. ASSUME NEW n \in nodes
         PROVE  /\ out[n] \in Pointers /\ buffer[out[n]].state = "free"
                /\ buffer'[out[n]].state = "live" /\ buffer'[out[n]].device = n
                /\ buffer'[out[n]].origin = <<c, n>>
                /\ \/ buffer'[out[n]].alloc = <<c, n>> /\ <<c, n>> \in call[c].memory
                   \/ /\ call[c].donate
                      /\ \E p \in args :
                           buffer[p].device = n /\ buffer'[out[n]].alloc = buffer[p].alloc
    <3>1. PICK p \in args : buffer[p].device = n /\ out[n] = where[p]
      BY <2>4
    <3>2. where[p] \in Pointers /\ buffer[where[p]].state = "free"
      BY <1>3, <2>3
    <3> DEFINE a == OutputAllocation(c, p)
    <3>3. buffer'[out[n]] = NewBuffer(n, a, <<c, n>>)
      BY <2>11, <3>1
    <3>4. \/ a = <<c, n>> /\ <<c, n>> \in call[c].memory
          \/ call[c].donate /\ a = buffer[p].alloc
      BY <2>11, <3>1
    <3> HIDE DEF a, out, outs
    <3>5. /\ buffer'[out[n]].state = "live" /\ buffer'[out[n]].device = n
          /\ buffer'[out[n]].origin = <<c, n>> /\ buffer'[out[n]].alloc = a
      BY ONLY <3>3 DEF NewBuffer
    <3> QED BY <3>1, <3>2, <3>4, <3>5
  <2>20. ASSUME NEW m \in nodes, NEW n \in nodes, out[m] = out[n]
         PROVE  m = n
    <3>1. PICK p \in args : buffer[p].device = n /\ out[n] = where[p]
      BY <2>4
    <3>2. PICK q \in args : buffer[q].device = m /\ out[m] = where[q]
      BY <2>4
    <3> QED BY <2>20, <3>1, <3>2
  <2>21. ASSUME NEW q \in Pointers, \A n \in nodes : out[n] # q
         PROVE  \/ ~(call[c].donate /\ q \in args) /\ buffer'[q] = buffer[q]
                \/ /\ call[c].donate /\ q \in args
                   /\ buffer'[q].state = "deleted" /\ buffer'[q].alloc = None
                   /\ buffer'[q].device = buffer[q].device /\ buffer'[q].origin = buffer[q].origin
    <3>1. buffer'[q] = IF q \in args THEN Released(c, q) ELSE buffer[q]
      BY <2>12, <2>13, <2>21
    <3>2. buffer[q] \in BufferRecord
      BY <2>1
    <3>3. /\ ~call[c].donate => Released(c, q) = buffer[q]
          /\ call[c].donate =>
               /\ Released(c, q).state = "deleted" /\ Released(c, q).alloc = None
               /\ Released(c, q).device = buffer[q].device
               /\ Released(c, q).origin = buffer[q].origin
      BY <3>2 DEF Released, Aliased, BufferRecord
    <3> QED BY <3>1, <3>3
  <2>22. \A u \in uses' \ uses : u \in made
    BY <1>3
  <2>23. \A u \in uses' \ uses : \E n \in nodes :
           /\ u[2] = <<c, n>>
           /\ u[1] = buffer'[out[n]].alloc \/ \E p \in args : u[1] = buffer[p].alloc
    BY <2>16, <2>22
  <2>24. Places(c)
    <3>1. /\ c \in Active /\ call[c].at \notin Placed /\ call[c].kind # "d2h"
          /\ Continues(c) /\ CallShape(c)' /\ call'[c].at = "enqueue"
          /\ call'[c].memory = memory /\ call'[c].out = out
          /\ UNCHANGED <<registry, destroying, holds, memoryVars, runtimeVars>>
      BY <1>1, <2>10, <2>17
    <3>2. \A p \in args : buffer[p].state = "live"
      BY <1>3
    <3>3. \A n \in Nodes \ nodes : out[n] = None
      BY <2>5
    <3>4. \A id \in Ids : cpu'[id] = cpu[id] \/ (cpu'[id] = "pending" /\ id \in IdsOf(c))
      BY <2>15
    <3> HIDE DEF made, out, outs, new, OutputAt
    <3> QED BY ONLY <3>1, <3>2, <3>3, <3>4, <2>19, <2>20, <2>21, <2>23 DEF Places, args, nodes, memory
  <2> QED BY <2>18, <2>24
<1> QED BY <1>2, <1>3 DEF Dispatch

(* What a call's work is to the runtime.                                   *)
IssuedBy(c, nodes, ins) ==
  /\ Runtime!Lawful(status', before')
  /\ \A n \in Nodes : status[<<c, n>>] = "new"
  /\ \A id \in Ids : id \notin {c} \X nodes => status'[id] = status[id] /\ before'[id] = before[id]
  /\ \A n \in nodes : /\ status'[<<c, n>>] \in {"pending", "ok", "error"}
                      /\ ins \subseteq before'[<<c, n>>]

LEMMA IssueEffect ==
  ASSUME TypeOK, NEW c \in Calls, NEW nodes \in SUBSET Nodes, NEW ins \in SUBSET Ids,
         NEW inOrder \in BOOLEAN, Runtime!Issue(c, nodes, ins, inOrder)
  PROVE  /\ Runtime!TypeOK' /\ Runtime!Issued \subseteq Runtime!Issued' /\ ins \subseteq Runtime!Issued
         /\ IssuedBy(c, nodes, ins)
<1> DEFINE fresh == {c} \X nodes
           deps == ins \cup (IF inOrder THEN Runtime!Earlier(nodes) ELSE {})
<1>1. /\ status \in [Ids -> {"new", "pending", "ok", "error"}]
      /\ before \in [Ids -> SUBSET Ids] /\ ordered \subseteq Ids /\ Runtime!Ids = Ids
      /\ fresh \subseteq Ids
  BY IdFacts DEF TypeOK, Runtime!TypeOK
<1>2. /\ \A id \in {c} \X Nodes : status[id] = "new"
      /\ ins \subseteq Runtime!Issued
      /\ before' = [id \in Runtime!Ids |-> IF id \in fresh THEN deps ELSE before[id]]
      /\ ordered' = IF inOrder THEN ordered \cup fresh ELSE ordered
      /\ Runtime!Lawful(status', before')
  BY Zenon DEF Runtime!Issue
<1>3. PICK s \in [fresh -> {"pending", "ok", "error"}] :
           status' = [id \in Runtime!Ids |-> IF id \in fresh THEN s[id] ELSE status[id]]
  BY Zenon DEF Runtime!Issue
<1>4. deps \in SUBSET Ids /\ ins \subseteq deps
  BY <1>1 DEF Runtime!Earlier
<1> HIDE DEF deps
<1>5. /\ \A id \in Ids : id \notin fresh => status'[id] = status[id] /\ before'[id] = before[id]
      /\ \A id \in fresh : status'[id] \in {"pending", "ok", "error"} /\ before'[id] = deps
  BY <1>1, <1>2, <1>3
<1>6. Runtime!TypeOK'
  <2> HIDE DEF fresh
  <2>1. status' \in [Ids -> {"new", "pending", "ok", "error"}]
    BY <1>1, <1>3
  <2>2. before' \in [Ids -> SUBSET Ids]
    BY <1>1, <1>2, <1>4
  <2>3. ordered' \subseteq Ids
    BY <1>1, <1>2
  <2> QED BY <1>1, <2>1, <2>2, <2>3 DEF Runtime!TypeOK
<1>7. Runtime!Issued \subseteq Runtime!Issued'
  BY <1>1, <1>5 DEF Runtime!Issued
<1>8. Runtime!Lawful(status, before)'
  BY <1>2
<1>9. \A n \in Nodes : status[<<c, n>>] = "new"
  BY <1>2
<1>10. \A n \in nodes : <<c, n>> \in fresh
  OBVIOUS
<1>11. IssuedBy(c, nodes, ins)
  BY <1>4, <1>5, <1>8, <1>9, <1>10 DEF IssuedBy
<1> QED BY <1>2, <1>6, <1>7, <1>11

(* The step that hands the work over, of any kind of call.                 *)
LEMMA IssueIs ==
  ASSUME ShapeInv, NEW c \in Calls, call[c].kind # "none", call[c].at = "enqueue",
         NEW next \in {"associate", "keep"}, next = "keep" <=> call[c].kind = "d2h",
         GoesTo(c, next),
         NEW ins \in SUBSET Ids, NEW inOrder \in BOOLEAN,
         Runtime!Issue(c, call[c].nodes, ins, inOrder),
         call[c].kind = "execute" => ins = call[c].deps,
         call[c].kind # "execute" => \A p \in call[c].args : Producer(p) \subseteq ins,
         UNCHANGED <<buffer, registry, destroying, cpu, uses, holds, memoryVars>>
  PROVE  Issues(c) /\ TypeOK'
<1>1. TypeOK /\ CallShape(c) /\ c \in Active
  BY DEF ShapeInv, Active, Over
<1>2. /\ call' \in [Calls -> CallRecord] /\ Continues(c)
      /\ call'[c].at = next /\ call'[c].memory = call[c].memory
      /\ call'[c].out = call[c].out
  BY <1>1, GoesToEffect DEF Steps
<1>3. CallShape(c)'
  BY <1>1, <1>2 DEF CallShape, Placed, Over, Continues
<1>4. Runtime!TypeOK' /\ Runtime!Issued \subseteq Runtime!Issued'
  <2>1. call[c].nodes \in SUBSET Nodes
    BY <1>1, Typing DEF CallRecord
  <2> QED BY <1>1, <2>1, IssueEffect
<1>5. TypeOK'
  BY <1>1, <1>2, <1>4 DEF TypeOK, CallRecord
<1>6. Issues(c)
  BY <1>1, <1>2, <1>3 DEF Issues
<1> QED BY <1>5, <1>6

LEMMA EnqueueIssues ==
  ASSUME ShapeInv, NEW c \in Calls,
         \/ EnqueueH2D(c) \/ EnqueueFrom(c, "copy", "associate")
         \/ EnqueueFrom(c, "d2h", "keep") \/ EnqueueExecute(c)
  PROVE  Issues(c) /\ TypeOK'
<1>1. TypeOK /\ CallShape(c) /\ {} \in SUBSET Ids
  BY DEF ShapeInv
<1>2. CASE EnqueueH2D(c)
  <2>1. /\ call[c].kind = "h2d" /\ call[c].at = "enqueue" /\ GoesTo(c, "associate")
        /\ Runtime!Issue(c, call[c].nodes, {}, FALSE)
        /\ UNCHANGED <<buffer, registry, destroying, cpu, uses, holds, memoryVars>>
    BY <1>2 DEF EnqueueH2D, At
  <2>2. \A p \in call[c].args : Producer(p) \subseteq {}
    BY <1>1, <2>1 DEF CallShape
  <2> QED BY <1>1, <2>1, <2>2, IssueIs
<1>3. ASSUME NEW kind \in {"copy", "d2h"}, NEW next \in {"associate", "keep"},
             next = "keep" <=> kind = "d2h", EnqueueFrom(c, kind, next)
      PROVE  Issues(c) /\ TypeOK'
  <2>1. /\ call[c].kind = kind /\ call[c].at = "enqueue" /\ GoesTo(c, next)
        /\ UNCHANGED <<buffer, registry, destroying, cpu, uses, holds, memoryVars>>
    BY <1>3 DEF EnqueueFrom, At
  <2>2. PICK p \in call[c].args : Runtime!Issue(c, call[c].nodes, Producer(p), FALSE)
    BY <1>3 DEF EnqueueFrom
  <2>3. call[c].args = {p} /\ p \in Pointers
    BY <1>1, <2>1 DEF CallShape
  <2>4. Producer(p) \in SUBSET Ids /\ \A q \in call[c].args : Producer(q) \subseteq Producer(p)
    BY <1>1, <2>3, Typing DEF Producer, RegistryRecord
  <2> DEFINE ins == Producer(p)
  <2>5. /\ ins \in SUBSET Ids /\ Runtime!Issue(c, call[c].nodes, ins, FALSE)
        /\ \A q \in call[c].args : Producer(q) \subseteq ins
    BY <2>2, <2>4
  <2> HIDE DEF ins
  <2> QED BY <1>3, <2>1, <2>5, IssueIs
<1>4. CASE EnqueueExecute(c)
  <2>1. /\ call[c].kind = "execute" /\ call[c].at = "enqueue" /\ GoesTo(c, "associate")
        /\ Runtime!Issue(c, call[c].nodes, call[c].deps, TRUE)
        /\ UNCHANGED <<buffer, registry, destroying, cpu, uses, holds, memoryVars>>
    BY <1>4 DEF EnqueueExecute, At
  <2>2. call[c].deps \in SUBSET Ids
    BY <1>1, Typing DEF CallRecord
  <2> QED BY <1>1, <2>1, <2>2, IssueIs
<1> QED BY <1>2, <1>3, <1>4

(* SetProducer and KeepAllocation of the outputs.                          *)
LEMMA PendingTyped ==
  ASSUME NEW hs, hs \subseteq Allocations \X SUBSET Ids
  PROVE  Pending(hs) \subseteq Allocations \X SUBSET Ids
  BY DEF Pending

LEMMA KeepFacts ==
  ASSUME ShapeInv, NEW p \in Pointers, NEW ids \in SUBSET Ids
  PROVE  /\ KeepAllocation(p, ids) \subseteq Allocations \X SUBSET Ids
         /\ \A h \in KeepAllocation(p, ids) : h[1] \in Referenced /\ h[2] = ids /\ h[1] = buffer[p].alloc
         /\ buffer[p].alloc \in Allocations => <<buffer[p].alloc, ids>> \in KeepAllocation(p, ids)
<1>1. buffer[p].alloc \in Allocations \cup {None} /\ None \notin Allocations
  BY Typing, IdFacts DEF ShapeInv, BufferRecord
<1> QED BY <1>1 DEF KeepAllocation, AllocationOf, Referenced

(* Where the outputs of a call in progress are.                            *)
LEMMA OutFacts ==
  ASSUME ShapeInv, NEW c \in Active, call[c].at \in Placed, call[c].kind # "d2h",
         NEW n \in call[c].nodes
  PROVE  /\ c \in Calls /\ n \in Nodes /\ call[c].out[n] \in Pointers /\ <<c, n>> \in Ids
         /\ buffer[call[c].out[n]].state = "live"
         /\ buffer[call[c].out[n]].alloc \in Allocations
         /\ buffer[call[c].out[n]].device = n /\ buffer[call[c].out[n]].origin = <<c, n>>
         /\ call[c].out[n] \notin destroying
         /\ \A b \in Active, m \in Nodes : call[b].out[m] = call[c].out[n] => b = c /\ m = n
<1>1. c \in Calls /\ call[c] \in CallRecord
  BY Typing DEF ShapeInv, Active
<1>2. n \in Nodes /\ <<c, n>> \in Ids
  BY <1>1, IdFacts DEF CallRecord
<1>3. call[c].out[n] # None /\ call[c].out[n] \in Pointers
  BY <1>1, <1>2 DEF ShapeInv, CallShape, CallRecord
<1> QED BY <1>1, <1>2, <1>3 DEF ShapeInv, OutOwner, BufferShape

LEMMA AssociateTransferIs ==
  ASSUME ShapeInv, NeedsInv, NEW c \in Calls,
         NEW kind \in {"h2d", "copy"}, NEW next, next = (IF kind = "copy" THEN "keep" ELSE "done"),
         AssociateTransfer(c, kind, next)
  PROVE  Associates(c) /\ TypeOK'
<1>1. /\ call[c].kind = kind /\ call[c].at = "associate" /\ GoesTo(c, next)
      /\ UNCHANGED <<buffer, destroying, cpu, uses, memoryVars, runtimeVars>>
      /\ TypeOK /\ CallShape(c) /\ c \in Active
  BY DEF AssociateTransfer, At, ShapeInv, Active, Over
<1>2. PICK d \in call[c].nodes :
        /\ registry' = SetProducer(registry, call[c].out[d], <<c, d>>)
        /\ holds' = Pending(holds \cup KeepAllocation(call[c].out[d], {<<c, d>>}))
  BY Zenon DEF AssociateTransfer
<1>3. call[c].nodes = {d} /\ call[c].memory = {} /\ IdsOf(c) = {<<c, d>>}
  BY <1>1 DEF CallShape, IdsOf
<1> DEFINE p == call[c].out[d]
           new == KeepAllocation(p, {<<c, d>>})
<1>4. /\ p \in Pointers /\ <<c, d>> \in Ids /\ buffer[p].alloc \in Allocations /\ d \in Nodes
  BY <1>1, OutFacts DEF Placed
<1>5. /\ call' \in [Calls -> CallRecord] /\ Continues(c)
      /\ call'[c].at = next /\ call'[c].memory = call[c].memory
      /\ call'[c].out = call[c].out
  <2>1. next \in Steps \cup Over
    BY DEF Steps, Over
  <2> QED BY <1>1, <2>1, GoesToEffect
<1>6. CallShape(c)'
  BY <1>1, <1>3, <1>5 DEF CallShape, Placed, Over, Continues
<1>7. /\ registry' \in [Pointers -> RegistryRecord]
      /\ \A q \in Pointers \ {p} : registry'[q] = registry[q]
      /\ registry'[p] = [tracked |-> TRUE, producer |-> <<c, d>>, ready |-> FALSE]
  <2>1. registry \in [Pointers -> RegistryRecord]
    BY <1>1, Typing
  <2> HIDE DEF p
  <2> QED BY <1>2, <1>4, <2>1 DEF SetProducer, RegistryRecord, p
<1>8. /\ new \subseteq Allocations \X SUBSET IdsOf(c)
      /\ \A h \in new : h[1] \in Referenced
      /\ <<buffer[p].alloc, {<<c, d>>}>> \in new
      /\ new \subseteq Allocations \X SUBSET Ids
  <2> HIDE DEF p
  <2>1. {<<c, d>>} \in SUBSET Ids
    BY <1>4
  <2>2. /\ new \subseteq Allocations \X SUBSET Ids
        /\ \A h \in new : h[1] \in Referenced /\ h[2] = {<<c, d>>}
        /\ <<buffer[p].alloc, {<<c, d>>}>> \in new
    BY <1>4, <2>1, KeepFacts
  <2> HIDE DEF new
  <2> QED BY <1>3, <2>2
<1>9. holds' \subseteq Allocations \X SUBSET Ids
  <2>1. holds \subseteq Allocations \X SUBSET Ids
    BY <1>1, Typing
  <2> HIDE DEF new, p
  <2> QED BY <1>2, <1>8, <2>1, PendingTyped DEF new, p
<1>10. TypeOK'
  <2>1. <<c, d>> \in Runtime!Issued
    BY <1>1, <1>3 DEF NeedsInv
  <2>2. \A q \in Pointers : registry'[q].producer \in Runtime!Issued \cup {None}
    BY <1>1, <1>7, <2>1, Typing
  <2> QED BY <1>1, <1>5, <1>7, <1>9, <2>2, Typing, TypesKept
<1>11. Associates(c)
  <2>1. \A q \in Pointers : (\A n \in call[c].nodes : call[c].out[n] # q) => registry'[q] = registry[q]
    BY <1>3, <1>7
  <2>2. \A n \in call[c].nodes :
          registry'[call[c].out[n]] = [tracked |-> TRUE, producer |-> <<c, n>>, ready |-> FALSE]
    BY <1>3, <1>7
  <2>3. \E hs \in SUBSET (Allocations \X SUBSET IdsOf(c)) :
          /\ holds' = Pending(holds \cup hs)
          /\ \A h \in hs : h[1] \in Referenced
          /\ \A n \in call[c].nodes : <<buffer[call[c].out[n]].alloc, {<<c, n>>}>> \in hs
          /\ \A a \in call[c].memory : <<a, IdsOf(c)>> \in hs
    <3>1. \A n \in call[c].nodes : <<buffer[call[c].out[n]].alloc, {<<c, n>>}>> \in new
      BY <1>3, <1>8
    <3> HIDE DEF new
    <3>2. holds' = Pending(holds \cup new)
      BY <1>2 DEF new
    <3> QED BY <1>3, <1>8, <3>1, <3>2
  <2> QED BY <1>1, <1>3, <1>5, <1>6, <2>1, <2>2, <2>3 DEF Associates
<1> QED BY <1>10, <1>11

LEMMA AssociateExecuteIs ==
  ASSUME ShapeInv, NeedsInv, NEW c \in Calls, AssociateExecute(c)
  PROVE  Associates(c) /\ TypeOK'
<1> DEFINE out == call[c].out
           nodes == call[c].nodes
           new == (UNION {KeepAllocation(out[n], {<<c, n>>}) : n \in nodes})
                    \cup {<<a, IdsOf(c)>> : a \in call[c].memory}
<1>1. /\ call[c].kind = "execute" /\ call[c].at = "associate" /\ TypeOK /\ CallShape(c)
      /\ UNCHANGED <<buffer, destroying, cpu, uses, memoryVars, runtimeVars>>
      /\ c \in Active /\ call[c].at \in Placed
  BY DEF AssociateExecute, At, ShapeInv, Active, Over, Placed
<1>2. /\ holds' = Pending(holds \cup new) /\ FailsWith(c, "done")
      /\ registry' = [p \in Pointers |->
           IF \E n \in nodes : out[n] = p
             THEN [tracked |-> TRUE, ready |-> FALSE,
                   producer |-> <<c, CHOOSE n \in nodes : out[n] = p>>]
             ELSE registry[p]]
  <2>2. holds' = Pending(holds
          \cup (UNION {KeepAllocation(call[c].out[n], {<<c, n>>}) : n \in call[c].nodes})
          \cup {<<a, IdsOf(c)>> : a \in call[c].memory})
    BY Zenon DEF AssociateExecute
  <2>3. \A X, Y, Z : (X \cup Y) \cup Z = X \cup (Y \cup Z)
    OBVIOUS
  <2>4. holds' = Pending(holds \cup new)
    BY <2>2, <2>3
  <2> QED BY <2>4 DEF AssociateExecute, FailsWith
<1>3. /\ call' \in [Calls -> CallRecord] /\ Continues(c)
      /\ call'[c].at = "done" /\ call'[c].memory = {} /\ call'[c].out = out
  BY <1>1, <1>2, FailsWithEffect DEF Over
<1>4. CallShape(c)'
  BY <1>1, <1>3 DEF CallShape, Placed, Over, Continues
<1>5. ASSUME NEW n \in nodes
      PROVE  /\ out[n] \in Pointers /\ <<c, n>> \in Ids /\ buffer[out[n]].alloc \in Allocations
             /\ \A m \in nodes : out[m] = out[n] => m = n
  <2>1. nodes \subseteq Nodes
    BY <1>1, Typing DEF CallRecord
  <2> QED BY <1>1, <2>1, OutFacts
<1>6. \A n \in nodes :
        registry'[out[n]] = [tracked |-> TRUE, producer |-> <<c, n>>, ready |-> FALSE]
  <2> SUFFICES ASSUME NEW n \in nodes
               PROVE  registry'[out[n]] = [tracked |-> TRUE, producer |-> <<c, n>>, ready |-> FALSE]
    OBVIOUS
  <2>1. (CHOOSE m \in nodes : out[m] = out[n]) = n
    BY <1>5
  <2> QED BY <1>2, <1>5, <2>1
<1>7. \A p \in Pointers : (\A n \in nodes : out[n] # p) => registry'[p] = registry[p]
  BY <1>2
<1>8. IdsOf(c) \subseteq Ids /\ IdsOf(c) \subseteq Runtime!Issued /\ \A n \in nodes : <<c, n>> \in IdsOf(c)
  BY <1>1, <1>5 DEF NeedsInv, IdsOf
<1>9. registry' \in [Pointers -> RegistryRecord]
      /\ \A p \in Pointers : registry'[p].producer \in Runtime!Issued \cup {None}
  <2> HIDE DEF nodes, out
  <2>1. registry \in [Pointers -> RegistryRecord]
        /\ \A p \in Pointers : registry[p].producer \in Runtime!Issued \cup {None}
    BY <1>1, Typing
  <2>2. ASSUME NEW p \in Pointers
        PROVE  registry'[p] \in RegistryRecord /\ registry'[p].producer \in Runtime!Issued \cup {None}
    <3>1. CASE \E n \in nodes : out[n] = p
      <4>1. PICK n \in nodes : out[n] = p
        BY <3>1
      <4>2. registry'[p] = [tracked |-> TRUE, producer |-> <<c, n>>, ready |-> FALSE]
        BY <1>6, <4>1
      <4>3. <<c, n>> \in Ids /\ <<c, n>> \in Runtime!Issued
        BY <1>5, <1>8, <4>1
      <4> QED BY <4>2, <4>3 DEF RegistryRecord
    <3>2. CASE \A n \in nodes : out[n] # p
      BY <1>7, <2>1, <3>2
    <3> QED BY <3>1, <3>2
  <2>3. registry' = [p \in Pointers |-> registry'[p]]
    BY <1>2
  <2> QED BY <2>2, <2>3
<1>10. ASSUME NEW h \in new
       PROVE  h \in Allocations \X SUBSET IdsOf(c) /\ h[1] \in Referenced
  <2>0. \/ \E n \in nodes : h \in KeepAllocation(out[n], {<<c, n>>})
        \/ \E a \in call[c].memory : h = <<a, IdsOf(c)>>
    BY <1>10, Zenon
  <2> HIDE DEF new, out, nodes
  <2>1. CASE \E n \in nodes : h \in KeepAllocation(out[n], {<<c, n>>})
    <3>1. PICK n \in nodes : h \in KeepAllocation(out[n], {<<c, n>>})
      BY <2>1, Zenon
    <3>2. out[n] \in Pointers /\ {<<c, n>>} \in SUBSET Ids /\ {<<c, n>>} \in SUBSET IdsOf(c)
      BY <1>5, <1>8
    <3> DEFINE p == out[n]
               ids == {<<c, n>>}
    <3> HIDE DEF p, ids
    <3>3. h \in Allocations \X SUBSET Ids /\ h[1] \in Referenced /\ h[2] = ids
      <4>1. h \in KeepAllocation(p, ids) /\ p \in Pointers /\ ids \in SUBSET Ids
        BY <3>1, <3>2 DEF p, ids
      <4> QED BY ONLY <1>1, <4>1, KeepFacts, ShapeInv
    <3> USE DEF ids
    <3> QED BY <3>2, <3>3
  <2>2. CASE \E a \in call[c].memory : h = <<a, IdsOf(c)>>
    <3>1. call[c].memory \subseteq Allocations /\ call[c].memory \subseteq Referenced
      BY <1>1, Typing DEF CallRecord, Referenced
    <3> QED BY <2>2, <3>1
  <2> QED BY <2>0, <2>1, <2>2
<1>11. \A n \in nodes : <<buffer[out[n]].alloc, {<<c, n>>}>> \in new
  <2> SUFFICES ASSUME NEW n \in nodes PROVE <<buffer[out[n]].alloc, {<<c, n>>}>> \in new
    OBVIOUS
  <2>1. {<<c, n>>} \in SUBSET Ids
    BY <1>5
  <2>2. <<buffer[out[n]].alloc, {<<c, n>>}>> \in KeepAllocation(out[n], {<<c, n>>})
    <3> HIDE DEF new, out, nodes
    <3> QED BY <1>1, <1>5, <2>1, KeepFacts
  <2> QED BY <2>2, Zenon
<1>12. \A a \in call[c].memory : <<a, IdsOf(c)>> \in new
  BY Zenon
<1> HIDE DEF new, out, nodes
<1>13. holds' \subseteq Allocations \X SUBSET Ids
  <2>1. holds \cup new \subseteq Allocations \X SUBSET Ids
    BY <1>1, <1>8, <1>10, Typing
  <2> QED BY <1>2, <2>1, PendingTyped
<1>14. TypeOK'
  BY <1>1, <1>3, <1>9, <1>13, Typing, TypesKept
<1>15. Associates(c)
  <2>1. new \in SUBSET (Allocations \X SUBSET IdsOf(c)) /\ \A h \in new : h[1] \in Referenced
    BY <1>10
  <2>2. \E hs \in SUBSET (Allocations \X SUBSET IdsOf(c)) :
          /\ holds' = Pending(holds \cup hs)
          /\ \A h \in hs : h[1] \in Referenced
          /\ \A n \in call[c].nodes : <<buffer[call[c].out[n]].alloc, {<<c, n>>}>> \in hs
          /\ \A a \in call[c].memory : <<a, IdsOf(c)>> \in hs
    BY <1>2, <1>11, <1>12, <2>1 DEF out, nodes
  <2>3. \A q \in Pointers : (\A n \in call[c].nodes : call[c].out[n] # q) => registry'[q] = registry[q]
    BY <1>7 DEF out, nodes
  <2>4. \A n \in call[c].nodes :
          registry'[call[c].out[n]] = [tracked |-> TRUE, producer |-> <<c, n>>, ready |-> FALSE]
    BY <1>6 DEF out, nodes
  <2>5. call'[c].out = call[c].out /\ call'[c].at = IF call[c].kind = "copy" THEN "keep" ELSE "done"
    BY <1>1, <1>3 DEF out
  <2> QED BY <1>1, <1>3, <1>4, <2>2, <2>3, <2>4, <2>5 DEF Associates
<1> QED BY <1>14, <1>15

LEMMA KeepSourceIs ==
  ASSUME ShapeInv, NEW c \in Calls, NEW kind \in {"copy", "d2h"}, KeepSource(c, kind)
  PROVE  Keeps(c) /\ TypeOK'
<1>1. /\ call[c].kind = kind /\ call[c].at = "keep" /\ GoesTo(c, "done")
      /\ UNCHANGED <<buffer, registry, destroying, cpu, uses, memoryVars, runtimeVars>>
      /\ TypeOK /\ CallShape(c) /\ c \in Active
  BY DEF KeepSource, At, ShapeInv, Active, Over
<1>2. PICK p \in call[c].args : holds' = Pending(holds \cup KeepAllocation(p, IdsOf(c)))
  BY DEF KeepSource
<1>3. call[c].args = {p} /\ p \in Pointers /\ call[c].memory = {}
  BY <1>1 DEF CallShape
<1>4. /\ call' \in [Calls -> CallRecord] /\ Continues(c)
      /\ call'[c].at = "done" /\ call'[c].memory = call[c].memory
      /\ call'[c].out = call[c].out
  BY <1>1, GoesToEffect DEF Over
<1>5. CallShape(c)'
  BY <1>1, <1>3, <1>4 DEF CallShape, Placed, Over, Continues
<1>6. holds' \subseteq Allocations \X SUBSET Ids
  <2>1. IdsOf(c) \in SUBSET Ids
    BY <1>1, Typing, IdFacts DEF IdsOf, CallRecord
  <2>2. KeepAllocation(p, IdsOf(c)) \subseteq Allocations \X SUBSET Ids
    BY <1>3, <2>1, KeepFacts
  <2>3. holds \cup KeepAllocation(p, IdsOf(c)) \subseteq Allocations \X SUBSET Ids
    BY <1>1, <2>2, Typing
  <2> QED BY <1>2, <2>3, PendingTyped
<1>7. TypeOK'
  BY <1>1, <1>4, <1>6, Typing, TypesKept
<1>8. Keeps(c)
  BY <1>1, <1>2, <1>3, <1>4, <1>5 DEF Keeps
<1> QED BY <1>7, <1>8

----------------------------------------------------------------------------
(* The other steps, by what they do.                                       *)
Deletes(p) ==
  /\ Visible(p) /\ buffer[p].state = "live" /\ (RevokeInUse \/ ~InUse(p))
  /\ buffer'[p].state = "deleted" /\ buffer'[p].alloc = None
  /\ buffer'[p].device = buffer[p].device /\ buffer'[p].origin = buffer[p].origin
  /\ \A q \in Pointers \ {p} : buffer'[q] = buffer[q]
  /\ UNCHANGED <<call, registry, destroying, cpu, uses, holds, memoryVars, runtimeVars>>

Erases(p) ==
  /\ Visible(p) /\ ~InUse(p)
  /\ registry'[p] = Untracked /\ \A q \in Pointers \ {p} : registry'[q] = registry[q]
  /\ destroying' = destroying \cup {p}
  /\ UNCHANGED <<call, buffer, cpu, uses, holds, memoryVars, runtimeVars>>

Frees(p) ==
  /\ p \in destroying
  /\ buffer'[p] = NoBuffer /\ \A q \in Pointers \ {p} : buffer'[q] = buffer[q]
  /\ destroying' = destroying \ {p}
  /\ UNCHANGED <<call, registry, cpu, uses, holds, memoryVars, runtimeVars>>

(* Futures settle or the CPU backend ends; callbacks that waited run.      *)
Resolves ==
  /\ \A id \in Ids : \/ status'[id] = status[id]
                     \/ status[id] = "pending" /\ status'[id] \in Runtime!Settled
  /\ Runtime!Lawful(status, before)'
  /\ \A id \in Ids : cpu'[id] = cpu[id] \/ cpu'[id] = "done"
  /\ RunCallbacks
  /\ UNCHANGED <<call, buffer, registry, destroying, memoryVars, before, ordered>>

LEMMA DeleteIs ==
  ASSUME ShapeInv, NEW p \in Pointers, Delete(p)
  PROVE  Deletes(p) /\ TypeOK'
<1>1. /\ buffer \in [Pointers -> BufferRecord] /\ TypeOK
      /\ Visible(p) /\ buffer[p].state = "live" /\ (RevokeInUse \/ ~InUse(p))
      /\ UNCHANGED <<call, registry, destroying, cpu, uses, holds, memoryVars, runtimeVars>>
  BY Typing DEF ShapeInv, Delete
<1>2. buffer' = [buffer EXCEPT ![p] = [buffer[p] EXCEPT !.state = "deleted", !.alloc = None]]
  BY <1>1 DEF Delete
<1>3. [buffer[p] EXCEPT !.state = "deleted", !.alloc = None] \in BufferRecord
  BY <1>1 DEF BufferRecord
<1>4. Deletes(p) /\ buffer' \in [Pointers -> BufferRecord]
  BY <1>1, <1>2, <1>3 DEF Deletes, BufferRecord
<1> QED BY <1>1, <1>4, Typing, TypesKept

LEMMA DestroyIs ==
  ASSUME ShapeInv, NEW p \in Pointers, DestroyBuffer(p)
  PROVE  (Erases(p) \/ Frees(p)) /\ TypeOK'
<1>1. /\ buffer \in [Pointers -> BufferRecord] /\ registry \in [Pointers -> RegistryRecord]
      /\ TypeOK /\ destroying \subseteq Pointers
      /\ UNCHANGED <<call, cpu, uses, holds, memoryVars, runtimeVars>>
  BY Typing DEF ShapeInv, DestroyBuffer
<1>2. NoBuffer \in BufferRecord /\ Untracked \in RegistryRecord /\ Untracked.producer = None
  BY DEF NoBuffer, BufferRecord, Untracked, RegistryRecord
<1>3. CASE /\ Visible(p) /\ ~InUse(p)
           /\ registry' = [registry EXCEPT ![p] = Untracked]
           /\ destroying' = destroying \cup {p} /\ UNCHANGED buffer
  <2>1. Erases(p) /\ registry' \in [Pointers -> RegistryRecord]
    BY <1>1, <1>2, <1>3 DEF Erases
  <2>2. \A q \in Pointers : registry'[q].producer \in Runtime!Issued \cup {None}
    BY <1>1, <1>2, <2>1, Typing DEF Erases
  <2> QED BY <1>1, <1>3, <2>1, <2>2, Typing, TypesKept
<1>4. CASE /\ p \in destroying
           /\ buffer' = [buffer EXCEPT ![p] = NoBuffer]
           /\ destroying' = destroying \ {p} /\ UNCHANGED registry
  <2>1. Frees(p) /\ buffer' \in [Pointers -> BufferRecord]
    BY <1>1, <1>2, <1>4 DEF Frees
  <2> QED BY <1>1, <1>4, <2>1, Typing, TypesKept
<1> QED BY <1>3, <1>4 DEF DestroyBuffer

(* What callbacks leave is part of what there was.                         *)
LEMMA CallbacksTyped ==
  ASSUME TypeOK, RunCallbacks
  PROVE  uses' \subseteq Allocations \X Ids /\ holds' \subseteq Allocations \X SUBSET Ids
  BY Typing DEF RunCallbacks

LEMMA SettleIs ==
  ASSUME ShapeInv, NEW id \in Ids, Settle(id)
  PROVE  Resolves /\ TypeOK'
<1>1. /\ TypeOK /\ RunCallbacks /\ Runtime!Ids = Ids
      /\ UNCHANGED <<call, buffer, registry, destroying, cpu, memoryVars, before, ordered>>
      /\ Runtime!Settle({id})
  BY IdFacts DEF ShapeInv, Settle, Runtime!Settle
<1>2. /\ status \in [Ids -> {"new", "pending", "ok", "error"}]
      /\ before \in [Ids -> SUBSET Ids] /\ ordered \subseteq Ids
  BY <1>1 DEF TypeOK, Runtime!TypeOK
<1>3. PICK s \in [{id} -> Runtime!Settled] :
        status' = [i \in Ids |-> IF i \in {id} THEN s[i] ELSE status[i]]
  BY <1>1 DEF Runtime!Settle
<1>4. /\ status[id] = "pending" /\ status'[id] \in Runtime!Settled
      /\ \A i \in Ids \ {id} : status'[i] = status[i]
      /\ status' \in [Ids -> {"new", "pending", "ok", "error"}]
  BY <1>1, <1>2, <1>3 DEF Runtime!Settle, Runtime!Settled
<1>5. Runtime!TypeOK' /\ Runtime!Issued' = Runtime!Issued
  BY <1>1, <1>2, <1>4 DEF Runtime!TypeOK, Runtime!Issued, Runtime!Settled
<1>6. TypeOK'
  BY <1>1, <1>5, CallbacksTyped DEF TypeOK
<1>7. Runtime!Lawful(status, before)'
  BY <1>1 DEF Runtime!Settle, Runtime!Lawful
<1> QED BY <1>1, <1>4, <1>6, <1>7 DEF Resolves

LEMMA CpuDoneIs ==
  ASSUME ShapeInv, NeedsInv, NEW id \in Ids, CpuDone(id)
  PROVE  Resolves /\ TypeOK'
<1>1. /\ TypeOK /\ RunCallbacks
      /\ UNCHANGED <<call, buffer, registry, destroying, memoryVars, runtimeVars>>
      /\ cpu' = [cpu EXCEPT ![id] = "done"]
  BY DEF ShapeInv, CpuDone
<1>2. cpu' \in [Ids -> {"none", "pending", "done"}] /\ \A i \in Ids : cpu'[i] = cpu[i] \/ cpu'[i] = "done"
  BY <1>1, Typing
<1>3. TypeOK'
  BY <1>1, <1>2, CallbacksTyped, Typing, TypesKept
<1>4. Runtime!Lawful(status, before)'
  BY <1>1 DEF NeedsInv, runtimeVars, Runtime!Lawful
<1> QED BY <1>1, <1>2, <1>3, <1>4 DEF Resolves, runtimeVars

LEMMA ReleaseTypes ==
  ASSUME ShapeInv, DestroyAllocation
  PROVE  TypeOK'
<1>1. TypeOK /\ UNCHANGED <<call, buffer, registry, destroying, cpu, uses, holds, runtimeVars>>
  BY DEF ShapeInv, DestroyAllocation
<1> QED BY <1>1, Typing, TypesKept

CallSteps(c) ==
  Begins(c) \/ Stays(c) \/ Places(c) \/ Issues(c) \/ Associates(c) \/ Keeps(c)

OtherSteps ==
  \/ \E p \in Pointers : Deletes(p) \/ Erases(p) \/ Frees(p)
  \/ Resolves \/ DestroyAllocation \/ UNCHANGED vars

LEMMA StepIs ==
  ASSUME ShapeInv, NeedsInv, [Next]_vars
  PROVE  TypeOK' /\ ((\E c \in Calls : CallSteps(c)) \/ OtherSteps)
<1>1. CASE UNCHANGED vars
  <2>1. /\ UNCHANGED <<call, buffer, registry, destroying, cpu, uses, holds, runtimeVars>> /\ TypeOK
    BY <1>1 DEF vars, ShapeInv
  <2> QED BY <1>1, <2>1, Typing, TypesKept DEF OtherSteps
<1>2. CASE DestroyAllocation
  BY <1>2, ReleaseTypes DEF OtherSteps
<1>3. ASSUME NEW c \in Calls, Upload(c)
      PROVE  CallSteps(c) /\ TypeOK'
  BY <1>3, StartH2DBegins, CreateH2DPlaces, EnqueueIssues, AssociateTransferIs DEF Upload, CallSteps
<1>4. ASSUME NEW c \in Calls, Copy(c)
      PROVE  CallSteps(c) /\ TypeOK'
  BY <1>4, StartCopyBegins, CreateCopyPlaces, EnqueueIssues, AssociateTransferIs, KeepSourceIs
     DEF Copy, CallSteps
<1>5. ASSUME NEW c \in Calls, Download(c)
      PROVE  CallSteps(c) /\ TypeOK'
  BY <1>5, StartD2HBegins, EnqueueIssues, KeepSourceIs DEF Download, CallSteps
<1>6. ASSUME NEW c \in Calls, Execute(c)
      PROVE  CallSteps(c) /\ TypeOK'
  BY <1>6, StartExecuteBegins, UnwrapStays, ReserveOutputStays, DispatchPlaces, EnqueueIssues,
     AssociateExecuteIs DEF Execute, CallSteps
<1>7. ASSUME NEW p \in Pointers, Delete(p) \/ DestroyBuffer(p)
      PROVE  OtherSteps /\ TypeOK'
  BY <1>7, DeleteIs, DestroyIs DEF OtherSteps
<1>8. ASSUME NEW id \in Ids, Settle(id) \/ CpuDone(id)
      PROVE  OtherSteps /\ TypeOK'
  BY <1>8, SettleIs, CpuDoneIs DEF OtherSteps
<1> QED BY <1>1, <1>2, <1>3, <1>4, <1>5, <1>6, <1>7, <1>8 DEF Next

----------------------------------------------------------------------------
(* Facts about every step that the parts of the invariant share.           *)

(* What Places(c) says, part by part.                                      *)
LEMMA PlacesFacts ==
  ASSUME NEW c \in Calls, Places(c)
  PROVE  /\ c \in Active /\ call[c].at \notin Placed /\ call[c].kind # "d2h"
         /\ Continues(c) /\ CallShape(c)' /\ call'[c].at = "enqueue"
         /\ call'[c].memory = call[c].memory \ ({c} \X call[c].nodes)
         /\ \A p \in call[c].args : buffer[p].state = "live"
         /\ UNCHANGED <<registry, destroying, holds, memoryVars, runtimeVars>>
  BY Zenon DEF Places

(* An output of c that Places(c) makes.                                    *)
MadeAt(c, n, q) ==
  /\ q \in Pointers /\ buffer[q].state = "free" /\ buffer'[q].state = "live"
  /\ buffer'[q].device = n /\ buffer'[q].origin = <<c, n>>
  /\ \/ buffer'[q].alloc = <<c, n>> /\ <<c, n>> \in call[c].memory
     \/ /\ call[c].donate
        /\ \E p \in call[c].args : buffer[p].device = n /\ buffer'[q].alloc = buffer[p].alloc

LEMMA PlacesMakes ==
  ASSUME NEW c \in Calls, Places(c)
  PROVE  /\ \A n \in call[c].nodes : MadeAt(c, n, call'[c].out[n])
         /\ \A n \in Nodes \ call[c].nodes : call'[c].out[n] = None
         /\ \A m, n \in call[c].nodes : call'[c].out[m] = call'[c].out[n] => m = n
  BY Zenon DEF Places, MadeAt

(* A buffer that Places(c) doesn't make stays, or is donated.              *)
LEMMA PlacesLeaves ==
  ASSUME NEW c \in Calls, Places(c), NEW q \in Pointers, \A n \in call[c].nodes : call'[c].out[n] # q
  PROVE  \/ ~(call[c].donate /\ q \in call[c].args) /\ buffer'[q] = buffer[q]
         \/ /\ call[c].donate /\ q \in call[c].args
            /\ buffer'[q].state = "deleted" /\ buffer'[q].alloc = None
            /\ buffer'[q].device = buffer[q].device /\ buffer'[q].origin = buffer[q].origin
  BY Zenon DEF Places

LEMMA PlacesUses ==
  ASSUME NEW c \in Calls, Places(c)
  PROVE  /\ \A id \in Ids : cpu'[id] = cpu[id] \/ (cpu'[id] = "pending" /\ id \in IdsOf(c))
         /\ \A u \in uses' \ uses : \E n \in call[c].nodes :
              /\ u[2] = <<c, n>>
              /\ u[1] = buffer'[call'[c].out[n]].alloc \/ \E p \in call[c].args : u[1] = buffer[p].alloc
  BY Zenon DEF Places

(* The steps that touch a buffer.                                          *)
LEMMA BufferSteps ==
  ASSUME (\E c \in Calls : CallSteps(c)) \/ OtherSteps
  PROVE  \/ buffer' = buffer
         \/ \E c \in Calls : Places(c)
         \/ \E p \in Pointers : Deletes(p) \/ Frees(p)
<1>1. ASSUME NEW c \in Calls, Begins(c) \/ Stays(c) \/ Issues(c) \/ Associates(c) \/ Keeps(c)
      PROVE  buffer' = buffer
  BY <1>1, Zenon DEF Begins, Stays, Issues, Associates, Keeps
<1>2. ASSUME (\E p \in Pointers : Erases(p)) \/ Resolves \/ DestroyAllocation \/ UNCHANGED vars
      PROVE  buffer' = buffer
  BY <1>2 DEF Erases, Resolves, DestroyAllocation, vars
<1> QED BY <1>1, <1>2 DEF CallSteps, OtherSteps

(* Nobody takes the place of a buffer that is there: it keeps its device and
   the work it comes from, unless its object is being destroyed.           *)
Lasting(q) ==
  /\ buffer'[q].state # "free"
  /\ buffer'[q].device = buffer[q].device /\ buffer'[q].origin = buffer[q].origin
  /\ buffer'[q].state = "live" => buffer'[q] = buffer[q]

LEMMA BuffersLast ==
  ASSUME ShapeInv, (\E c \in Calls : CallSteps(c)) \/ OtherSteps,
         NEW q \in Pointers, buffer[q].state # "free", q \notin destroying
  PROVE  Lasting(q)
<1>1. CASE buffer' = buffer
  BY <1>1 DEF Lasting
<1>2. ASSUME NEW c \in Calls, Places(c)
      PROVE  Lasting(q)
  <2>1. ASSUME NEW n \in call[c].nodes, call'[c].out[n] = q
        PROVE  FALSE
    <3>1. MadeAt(c, n, call'[c].out[n])
      BY <1>2, PlacesMakes
    <3> QED BY <2>1, <3>1 DEF MadeAt
  <2>2. \/ buffer'[q] = buffer[q]
        \/ /\ buffer'[q].state = "deleted"
           /\ buffer'[q].device = buffer[q].device /\ buffer'[q].origin = buffer[q].origin
    BY <1>2, <2>1, PlacesLeaves
  <2> QED BY <2>2 DEF Lasting
<1>3. ASSUME NEW p \in Pointers, Deletes(p)
      PROVE  Lasting(q)
  BY <1>3 DEF Deletes, Lasting
<1>4. ASSUME NEW p \in Pointers, Frees(p)
      PROVE  Lasting(q)
  BY <1>4 DEF Frees, Lasting
<1> QED BY <1>1, <1>2, <1>3, <1>4, BufferSteps

(* A step moves one call at most, and never revives one that is over.      *)
LEMMA CallsMove ==
  ASSUME ShapeInv, NEW c \in Calls, CallSteps(c)
  PROVE  /\ \A b \in Calls \ {c} : call'[b] = call[b] /\ (b \in Active' <=> b \in Active)
         /\ CallShape(c)'
         /\ call[c] = NoCall \/ (c \in Active /\ Continues(c))
         /\ call[c].at \in Placed => call'[c].at \in Placed
<1>1. /\ \A b \in Calls \ {c} : call'[b] = call[b]
      /\ CallShape(c)'
      /\ call[c] = NoCall \/ (c \in Active /\ Continues(c))
  BY DEF CallSteps, Begins, Stays, Places, Issues, Associates, Keeps, Continues
<1>2. ASSUME Begins(c) PROVE call[c].at \notin Placed
  BY <1>2 DEF Begins, Placed, NoCall
<1>3. ASSUME Stays(c) \/ Places(c) PROVE call[c].at \notin Placed
  BY <1>3 DEF Stays, Places
<1>4. ASSUME Issues(c) \/ Associates(c) \/ Keeps(c) PROVE call'[c].at \in {"associate", "keep", "done"}
  BY <1>4 DEF Issues, Associates, Keeps
<1> QED BY <1>1, <1>2, <1>3, <1>4 DEF Active, CallSteps, Placed

LEMMA CallsRest ==
  ASSUME OtherSteps
  PROVE  call' = call /\ Active' = Active
  BY DEF OtherSteps, Deletes, Erases, Frees, Resolves, DestroyAllocation, vars, Active

LEMMA ShapesKept ==
  ASSUME ShapeInv, (\E c \in Calls : CallSteps(c)) \/ OtherSteps
  PROVE  (\A c \in Calls : CallShape(c))'
<1>1. ASSUME NEW c \in Calls, CallSteps(c), NEW b \in Calls
      PROVE  CallShape(b)'
  <2>1. CASE b = c
    BY <1>1, <2>1, CallsMove
  <2>2. CASE b # c
    <3>1. call'[b] = call[b] /\ CallShape(b)
      BY <1>1, <2>2, CallsMove DEF ShapeInv
    <3> QED BY ONLY <3>1 DEF CallShape
  <2> QED BY <2>1, <2>2
<1>2. CASE OtherSteps
  <2>1. call' = call
    BY <1>2, CallsRest
  <2> QED BY <2>1 DEF ShapeInv, CallShape
<1> QED BY <1>1, <1>2

LEMMA BuffersKept ==
  ASSUME ShapeInv, TypeOK', (\E c \in Calls : CallSteps(c)) \/ OtherSteps
  PROVE  BufferShape'
<1>1. CASE buffer' = buffer
  BY <1>1 DEF ShapeInv, BufferShape
<1>2. ASSUME NEW c \in Calls, Places(c)
      PROVE  BufferShape'
  <2>1. /\ call[c].nodes \subseteq Devices /\ BufferShape /\ c \in Active
        /\ call[c].args \subseteq Pointers /\ call[c].nodes \subseteq Nodes
    <3>1. c \in Active /\ call[c].kind # "d2h" /\ call[c].kind # "none" /\ BufferShape /\ CallShape(c)
      BY <1>2, PlacesFacts DEF ShapeInv, Active
    <3>2. call[c] \in CallRecord
      BY <1>2, Typing DEF ShapeInv
    <3> QED BY <3>1, <3>2 DEF CallShape, CallRecord
  <2> SUFFICES ASSUME NEW q \in Pointers
               PROVE  /\ buffer'[q].state # "live" => buffer'[q].alloc = None
                      /\ buffer'[q].state # "free" => buffer'[q].device \in Devices /\ buffer'[q].origin \in Ids
                      /\ buffer'[q].state = "live" => buffer'[q].alloc \in Allocations
    BY DEF BufferShape
  <2>2. CASE \A n \in call[c].nodes : call'[c].out[n] # q
    <3>1. \/ buffer'[q] = buffer[q]
          \/ /\ buffer'[q].state = "deleted" /\ buffer'[q].alloc = None
             /\ buffer'[q].device = buffer[q].device /\ buffer'[q].origin = buffer[q].origin
             /\ q \in call[c].args
      BY <1>2, <2>2, PlacesLeaves
    <3>2. q \in call[c].args => buffer[q].state = "live"
      BY <1>2, PlacesFacts
    <3> QED BY <2>1, <3>1, <3>2 DEF BufferShape
  <2>3. CASE \E n \in call[c].nodes : call'[c].out[n] = q
    <3>1. PICK n \in call[c].nodes : call'[c].out[n] = q
      BY <2>3
    <3>2. /\ buffer'[q].state = "live" /\ buffer'[q].device = n /\ buffer'[q].origin = <<c, n>>
          /\ \/ buffer'[q].alloc = <<c, n>>
             \/ \E p \in call[c].args : buffer'[q].alloc = buffer[p].alloc
      <4>1. MadeAt(c, n, call'[c].out[n])
        BY <1>2, PlacesMakes
      <4> QED BY <3>1, <4>1 DEF MadeAt
    <3>3. \A p \in call[c].args : buffer[p].alloc \in Allocations
      BY <1>2, <2>1, PlacesFacts DEF BufferShape
    <3>4. n \in Devices /\ <<c, n>> \in Ids /\ <<c, n>> \in Allocations
      BY <2>1, <3>1, IdFacts
    <3> QED BY <3>2, <3>3, <3>4
  <2> QED BY <2>2, <2>3
<1>3. ASSUME NEW p \in Pointers, Deletes(p)
      PROVE  BufferShape'
  BY <1>3 DEF ShapeInv, BufferShape, Deletes
<1>4. ASSUME NEW p \in Pointers, Frees(p)
      PROVE  BufferShape'
  BY <1>4 DEF ShapeInv, BufferShape, Frees, NoBuffer
<1> QED BY <1>1, <1>2, <1>3, <1>4, BufferSteps

(* The steps that touch what is being destroyed.                           *)
LEMMA DestroySteps ==
  ASSUME (\E c \in Calls : CallSteps(c)) \/ OtherSteps
  PROVE  \/ destroying' = destroying
         \/ \E p \in Pointers : Erases(p) \/ Frees(p)
<1>1. ASSUME NEW c \in Calls, Begins(c) \/ Stays(c) \/ Places(c) \/ Issues(c) \/ Associates(c) \/ Keeps(c)
      PROVE  destroying' = destroying
  BY <1>1, PlacesFacts, Zenon DEF Begins, Stays, Issues, Associates, Keeps
<1>2. ASSUME (\E p \in Pointers : Deletes(p)) \/ Resolves \/ DestroyAllocation \/ UNCHANGED vars
      PROVE  destroying' = destroying
  BY <1>2 DEF Deletes, Resolves, DestroyAllocation, vars
<1> QED BY <1>1, <1>2 DEF CallSteps, OtherSteps

LEMMA DestroyKept ==
  ASSUME ShapeInv, (\E c \in Calls : CallSteps(c)) \/ OtherSteps
  PROVE  DestroyShape'
<1>1. SUFFICES ASSUME NEW q \in destroying', buffer'[q].state = "free" PROVE FALSE
  BY DEF DestroyShape
<1>2. \A p \in destroying : p \in Pointers /\ buffer[p].state # "free"
  BY Typing DEF ShapeInv, DestroyShape
<1>3. CASE destroying' = destroying
  <2>1. q \in Pointers /\ buffer[q].state # "free" /\ buffer' # buffer
    BY <1>1, <1>2, <1>3
  <2>2. \A p \in Pointers : ~Frees(p)
    BY <1>3 DEF Frees
  <2>3. CASE \E p \in Pointers : Deletes(p)
    BY <1>1, <2>1, <2>3 DEF Deletes
  <2>4. ASSUME NEW c \in Calls, Places(c)
        PROVE  FALSE
    <3>1. CASE \A n \in call[c].nodes : call'[c].out[n] # q
      BY <1>1, <2>1, <2>4, <3>1, PlacesLeaves
    <3>2. ASSUME NEW n \in call[c].nodes, call'[c].out[n] = q
          PROVE  FALSE
      <4>1. MadeAt(c, n, call'[c].out[n])
        BY <2>4, PlacesMakes
      <4> QED BY <1>1, <3>2, <4>1 DEF MadeAt
    <3> QED BY <3>1, <3>2
  <2> QED BY <2>1, <2>2, <2>3, <2>4, BufferSteps
<1>4. ASSUME NEW p \in Pointers, Erases(p)
      PROVE  FALSE
  BY <1>1, <1>2, <1>4 DEF Erases, Visible
<1>5. ASSUME NEW p \in Pointers, Frees(p)
      PROVE  FALSE
  BY <1>1, <1>2, <1>5 DEF Frees
<1> QED BY <1>3, <1>4, <1>5, DestroySteps

(* Outputs: those there were, and those Places makes.                      *)
LEMMA OutsMove ==
  ASSUME ShapeInv, (\E c \in Calls : CallSteps(c)) \/ OtherSteps,
         NEW b \in Active', NEW n \in Nodes, call'[b].out[n] # None
  PROVE  \/ b \in Active /\ call'[b].out[n] = call[b].out[n]
         \/ Places(b) /\ n \in call[b].nodes
<1>1. b \in Calls
  BY DEF Active
<1>2. ASSUME NEW c \in Calls, CallSteps(c), b = c, ~Places(c)
      PROVE  b \in Active /\ call'[b].out[n] = call[b].out[n]
  <2>1. CASE Begins(c)
    <3>1. CallShape(c)' /\ (call'[c].at = "enqueue" <=> call'[c].kind = "d2h")
          /\ call'[c].at \in {"create", "oom", "unwrap", "enqueue"}
      BY <2>1, Zenon DEF Begins
    <3>2. call'[c].out[n] = None
      BY <3>1 DEF CallShape, Placed
    <3> QED BY <1>2, <3>2
  <2>2. CASE Stays(c) \/ Issues(c) \/ Associates(c) \/ Keeps(c)
    <3>1. c \in Active /\ call'[c].out = call[c].out
      BY <2>2, Zenon DEF Stays, Issues, Associates, Keeps
    <3> QED BY <1>2, <3>1
  <2> QED BY <1>2, <2>1, <2>2 DEF CallSteps
<1>3. ASSUME NEW c \in Calls, CallSteps(c), b # c
      PROVE  b \in Active /\ call'[b].out[n] = call[b].out[n]
  BY <1>1, <1>3, CallsMove
<1>4. ASSUME Places(b)
      PROVE  n \in call[b].nodes
  BY <1>1, <1>4, PlacesMakes
<1>5. CASE OtherSteps
  BY <1>5, CallsRest
<1> QED BY <1>1, <1>2, <1>3, <1>4, <1>5

(* A buffer that a call is still making is out of everybody's reach.       *)
LEMMA OutsUntouched ==
  ASSUME ShapeInv, (\E c \in Calls : CallSteps(c)) \/ OtherSteps,
         NEW q \in Pointers, buffer[q].state = "live", q \notin destroying,
         NEW b \in Active, NEW n \in Nodes, call[b].out[n] = q
  PROVE  buffer'[q] = buffer[q] /\ q \notin destroying'
<1>1. ~Visible(q)
  BY DEF Visible
<1>2. \A c \in Active : q \notin call[c].args
  BY DEF ShapeInv, ArgShape
<1>3. buffer'[q] = buffer[q]
  <2>1. ASSUME NEW c \in Calls, Places(c)
        PROVE  buffer'[q] = buffer[q]
    <3>1. ASSUME NEW m \in call[c].nodes, call'[c].out[m] = q
          PROVE  FALSE
      <4>1. MadeAt(c, m, call'[c].out[m])
        BY <2>1, PlacesMakes
      <4> QED BY <3>1, <4>1 DEF MadeAt
    <3>2. q \notin call[c].args
      BY <1>2, <2>1, PlacesFacts
    <3> QED BY <2>1, <3>1, <3>2, PlacesLeaves
  <2>2. ASSUME NEW p \in Pointers, Deletes(p)
        PROVE  buffer'[q] = buffer[q]
    BY <1>1, <2>2 DEF Deletes
  <2>3. ASSUME NEW p \in Pointers, Frees(p)
        PROVE  buffer'[q] = buffer[q]
    BY <2>3 DEF Frees
  <2> QED BY <2>1, <2>2, <2>3, BufferSteps
<1>4. q \notin destroying'
  BY <1>1, DestroySteps DEF Erases, Frees
<1> QED BY <1>3, <1>4

LEMMA OwnersKept ==
  ASSUME ShapeInv, TypeOK', (\E c \in Calls : CallSteps(c)) \/ OtherSteps
  PROVE  OutOwner'
<1> SUFFICES ASSUME NEW b \in Active', NEW n \in Nodes, NEW q, q = call'[b].out[n], q # None
             PROVE  /\ buffer'[q].state = "live" /\ q \notin destroying'
                    /\ buffer'[q].device = n /\ buffer'[q].origin = <<b, n>>
                    /\ \A a \in Active' : \A m \in Nodes : call'[a].out[m] = q => a = b /\ m = n
  BY DEF OutOwner
<1>1. b \in Calls /\ q \in Pointers
  <2>1. b \in Calls /\ call' \in [Calls -> CallRecord]
    BY DEF Active, TypeOK, CallRecord
  <2> QED BY <2>1 DEF CallRecord
<1>2. CASE b \in Active /\ call'[b].out[n] = call[b].out[n]
  <2>1. /\ buffer[q].state = "live" /\ q \notin destroying
        /\ buffer[q].device = n /\ buffer[q].origin = <<b, n>>
        /\ \A a \in Active : \A m \in Nodes : call[a].out[m] = q => a = b /\ m = n
    BY <1>2 DEF ShapeInv, OutOwner
  <2>2. buffer'[q] = buffer[q] /\ q \notin destroying'
    BY <1>1, <1>2, <2>1, OutsUntouched
  <2>3. ASSUME NEW a \in Active', NEW m \in Nodes, call'[a].out[m] = q
        PROVE  a = b /\ m = n
    <3>1. CASE a \in Active /\ call'[a].out[m] = call[a].out[m]
      BY <2>1, <2>3, <3>1
    <3>2. CASE Places(a) /\ m \in call[a].nodes
      <4>1. MadeAt(a, m, call'[a].out[m])
        BY <3>2, PlacesMakes DEF Active
      <4> QED BY <2>1, <2>3, <4>1 DEF MadeAt
    <3> QED BY <2>3, <3>1, <3>2, OutsMove
  <2> QED BY <2>1, <2>2, <2>3
<1>3. CASE Places(b) /\ n \in call[b].nodes
  <2>1. MadeAt(b, n, q)
    BY <1>1, <1>3, PlacesMakes
  <2>2. q \notin destroying'
    BY <1>1, <1>3, <2>1, PlacesFacts DEF MadeAt, ShapeInv, DestroyShape
  <2>3. ASSUME NEW a \in Active', NEW m \in Nodes, call'[a].out[m] = q
        PROVE  a = b /\ m = n
    <3>1. CASE a \in Active /\ call'[a].out[m] = call[a].out[m]
      <4>1. buffer[q].state = "live"
        BY <2>3, <3>1 DEF ShapeInv, OutOwner
      <4> QED BY <2>1, <4>1 DEF MadeAt
    <3>2. CASE Places(a) /\ m \in call[a].nodes
      <4>1. a = b
        <5>1. a \in Active /\ a \in Calls /\ call'[a].at = "enqueue" /\ call[a].at \notin Placed
          BY <3>2, PlacesFacts DEF Active
        <5>2. ASSUME a # b PROVE FALSE
          <6>1. CallSteps(b)
            BY <1>3 DEF CallSteps
          <6>2. call'[a] = call[a]
            BY <1>1, <5>1, <5>2, <6>1, CallsMove
          <6> QED BY <5>1, <6>2 DEF Placed
        <5> QED BY <5>2
      <4>2. \A k, l \in call[b].nodes : call'[b].out[k] = call'[b].out[l] => k = l
        BY <1>1, <1>3, PlacesMakes
      <4> QED BY <1>3, <2>3, <3>2, <4>1, <4>2
    <3> QED BY <2>3, <3>1, <3>2, OutsMove
  <2> QED BY <2>1, <2>2, <2>3 DEF MadeAt
<1> QED BY <1>2, <1>3, OutsMove

(* What a call that begins is given.                                       *)
LEMMA BeginsWith ==
  ASSUME NEW c \in Calls, Begins(c)
  PROVE  LET new == call'[c] IN
    /\ call[c] = NoCall /\ CallShape(c)'
    /\ new.kind \in Kinds /\ new.kind # "none"
    /\ new.at \in {"create", "oom", "unwrap", "enqueue"}
    /\ new.at = "enqueue" <=> new.kind = "d2h"
    /\ new.at = "unwrap" <=> new.kind = "execute"
    /\ \A p \in new.args : Usable(p) /\ (new.kind # "execute" => buffer[p].state = "live")
    /\ new.need = {buffer[p].origin : p \in new.args}
    /\ new.donate => \A p \in new.args : RevokeInUse \/ ~InUse(p)
    /\ new.kind = "execute" =>
         /\ new.nodes = {buffer[p].device : p \in new.args}
         /\ \A p, q \in new.args : buffer[p].device = buffer[q].device => p = q
         /\ \A p \in new.args : ReadyNow(p) \/ Producer(p) \subseteq new.deps
    /\ UNCHANGED <<buffer, destroying, holds, runtimeVars>>
  BY Zenon DEF Begins

(* The operands of a call in progress were there when it began.            *)
LEMMA ArgsMove ==
  ASSUME ShapeInv, (\E c \in Calls : CallSteps(c)) \/ OtherSteps, NEW b \in Active'
  PROVE  \/ b \in Active /\ Continues(b)
         \/ b \in Active /\ call'[b] = call[b]
         \/ Begins(b)
<1>1. b \in Calls
  BY DEF Active
<1>2. ASSUME NEW c \in Calls, CallSteps(c)
      PROVE  \/ b \in Active /\ Continues(b)
             \/ b \in Active /\ call'[b] = call[b]
             \/ Begins(b)
  <2>1. CASE b # c
    BY <1>1, <1>2, <2>1, CallsMove
  <2>2. CASE b = c
    <3>1. Begins(c) \/ (c \in Active /\ Continues(c))
      BY <1>2, PlacesFacts, Zenon DEF CallSteps, Stays, Issues, Associates, Keeps
    <3> QED BY <2>2, <3>1
  <2> QED BY <2>1, <2>2
<1>3. CASE OtherSteps
  BY <1>3, CallsRest
<1> QED BY <1>2, <1>3

LEMMA ArgsKept ==
  ASSUME ShapeInv, TypeOK', (\E c \in Calls : CallSteps(c)) \/ OtherSteps
  PROVE  ArgShape'
<1> SUFFICES ASSUME NEW b \in Active'
             PROVE  /\ \A p \in call'[b].args :
                         /\ buffer'[p].state # "free" /\ p \notin destroying'
                         /\ \A a \in Active' : \A m \in Nodes : call'[a].out[m] # p
                    /\ call'[b].need = {buffer'[p].origin : p \in call'[b].args}
                    /\ call'[b].kind = "execute" =>
                         /\ call'[b].nodes = {buffer'[p].device : p \in call'[b].args}
                         /\ \A p, q \in call'[b].args : buffer'[p].device = buffer'[q].device => p = q
  BY DEF ArgShape
<1>1. b \in Calls /\ call'[b].args \subseteq Pointers
  <2>1. b \in Calls /\ call' \in [Calls -> CallRecord]
    BY DEF Active, TypeOK, CallRecord
  <2> QED BY <2>1 DEF CallRecord
(* Before the step the operands are where they should be, and not for
   DestroyBuffer to take.                                                  *)
<1>2. /\ \A p \in call'[b].args :
           /\ buffer[p].state # "free" /\ p \notin destroying
           /\ \A a \in Active : \A m \in Nodes : call[a].out[m] # p
           /\ p \notin destroying'
      /\ call'[b].need = {buffer[p].origin : p \in call'[b].args}
      /\ call'[b].kind = "execute" =>
           /\ call'[b].nodes = {buffer[p].device : p \in call'[b].args}
           /\ \A p, q \in call'[b].args : buffer[p].device = buffer[q].device => p = q
  <2>1. CASE b \in Active /\ (Continues(b) \/ call'[b] = call[b])
    <3>1. /\ call'[b].args = call[b].args /\ call'[b].need = call[b].need
          /\ call'[b].kind = call[b].kind /\ call'[b].nodes = call[b].nodes
      BY <2>1 DEF Continues
    <3>2. /\ \A p \in call[b].args :
               /\ buffer[p].state # "free" /\ p \notin destroying
               /\ \A a \in Active : \A m \in Nodes : call[a].out[m] # p
          /\ call[b].need = {buffer[p].origin : p \in call[b].args}
          /\ call[b].kind = "execute" =>
               /\ call[b].nodes = {buffer[p].device : p \in call[b].args}
               /\ \A p, q \in call[b].args : buffer[p].device = buffer[q].device => p = q
      BY <2>1 DEF ShapeInv, ArgShape
    <3>3. \A p \in call[b].args : InUse(p)
      BY <2>1 DEF InUse
    <3>4. \A p \in call[b].args : p \notin destroying'
      BY <3>2, <3>3, DestroySteps DEF Erases, Frees
    <3> QED BY <3>1, <3>2, <3>4
  <2>2. CASE Begins(b)
    <3>1. \A p \in call'[b].args : Visible(p)
      BY <1>1, <2>2, BeginsWith DEF Usable
    <3>2. destroying' = destroying
      BY <1>1, <2>2, BeginsWith
    <3>3. /\ call'[b].need = {buffer[p].origin : p \in call'[b].args}
          /\ call'[b].kind = "execute" =>
               /\ call'[b].nodes = {buffer[p].device : p \in call'[b].args}
               /\ \A p, q \in call'[b].args : buffer[p].device = buffer[q].device => p = q
      BY <1>1, <2>2, BeginsWith, Zenon
    <3> QED BY <3>1, <3>2, <3>3 DEF Visible
  <2> QED BY <2>1, <2>2, ArgsMove
<1>3. \A p \in call'[b].args : Lasting(p)
  BY <1>1, <1>2, BuffersLast
<1>4. ASSUME NEW p \in call'[b].args, NEW a \in Active', NEW m \in Nodes, call'[a].out[m] = p
      PROVE  FALSE
  <2>1. p # None
    BY <1>1, IdFacts
  <2>2. CASE a \in Active /\ call'[a].out[m] = call[a].out[m]
    BY <1>2, <1>4, <2>2
  <2>3. CASE Places(a) /\ m \in call[a].nodes
    <3>1. MadeAt(a, m, call'[a].out[m])
      BY <2>3, PlacesMakes DEF Active
    <3> QED BY <1>2, <1>4, <3>1 DEF MadeAt
  <2> QED BY <1>4, <2>1, <2>2, <2>3, OutsMove
<1>5. /\ {buffer'[p].origin : p \in call'[b].args} = {buffer[p].origin : p \in call'[b].args}
      /\ {buffer'[p].device : p \in call'[b].args} = {buffer[p].device : p \in call'[b].args}
  BY <1>3 DEF Lasting
<1> QED BY <1>2, <1>3, <1>4, <1>5 DEF Lasting

LEMMA ShapeKept ==
  ASSUME ShapeInv, TypeOK', (\E c \in Calls : CallSteps(c)) \/ OtherSteps
  PROVE  ShapeInv'
  BY ShapesKept, BuffersKept, OwnersKept, ArgsKept, DestroyKept DEF ShapeInv

----------------------------------------------------------------------------
(* Futures only go forward, and only the call they belong to issues them.  *)
LEMMA IssuesDoes ==
  ASSUME ShapeInv, NEW c \in Calls, Issues(c)
  PROVE  /\ \A n \in Nodes : status[<<c, n>>] = "new"
         /\ \A id \in Ids \ IdsOf(c) : status'[id] = status[id] /\ before'[id] = before[id]
         /\ IdsOf(c) \subseteq Runtime!Issued'
         /\ Runtime!Lawful(status, before)'
         /\ \E ins \in SUBSET Ids :
              /\ \A n \in call[c].nodes : ins \subseteq before'[<<c, n>>]
              /\ call[c].kind = "execute" => ins = call[c].deps
              /\ call[c].kind # "execute" => \A p \in call[c].args : Producer(p) \subseteq ins
<1>1. PICK ins \in SUBSET Ids, inOrder \in BOOLEAN :
        /\ Runtime!Issue(c, call[c].nodes, ins, inOrder)
        /\ call[c].kind = "execute" => ins = call[c].deps
        /\ call[c].kind # "execute" => \A p \in call[c].args : Producer(p) \subseteq ins
  BY Zenon DEF Issues
<1>2. TypeOK /\ call[c].nodes \in SUBSET Nodes
  BY Typing DEF ShapeInv, CallRecord
<1>3. IdsOf(c) = {c} \X call[c].nodes
  BY DEF IdsOf
<1>4. /\ Runtime!Lawful(status, before)'
      /\ \A n \in Nodes : status[<<c, n>>] = "new"
      /\ \A id \in Ids : id \notin {c} \X call[c].nodes => status'[id] = status[id] /\ before'[id] = before[id]
      /\ \A n \in call[c].nodes : /\ status'[<<c, n>>] \in {"pending", "ok", "error"}
                                  /\ ins \subseteq before'[<<c, n>>]
  <2> DEFINE nodes == call[c].nodes
  <2>1. TypeOK /\ nodes \in SUBSET Nodes /\ Runtime!Issue(c, nodes, ins, inOrder)
    BY <1>1, <1>2
  <2> HIDE DEF nodes
  <2>2. IssuedBy(c, nodes, ins)
    BY <2>1, IssueEffect
  <2> QED BY <2>2 DEF nodes, IssuedBy
<1>5. IdsOf(c) \subseteq Runtime!Issued'
  <2> SUFFICES ASSUME NEW n \in call[c].nodes PROVE <<c, n>> \in Runtime!Issued'
    BY DEF IdsOf
  <2>1. <<c, n>> \in Ids
    BY <1>2, IdFacts
  <2> QED BY <1>4, <2>1, IdFacts DEF Runtime!Issued
<1>6. \A id \in Ids \ IdsOf(c) : status'[id] = status[id] /\ before'[id] = before[id]
  BY <1>3, <1>4
<1> QED BY <1>1, <1>4, <1>5, <1>6

LEMMA StatusSteps ==
  ASSUME (\E c \in Calls : CallSteps(c)) \/ OtherSteps
  PROVE  \/ UNCHANGED runtimeVars
         \/ \E c \in Calls : Issues(c)
         \/ Resolves
<1>1. ASSUME NEW c \in Calls, Begins(c) \/ Stays(c) \/ Places(c) \/ Associates(c) \/ Keeps(c)
      PROVE  UNCHANGED runtimeVars
  BY <1>1, PlacesFacts, Zenon DEF Begins, Stays, Associates, Keeps
<1>2. ASSUME (\E p \in Pointers : Deletes(p) \/ Erases(p) \/ Frees(p)) \/ DestroyAllocation \/ UNCHANGED vars
      PROVE  UNCHANGED runtimeVars
  BY <1>2 DEF Deletes, Erases, Frees, DestroyAllocation, vars, runtimeVars
<1> QED BY <1>1, <1>2 DEF CallSteps, OtherSteps

LEMMA StatusMoves ==
  ASSUME ShapeInv, (\E c \in Calls : CallSteps(c)) \/ OtherSteps, NEW id \in Ids
  PROVE  /\ status[id] \in Runtime!Settled => status'[id] = status[id]
         /\ status[id] = "ok" => status'[id] = "ok"
         /\ status[id] # "new" => status'[id] # "new" /\ before'[id] = before[id]
         /\ status[id] = "new" /\ status'[id] # "new" => \E c \in Calls : Issues(c) /\ id \in IdsOf(c)
<1>1. CASE UNCHANGED runtimeVars
  BY <1>1 DEF runtimeVars
<1>2. ASSUME NEW c \in Calls, Issues(c)
      PROVE  status[id] = "new" \/ (status'[id] = status[id] /\ before'[id] = before[id])
  <2>1. CASE id \in IdsOf(c)
    <3>1. call[c].nodes \subseteq Nodes
      BY Typing DEF ShapeInv, CallRecord
    <3> QED BY <1>2, <2>1, <3>1, IssuesDoes DEF IdsOf
  <2> QED BY <1>2, <2>1, IssuesDoes
<1>3. ASSUME NEW c \in Calls, Issues(c), status'[id] # status[id]
      PROVE  id \in IdsOf(c)
  BY <1>3, IssuesDoes
<1>4. CASE Resolves
  BY <1>4 DEF Resolves, Runtime!Settled
<1> QED BY <1>1, <1>2, <1>3, <1>4, StatusSteps DEF Runtime!Settled

LEMMA LawKept ==
  ASSUME ShapeInv, NeedsInv, (\E c \in Calls : CallSteps(c)) \/ OtherSteps
  PROVE  Runtime!Lawful(status, before)'
<1>1. CASE UNCHANGED runtimeVars
  BY <1>1 DEF NeedsInv, runtimeVars, Runtime!Lawful
<1>2. CASE Resolves
  BY <1>2 DEF Resolves
<1> QED BY <1>1, <1>2, IssuesDoes, StatusSteps

(* A buffer that callers see has its producer, and what is known of it holds. *)
LEMMA KnownProducer ==
  ASSUME ShapeInv, RegistryInv, NEW p \in Pointers, buffer[p].state # "free", p \notin destroying,
         \A b \in Active : \A m \in Nodes : call[b].out[m] # p
  PROVE  /\ buffer[p].origin \in Ids /\ Producer(p) = {buffer[p].origin}
         /\ ReadyNow(p) => status[buffer[p].origin] = "ok"
<1>1. registry[p].producer = buffer[p].origin /\ (registry[p].ready => status[buffer[p].origin] = "ok")
  BY DEF RegistryInv, Unassociated
<1>2. buffer[p].origin \in Ids /\ buffer[p].origin # None
  BY IdFacts DEF ShapeInv, BufferShape
<1> QED BY <1>1, <1>2 DEF Producer, ReadyNow

LEMMA NeedsKept ==
  ASSUME ShapeInv, TypeOK', RegistryInv, NeedsInv, (\E c \in Calls : CallSteps(c)) \/ OtherSteps
  PROVE  NeedsInv'
<1>1. Runtime!Lawful(status, before)'
  BY LawKept
<1>2. ASSUME NEW c \in Calls, CallSteps(c), call'[c].at \notin {"associate", "keep", "done"}
      PROVE  call[c].at \notin {"associate", "keep", "done"} /\ ~Issues(c)
  <2>1. CASE Begins(c) \/ Stays(c) \/ Places(c)
    <3>1. Begins(c) => call[c].at = "start"
      BY BeginsWith DEF NoCall
    <3>2. Stays(c) \/ Places(c) => call[c].at \notin Placed
      BY PlacesFacts DEF Stays
    <3>3. Issues(c) => call[c].at = "enqueue"
      BY DEF Issues
    <3> QED BY <2>1, <3>1, <3>2, <3>3 DEF Placed
  <2>2. CASE Issues(c) \/ Associates(c) \/ Keeps(c)
    BY <1>2, <2>2 DEF Issues, Associates, Keeps
  <2> QED BY <1>2, <2>1, <2>2 DEF CallSteps
<1>3. ASSUME NEW c \in Calls, Issues(c)
      PROVE  call'[c].at \in {"associate", "keep", "done"} /\ call[c].at = "enqueue"
  BY <1>3 DEF Issues
<1>4. ASSUME NEW c \in Calls, NEW n \in Nodes, status'[<<c, n>>] # "new"
      PROVE  call'[c].at \in {"associate", "keep", "done"}
  <2>1. <<c, n>> \in Ids
    BY IdFacts
  <2>2. CASE status[<<c, n>>] = "new"
    <3>1. PICK b \in Calls : Issues(b) /\ <<c, n>> \in IdsOf(b)
      BY <1>4, <2>1, <2>2, StatusMoves
    <3>2. b = c
      BY <3>1 DEF IdsOf
    <3> QED BY <1>3, <3>1, <3>2
  <2>3. CASE status[<<c, n>>] # "new"
    <3>1. call[c].at \in {"associate", "keep", "done"}
      BY <2>3 DEF NeedsInv
    <3>2. ASSUME NEW b \in Calls, CallSteps(b)
          PROVE  call'[c].at \in {"associate", "keep", "done"}
      <4>1. CASE b = c
        BY <1>2, <3>1, <3>2, <4>1
      <4>2. CASE b # c
        BY <3>1, <3>2, <4>2, CallsMove
      <4> QED BY <4>1, <4>2
    <3> QED BY <3>1, <3>2, CallsRest
  <2> QED BY <2>2, <2>3
<1>5. ASSUME NEW c \in Calls, call'[c].at \in {"associate", "keep", "done"}
      PROVE  IdsOf(c)' \subseteq Runtime!Issued'
  <2>1. CASE call[c].at \in {"associate", "keep", "done"}
    <3>1. IdsOf(c) \subseteq Runtime!Issued
      BY <2>1 DEF NeedsInv
    <3>2. call'[c].nodes = call[c].nodes
      <4>1. ASSUME NEW b \in Calls, CallSteps(b)
            PROVE  call'[c].nodes = call[c].nodes
        BY <2>1, <4>1, CallsMove DEF Continues, NoCall
      <4> QED BY <4>1, CallsRest
    <3>3. Runtime!Issued \subseteq Runtime!Issued'
      BY StatusMoves, IdFacts DEF Runtime!Issued
    <3> QED BY <3>1, <3>2, <3>3 DEF IdsOf
  <2>2. CASE call[c].at \notin {"associate", "keep", "done"}
    <3>1. PICK b \in Calls : CallSteps(b)
      BY <1>5, <2>2, CallsRest
    <3>2. b = c
      BY <1>5, <2>2, <3>1, CallsMove
    <3>3. Issues(c)
      <4>1. CASE Begins(c) \/ Stays(c) \/ Places(c)
        BY <1>5, <4>1 DEF Begins, Stays, Places
      <4>2. CASE Associates(c) \/ Keeps(c)
        BY <2>2, <4>2 DEF Associates, Keeps
      <4> QED BY <3>1, <3>2, <4>1, <4>2 DEF CallSteps
    <3>4. call'[c].nodes = call[c].nodes /\ IdsOf(c) \subseteq Runtime!Issued'
      BY <3>3, IssuesDoes, Zenon DEF Issues, Continues
    <3> QED BY <3>4 DEF IdsOf
  <2> QED BY <2>1, <2>2
(* What a call needs is among what it depends on.                          *)
<1>6. ASSUME NEW b \in Active', call'[b].kind = "execute", NEW j \in call'[b].need
      PROVE  j \in call'[b].deps \/ status'[j] = "ok"
  <2>1. b \in Calls
    BY DEF Active
  <2>2. CASE b \in Active /\ (Continues(b) \/ call'[b] = call[b])
    <3>1. call'[b].need = call[b].need /\ call'[b].deps = call[b].deps /\ call'[b].kind = call[b].kind
      BY <2>2 DEF Continues
    <3>2. (j \in call[b].deps \/ status[j] = "ok") /\ j \in Ids
      BY <1>6, <2>1, <2>2, <3>1, Typing DEF NeedsInv, ShapeInv, CallRecord
    <3> QED BY <3>1, <3>2, StatusMoves
  <2>3. CASE Begins(b)
    <3>1. /\ call'[b].need = {buffer[p].origin : p \in call'[b].args}
          /\ \A p \in call'[b].args : Usable(p)
          /\ \A p \in call'[b].args : ReadyNow(p) \/ Producer(p) \subseteq call'[b].deps
      BY <1>6, <2>1, <2>3, BeginsWith, Zenon
    <3>2. PICK p \in call'[b].args : j = buffer[p].origin
      BY <1>6, <3>1
    <3>3. call'[b].args \subseteq Pointers
      BY <2>1 DEF TypeOK
    <3>4. Visible(p) /\ p \in Pointers
      BY <3>1, <3>2, <3>3 DEF Usable
    <3>5. /\ j \in Ids /\ Producer(p) = {j}
          /\ ReadyNow(p) => status[j] = "ok"
      BY <3>2, <3>4, KnownProducer DEF Visible
    <3> QED BY <3>1, <3>2, <3>5, StatusMoves
  <2> QED BY <2>2, <2>3, ArgsMove
(* What a result needs is among what it waits for.                         *)
<1>7. ASSUME NEW c \in Calls, NEW id \in IdsOf(c)' \cap Runtime!Issued', NEW j \in call'[c].need
      PROVE  j \in before'[id] \/ status'[j] = "ok"
  <2>1. PICK n \in call'[c].nodes : id = <<c, n>>
    BY <1>7 DEF IdsOf
  <2>2. id \in Ids /\ n \in Nodes /\ status'[id] # "new"
    <3>1. n \in Nodes
      BY <2>1 DEF TypeOK
    <3> QED BY <1>7, <2>1, <3>1, IdFacts DEF Runtime!Issued
  <2>3. CASE status[id] # "new"
    <3>1. call[c].at \in {"associate", "keep", "done"}
      BY <2>1, <2>2, <2>3 DEF NeedsInv
    <3>2. call'[c].nodes = call[c].nodes /\ call'[c].need = call[c].need
      <4>1. ASSUME NEW b \in Calls, CallSteps(b)
            PROVE  call'[c].nodes = call[c].nodes /\ call'[c].need = call[c].need
        BY <3>1, <4>1, CallsMove DEF Continues, NoCall
      <4> QED BY <4>1, CallsRest
    <3>3. id \in IdsOf(c) \cap Runtime!Issued
      BY <2>1, <2>2, <2>3, <3>2, IdFacts DEF IdsOf, Runtime!Issued
    <3>4. j \in before[id] \/ status[j] = "ok"
      BY <1>7, <3>2, <3>3 DEF NeedsInv
    <3>5. j \in Ids
      BY <1>7, <3>2, Typing DEF ShapeInv, CallRecord
    <3> QED BY <2>2, <2>3, <3>4, <3>5, StatusMoves
  <2>4. CASE status[id] = "new"
    <3>1. PICK b \in Calls : Issues(b) /\ id \in IdsOf(b)
      BY <2>2, <2>4, StatusMoves
    <3>2. b = c
      BY <2>1, <3>1 DEF IdsOf
    <3>3. /\ c \in Active /\ call'[c].nodes = call[c].nodes /\ call'[c].need = call[c].need
      BY <3>1, <3>2, Zenon DEF Issues, Continues
    <3>4. PICK ins \in SUBSET Ids :
            /\ \A m \in call[c].nodes : ins \subseteq before'[<<c, m>>]
            /\ call[c].kind = "execute" => ins = call[c].deps
            /\ call[c].kind # "execute" => \A p \in call[c].args : Producer(p) \subseteq ins
      BY <3>1, <3>2, IssuesDoes
    <3>5. ins \subseteq before'[id]
      BY <2>1, <3>3, <3>4
    <3>6. j \in ins \/ status[j] = "ok"
      <4>1. CASE call[c].kind = "execute"
        BY <1>7, <3>3, <3>4, <4>1 DEF NeedsInv
      <4>2. CASE call[c].kind # "execute"
        <5>1. PICK p \in call[c].args : j = buffer[p].origin
          BY <1>7, <3>3 DEF ShapeInv, ArgShape
        <5>2. /\ p \in Pointers /\ buffer[p].state # "free" /\ p \notin destroying
              /\ \A a \in Active : \A m \in Nodes : call[a].out[m] # p
          BY <3>3, <5>1, Typing DEF ShapeInv, ArgShape, CallRecord
        <5>3. Producer(p) = {j}
          BY <5>1, <5>2, KnownProducer
        <5> QED BY <3>4, <4>2, <5>1, <5>3
      <4> QED BY <4>1, <4>2
    <3>7. j \in Ids
      BY <1>7, <3>3, Typing DEF ShapeInv, CallRecord
    <3> QED BY <3>5, <3>6, <3>7, StatusMoves
  <2> QED BY <2>3, <2>4
<1> QED BY <1>1, <1>4, <1>5, <1>6, <1>7 DEF NeedsInv

----------------------------------------------------------------------------
(* The registry keeps the producer of each buffer under its address.       *)

(* A call that hasn't given its output a producer yet, and moves no such
   buffer out of sight, still has to.                                      *)
LEMMA StillUnassociated ==
  ASSUME ShapeInv, (\E c \in Calls : CallSteps(c)) \/ OtherSteps,
         NEW p \in Pointers, Unassociated(p)
  PROVE  \/ Unassociated(p)'
         \/ \E c \in Calls : Associates(c) /\ \E n \in call[c].nodes : call[c].out[n] = p
<1>1. PICK b \in Active, n \in Nodes : call[b].at \in {"enqueue", "associate"} /\ call[b].out[n] = p
  BY DEF Unassociated
<1>2. b \in Calls /\ call[b].kind # "d2h" /\ n \in call[b].nodes
  <2>1. b \in Calls /\ CallShape(b) /\ p # None
    BY IdFacts DEF Active, ShapeInv
  <2> QED BY <1>1, <2>1 DEF CallShape
<1>3. CASE call'[b] = call[b]
  BY <1>1, <1>2, <1>3 DEF Unassociated, Active
<1>4. CASE CallSteps(b)
  <2>1. ~Begins(b) /\ ~Stays(b) /\ ~Places(b) /\ ~Keeps(b)
    <3>1. call[b] # NoCall
      BY <1>1 DEF NoCall
    <3>2. ~Begins(b)
      BY <1>2, <3>1, BeginsWith
    <3>3. call[b].at \in Placed /\ call[b].at # "keep"
      BY <1>1 DEF Placed
    <3> QED BY <1>2, <3>2, <3>3, PlacesFacts DEF Stays, Keeps
  <2>2. CASE Issues(b)
    <3>1. /\ call'[b].at = "associate" /\ call'[b].out = call[b].out /\ call'[b].kind = call[b].kind
          /\ call[b].kind # "none"
      BY <1>1, <1>2, <2>2 DEF Issues, Continues, Active
    <3>2. b \in Active'
      BY <1>2, <3>1 DEF Active, Over
    <3> QED BY <1>1, <3>1, <3>2 DEF Unassociated
  <2>3. CASE Associates(b)
    BY <1>1, <1>2, <2>3
  <2> QED BY <1>4, <2>1, <2>2, <2>3 DEF CallSteps
<1>5. call'[b] = call[b] \/ CallSteps(b)
  BY <1>2, CallsMove, CallsRest
<1> QED BY <1>3, <1>4, <1>5

(* The steps that touch an entry.                                          *)
LEMMA RegistrySteps ==
  ASSUME (\E c \in Calls : CallSteps(c)) \/ OtherSteps
  PROVE  \/ registry' = registry
         \/ \E c \in Calls : Begins(c) \/ Associates(c)
         \/ \E p \in Pointers : Erases(p)
<1>1. ASSUME NEW c \in Calls, Stays(c) \/ Places(c) \/ Issues(c) \/ Keeps(c)
      PROVE  registry' = registry
  BY <1>1, PlacesFacts, Zenon DEF Stays, Issues, Keeps
<1>2. ASSUME (\E p \in Pointers : Deletes(p) \/ Frees(p)) \/ Resolves \/ DestroyAllocation \/ UNCHANGED vars
      PROVE  registry' = registry
  BY <1>2 DEF Deletes, Frees, Resolves, DestroyAllocation, vars
<1> QED BY <1>1, <1>2 DEF CallSteps, OtherSteps

LEMMA RegistryKept ==
  ASSUME ShapeInv, TypeOK', RegistryInv, (\E c \in Calls : CallSteps(c)) \/ OtherSteps
  PROVE  RegistryInv'
<1> SUFFICES ASSUME NEW p \in Pointers, buffer'[p].state # "free", p \notin destroying', ~Unassociated(p)'
             PROVE  /\ registry'[p].producer = buffer'[p].origin
                    /\ registry'[p].ready => status'[buffer'[p].origin] = "ok"
  BY DEF RegistryInv
<1>1. ~\E c \in Calls : Places(c) /\ \E n \in call[c].nodes : call'[c].out[n] = p
  <2> SUFFICES ASSUME NEW c \in Calls, NEW n \in call[c].nodes, Places(c), call'[c].out[n] = p
               PROVE  FALSE
    OBVIOUS
  <2>1. call'[c].at = "enqueue" /\ c \in Active /\ call'[c].kind = call[c].kind /\ n \in Nodes
    BY PlacesFacts, Typing DEF Continues, ShapeInv, CallRecord
  <2>2. c \in Active'
    BY <2>1 DEF Active, Over
  <2> QED BY <2>1, <2>2 DEF Unassociated
<1>2. buffer[p].state # "free" /\ p \notin destroying
  <2>1. buffer[p].state # "free"
    <3>1. ASSUME NEW c \in Calls, Places(c)
          PROVE  buffer[p].state # "free"
      <4>1. \A n \in call[c].nodes : call'[c].out[n] # p
        BY <1>1, <3>1
      <4>2. \A q \in call[c].args : buffer[q].state = "live"
        BY <3>1, PlacesFacts
      <4> QED BY <3>1, <4>1, <4>2, PlacesLeaves
    <3>2. ASSUME NEW q \in Pointers, Deletes(q) \/ Frees(q)
          PROVE  buffer[p].state # "free"
      BY <3>2 DEF Deletes, Frees, NoBuffer
    <3> QED BY <3>1, <3>2, BufferSteps
  <2>2. p \notin destroying
    <3>1. ASSUME NEW q \in Pointers, Erases(q)
          PROVE  p \notin destroying
      BY <3>1 DEF Erases
    <3>2. ASSUME NEW q \in Pointers, Frees(q)
          PROVE  p \notin destroying
      BY <3>2 DEF Frees, NoBuffer
    <3> QED BY <3>1, <3>2, DestroySteps
  <2> QED BY <2>1, <2>2
<1>3. Lasting(p) /\ buffer[p].origin \in Ids
  BY <1>2, BuffersLast DEF ShapeInv, BufferShape
<1>4. ASSUME NEW c \in Calls, NEW n \in call[c].nodes, Associates(c), call[c].out[n] = p
      PROVE  /\ registry'[p].producer = buffer'[p].origin
             /\ registry'[p].ready => status'[buffer'[p].origin] = "ok"
  <2>1. registry'[p] = [tracked |-> TRUE, producer |-> <<c, n>>, ready |-> FALSE]
    BY <1>4 DEF Associates
  <2>2. buffer[p].origin = <<c, n>>
    <3>1. c \in Active /\ call[c].at \in Placed /\ call[c].kind # "d2h"
      BY <1>4 DEF Associates, Placed
    <3> QED BY <1>4, <3>1, OutFacts
  <2> QED BY <1>3, <2>1, <2>2 DEF Lasting
<1>5. CASE ~\E c \in Calls : Associates(c) /\ \E n \in call[c].nodes : call[c].out[n] = p
  <2>1. ~Unassociated(p)
    BY <1>5, StillUnassociated
  <2>2. /\ registry[p].producer = buffer[p].origin
        /\ registry[p].ready => status[buffer[p].origin] = "ok"
    BY <1>2, <2>1 DEF RegistryInv
  <2>3. /\ registry'[p].producer = registry[p].producer
        /\ registry'[p].ready => status[buffer[p].origin] = "ok"
    <3>1. ASSUME NEW c \in Calls, Begins(c)
          PROVE  /\ registry'[p].producer = registry[p].producer
                 /\ registry'[p].ready => status[buffer[p].origin] = "ok"
      <4>1. /\ registry'[p].producer = registry[p].producer
            /\ registry'[p].ready => registry[p].ready \/ (p \in call'[c].args /\ ReadyNow(p))
        BY <3>1, Zenon DEF Begins
      <4>2. ReadyNow(p) => status[buffer[p].origin] = "ok"
        <5>1. Producer(p) = {buffer[p].origin}
          BY <1>3, <2>2, IdFacts DEF Producer
        <5> QED BY <2>2, <5>1 DEF ReadyNow
      <4> QED BY <2>2, <4>1, <4>2
    <3>2. ASSUME NEW c \in Calls, Associates(c)
          PROVE  registry'[p] = registry[p]
      BY <1>5, <3>2 DEF Associates
    <3>3. ASSUME NEW q \in Pointers, Erases(q)
          PROVE  registry'[p] = registry[p]
      BY <3>3 DEF Erases
    <3> QED BY <2>2, <3>1, <3>2, <3>3, RegistrySteps
  <2> QED BY <1>3, <2>2, <2>3, StatusMoves DEF Lasting
<1> QED BY <1>4, <1>5

----------------------------------------------------------------------------
(* The accounts.                                                           *)

(* Each device has finitely many allocations: one of each call.            *)
LEMMA FinitelyManyLive ==
  ASSUME NEW d \in Devices
  PROVE  IsFiniteSet(LiveOn(d)) /\ Cardinality(LiveOn(d)) \in Nat
<1>1. IsFiniteSet(Calls)
  BY ApiAssumption, FS_Interval DEF Calls
<1>2. IsFiniteSet(Calls \X {d})
  BY <1>1, FS_Singleton, FS_Product
<1>3. LiveOn(d) \subseteq Calls \X {d}
  <2> SUFFICES ASSUME NEW a \in LiveOn(d) PROVE a \in Calls \X {d}
    OBVIOUS
  <2>1. a \in Allocations /\ a[2] = d
    BY DEF LiveOn, Budget!Live
  <2>2. a[1] \in Calls /\ a = <<a[1], a[2]>>
    BY <2>1, IdFacts
  <2> QED BY <2>1, <2>2
<1> QED BY <1>2, <1>3, FS_Subset, FS_CardinalityType

LEMMA OneMore ==
  ASSUME NEW n \in Nat
  PROVE  Size * (n + 1) = Size * n + Size /\ Size * (n - 1) = Size * n - Size
  BY ApiAssumption

(* A granted allocation is told from one that isn't made and one that is gone. *)
LEMMA GrantedIsLive ==
  ASSUME NEW d \in Devices
  PROVE  [device |-> d, bytes |-> Size] \notin {Budget!Unmade, Budget!Freed}
<1>1. [device |-> d, bytes |-> Size].device = d /\ Budget!Unmade.device = "unmade" /\ Budget!Freed.device = "freed"
  BY DEF Budget!Unmade, Budget!Freed
<1> QED BY <1>1, ApiAssumption

LEMMA AllocateCounts ==
  ASSUME CountInv, NEW c \in Calls, NEW d \in Devices, Budget!Allocate(<<c, d>>, d, Size)
  PROVE  CountInv' /\ Budget!Live' = Budget!Live \cup {<<c, d>>} /\ <<c, d>> \notin Budget!Live
<1> DEFINE a == <<c, d>>
           granted == [device |-> d, bytes |-> Size]
<1>1. a \in Allocations /\ a[2] = d /\ live[a] = Budget!Unmade
  BY IdFacts DEF Budget!Allocate
<1>2. live' = [live EXCEPT ![a] = granted]
  BY DEF Budget!Allocate
<1>3. granted \notin {Budget!Unmade, Budget!Freed}
  BY GrantedIsLive
<1> HIDE DEF a, granted
<1>4. live' \in [Allocations -> {Budget!Unmade, Budget!Freed}
                                 \cup {[device |-> e, bytes |-> Size] : e \in Devices}]
  BY <1>1, <1>2 DEF CountInv, granted
<1>5. Budget!Live' = Budget!Live \cup {a} /\ a \notin Budget!Live
  BY <1>1, <1>2, <1>3 DEF CountInv, Budget!Live
<1>6. ASSUME NEW b \in Budget!Live'
      PROVE  live'[b] = [device |-> b[2], bytes |-> Size]
  <2>1. b \in Allocations
    BY DEF Budget!Live
  <2>2. CASE b = a
    BY <1>1, <1>2, <2>1, <2>2 DEF CountInv, granted
  <2>3. CASE b # a
    BY <1>2, <1>5, <2>1, <2>3 DEF CountInv
  <2> QED BY <2>2, <2>3
<1>7. PICK u \in [used : Int, peak : Int, allocations : Int] :
        /\ usage' = [usage EXCEPT ![d] = u]
        /\ u.used = usage[d].used + Size
  <2> DEFINE used == usage[d].used + Size
             u == [used |-> used, peak |-> IF used > usage[d].peak THEN used ELSE usage[d].peak,
                   allocations |-> usage[d].allocations + 1]
  <2>1. usage' = [usage EXCEPT ![d] = u]
    BY DEF Budget!Allocate
  <2>2. usage[d].used \in Int /\ usage[d].peak \in Int /\ usage[d].allocations \in Int
    BY DEF CountInv
  <2>3. u \in [used : Int, peak : Int, allocations : Int] /\ u.used = usage[d].used + Size
    BY <2>2, ApiAssumption
  <2> QED BY <2>1, <2>3
<1>8. usage' \in [Devices -> [used : Int, peak : Int, allocations : Int]]
  BY <1>7 DEF CountInv
<1>9. ASSUME NEW e \in Devices
      PROVE  usage'[e].used = Size * Cardinality(LiveOn(e)')
  <2>1. usage[e].used = Size * Cardinality(LiveOn(e))
    BY DEF CountInv
  <2>2. CASE e = d
    <3>1. LiveOn(e)' = LiveOn(e) \cup {a} /\ a \notin LiveOn(e)
      BY <1>1, <1>5, <2>2 DEF LiveOn
    <3>2. Cardinality(LiveOn(e)') = Cardinality(LiveOn(e)) + 1
      BY <3>1, FinitelyManyLive, FS_AddElement
    <3>3. usage'[e].used = usage[e].used + Size
      BY <1>7, <2>2 DEF CountInv
    <3> QED BY <2>1, <3>2, <3>3, FinitelyManyLive, OneMore
  <2>3. CASE e # d
    <3>1. LiveOn(e)' = LiveOn(e)
      BY <1>1, <1>5, <2>3 DEF LiveOn
    <3>2. usage'[e] = usage[e]
      BY <1>7, <2>3 DEF CountInv
    <3> QED BY <2>1, <3>1, <3>2
  <2> QED BY <2>2, <2>3
<1> QED BY <1>4, <1>5, <1>6, <1>8, <1>9 DEF CountInv, a

LEMMA ReleaseCounts ==
  ASSUME CountInv, NEW a \in Budget!Live, Budget!Release(a)
  PROVE  CountInv' /\ Budget!Live' = Budget!Live \ {a}
<1> DEFINE d == a[2]
<1>1. a \in Allocations /\ d \in Devices
  BY IdFacts DEF Budget!Live
<1>2. live[a] = [device |-> d, bytes |-> Size]
  BY DEF CountInv
<1> HIDE DEF d
<1>3. live' = [live EXCEPT ![a] = Budget!Freed] /\ usage' = [usage EXCEPT ![d].used = @ - Size]
  BY <1>2 DEF Budget!Release
<1>4. /\ live' \in [Allocations -> {Budget!Unmade, Budget!Freed}
                                    \cup {[device |-> e, bytes |-> Size] : e \in Devices}]
      /\ Budget!Live' = Budget!Live \ {a}
  BY <1>1, <1>3 DEF CountInv, Budget!Live
<1>5. \A b \in Budget!Live' : live'[b] = [device |-> b[2], bytes |-> Size]
  BY <1>3, <1>4 DEF CountInv, Budget!Live
<1>6. /\ usage' \in [Devices -> [used : Int, peak : Int, allocations : Int]]
      /\ usage'[d].used = usage[d].used - Size
      /\ \A e \in Devices \ {d} : usage'[e] = usage[e]
  <2> DEFINE u == [usage[d] EXCEPT !.used = usage[d].used - Size]
  <2>1. usage' = [usage EXCEPT ![d] = u]
    BY <1>3
  <2>2. u \in [used : Int, peak : Int, allocations : Int] /\ u.used = usage[d].used - Size
    BY <1>1, ApiAssumption DEF CountInv
  <2> HIDE DEF u
  <2> QED BY <1>1, <2>1, <2>2 DEF CountInv
<1>7. ASSUME NEW e \in Devices
      PROVE  usage'[e].used = Size * Cardinality(LiveOn(e)')
  <2>1. usage[e].used = Size * Cardinality(LiveOn(e))
    BY DEF CountInv
  <2>2. CASE e = d
    <3>1. LiveOn(e)' = LiveOn(e) \ {a} /\ a \in LiveOn(e)
      BY <1>1, <1>4, <2>2 DEF LiveOn, d
    <3>2. Cardinality(LiveOn(e)') = Cardinality(LiveOn(e)) - 1
      BY <3>1, FinitelyManyLive, FS_RemoveElement
    <3> QED BY <1>6, <2>1, <2>2, <3>2, FinitelyManyLive, OneMore
  <2>3. CASE e # d
    <3>1. LiveOn(e)' = LiveOn(e)
      BY <1>4, <2>3 DEF LiveOn, d
    <3> QED BY <1>6, <2>1, <2>3, <3>1
  <2> QED BY <2>2, <2>3
<1> QED BY <1>4, <1>5, <1>6, <1>7 DEF CountInv

LEMMA MemorySteps ==
  ASSUME (\E c \in Calls : CallSteps(c)) \/ OtherSteps
  PROVE  \/ UNCHANGED memoryVars
         \/ \E c \in Calls, d \in Devices : Budget!Allocate(<<c, d>>, d, Size)
         \/ DestroyAllocation
<1>1. ASSUME NEW c \in Calls, Begins(c) \/ Stays(c)
      PROVE  UNCHANGED memoryVars \/ \E d \in Devices : Budget!Allocate(<<c, d>>, d, Size)
  <2>1. MayAllocate(c)
    BY <1>1, Zenon DEF Begins, Stays
  <2> QED BY <2>1 DEF MayAllocate
<1>2. ASSUME NEW c \in Calls, Places(c) \/ Issues(c) \/ Associates(c) \/ Keeps(c)
      PROVE  UNCHANGED memoryVars
  BY <1>2, PlacesFacts, Zenon DEF Issues, Associates, Keeps
<1>3. ASSUME (\E p \in Pointers : Deletes(p) \/ Erases(p) \/ Frees(p)) \/ Resolves \/ UNCHANGED vars
      PROVE  UNCHANGED memoryVars
  BY <1>3 DEF Deletes, Erases, Frees, Resolves, vars, memoryVars
<1> QED BY <1>1, <1>2, <1>3 DEF CallSteps, OtherSteps

LEMMA AccountsKept ==
  ASSUME CountInv, (\E c \in Calls : CallSteps(c)) \/ OtherSteps
  PROVE  CountInv' /\ (Budget!Live \subseteq Budget!Live' \/ DestroyAllocation)
<1>1. CASE UNCHANGED memoryVars
  BY <1>1 DEF memoryVars, CountInv, LiveOn, Budget!Live
<1>2. ASSUME NEW c \in Calls, NEW d \in Devices, Budget!Allocate(<<c, d>>, d, Size)
      PROVE  CountInv' /\ Budget!Live \subseteq Budget!Live'
  BY <1>2, AllocateCounts
<1>3. CASE DestroyAllocation
  BY <1>3, ReleaseCounts DEF DestroyAllocation, Unreferenced
<1> QED BY <1>1, <1>2, <1>3, MemorySteps

(* A live buffer was there, or has just been made.                         *)
LEMMA LiveBuffers ==
  ASSUME ShapeInv, (\E c \in Calls : CallSteps(c)) \/ OtherSteps,
         NEW p \in Pointers, buffer'[p].state = "live"
  PROVE  \/ buffer'[p] = buffer[p]
         \/ \E c \in Calls : Places(c) /\ \E n \in call[c].nodes : p = call'[c].out[n] /\ MadeAt(c, n, p)
<1>1. ASSUME NEW c \in Calls, Places(c)
      PROVE  buffer'[p] = buffer[p] \/ \E n \in call[c].nodes : p = call'[c].out[n] /\ MadeAt(c, n, p)
  <2>1. CASE \A n \in call[c].nodes : call'[c].out[n] # p
    BY <1>1, <2>1, PlacesLeaves
  <2>2. CASE \E n \in call[c].nodes : call'[c].out[n] = p
    BY <1>1, <2>2, PlacesMakes
  <2> QED BY <2>1, <2>2
<1>2. ASSUME NEW q \in Pointers, Deletes(q) \/ Frees(q)
      PROVE  buffer'[p] = buffer[p]
  BY <1>2 DEF Deletes, Frees, NoBuffer
<1> QED BY <1>1, <1>2, BufferSteps

(* What a call in progress holds it held, or it has just been granted.     *)
LEMMA MemoryMoves ==
  ASSUME ShapeInv, TypeOK', (\E c \in Calls : CallSteps(c)) \/ OtherSteps,
         NEW b \in Calls, NEW a \in call'[b].memory
  PROVE  a \in Allocations /\ (a \in Referenced \/ Budget!Allocate(a, a[2], Size))
<1>1. a \in Allocations
  BY DEF TypeOK
<1>2. call[b].memory \subseteq Referenced
  BY DEF Referenced
<1>3. CASE call'[b] = call[b]
  BY <1>1, <1>2, <1>3
<1>4. CASE Begins(b)
  BY <1>1, <1>4, Zenon DEF Begins
<1>5. CASE Stays(b)
  <2>1. a \in call[b].memory \/ Budget!Allocate(a, a[2], Size)
    BY <1>5, Zenon DEF Stays
  <2> QED BY <1>1, <1>2, <2>1
<1>6. CASE Places(b) \/ Issues(b) \/ Associates(b) \/ Keeps(b)
  <2>1. call'[b].memory \subseteq call[b].memory
    BY <1>6, PlacesFacts DEF Issues, Associates, Keeps
  <2> QED BY <1>1, <1>2, <2>1
<1> QED BY <1>3, <1>4, <1>5, <1>6, CallsMove, CallsRest DEF CallSteps

(* What a callback holds is shared by somebody, and pending.               *)
LEMMA HoldsMove ==
  ASSUME ShapeInv, NeedsInv, SharedInv, (\E c \in Calls : CallSteps(c)) \/ OtherSteps, NEW h \in holds'
  PROVE  \/ h \in holds /\ (holds' = holds \/ \E id \in h[2] : ~Done(id)')
         \/ /\ UNCHANGED <<runtimeVars, cpu>>
            /\ h[1] \in Referenced /\ h[2] \subseteq Runtime!Issued /\ \E id \in h[2] : ~Done(id)
<1>1. ASSUME NEW c \in Calls, Begins(c) \/ Stays(c) \/ Places(c) \/ Issues(c)
      PROVE  holds' = holds
  BY <1>1, BeginsWith, PlacesFacts, Zenon DEF Stays, Issues
<1>2. ASSUME NEW c \in Calls, Associates(c)
      PROVE  /\ UNCHANGED <<runtimeVars, cpu>>
             /\ h[1] \in Referenced /\ h[2] \subseteq Runtime!Issued /\ \E id \in h[2] : ~Done(id)
  <2>1. PICK new \in SUBSET (Allocations \X SUBSET IdsOf(c)) :
          holds' = Pending(holds \cup new) /\ \A g \in new : g[1] \in Referenced
    BY <1>2, Zenon DEF Associates
  <2>2. UNCHANGED <<runtimeVars, cpu>> /\ call[c].at = "associate"
    BY <1>2, Zenon DEF Associates
  <2>3. IdsOf(c) \subseteq Runtime!Issued
    BY <2>2 DEF NeedsInv
  <2>4. (h \in holds \/ h \in new) /\ \E id \in h[2] : ~Done(id)
    BY <2>1 DEF Pending
  <2>5. h \in new => h[1] \in Referenced /\ h[2] \subseteq IdsOf(c)
    BY <2>1
  <2>6. h \in holds => h[1] \in Referenced /\ h[2] \subseteq Runtime!Issued
    BY DEF Referenced, SharedInv
  <2> QED BY <2>2, <2>3, <2>4, <2>5, <2>6
<1>3. ASSUME NEW c \in Calls, Keeps(c)
      PROVE  /\ UNCHANGED <<runtimeVars, cpu>>
             /\ h[1] \in Referenced /\ h[2] \subseteq Runtime!Issued /\ \E id \in h[2] : ~Done(id)
  <2>1. PICK p \in call[c].args : holds' = Pending(holds \cup KeepAllocation(p, IdsOf(c)))
    BY <1>3 DEF Keeps
  <2>2. UNCHANGED <<runtimeVars, cpu>> /\ call[c].at = "keep" /\ p \in Pointers /\ IdsOf(c) \in SUBSET Ids
    BY <1>3, Typing, IdFacts DEF Keeps, ShapeInv, CallRecord, IdsOf
  <2>3. IdsOf(c) \subseteq Runtime!Issued
    BY <2>2 DEF NeedsInv
  <2>4. (h \in holds \/ h \in KeepAllocation(p, IdsOf(c))) /\ \E id \in h[2] : ~Done(id)
    BY <2>1 DEF Pending
  <2>5. h \in KeepAllocation(p, IdsOf(c)) => h[1] \in Referenced /\ h[2] = IdsOf(c)
    <3> DEFINE ids == IdsOf(c)
    <3>1. ids \in SUBSET Ids
      BY <2>2
    <3> HIDE DEF ids
    <3>2. h \in KeepAllocation(p, ids) => h[1] \in Referenced /\ h[2] = ids
      <4>1. \A g \in KeepAllocation(p, ids) : g[1] \in Referenced /\ g[2] = ids /\ g[1] = buffer[p].alloc
        BY <2>2, <3>1, KeepFacts
      <4> QED BY <4>1
    <3> QED BY <3>2 DEF ids
  <2>6. h \in holds => h[1] \in Referenced /\ h[2] \subseteq Runtime!Issued
    BY DEF Referenced, SharedInv
  <2> QED BY <2>2, <2>3, <2>4, <2>5, <2>6
<1>4. CASE Resolves
  BY <1>4 DEF Resolves, RunCallbacks
<1>5. ASSUME (\E p \in Pointers : Deletes(p) \/ Erases(p) \/ Frees(p)) \/ DestroyAllocation \/ UNCHANGED vars
      PROVE  holds' = holds
  BY <1>5 DEF Deletes, Erases, Frees, DestroyAllocation, vars
<1> QED BY <1>1, <1>2, <1>3, <1>4, <1>5 DEF CallSteps, OtherSteps

(* Work is over once and for all, and only when it resolves.               *)
LEMMA CpuSteps ==
  ASSUME (\E c \in Calls : CallSteps(c)) \/ OtherSteps, NEW id \in Ids
  PROVE  \/ cpu'[id] = cpu[id]
         \/ cpu'[id] = "pending" /\ \E c \in Calls : call[c].at \notin Placed /\ id[1] = c
         \/ Resolves /\ cpu'[id] = "done"
<1>1. ASSUME NEW c \in Calls, Begins(c)
      PROVE  cpu'[id] = cpu[id] \/ (cpu'[id] = "pending" /\ call[c].at \notin Placed /\ id[1] = c)
  <2>1. cpu'[id] = cpu[id] \/ (cpu'[id] = "pending" /\ id = <<c, Host>>)
    BY <1>1, Zenon DEF Begins
  <2>2. call[c].at \notin Placed
    BY <1>1, BeginsWith DEF NoCall, Placed
  <2> QED BY <2>1, <2>2
<1>2. ASSUME NEW c \in Calls, Places(c)
      PROVE  cpu'[id] = cpu[id] \/ (cpu'[id] = "pending" /\ call[c].at \notin Placed /\ id[1] = c)
  <2>1. cpu'[id] = cpu[id] \/ (cpu'[id] = "pending" /\ id \in IdsOf(c))
    BY <1>2, PlacesUses
  <2> QED BY <1>2, <2>1, PlacesFacts DEF IdsOf
<1>3. ASSUME NEW c \in Calls, Stays(c) \/ Issues(c) \/ Associates(c) \/ Keeps(c)
      PROVE  cpu' = cpu
  BY <1>3, Zenon DEF Stays, Issues, Associates, Keeps
<1>4. ASSUME (\E p \in Pointers : Deletes(p) \/ Erases(p) \/ Frees(p)) \/ DestroyAllocation \/ UNCHANGED vars
      PROVE  cpu' = cpu
  BY <1>4 DEF Deletes, Erases, Frees, DestroyAllocation, vars
<1>5. CASE Resolves
  BY <1>5 DEF Resolves
<1> QED BY <1>1, <1>2, <1>3, <1>4, <1>5 DEF CallSteps, OtherSteps

LEMMA DoneStays ==
  ASSUME ShapeInv, (\E c \in Calls : CallSteps(c)) \/ OtherSteps,
         NEW id \in Ids, call[id[1]].at \in Placed, Done(id)
  PROVE  Done(id)'
<1>1. status'[id] \in Runtime!Settled
  BY StatusMoves DEF Done
<1>2. cpu'[id] = "done"
  BY CpuSteps DEF Done
<1> QED BY <1>1, <1>2 DEF Done

LEMMA PendingStays ==
  ASSUME ShapeInv, (\E c \in Calls : CallSteps(c)) \/ OtherSteps, ~Resolves,
         NEW id \in Runtime!Issued, ~Done(id)
  PROVE  ~Done(id)'
<1>1. id \in Ids /\ status[id] # "new"
  BY IdFacts DEF Runtime!Issued
<1>2. status'[id] = status[id]
  <2>1. ASSUME NEW c \in Calls, Issues(c)
        PROVE  status'[id] = status[id]
    <3>1. CASE id \in IdsOf(c)
      <4>1. call[c].nodes \subseteq Nodes
        BY Typing DEF ShapeInv, CallRecord
      <4> QED BY <1>1, <2>1, <3>1, <4>1, IssuesDoes DEF IdsOf
    <3> QED BY <1>1, <2>1, <3>1, IssuesDoes
  <2> QED BY <2>1, StatusSteps DEF runtimeVars
<1>3. cpu'[id] = cpu[id] \/ cpu'[id] = "pending"
  BY <1>1, CpuSteps
<1> QED BY <1>2, <1>3 DEF Done

LEMMA PlacedStay ==
  ASSUME ShapeInv, (\E c \in Calls : CallSteps(c)) \/ OtherSteps,
         NEW b \in Calls, call[b].at \in Placed
  PROVE  call'[b].at \in Placed
<1>1. ASSUME NEW c \in Calls, CallSteps(c)
      PROVE  call'[b].at \in Placed
  <2>1. CASE b = c
    BY <1>1, <2>1, CallsMove
  <2>2. CASE b # c
    BY <1>1, <2>2, CallsMove
  <2> QED BY <2>1, <2>2
<1> QED BY <1>1, CallsRest

(* Only one call places its outputs in a step.                             *)
LEMMA OnePlacer ==
  ASSUME ShapeInv, NEW b \in Calls, NEW c \in Calls, Places(b), Places(c)
  PROVE  b = c
<1>1. /\ c \in Active /\ call'[c].at = "enqueue" /\ call[c].at \notin Placed
  BY PlacesFacts
<1>2. ASSUME b # c PROVE FALSE
  <2>1. CallSteps(b)
    BY DEF CallSteps
  <2>2. call'[c] = call[c]
    BY <1>2, <2>1, CallsMove
  <2> QED BY <1>1, <2>2 DEF Placed
<1> QED BY <1>2

(* The allocation of a buffer that Places(c) makes: a new one, or that of a
   donated operand.                                                        *)
MadeOf(c, n, q) ==
  \/ /\ buffer'[q].alloc = <<c, n>> /\ <<c, n>> \in Referenced
     /\ \A r \in Pointers : buffer[r].state = "live" => buffer[r].alloc # <<c, n>>
  \/ \E r \in call[c].args :
       /\ r \in Pointers /\ call[c].donate /\ buffer[r].state = "live" /\ buffer[r].device = n
       /\ buffer'[q].alloc = buffer[r].alloc

LEMMA MadeFrom ==
  ASSUME ShapeInv, SharedInv, NEW c \in Calls, Places(c), NEW n \in call[c].nodes, NEW q \in Pointers,
         MadeAt(c, n, q)
  PROVE  MadeOf(c, n, q)
<1>1. CASE buffer'[q].alloc = <<c, n>> /\ <<c, n>> \in call[c].memory
  <2>1. <<c, n>> \in Referenced
    BY <1>1 DEF Referenced
  <2>2. call[c].at \notin Placed
    BY PlacesFacts
  <2>3. \A r \in Pointers : buffer[r].state = "live" => call[buffer[r].alloc[1]].at \in Placed
    BY DEF SharedInv
  <2>4. \A r \in Pointers : buffer[r].state = "live" => buffer[r].alloc # <<c, n>>
    BY <2>2, <2>3
  <2> QED BY <1>1, <2>1, <2>4 DEF MadeOf
<1>2. CASE /\ call[c].donate
           /\ \E p \in call[c].args : buffer[p].device = n /\ buffer'[q].alloc = buffer[p].alloc
  <2>1. call[c].args \subseteq Pointers /\ \A p \in call[c].args : buffer[p].state = "live"
    BY Typing, PlacesFacts DEF ShapeInv, CallRecord
  <2> QED BY <1>2, <2>1 DEF MadeOf
<1> QED BY <1>1, <1>2 DEF MadeAt

LEMMA SharedKept ==
  ASSUME ShapeInv, TypeOK', ShapeInv', NeedsInv, SharedInv, CountInv,
         (\E c \in Calls : CallSteps(c)) \/ OtherSteps
  PROVE  SharedInv'
<1>1. ASSUME NEW p \in Pointers, buffer'[p].state = "live"
      PROVE  buffer'[p].alloc \in Referenced \cap Allocations
  <2>1. CASE buffer'[p] = buffer[p]
    <3>1. buffer[p].alloc \in Allocations /\ buffer[p].alloc # None
      BY <1>1, <2>1, IdFacts DEF ShapeInv, BufferShape
    <3> QED BY <2>1, <3>1 DEF Referenced
  <2>2. ASSUME NEW c \in Calls, Places(c), NEW n \in call[c].nodes, MadeAt(c, n, p)
        PROVE  buffer'[p].alloc \in Referenced \cap Allocations
    <3>1. buffer'[p].alloc \in Allocations
      BY <1>1 DEF ShapeInv, BufferShape
    <3>2. \A r \in Pointers : buffer[r].state = "live" => buffer[r].alloc \in Referenced
      BY IdFacts DEF ShapeInv, BufferShape, Referenced
    <3>3. MadeOf(c, n, p)
      BY <2>2, MadeFrom
    <3> QED BY <3>1, <3>2, <3>3 DEF MadeOf
  <2> QED BY <1>1, <2>1, <2>2, LiveBuffers
<1>2. ASSUME NEW a \in Referenced'
      PROVE  a \in Referenced \/ (a \in Allocations /\ Budget!Allocate(a, a[2], Size))
  <2>1. CASE \E p \in Pointers : a = buffer'[p].alloc /\ a # None
    BY <1>1, <2>1 DEF ShapeInv, BufferShape
  <2>2. CASE \E b \in Calls : a \in call'[b].memory
    BY <2>2, MemoryMoves
  <2>3. CASE \E h \in holds' : a = h[1]
    <3>1. PICK h \in holds' : a = h[1]
      BY <2>3
    <3>2. h \in holds => h[1] \in Referenced
      BY DEF Referenced
    <3> QED BY <3>1, <3>2, HoldsMove
  <2> QED BY <1>2, <2>1, <2>2, <2>3 DEF Referenced
<1>3. Referenced' \subseteq Budget!Live'
  <2>1. CASE DestroyAllocation
    <3>1. PICK a \in Budget!Live \ Referenced : Budget!Release(a)
      BY <2>1 DEF DestroyAllocation, Unreferenced
    <3>2. Referenced' = Referenced /\ Budget!Live' = Budget!Live \ {a}
      BY <2>1, <3>1, ReleaseCounts DEF DestroyAllocation, Referenced
    <3> QED BY <3>1, <3>2 DEF SharedInv
  <2>2. CASE ~DestroyAllocation
    <3>1. Budget!Live \subseteq Budget!Live'
      BY <2>2, AccountsKept
    <3>2. ASSUME NEW a \in Allocations, Budget!Allocate(a, a[2], Size)
          PROVE  a \in Budget!Live'
      <4>1. a[1] \in Calls /\ a[2] \in Devices /\ a = <<a[1], a[2]>>
        BY IdFacts
      <4>2. Budget!Allocate(<<a[1], a[2]>>, a[2], Size)
        BY <3>2, <4>1
      <4> QED BY <4>1, <4>2, AllocateCounts
    <3> QED BY <1>2, <3>1, <3>2 DEF SharedInv
  <2> QED BY <2>1, <2>2
<1>4. ASSUME NEW p \in Pointers, buffer'[p].state = "live"
      PROVE  buffer'[p].alloc[2] = buffer'[p].device /\ call'[buffer'[p].alloc[1]].at \in Placed
  <2>1. \A r \in Pointers : buffer[r].state = "live" =>
          /\ buffer[r].alloc[2] = buffer[r].device /\ buffer[r].alloc[1] \in Calls
          /\ call[buffer[r].alloc[1]].at \in Placed
    BY IdFacts DEF SharedInv, ShapeInv, BufferShape
  <2>2. CASE buffer'[p] = buffer[p]
    BY <1>4, <2>1, <2>2, PlacedStay
  <2>3. ASSUME NEW c \in Calls, Places(c), NEW n \in call[c].nodes, MadeAt(c, n, p)
        PROVE  buffer'[p].alloc[2] = buffer'[p].device /\ call'[buffer'[p].alloc[1]].at \in Placed
    <3>1. buffer'[p].device = n /\ call'[c].at \in Placed
      BY <2>3, PlacesFacts DEF MadeAt, Placed
    <3>2. CASE buffer'[p].alloc = <<c, n>>
      BY <3>1, <3>2
    <3>3. ASSUME NEW r \in Pointers, buffer[r].state = "live", buffer[r].device = n,
                 buffer'[p].alloc = buffer[r].alloc
          PROVE  buffer'[p].alloc[2] = buffer'[p].device /\ call'[buffer'[p].alloc[1]].at \in Placed
      BY <2>1, <3>1, <3>3, PlacedStay
    <3>4. MadeOf(c, n, p)
      BY <2>3, MadeFrom
    <3> QED BY <3>2, <3>3, <3>4 DEF MadeOf
  <2> QED BY <1>4, <2>2, <2>3, LiveBuffers
<1>5. ASSUME NEW c \in Calls, Places(c), NEW n \in call[c].nodes, NEW q \in Pointers,
             q = call'[c].out[n], MadeAt(c, n, q),
             NEW p \in Pointers, buffer'[p].state = "live", buffer'[p].alloc = buffer'[q].alloc
      PROVE  p = q
  <2>1. CASE buffer'[p] = buffer[p]
    <3>1. buffer[p].state = "live"
      BY <1>5, <2>1
    <3>2. PICK r \in call[c].args :
            /\ r \in Pointers /\ call[c].donate /\ buffer[r].state = "live" /\ buffer[r].device = n
            /\ buffer'[q].alloc = buffer[r].alloc
      <4>1. MadeOf(c, n, q)
        BY <1>5, MadeFrom
      <4> QED BY <1>5, <2>1, <3>1, <4>1 DEF MadeOf
    <3>3. p = r
      BY <1>5, <2>1, <3>1, <3>2 DEF SharedInv
    <3>4. \A m \in call[c].nodes : call'[c].out[m] # p
      <4>1. ASSUME NEW m \in call[c].nodes, call'[c].out[m] = p PROVE FALSE
        <5>1. MadeAt(c, m, call'[c].out[m])
          BY <1>5, PlacesMakes
        <5> QED BY <3>1, <4>1, <5>1 DEF MadeAt
      <4> QED BY <4>1
    <3> QED BY <1>5, <3>2, <3>3, <3>4, PlacesLeaves
  <2>2. ASSUME NEW m \in call[c].nodes, p = call'[c].out[m], MadeAt(c, m, p)
        PROVE  p = q
    <3>1. SUFFICES m = n
      BY <1>5, <2>2
    <3>2. buffer'[p].device = m /\ buffer'[q].device = n
      BY <1>5, <2>2 DEF MadeAt
    <3>3. buffer'[p].alloc[2] = m /\ buffer'[q].alloc[2] = n
      BY <1>4, <1>5, <2>2, <3>2 DEF MadeAt
    <3> QED BY <1>5, <3>3
  <2> QED BY <1>5, <2>1, <2>2, LiveBuffers, OnePlacer
<1>6. ASSUME NEW p \in Pointers, NEW q \in Pointers, buffer'[p].state = "live",
             buffer'[q].state = "live", buffer'[p].alloc = buffer'[q].alloc
      PROVE  p = q
  <2>1. CASE buffer'[p] = buffer[p] /\ buffer'[q] = buffer[q]
    BY <1>6, <2>1 DEF SharedInv
  <2> QED BY <1>5, <1>6, <2>1, LiveBuffers
<1>7. ASSUME NEW h \in holds'
      PROVE  h[2] \subseteq Runtime!Issued' /\ \E id \in h[2] : ~Done(id)'
  <2>1. Runtime!Issued \subseteq Runtime!Issued'
    BY StatusMoves, IdFacts DEF Runtime!Issued
  <2>2. h \in holds => h[2] \subseteq Runtime!Issued /\ \E id \in h[2] : ~Done(id)
    BY DEF SharedInv
  <2>3. CASE h \in holds /\ holds' = holds
    <3>1. CASE Resolves
      BY <1>7, <2>1, <2>2, <2>3, <3>1 DEF Resolves, RunCallbacks
    <3>2. CASE ~Resolves
      BY <2>1, <2>2, <2>3, <3>2, PendingStays
    <3> QED BY <3>1, <3>2
  <2>4. CASE h \in holds /\ \E id \in h[2] : ~Done(id)'
    BY <2>1, <2>2, <2>4
  <2>5. CASE /\ UNCHANGED <<runtimeVars, cpu>>
             /\ h[1] \in Referenced /\ h[2] \subseteq Runtime!Issued /\ \E id \in h[2] : ~Done(id)
    BY <2>1, <2>5 DEF Done, runtimeVars
  <2> QED BY <1>7, <2>3, <2>4, <2>5, HoldsMove
<1> QED BY <1>3, <1>4, <1>6, <1>7 DEF SharedInv

LEMMA KindsKept ==
  ASSUME ShapeInv, KindsInv, (\E c \in Calls : CallSteps(c)) \/ OtherSteps
  PROVE  KindsInv'
<1>1. ASSUME NEW c \in Calls, CallSteps(c), NEW b \in Calls
      PROVE  call'[b].kind \in Kinds \cup {"none"}
  <2>1. CASE Begins(c) /\ b = c
    BY <2>1, BeginsWith
  <2>2. CASE ~Begins(c) /\ b = c
    <3>1. call'[c].kind = call[c].kind
      BY <1>1, <2>2, PlacesFacts, Zenon DEF CallSteps, Stays, Issues, Associates, Keeps, Continues
    <3> QED BY <2>2, <3>1 DEF KindsInv
  <2>3. CASE b # c
    BY <1>1, <2>3, CallsMove DEF KindsInv
  <2> QED BY <2>1, <2>2, <2>3
<1> QED BY <1>1, CallsRest DEF KindsInv

----------------------------------------------------------------------------
(* The invariant holds at the start.                                       *)
LEMMA NoCallShape ==
  /\ NoCall \in CallRecord /\ NoCall.kind = "none" /\ NoCall.at = "start" /\ NoCall.memory = {}
  /\ \A n \in Nodes : NoCall.out[n] = None
  BY DEF NoCall, CallRecord, Steps

LEMMA Start == Init => ApiInv
<1> SUFFICES ASSUME Init PROVE ApiInv
  OBVIOUS
<1>1. /\ call = [c \in Calls |-> NoCall] /\ buffer = [p \in Pointers |-> NoBuffer]
      /\ registry = [p \in Pointers |-> Untracked] /\ destroying = {}
      /\ cpu = [id \in Ids |-> "none"] /\ uses = {} /\ holds = {}
      /\ usage = [d \in Devices |-> Budget!NoUsage] /\ live = [a \in Allocations |-> Budget!Unmade]
      /\ status = [id \in Ids |-> "new"] /\ before = [id \in Ids |-> {}] /\ ordered = {}
  BY IdFacts DEF Init, Budget!BudgetInit, Runtime!Init
<1>2. TypeOK
  <2>1. /\ NoBuffer \in BufferRecord /\ Untracked \in RegistryRecord /\ Untracked.producer = None
    BY DEF NoBuffer, BufferRecord, Untracked, RegistryRecord
  <2>2. Runtime!TypeOK
    BY <1>1, IdFacts DEF Runtime!TypeOK
  <2> QED BY <1>1, <2>1, <2>2, NoCallShape, Typing
<1>3. /\ \A c \in Calls : call[c] = NoCall
      /\ \A p \in Pointers : buffer[p].state = "free" /\ buffer[p].alloc = None
      /\ Active = {}
  BY <1>1, NoCallShape DEF NoBuffer, Active
<1>4. ASSUME NEW c \in Calls PROVE CallShape(c)
  BY <1>3, NoCallShape DEF CallShape, Placed, Over
<1>5. BufferShape /\ OutOwner /\ ArgShape /\ DestroyShape /\ RegistryInv /\ KindsInv
  BY <1>1, <1>3, NoCallShape DEF BufferShape, OutOwner, ArgShape, DestroyShape, RegistryInv, KindsInv
<1>6. NeedsInv
  <2>1. Runtime!Issued = {}
    BY <1>1, IdFacts DEF Runtime!Issued
  <2>2. Runtime!Lawful(status, before)
    <3>1. \A id \in Ids : status[id] = "new" /\ before[id] = {}
      BY <1>1
    <3>2. "new" \notin Runtime!Settled
      BY DEF Runtime!Settled
    <3> QED BY <3>1, <3>2, IdFacts DEF Runtime!Lawful
  <2>3. \A c \in Calls : \A n \in Nodes : status[<<c, n>>] = "new"
    BY <1>1, IdFacts
  <2>4. \A c \in Calls : call[c].at \notin {"associate", "keep", "done"}
    BY <1>3, NoCallShape
  <2>5. \A c \in Calls : \A id \in IdsOf(c) \cap Runtime!Issued : FALSE
    BY <2>1
  <2> QED BY <1>3, <2>2, <2>3, <2>4, <2>5, Zenon DEF NeedsInv
<1>7. Budget!Live = {}
  BY <1>1 DEF Budget!Live
<1>8. SharedInv
  <2>1. Referenced = {}
    <3>1. {buffer[p].alloc : p \in Pointers} \ {None} = {}
      BY <1>3
    <3>2. UNION {call[c].memory : c \in Calls} = {}
      BY <1>3, NoCallShape
    <3> QED BY <1>1, <3>1, <3>2 DEF Referenced
  <2> QED BY <1>1, <1>3, <2>1 DEF SharedInv
<1>9. CountInv
  <2>1. \A d \in Devices : LiveOn(d) = {}
    BY <1>7 DEF LiveOn
  <2>2. Size * Cardinality({}) = 0
    BY FS_EmptySet, ApiAssumption
  <2> QED BY <1>1, <1>7, <2>1, <2>2 DEF CountInv, Budget!NoUsage
<1> QED BY <1>2, <1>4, <1>5, <1>6, <1>8, <1>9 DEF ApiInv, ShapeInv

LEMMA StepKept ==
  ASSUME ApiInv, [Next]_vars
  PROVE  ApiInv'
<1>1. TypeOK' /\ ((\E c \in Calls : CallSteps(c)) \/ OtherSteps)
  BY StepIs DEF ApiInv
<1>2. ShapeInv' /\ RegistryInv' /\ NeedsInv' /\ CountInv' /\ KindsInv'
  BY <1>1, ShapeKept, RegistryKept, NeedsKept, AccountsKept, KindsKept DEF ApiInv
<1>3. SharedInv'
  BY <1>1, <1>2, SharedKept DEF ApiInv
<1> QED BY <1>2, <1>3 DEF ApiInv

LEMMA Inductive == Spec => []ApiInv
<1>1. ApiInv /\ [Next]_vars => ApiInv'
  BY StepKept
<1> QED BY <1>1, Start, PTL DEF Spec

----------------------------------------------------------------------------
(* Every call, buffer, registry entry, future and callback keeps its type,
   and an entry's producer is a future that was issued.                    *)
THEOREM ApiTypes == Spec => []TypeOK
<1>1. ApiInv => TypeOK
  BY DEF ApiInv, ShapeInv
<1> QED BY <1>1, Inductive, PTL

(* A result settles after the producers of the buffers it was made from, and
   succeeds only if they did: Execute, CopyToDevice and ToHost find each
   producer through the registry, which overwrites, caches and erases entries
   of addresses that are used again.                                       *)
THEOREM ResultsFollowInputs == Spec => []InputsBeforeResults
<1>1. ApiInv => InputsBeforeResults
  <2> SUFFICES ASSUME ApiInv, NEW c \in Calls, NEW id \in IdsOf(c) \cap Runtime!Issued,
                      NEW j \in call[c].need
               PROVE  /\ status[id] \in Runtime!Settled => status[j] \in Runtime!Settled
                      /\ status[id] = "ok" => status[j] = "ok"
    BY DEF InputsBeforeResults
  <2>1. (j \in before[id] \/ status[j] = "ok") /\ Runtime!Lawful(status, before)
    BY DEF ApiInv, NeedsInv
  <2>2. id \in Runtime!Ids
    BY DEF Runtime!Issued
  <2> QED BY <2>1, <2>2 DEF Runtime!Lawful, Runtime!Settled
<1> QED BY <1>1, Inductive, PTL

(* Between calls, each device is charged for the buffers that are on it.   *)
THEOREM QuietDevices == Spec => []QuietMemory
<1>1. ApiInv => QuietMemory
  <2> SUFFICES ASSUME ApiInv, Quiet, NEW d \in Devices
               PROVE  usage[d].used = Size * Cardinality({p \in Pointers :
                        buffer[p].state = "live" /\ buffer[p].device = d})
    BY DEF QuietMemory
  <2> DEFINE On == {p \in Pointers : buffer[p].state = "live" /\ buffer[p].device = d}
             f == [p \in On |-> buffer[p].alloc]
  <2>1. ASSUME NEW a \in LiveOn(d)
        PROVE  \E p \in On : f[p] = a
    <3>1. a \in Allocations /\ a[2] = d /\ a \in Referenced /\ a # None
      BY IdFacts DEF LiveOn, Quiet, Unreferenced, Budget!Live
    <3>2. \A h \in holds : FALSE
      BY DEF Quiet, ApiInv, SharedInv
    <3>3. \A c \in Calls : call[c].memory = {}
      BY NoCallShape DEF Quiet, Active, ApiInv, ShapeInv, CallShape
    <3>4. PICK p \in Pointers : buffer[p].alloc = a
      BY <3>1, <3>2, <3>3 DEF Referenced
    <3>5. buffer[p].state = "live" /\ buffer[p].device = d
      BY <3>1, <3>4 DEF ApiInv, ShapeInv, BufferShape, SharedInv
    <3> QED BY <3>4, <3>5
  <2>2. ASSUME NEW p \in On
        PROVE  f[p] \in LiveOn(d)
    <3>1. buffer[p].alloc \in Allocations /\ buffer[p].alloc \in Referenced
      BY IdFacts DEF ApiInv, ShapeInv, BufferShape, Referenced
    <3> QED BY <3>1 DEF ApiInv, SharedInv, LiveOn
  <2>3. \A p, q \in On : f[p] = f[q] => p = q
    BY DEF ApiInv, SharedInv
  <2>4. f \in Bijection(On, LiveOn(d))
    BY <2>1, <2>2, <2>3 DEF Bijection, Injection, Surjection, IsInjective
  <2>5. ExistsBijection(On, LiveOn(d))
    BY <2>4 DEF ExistsBijection
  <2>6. Cardinality(On) = Cardinality(LiveOn(d))
    <3> HIDE DEF On
    <3>1. ExistsBijection(LiveOn(d), On)
      BY <2>5, Fun_ExistsBijSymmetric
    <3> QED BY <3>1, FinitelyManyLive, FS_Bijection
  <2>7. usage[d].used = Size * Cardinality(LiveOn(d))
    BY DEF ApiInv, CountInv
  <2> QED BY <2>6, <2>7
<1> QED BY <1>1, Inductive, PTL

----------------------------------------------------------------------------
(* What work in flight uses is kept.                                       *)

(* The allocations that Begins(c) captures.                                *)
LEMMA BeginsMemory ==
  ASSUME NEW c \in Calls, Begins(c)
  PROVE  /\ call'[c].kind = "execute" => \A p \in call'[c].args : AllocationOf(p) \subseteq call'[c].memory
         /\ \A u \in uses' \ uses :
              /\ u[2] = <<c, Host>> /\ call'[c].kind = "d2h"
              /\ \E p \in call'[c].args : u[1] = buffer[p].alloc
  BY Zenon DEF Begins

(* The steps that add to what work in flight uses.                         *)
LEMMA UsesSteps ==
  ASSUME (\E c \in Calls : CallSteps(c)) \/ OtherSteps
  PROVE  uses' \subseteq uses \/ \E c \in Calls : Begins(c) \/ Places(c)
<1>1. ASSUME NEW c \in Calls, Stays(c) \/ Issues(c) \/ Associates(c) \/ Keeps(c)
      PROVE  uses' = uses
  BY <1>1, Zenon DEF Stays, Issues, Associates, Keeps
<1>2. ASSUME (\E p \in Pointers : Deletes(p) \/ Erases(p) \/ Frees(p)) \/ DestroyAllocation \/ UNCHANGED vars
      PROVE  uses' = uses
  BY <1>2 DEF Deletes, Erases, Frees, DestroyAllocation, vars
<1>3. CASE Resolves
  BY <1>3 DEF Resolves, RunCallbacks
<1> QED BY <1>1, <1>2, <1>3 DEF CallSteps, OtherSteps

(* A callback on work that isn't over still waits.                         *)
LEMMA CallbacksWait ==
  ASSUME (\E c \in Calls : CallSteps(c)) \/ OtherSteps,
         NEW h \in holds, NEW id \in h[2], ~Done(id), ~Done(id)'
  PROVE  h \in holds'
<1>1. ASSUME NEW c \in Calls, Begins(c) \/ Stays(c) \/ Places(c) \/ Issues(c)
      PROVE  holds' = holds
  BY <1>1, BeginsWith, PlacesFacts, Zenon DEF Stays, Issues
<1>2. ASSUME NEW c \in Calls, Associates(c)
      PROVE  h \in holds'
  <2>1. PICK new \in SUBSET (Allocations \X SUBSET IdsOf(c)) : holds' = Pending(holds \cup new)
    BY <1>2, Zenon DEF Associates
  <2> QED BY <2>1 DEF Pending
<1>3. ASSUME NEW c \in Calls, Keeps(c)
      PROVE  h \in holds'
  <2>1. PICK p \in call[c].args : holds' = Pending(holds \cup KeepAllocation(p, IdsOf(c)))
    BY <1>3 DEF Keeps
  <2> QED BY <2>1 DEF Pending
<1>4. CASE Resolves
  BY <1>4 DEF Resolves, RunCallbacks
<1>5. ASSUME (\E p \in Pointers : Deletes(p) \/ Erases(p) \/ Frees(p)) \/ DestroyAllocation \/ UNCHANGED vars
      PROVE  holds' = holds
  BY <1>5 DEF Deletes, Erases, Frees, DestroyAllocation, vars
<1> QED BY <1>1, <1>2, <1>3, <1>4, <1>5 DEF CallSteps, OtherSteps

(* What keeps the source of a copy or a download: nobody deletes or donates
   a buffer that a call in progress was given.                             *)
NoRevokedSource == RevokeInUse => {"copy", "d2h"} \cap Kinds = {}

LEMMA SourceStays ==
  ASSUME ShapeInv, KindsInv, PinnedInv, NoRevokedSource, (\E c \in Calls : CallSteps(c)) \/ OtherSteps,
         NEW b \in Active, call[b].kind \in {"copy", "d2h"}, NEW p \in call[b].args,
         buffer[p].state = "live"
  PROVE  buffer'[p] = buffer[p]
<1>1. b \in Calls /\ p \in Pointers /\ p \notin destroying /\ InUse(p) /\ call[b].donate = FALSE
  <2>1. b \in Calls /\ CallShape(b) /\ call[b] \in CallRecord
    BY Typing DEF Active, ShapeInv
  <2> QED BY <2>1 DEF CallShape, CallRecord, ShapeInv, ArgShape, InUse
<1>2. ~RevokeInUse
  BY <1>1 DEF KindsInv, NoRevokedSource
<1>3. ASSUME NEW c \in Calls, Places(c)
      PROVE  buffer'[p] = buffer[p]
  <2>1. \A n \in call[c].nodes : call'[c].out[n] # p
    <3>1. ASSUME NEW n \in call[c].nodes, call'[c].out[n] = p PROVE FALSE
      <4>1. MadeAt(c, n, call'[c].out[n])
        BY <1>3, PlacesMakes
      <4> QED BY <3>1, <4>1 DEF MadeAt
    <3> QED BY <3>1
  <2>2. c \in Active
    BY <1>3, PlacesFacts
  <2>3. ~(call[c].donate /\ p \in call[c].args)
    BY <1>1, <1>2, <2>2 DEF PinnedInv
  <2> QED BY <1>1, <1>3, <2>1, <2>3, PlacesLeaves
<1>4. ASSUME NEW q \in Pointers, Deletes(q)
      PROVE  buffer'[p] = buffer[p]
  BY <1>1, <1>2, <1>4 DEF Deletes
<1>5. ASSUME NEW q \in Pointers, Frees(q)
      PROVE  buffer'[p] = buffer[p]
  BY <1>1, <1>5 DEF Frees
<1> QED BY <1>3, <1>4, <1>5, BufferSteps

(* The call that still holds memory for its work keeps it, or hands it to a
   callback.                                                               *)
LEMMA HeldOn ==
  ASSUME ShapeInv, KindsInv, PinnedInv, NoRevokedSource, (\E c \in Calls : CallSteps(c)) \/ OtherSteps,
         NEW a \in Allocations, NEW c \in Calls, NEW n \in Nodes, HeldByCall(a, c, n),
         ~Done(<<c, n>>)
  PROVE  Held(a, <<c, n>>)' \/ HeldByCall(a, c, n)'
<1>1. /\ c \in Active /\ n \in call[c].nodes /\ call[c].at \in Placed /\ CallShape(c)
      /\ call[c] \in CallRecord /\ a # None /\ <<c, n>> \in IdsOf(c)
  BY Typing, IdFacts DEF HeldByCall, ShapeInv, IdsOf, Placed
(* The buffers it holds the memory by.                                     *)
<1>2. ASSUME call[c].kind # "d2h", call[c].at \in {"enqueue", "associate"},
             buffer[call[c].out[n]].alloc = a
      PROVE  buffer'[call[c].out[n]] = buffer[call[c].out[n]] /\ call[c].out[n] \in Pointers
  <2>1. call[c].out[n] # None /\ call[c].out[n] \in Pointers
    BY <1>1, <1>2 DEF CallShape, CallRecord
  <2>2. buffer[call[c].out[n]].state = "live" /\ call[c].out[n] \notin destroying
    BY <1>1, <2>1 DEF ShapeInv, OutOwner
  <2> QED BY <1>1, <2>1, <2>2, OutsUntouched
<1>3. ASSUME call[c].kind \in {"copy", "d2h"}, NEW p \in call[c].args, buffer[p].alloc = a
      PROVE  buffer'[p] = buffer[p]
  <2>1. p \in Pointers
    BY <1>1 DEF CallRecord
  <2>2. buffer[p].state = "live"
    BY <1>1, <1>3, <2>1 DEF ShapeInv, BufferShape
  <2> QED BY <1>1, <1>3, <2>2, SourceStays
<1>4. CASE call'[c] = call[c]
  <2>1. c \in Active'
    BY <1>1, <1>4 DEF Active
  <2>2. CASE call[c].at \in {"enqueue", "associate"} /\ call[c].kind # "d2h" /\ buffer[call[c].out[n]].alloc = a
    <3>1. buffer'[call'[c].out[n]].alloc = a
      BY <1>2, <1>4, <2>2
    <3> QED BY <1>1, <1>4, <2>1, <2>2, <3>1 DEF HeldByCall
  <2>3. CASE call[c].at \in {"enqueue", "associate"} /\ call[c].kind = "execute" /\ a \in call[c].memory
    BY <1>1, <1>4, <2>1, <2>3 DEF HeldByCall
  <2>4. CASE /\ call[c].kind \in {"copy", "d2h"} /\ call[c].at \in Placed
             /\ \E p \in call[c].args : buffer[p].alloc = a
    <3>1. PICK p \in call[c].args : buffer[p].alloc = a /\ buffer'[p] = buffer[p]
      BY <1>3, <2>4
    <3> QED BY <1>1, <1>4, <2>1, <2>4, <3>1 DEF HeldByCall
  <2> QED BY <2>2, <2>3, <2>4 DEF HeldByCall
<1>5. CASE Issues(c)
  <2>1. /\ call[c].at = "enqueue" /\ Continues(c) /\ call'[c].out = call[c].out
        /\ call'[c].memory = call[c].memory /\ buffer' = buffer
        /\ call'[c].at \in {"associate", "keep"} /\ (call'[c].at = "keep" <=> call[c].kind = "d2h")
    BY <1>5, Zenon DEF Issues
  <2>2. call'[c].kind = call[c].kind /\ call'[c].nodes = call[c].nodes /\ call'[c].args = call[c].args
    BY <2>1 DEF Continues
  <2>3. c \in Active' /\ call'[c].at \in Placed
    BY <1>1, <2>1, <2>2 DEF Active, Over, Placed
  <2>4. CASE call[c].kind # "d2h" /\ buffer[call[c].out[n]].alloc = a
    BY <1>1, <2>1, <2>2, <2>3, <2>4 DEF HeldByCall
  <2>5. CASE call[c].kind = "execute" /\ a \in call[c].memory
    BY <1>1, <2>1, <2>2, <2>3, <2>5 DEF HeldByCall
  <2>6. CASE call[c].kind \in {"copy", "d2h"} /\ \E p \in call[c].args : buffer[p].alloc = a
    BY <1>1, <2>1, <2>2, <2>3, <2>6 DEF HeldByCall
  <2> QED BY <2>4, <2>5, <2>6 DEF HeldByCall
<1>6. CASE Associates(c)
  <2>1. PICK new \in SUBSET (Allocations \X SUBSET IdsOf(c)) :
          /\ holds' = Pending(holds \cup new)
          /\ \A m \in call[c].nodes : <<buffer[call[c].out[m]].alloc, {<<c, m>>}>> \in new
          /\ \A b \in call[c].memory : <<b, IdsOf(c)>> \in new
    BY <1>6, Zenon DEF Associates
  <2>2. /\ call[c].at = "associate" /\ call[c].kind # "d2h" /\ Continues(c) /\ buffer' = buffer
        /\ call'[c].at = IF call[c].kind = "copy" THEN "keep" ELSE "done"
    BY <1>6, Zenon DEF Associates
  <2>3. ASSUME NEW h \in new, h[1] = a, <<c, n>> \in h[2]
        PROVE  Held(a, <<c, n>>)'
    <3>1. h \in holds'
      BY <2>1, <2>3 DEF Pending
    <3> QED BY <2>3, <3>1 DEF Held
  <2>4. CASE buffer[call[c].out[n]].alloc = a
    <3> DEFINE h == <<a, {<<c, n>>}>>
    <3>1. h \in new /\ h[1] = a /\ <<c, n>> \in h[2]
      BY <1>1, <2>1, <2>4
    <3> QED BY <2>3, <3>1
  <2>5. CASE a \in call[c].memory
    <3> DEFINE h == <<a, IdsOf(c)>>
    <3>1. h \in new /\ h[1] = a /\ <<c, n>> \in h[2]
      BY <1>1, <2>1, <2>5
    <3> QED BY <2>3, <3>1
  <2>6. CASE call[c].kind = "copy" /\ \E p \in call[c].args : buffer[p].alloc = a
    <3>1. call'[c].kind = "copy" /\ call'[c].nodes = call[c].nodes /\ call'[c].args = call[c].args
      BY <2>2, <2>6 DEF Continues
    <3>2. c \in Active' /\ call'[c].at \in Placed
      BY <2>2, <2>6, <3>1 DEF Active, Over, Placed
    <3> QED BY <1>1, <2>2, <2>6, <3>1, <3>2 DEF HeldByCall
  <2> QED BY <2>2, <2>4, <2>5, <2>6 DEF HeldByCall
<1>7. CASE Keeps(c)
  <2>1. PICK p \in call[c].args :
          call[c].args = {p} /\ holds' = Pending(holds \cup KeepAllocation(p, IdsOf(c)))
    BY <1>7, Zenon DEF Keeps
  <2>2. call[c].at = "keep"
    BY <1>7 DEF Keeps
  <2>3. buffer[p].alloc = a
    BY <2>1, <2>2 DEF HeldByCall
  <2> DEFINE h == <<a, IdsOf(c)>>
  <2>4. h \in KeepAllocation(p, IdsOf(c))
    BY <1>1, <2>3 DEF KeepAllocation, AllocationOf
  <2>5. h[1] = a /\ <<c, n>> \in h[2]
    BY <1>1
  <2> HIDE DEF h
  <2>6. h \in holds'
    BY <2>1, <2>4, <2>5 DEF Pending
  <2> QED BY <2>5, <2>6 DEF Held
<1>8. call'[c] = call[c] \/ Issues(c) \/ Associates(c) \/ Keeps(c)
  <2>1. call'[c] = call[c] \/ CallSteps(c)
    BY CallsMove, CallsRest
  <2>2. ~Begins(c)
    <3>1. Begins(c) => call[c] = NoCall
      BY BeginsWith
    <3> QED BY <1>1, <3>1, NoCallShape DEF Active
  <2>3. ~Stays(c) /\ ~Places(c)
    BY <1>1, PlacesFacts DEF Stays
  <2> QED BY <2>1, <2>2, <2>3 DEF CallSteps
<1> QED BY <1>4, <1>5, <1>6, <1>7, <1>8

(* What a step adds is held by the call that takes it.                     *)
LEMMA NewUseHeld ==
  ASSUME ShapeInv, SharedInv, PinnedInv, TypeOK', NEW u \in uses' \ uses,
         NEW c \in Calls, Begins(c) \/ Places(c)
  PROVE  u[2][1] = c /\ call'[c].at \in Placed /\ HeldByCall(u[1], c, u[2][2])'
<1>1. CASE Begins(c)
  <2>1. PICK p \in call'[c].args : u[1] = buffer[p].alloc /\ u[2] = <<c, Host>> /\ call'[c].kind = "d2h"
    BY <1>1, BeginsMemory
  <2>2. call'[c].at = "enqueue" /\ CallShape(c)' /\ buffer' = buffer
    BY <1>1, <2>1, BeginsWith
  <2>3. call'[c].nodes = {Host} /\ c \in Active' /\ call'[c].at \in Placed
    BY <2>1, <2>2 DEF CallShape, Active, Over, Placed
  <2> QED BY <2>1, <2>2, <2>3 DEF HeldByCall
<1>2. CASE Places(c)
  <2>1. PICK n \in call[c].nodes :
          /\ u[2] = <<c, n>>
          /\ u[1] = buffer'[call'[c].out[n]].alloc \/ \E p \in call[c].args : u[1] = buffer[p].alloc
    BY <1>2, PlacesUses
  <2>2. /\ c \in Active /\ call[c].at \notin Placed /\ call[c].kind # "d2h" /\ Continues(c)
        /\ CallShape(c)' /\ call'[c].at = "enqueue" /\ CallShape(c)
        /\ call'[c].memory = call[c].memory \ ({c} \X call[c].nodes)
        /\ \A p \in call[c].args : p \in Pointers /\ buffer[p].state = "live"
    BY <1>2, PlacesFacts, Typing DEF ShapeInv, CallRecord
  <2>3. /\ call'[c].kind = call[c].kind /\ call'[c].nodes = call[c].nodes /\ call'[c].args = call[c].args
        /\ c \in Active' /\ call'[c].at \in Placed
    BY <2>2 DEF Continues, Active, Over, Placed
  <2>4. CASE u[1] = buffer'[call'[c].out[n]].alloc
    BY <2>1, <2>2, <2>3, <2>4 DEF HeldByCall
  <2>5. ASSUME NEW p \in call[c].args, u[1] = buffer[p].alloc
        PROVE  HeldByCall(u[1], c, n)'
    <3>1. CASE call[c].kind = "execute"
      <4>1. call[c].at \in {"unwrap", "reserve"}
        <5>1. call[c] \in CallRecord
          BY Typing DEF ShapeInv
        <5> QED BY <2>2, <3>1, <5>1 DEF CallShape, Active, Placed, CallRecord, Steps
      <4>2. u[1] \in call[c].memory
        BY <2>2, <2>5, <3>1, <4>1 DEF PinnedInv
      <4>3. u[1] \notin {c} \X call[c].nodes
        <5>1. call[u[1][1]].at \in Placed
          BY <2>2, <2>5 DEF SharedInv
        <5> QED BY <2>2, <5>1
      <4>4. u[1] \in call'[c].memory
        BY <2>2, <4>2, <4>3
      <4> QED BY <2>1, <2>2, <2>3, <3>1, <4>4 DEF HeldByCall
    <3>2. CASE call[c].kind = "copy"
      <4>1. \A m \in call[c].nodes : call'[c].out[m] # p
        <5>1. ASSUME NEW m \in call[c].nodes, call'[c].out[m] = p PROVE FALSE
          <6>1. MadeAt(c, m, call'[c].out[m])
            BY <1>2, PlacesMakes
          <6> QED BY <2>2, <2>5, <5>1, <6>1 DEF MadeAt
        <5> QED BY <5>1
      <4>2. call[c].donate = FALSE
        BY <2>2, <3>2 DEF CallShape
      <4>3. buffer'[p] = buffer[p]
        BY <1>2, <2>2, <2>5, <4>1, <4>2, PlacesLeaves
      <4> QED BY <2>1, <2>3, <2>5, <3>2, <4>3 DEF HeldByCall
    <3>3. call[c].kind \in {"execute", "copy"}
      <4>1. call[c].kind \in {"h2d", "copy", "execute"}
        BY <2>2, Typing DEF ShapeInv, CallRecord, Active
      <4>2. call[c].kind # "h2d"
        BY <2>2, <2>5 DEF CallShape
      <4> QED BY <4>1, <4>2
    <3> QED BY <3>1, <3>2, <3>3
  <2> QED BY <2>1, <2>3, <2>4, <2>5
<1> QED BY <1>1, <1>2

LEMMA PinnedKept ==
  ASSUME ShapeInv, KindsInv, SharedInv, PinnedInv, NoRevokedSource, TypeOK',
         (\E c \in Calls : CallSteps(c)) \/ OtherSteps
  PROVE  PinnedInv'
<1>1. ASSUME NEW u \in uses'
      PROVE  /\ call'[u[2][1]].at \in Placed
             /\ ~Done(u[2])' => Held(u[1], u[2])' \/ HeldByCall(u[1], u[2][1], u[2][2])'
  <2>1. u[1] \in Allocations /\ u[2] \in Ids /\ u[2][1] \in Calls /\ u[2][2] \in Nodes
        /\ u[2] = <<u[2][1], u[2][2]>>
    BY IdFacts DEF TypeOK
  <2>2. CASE u \in uses
    <3>1. /\ call[u[2][1]].at \in Placed
          /\ ~Done(u[2]) => Held(u[1], u[2]) \/ HeldByCall(u[1], u[2][1], u[2][2])
      BY <2>2 DEF PinnedInv
    <3>2. call'[u[2][1]].at \in Placed /\ (~Done(u[2])' => ~Done(u[2]))
      BY <2>1, <3>1, PlacedStay, DoneStays
    <3>3. ASSUME Held(u[1], u[2]), ~Done(u[2])'
          PROVE  Held(u[1], u[2])'
      BY <3>2, <3>3, CallbacksWait DEF Held
    <3>4. ASSUME HeldByCall(u[1], u[2][1], u[2][2]), ~Done(u[2])'
          PROVE  Held(u[1], u[2])' \/ HeldByCall(u[1], u[2][1], u[2][2])'
      BY <2>1, <3>2, <3>4, HeldOn
    <3> QED BY <3>1, <3>2, <3>3, <3>4
  <2>3. CASE u \notin uses
    <3>1. PICK c \in Calls : Begins(c) \/ Places(c)
      BY <2>3, UsesSteps
    <3> QED BY <2>3, <3>1, NewUseHeld
  <2> QED BY <2>2, <2>3
<1>2. ASSUME NEW c \in Active', call'[c].kind = "execute", call'[c].at \in {"unwrap", "reserve"},
             NEW p \in call'[c].args, buffer'[p].state = "live"
      PROVE  buffer'[p].alloc \in call'[c].memory
  <2>1. c \in Calls /\ p \in Pointers
    <3>1. c \in Calls /\ call' \in [Calls -> CallRecord]
      BY DEF Active, TypeOK, CallRecord
    <3> QED BY <3>1 DEF CallRecord
  <2>2. CASE Begins(c)
    <3>1. AllocationOf(p) \subseteq call'[c].memory /\ buffer' = buffer
      BY <1>2, <2>1, <2>2, BeginsWith, BeginsMemory
    <3>2. buffer[p].alloc # None
      BY <1>2, <2>1, <3>1, IdFacts DEF ShapeInv, BufferShape
    <3> QED BY <3>1, <3>2 DEF AllocationOf
  <2>3. CASE call'[c] = call[c] \/ Stays(c)
    <3>1. /\ c \in Active /\ p \in call[c].args /\ call[c].kind = "execute"
          /\ call[c].at \in {"unwrap", "reserve"} /\ call[c].memory \subseteq call'[c].memory
      <4>1. CASE call'[c] = call[c]
        BY <1>2, <4>1 DEF Active
      <4>2. CASE Stays(c)
        <5>1. /\ c \in Active /\ Continues(c) /\ call[c].at \notin Placed
              /\ call'[c].at \in {"reserve", "oom", "error"}
              /\ call'[c].at = "reserve" =>
                   call[c].kind = "execute" /\ call[c].memory \subseteq call'[c].memory
          BY <4>2, Zenon DEF Stays
        <5>2. CallShape(c) /\ call[c] \in CallRecord
          BY <2>1, Typing DEF ShapeInv
        <5>3. call[c].kind = "execute" /\ p \in call[c].args /\ call[c].memory \subseteq call'[c].memory
          BY <1>2, <5>1 DEF Continues
        <5>4. call[c].at \in {"unwrap", "reserve"}
          BY <2>1, <5>1, <5>2, <5>3 DEF CallShape, Active, Placed, CallRecord, Steps
        <5> QED BY <5>1, <5>3, <5>4
      <4> QED BY <2>3, <4>1, <4>2
    <3>2. buffer[p].state # "free" /\ p \notin destroying
      BY <3>1 DEF ShapeInv, ArgShape
    <3>3. buffer'[p] = buffer[p]
      BY <1>2, <2>1, <3>2, BuffersLast DEF Lasting
    <3> QED BY <1>2, <3>1, <3>3 DEF PinnedInv
  <2>4. CASE Places(c) \/ Issues(c) \/ Associates(c) \/ Keeps(c)
    <3>1. call'[c].at \in Placed
      BY <2>1, <2>4, PlacesFacts DEF Issues, Associates, Keeps, Placed
    <3> QED BY <1>2, <3>1 DEF Placed
  <2>5. call'[c] = call[c] \/ CallSteps(c)
    BY <2>1, CallsMove, CallsRest
  <2> QED BY <2>2, <2>3, <2>4, <2>5 DEF CallSteps
<1>3. ASSUME ~RevokeInUse, NEW b \in Active', NEW c \in Active',
             NEW p \in call'[b].args \cap call'[c].args, call'[b].donate
      PROVE  b = c
  <2>1. b \in Calls /\ c \in Calls
    BY DEF Active
  <2> DEFINE Same(a) == a \in Active /\ call'[a].args = call[a].args /\ call'[a].donate = call[a].donate
  <2>2. \A a \in Active' : Begins(a) \/ Same(a)
    BY ArgsMove DEF Continues
  <2>3. CASE Same(b) /\ Same(c)
    BY <1>3, <2>3 DEF PinnedInv
  <2>4. CASE Begins(b) /\ Same(c)
    <3>1. ~InUse(p)
      BY <1>3, <2>1, <2>4, BeginsWith
    <3> QED BY <1>3, <2>4, <3>1 DEF InUse
  <2>5. CASE Same(b) /\ Begins(c)
    <3>1. Usable(p)
      BY <1>3, <2>1, <2>5, BeginsWith
    <3> QED BY <1>3, <2>5, <3>1 DEF Usable
  <2>6. CASE Begins(b) /\ Begins(c)
    <3>1. call[c] = NoCall /\ call'[c].kind # "none" /\ CallSteps(b)
      BY <2>1, <2>6, BeginsWith DEF CallSteps
    <3>2. b # c => call'[c] = call[c]
      BY <2>1, <3>1, CallsMove
    <3> QED BY <3>1, <3>2, NoCallShape
  <2> QED BY <2>2, <2>3, <2>4, <2>5, <2>6
<1> QED BY <1>1, <1>2, <1>3 DEF PinnedInv

(* Pending work retains its allocations, also when a caller deletes, donates
   or destroys the buffers meanwhile: for uploads and executions whatever the
   callers do, for copies and downloads when no caller revokes a buffer that
   another of its calls in progress was given.                             *)
THEOREM PendingWorkKeeps ==
  ASSUME NoRevokedSource
  PROVE  Spec => []PendingWorkKeepsMemory
<1>1. Init => ApiInv /\ PinnedInv
  <2> SUFFICES ASSUME Init PROVE PinnedInv
    BY Start
  <2>1. uses = {} /\ Active = {}
    BY NoCallShape DEF Init, Active
  <2> QED BY <2>1 DEF PinnedInv
<1>2. ApiInv /\ PinnedInv /\ [Next]_vars => (ApiInv /\ PinnedInv)'
  <2> SUFFICES ASSUME ApiInv, PinnedInv, [Next]_vars PROVE ApiInv' /\ PinnedInv'
    OBVIOUS
  <2>1. TypeOK' /\ ((\E c \in Calls : CallSteps(c)) \/ OtherSteps)
    BY StepIs DEF ApiInv
  <2>2. ApiInv'
    BY StepKept
  <2>3. PinnedInv'
    BY <2>1, NoRevokedSource, PinnedKept DEF ApiInv
  <2> QED BY <2>2, <2>3
<1>3. ApiInv /\ PinnedInv => PendingWorkKeepsMemory
  <2> SUFFICES ASSUME ApiInv, PinnedInv, NEW u \in uses, ~Done(u[2]) PROVE u[1] \in Referenced
    BY DEF PendingWorkKeepsMemory, ApiInv, SharedInv
  <2>1. u[1] # None /\ u[2][1] \in Calls /\ u[2][2] \in Nodes
    BY IdFacts, Typing DEF ApiInv, ShapeInv
  <2>2. CASE Held(u[1], u[2])
    BY <2>2 DEF Held, Referenced
  <2>3. ASSUME NEW p \in Pointers, buffer[p].alloc = u[1]
        PROVE  u[1] \in Referenced
    BY <2>1, <2>3 DEF Referenced
  <2>4. CASE HeldByCall(u[1], u[2][1], u[2][2])
    <3> DEFINE c == u[2][1]
               n == u[2][2]
    <3>1. CallShape(c) /\ call[c] \in CallRecord /\ n \in call[c].nodes
      BY <2>1, <2>4, Typing DEF ApiInv, ShapeInv, HeldByCall
    <3>2. CASE call[c].kind # "d2h" /\ call[c].at \in {"enqueue", "associate"} /\ buffer[call[c].out[n]].alloc = u[1]
      <4>1. call[c].out[n] \in Pointers
        BY <2>1, <3>1, <3>2 DEF CallShape, CallRecord, Placed
      <4> QED BY <2>3, <3>2, <4>1
    <3>3. CASE u[1] \in call[c].memory
      BY <2>1, <3>3 DEF Referenced
    <3>4. CASE \E p \in call[c].args : buffer[p].alloc = u[1]
      BY <2>3, <3>1, <3>4 DEF CallRecord
    <3> QED BY <2>4, <3>2, <3>3, <3>4 DEF HeldByCall
  <2>5. Held(u[1], u[2]) \/ HeldByCall(u[1], u[2][1], u[2][2])
    BY DEF PinnedInv
  <2> QED BY <2>2, <2>4, <2>5
<1> QED BY <1>1, <1>2, <1>3, PTL DEF Spec
=============================================================================

--------------------------- MODULE InstructionModel ---------------------------
(***************************************************************************)
(* build_execution (python/sim_pjrt/llo/execution.py): a run of bundles    *)
(* becomes operations with the producers they wait for, DMA queues and     *)
(* credits.  A register is <<scope, name>>, a flag <<scope, base, offset>>;*)
(* an operation is named by its <<bundle, instruction>>.  A producer is a  *)
(* set: empty for a value that is ready at entry.                          *)
(*                                                                         *)
(* A bundle of a run is an item: scope, code (its instructions) and kept   *)
(* (what the scalar analysis knows of each).                               *)
(***************************************************************************)
EXTENDS ScalarValues, SequencesExt, TLC

CONSTANTS
  Latency,         (* [op -> cycles] of the compiler's cost table          *)
  ExtraCycles,     (* [op -> cycles]: instruction_extra_cycles             *)
  Granule,         (* dma_granule_bytes                                    *)
  Transaction,     (* dma_transaction_bytes                                *)
  BytesPerCycle,   (* bandwidth of a DMA direction, per cycle              *)
  DmaLatency,      (* its latency_cycles                                   *)
  MrbSlots         (* bf16_result_slots                                    *)

Up(a, b) == (a + b - 1) \div b

Named(scope, token) ==
  IF token.t \in {"reg", "not"} THEN {<<scope, NameOf(token)>>} ELSE {}
RegistersRead(scope, i) ==
  UNION {Named(scope, t) : t \in ToSet(i.args) \cup {i.guard, i.cond, i.at, i.plus}}

FlagOf(scope, token) == <<scope, token.base, token.lo>>

(* State of the fold over bundles: out, the bundles built; fifos, the      *)
(* queues of results; mrb and released, who wrote a slot and who read it.  *)
Empty == [producers |-> <<>>, fifos |-> <<>>, mrb |-> <<>>, released |-> <<>>,
          out |-> <<>>, gaps |-> {}, invalid |-> FALSE]

Find(f, x, default) == IF x \in DOMAIN f THEN f[x] ELSE default
Producers(s, registers) == UNION {Find(s.producers, r, {}) : r \in registers}

(* A phi is the producer of the edge taken; when the edge isn't known, what
   it held before (a bounded segment starts drained).                      *)
Aliases(s, item) ==
  LET known == {k \in DOMAIN item.code : item.code[k].op = "sphi"
                                          /\ item.kept[k].phi # NoToken}
  IN  [r \in {<<item.scope, item.code[k].dest>> : k \in known} |->
         LET k == CHOOSE k \in known : r = <<item.scope, item.code[k].dest>>
         IN  Producers(s, Named(item.scope, item.kept[k].phi))]
        @@ s.producers

UnknownPhi(item) ==
  \E k \in DOMAIN item.code : item.code[k].op = "sphi" /\ item.kept[k].phi = NoToken

Disabled(i, x) == x.pred = 0
Undecided(i, x) == i.guard # NoToken /\ x.pred = -1

(* The state inside a bundle: what co-issued instructions write.           *)
Open(s, item) ==
  [s |-> [s EXCEPT !.producers = Aliases(s, item)], writes |-> <<>>, mrbWrites |-> <<>>,
   mrbReads |-> <<>>, pushes |-> <<>>, ops |-> <<>>, extra |-> 0]

(* The first entry of a unit's queue, for a pop.                           *)
Queue(b, i) == Find(b.s.fifos, i.unit, <<>>)
Popped(b, i) == IF i.op = "vpop" /\ Queue(b, i) # <<>> THEN {Head(Queue(b, i))} ELSE {}

(* Result slots a matmul writes, or a read releases.                       *)
Slots(i) == IF i.op = "vmatmul" THEN {<<i.unit, i.index + n>> : n \in 0..(MrbSlots - 1)}
            ELSE IF i.op = "vpop_mrb" THEN {<<i.unit, i.index>>} ELSE {}

SlotDeps(b, i) ==
  CASE i.op = "vmatmul" -> UNION {Find(b.s.released, k, {}) : k \in Slots(i)}
    [] i.op = "vpop_mrb" -> UNION {Find(b.s.mrb, k, {}) : k \in Slots(i)}
    [] OTHER -> {}

(* A physical register belongs to no invocation.                           *)
Written(item, i) ==
  {<<item.scope, i.dest>> : d \in {i.dest} \ {""}}
    \cup {<<<<0>>, i.physical>> : p \in {i.physical} \ {""}}

(* Everything an operation waits for: what it reads, the result it pops,
   and whoever last wrote its destination.                                 *)
Dependencies(b, item, i) ==
  Producers(b.s, RegistersRead(item.scope, i)) \cup Popped(b, i) \cup SlotDeps(b, i)
    \cup Producers(b.s, Written(item, i))

OutOfOrder(b, item, i) ==
  /\ i.op = "vpop" /\ Queue(b, i) # <<>>
  /\ (Producers(b.s, RegistersRead(item.scope, i)) \cap ToSet(Queue(b, i)))
       \ {Head(Queue(b, i))} # {}

Overwrites(b, i) ==
  \/ i.op = "vmatmul" /\ Slots(i) \cap (DOMAIN b.s.mrb \cup DOMAIN b.mrbWrites) # {}
  \/ i.op = "vpop_mrb" /\ Slots(i) \cap DOMAIN b.s.mrb \cap DOMAIN b.mrbReads # {}

(* A transfer is rounded up to whole transactions and cycles.              *)
Transfer(units) ==
  LET size == units * Granule IN
  IF size = 0 THEN 0
  ELSE DmaLatency + Up(Up(size, Transaction) * Transaction, BytesPerCycle)

(* DMAs of known size queue at their service and signal on completion; a
   sync add counts at once, by a signed number.                            *)
Sized(x) == IsConst(x.args[2])
Flagged(token) == token.t = "flag"

Operation(b, item, k, id) ==
  LET i == item.code[k]
      x == item.kept[k]
      plain == [id |-> id, deps |-> Dependencies(b, item, i),
                latency |-> Find(Latency, i.op, 1), service |-> "", waits |-> {}, updates |-> {}]
  IN  CASE i.op = "dma" /\ Sized(x) ->
             [plain EXCEPT !.latency = Transfer(x.args[2].lo), !.service = i.unit,
                !.updates = {[flag |-> FlagOf(item.scope, f), units |-> x.args[2].lo,
                              late |-> TRUE] : f \in {f \in {x.args[4]} : Flagged(f)}}]
        [] i.op = "dma_wait" /\ Flagged(x.args[1]) /\ IsConst(x.args[2]) ->
             [plain EXCEPT !.waits = {[flag |-> FlagOf(item.scope, x.args[1]),
                                       units |-> x.args[2].lo]}]
        [] i.op = "vsyncadd" /\ Flagged(x.args[1]) /\ IsConst(x.args[2]) ->
             [plain EXCEPT !.updates = {[flag |-> FlagOf(item.scope, x.args[1]),
                                         units |-> Signed(x.args[2].lo), late |-> FALSE]}]
        [] OTHER -> plain

Unfed(b, i) ==
  i.op \in {"vpop", "vpop_mrb"} /\ Popped(b, i) \cup SlotDeps(b, i) = {}

Unmodeled(i, x) ==
  \/ i.op = "dma" /\ ~(Sized(x) /\ Flagged(x.args[4]))
  \/ i.op \in {"dma_wait", "vsyncadd"} /\ ~(Flagged(x.args[1]) /\ IsConst(x.args[2]))
  \/ i.op = "vdelay" /\ ~IsConst(x.args[1])

Cast(i) == i.op \in Casts /\ i.dest # "" /\ i.args[1].t \in {"reg", "not"}

(* One instruction of a bundle.                                            *)
Issue(b, item, k, visit, bounded) ==
  LET i == item.code[k]
      x == item.kept[k]
      id == <<visit, k>>
      source == <<item.scope, NameOf(i.args[1])>>
      operation == Operation(b, item, k, id)
  IN  IF Disabled(i, x) THEN b
      ELSE
        CASE Cast(i) ->
             [b EXCEPT !.writes = (<<item.scope, i.dest>> :>
                 Find(b.writes, source, Producers(b.s, {source}))) @@ @]
        [] i.op = "inlined_call_operand" ->
             [b EXCEPT !.writes = (<<item.scope, i.dest>> :> {}) @@ @]
        [] i.op \in {"sphi", "barrier"} -> b
        [] OTHER ->
             [b EXCEPT
                !.ops = Append(@, operation),
                !.writes = [r \in Written(item, i) |-> {id}] @@ @,
                !.pushes = IF i.op = "vpush" /\ i.dest = "" THEN Append(@, <<i.unit, id>>) ELSE @,
                !.mrbWrites = IF i.op = "vmatmul" THEN [n \in Slots(i) |-> {id}] @@ @ ELSE @,
                !.mrbReads = IF i.op = "vpop_mrb"
                             THEN [n \in Slots(i) \cap DOMAIN b.s.mrb |-> {id}] @@ @ ELSE @,
                !.extra = Greatest({@, Find(ExtraCycles, i.op, 0),
                                    IF i.op = "vdelay" /\ ~Unmodeled(i, x) THEN x.args[1].lo ELSE 0}),
                !.s = [@ EXCEPT
                   !.fifos = IF Popped(b, i) = {} THEN @
                             ELSE (i.unit :> Tail(Queue(b, i))) @@ @,
                   !.gaps = @ \cup (IF Unmodeled(i, x) THEN {<<"operand">>} ELSE {})
                              \cup (IF Unfed(b, i) THEN {<<"producer">>} ELSE {}),
                   !.invalid = @ \/ (Undecided(i, x) /\ ~bounded)
                                 \/ OutOfOrder(b, item, i) \/ Overwrites(b, i)
                                 \/ Written(item, i) \cap DOMAIN b.writes # {}]]

(* Mutant of Queued: a result goes before the ones already queued.         *)
QueuedFirst(queue, id) == <<id>> \o queue
Queued(queue, id) == Append(queue, id)

(* Writes, releases and pushes of a bundle are seen by the ones after it.  *)
Close(b) ==
  LET push(fifos, p) == (p[1] :> Queued(Find(fifos, p[1], <<>>), p[2])) @@ fifos
  IN  [b.s EXCEPT
         !.producers = b.writes @@ @,
         !.mrb = b.mrbWrites @@ [k \in DOMAIN @ \ DOMAIN b.mrbReads |-> @[k]],
         !.released = b.mrbReads @@ @,
         !.fifos = Fold(push, @, b.pushes),
         !.out = Append(@, [ops |-> b.ops, cycles |-> 1 + b.extra])]

Step(s, item, bounded) ==
  LET visit == Len(s.out) + 1
      open == Open([s EXCEPT !.invalid = @ \/ (UnknownPhi(item) /\ ~bounded)], item)
  IN  Close(Fold(LAMBDA b, k : Issue(b, item, k, visit, bounded),
                     open, [k \in DOMAIN item.code |-> k]))

Build(run, bounded) == Fold(LAMBDA s, item : Step(s, item, bounded), Empty, run)
============================================================================

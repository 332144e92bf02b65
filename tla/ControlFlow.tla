------------------------------ MODULE ControlFlow ------------------------------
(***************************************************************************)
(* resolve_scalar_operands (python/sim_pjrt/llo/control_flow.py): the      *)
(* bundles of one kernel are walked with what is known of its scalars.  A  *)
(* known branch is followed, an unknown guard splits the walk into two     *)
(* arms that meet at the branch's immediate postdominator, and a counted   *)
(* loop too long to unroll is walked once, for an arbitrary iteration.     *)
(* The result is a tree of bundles, alternatives and repeated bodies.      *)
(*                                                                         *)
(* The recursion of walk is the stack frames; each action is one turn of   *)
(* its loop, or the return to the caller.  Bundles are numbered from 1, so *)
(* the edge into the first comes from 0 and the end is Len(code) + 1.      *)
(*                                                                         *)
(* A kernel: its code, what the caller assumes of its inputs, and options. *)
(* A bundle: its instructions; header is LH or LB, join is PF; hlo and     *)
(* latch are the bound the HLO metadata gives the loop it heads.           *)
(***************************************************************************)
EXTENDS ScalarValues, SequencesExt, TLC

CONSTANTS
  Kernels,       (* [name -> kernel]                                       *)
  PredicateRegisters,  (* those a dump names %p...: they hold 0 or 1       *)
  UnrollLimit,   (* 10000 bundle visits: loops that fit are unrolled       *)
  SpillSlots,    (* the allocations the compiler names _spill              *)
  MaxDepth       (* bound: nested calls of walk (Python's recursion limit) *)

VARIABLES
  unit,      (* the kernel and the scalar inputs it is resolved for        *)
  frames,    (* the calls of walk                                          *)
  work,      (* bundles visited                                            *)
  visits,    (* of each of them                                            *)
  outcome,   (* idle | walking | resolved | halted | error (ValueError)    *)
  tree       (* what walk returned                                         *)

walkVars == <<unit, frames, work, visits, outcome, tree>>

kernel == unit.kernel
code == kernel.code
End == Len(code) + 1

NoTarget == 0
NoDelay == -1
NoEdge == -1
NoJump == [left |-> -1, target |-> 0]

(* An instruction; the fields that don't concern it keep these values.     *)
Nop == [op |-> "nop", sign |-> "", rel |-> "", dest |-> "", args |-> <<>>,
        guard |-> NoToken, cond |-> NoToken, at |-> NoToken, plus |-> Const(0),
        target |-> NoTarget, delay |-> NoDelay, index |-> 0, callee |-> "",
        peer |-> FALSE, toSmem |-> FALSE, unit |-> "", physical |-> ""]

(* f, and g where f says nothing (what TLC's @@ is).                       *)
Overlay(f, g) ==
  [x \in DOMAIN f \cup DOMAIN g |-> IF x \in DOMAIN f THEN f[x] ELSE g[x]]

Jumps(i) == i.op \in {"sbr", "sloop", "scall", "sret"}
Branches(pc) == {i \in ToSet(code[pc].ins) : i.op = "sbr"}
Assigned(pc) == {i.dest : i \in ToSet(code[pc].ins)} \ {""}
AssignedIn(from, to) == UNION {Assigned(pc) : pc \in from..to}

Read(token, values) ==
  LET name == NameOf(token)
      known == IF name \in DOMAIN kernel.assumed THEN Truth(kernel.assumed[name])
               ELSE IF name \in DOMAIN values THEN values[name] ELSE Unknown
  IN  CASE token.t = "reg" -> known
        [] token.t = "not" -> IF known = Unknown THEN Unknown ELSE Truth(known = Const(0))
        [] token.t = "none" -> Unknown
        [] OTHER -> token

----------------------------------------------------------------------------
(* Kernels as the compiler dumps them: instructions have the operands their
   forms have, predicates are registers of their own, jumps go to a label.
   What the theorem about the walk assumes; TLC finds it of every kernel.  *)

IsToken(v) == v.t \in {"reg", "not", "none"} \/ IsValue(v)

(* A token that stands for 0 or 1.                                         *)
IsCondition(v) ==
  \/ v.t \in {"not", "none"} \/ v \in {Const(0), Const(1)}
  \/ v.t = "reg" /\ NameOf(v) \in PredicateRegisters

(* Only predicate instructions, moves and phis of predicates write them.   *)
WritesPredicate(i) ==
  \/ i.op \in PredicateOps
  \/ i.op \in {"sphi", "smov", "pmov"} /\ i.cond = NoToken /\ \A v \in ToSet(i.args) : IsCondition(v)

IsInstruction(i, end) ==
  /\ i.args \in Seq(ToSet(i.args))
  /\ \A v \in ToSet(i.args) \cup {i.guard, i.cond, i.at, i.plus} : IsToken(v)
  /\ i.op \in {"sphi", "sst"} => i.args # <<>>
  /\ i.op \in {"pneg", "pnot"} => Len(i.args) = 1 /\ IsCondition(i.args[1])
  /\ i.op = "scalar_select" => Len(i.args) = 3
  /\ i.op = "sld" => Len(i.args) # 2
  /\ i.op = "scmp" => i.rel \in Relations
  /\ i.cond # NoToken <=> (i.op = "smov" /\ Len(i.args) = 2)
  /\ IsCondition(i.cond)
  /\ i.op = "sbr" => i.target \in 0..end /\ i.delay \in Nat \cup {NoDelay}
  /\ i.dest \in PredicateRegisters => WritesPredicate(i)

IsBundle(b, end) ==
  /\ b.ins \in Seq(ToSet(b.ins)) /\ \A i \in ToSet(b.ins) : IsInstruction(i, end)
  /\ b.hlo > 0 => b.latch \in 1..(end - 1)

IsKernel(k) ==
  /\ k.code \in Seq(ToSet(k.code))
  /\ \A b \in ToSet(k.code) : IsBundle(b, Len(k.code) + 1)
  /\ \A pc \in DOMAIN k.joins : k.joins[pc] \in 1..(Len(k.code) + 1)
  /\ \A l \in k.loops : l.latch \in Nat /\ l.end \in Int
  /\ \A r \in DOMAIN k.assumed : k.assumed[r] \in BOOLEAN
  /\ \A v \in {k.scalars[n] : n \in DOMAIN k.scalars} \cup {k.memory[x] : x \in DOMAIN k.memory} :
       IsValue(v)

ASSUME KernelAssumption == \A n \in DOMAIN Kernels : IsKernel(Kernels[n])

----------------------------------------------------------------------------
(* A turn of walk *)

NoSplit == [on |-> FALSE]
NoBody == [on |-> FALSE]

Frame(pc, values, memory, previous, pending, stop, loops, phiDone, latch) ==
  [pc |-> pc, values |-> values, memory |-> memory, previous |-> previous,
   pending |-> pending, stop |-> stop, loops |-> loops, phiDone |-> phiDone,
   latch |-> latch, result |-> <<>>, split |-> NoSplit, body |-> NoBody]

top == frames[Len(frames)]
Callers == Front(frames)

AtEnd(f) == f.pc = End \/ f.pc = f.stop

Entering(f) == ~f.phiDone /\ f.previous # NoEdge /\ f.previous < f.pc

(* Mutant of FreshLoops: so does the loop's own backward branch.           *)
FreshLoopsAlways(f) == {x \in f.loops : x.pc \notin kernel.latches[f.pc]}

(* Coming to an inner loop again starts a new invocation of it.            *)
FreshLoops(f) ==
  IF f.previous # NoEdge /\ f.previous < f.pc
  THEN {x \in f.loops : x.pc \notin kernel.latches[f.pc]}
  ELSE f.loops

(* _phi_values: the operand of the edge the walk came by; without a known
   edge only what all operands agree on.                                   *)
PhiOperand(i, pc, previous) ==
  CASE code[pc].header -> IF previous >= pc THEN 2 ELSE 1
    [] ~code[pc].header /\ code[pc].join /\ Len(i.args) = 2 /\ previous # NoEdge ->
         IF previous = pc - 1 THEN 2 ELSE 1
    [] OTHER -> 0

Chosen(i, pc, previous, x) ==
  LET k == PhiOperand(i, pc, previous) IN
  IF k > 0 THEN x[k]
  ELSE IF \A j \in DOMAIN x : x[j] = x[1] THEN x[1] ELSE Unknown

Phis(pc) == {i \in ToSet(code[pc].ins) : i.op = "sphi"}

AmbiguousPhi(pc, previous) ==
  code[pc].header /\ \E i \in Phis(pc) : Len(i.args) # 2 \/ previous = NoEdge

PhiValues(pc, previous, values) ==
  [r \in {i.dest : i \in Phis(pc)} |->
     LET i == CHOOSE i \in Phis(pc) : i.dest = r
     IN  Chosen(i, pc, previous, [k \in DOMAIN i.args |-> Read(i.args[k], values)])]

(* Peers that are assumed ready end the poll: the guard is known at its
   latch before anything in the bundle reads it.                           *)
PollEnds(pc) ==
  LET guarded == {i \in Branches(pc) : i.guard # NoToken} IN
  [r \in IF pc \in kernel.ready THEN {NameOf(i.guard) : i \in guarded} ELSE {} |->
     Truth(\E i \in guarded : i.guard = Not(r))]

(* The values a bundle's instructions read.                                *)
Entered(f) ==
  Overlay(PollEnds(f.pc),
          IF f.phiDone THEN f.values
          ELSE Overlay(PhiValues(f.pc, f.previous, f.values), f.values))

----------------------------------------------------------------------------
(* Loops that are walked once *)

(* Trips of a counted loop that starts at a known value and doesn't wrap,
   when visiting them all wouldn't fit.                                    *)
Trips(l, start) ==
  (l.bound - start + (IF l.rel = "le" THEN 1 ELSE 0) + l.step - 1) \div l.step

(* Mutant of TooLong: a loop that steps over its ne bound is counted.      *)
TooLongAnyStep(f, l, start) ==
  /\ IsConst(start) /\ 0 <= start.lo /\ start.lo < l.bound /\ l.bound < l.modulus
  /\ start.lo + Trips(l, start.lo) * l.step < l.modulus
  /\ Trips(l, start.lo) * (l.end - f.pc) > Greatest({UnrollLimit, kernel.maxVisits - work})

TooLong(f, l, start) ==
  /\ IsConst(start) /\ 0 <= start.lo /\ start.lo < l.bound /\ l.bound < l.modulus
  /\ start.lo + Trips(l, start.lo) * l.step < l.modulus
  /\ l.rel = "ne" => (l.bound - start.lo) % l.step = 0
  /\ Trips(l, start.lo) * (l.end - f.pc) > Greatest({UnrollLimit, kernel.maxVisits - work})

Summary(latch, end, count, source) ==
  [on |-> TRUE, latch |-> latch, end |-> end, count |-> count, source |-> source]

Summaries(f) ==
  CASE ~Entering(f) -> {}
    [] Entering(f) /\ code[f.pc].hlo > 0 ->
         LET latch == code[f.pc].latch IN
         {Summary(latch, latch + i.delay + 1, code[f.pc].hlo, "hlo") : i \in Branches(latch)}
    [] OTHER ->
         {Summary(l.latch, l.end, Trips(l, Read(l.seed, f.values).lo), "llo_counter") :
            l \in {l \in kernel.loops :
                     l.header = f.pc /\ TooLong(f, l, Read(l.seed, f.values))}}

BadSummary(s) ==
  \/ s.end <= s.latch \/ s.end > End
  \/ \E pc \in (s.latch + 1)..(s.end - 1) : \E i \in ToSet(code[pc].ins) : Jumps(i)

Forget(f, names) == [r \in DOMAIN f \ names |-> f[r]]

(* The body is walked for an arbitrary iteration: nothing it writes, and no
   memory, is known at its start.                                          *)
EnterBody(f, s) ==
  LET values == Forget(f.values, AssignedIn(f.pc, s.end - 1))
  IN  <<[f EXCEPT !.values = values, !.loops = FreshLoops(f), !.body = s],
        Frame(f.pc, values, <<>>, f.previous, NoJump, s.end, {}, TRUE, s.latch)>>

LeaveBody(f, result) ==
  [f EXCEPT !.result = Append(@, [k |-> "loop", pc |-> f.pc, count |-> f.body.count,
                                  source |-> f.body.source, latch |-> f.body.latch,
                                  body |-> result]),
            !.memory = <<>>, !.previous = f.body.end - 1, !.pc = f.body.end,
            !.body = NoBody]

----------------------------------------------------------------------------
(* Unknown guards *)

Summarized(f, i) == f.pc = f.latch /\ i.op = "sbr"

(* The first guard of a bundle that isn't known.                           *)
UnknownGuards(f) ==
  {i.guard : i \in {i \in ToSet(code[f.pc].ins) :
     /\ i.guard # NoToken /\ i.op # "shalt" /\ ~Summarized(f, i)
     /\ Read(i.guard, Entered(f)) = Unknown}}

SplitGuard(f) ==
  LET k == SelectInSeq(code[f.pc].ins, LAMBDA i : i.guard \in UnknownGuards(f)
                                                    /\ i.op # "shalt" /\ ~Summarized(f, i))
  IN  code[f.pc].ins[k].guard

(* The branch ahead that reads the same guard: what was predicated before it
   belongs to its arms.                                                    *)
SharedBranch(f, r) ==
  LET stops == {pc \in f.pc..Len(code) :
                  Branches(pc) # {} \/ f.pending # NoJump \/ r \in Assigned(pc)}
      pc == Least(stops)
  IN  IF /\ stops # {} /\ Branches(pc) # {}
         /\ pc = f.pc \/ \E i \in Branches(pc) : i.guard # NoToken /\ NameOf(i.guard) = r
      THEN pc ELSE 0

JoinOf(f) ==
  LET branch == SharedBranch(f, NameOf(SplitGuard(f))) IN
  IF branch # 0 THEN kernel.joins[branch]
  ELSE IF f.pending.left = 0 THEN f.pending.target ELSE f.pc + 1

BadSplit(f) ==
  LET branch == SharedBranch(f, NameOf(SplitGuard(f))) IN
  branch # 0 /\ (f.pending # NoJump \/ branch \notin DOMAIN kernel.joins)

Arm(f, choice) ==
  LET g == f.split.guard IN
  Frame(f.pc, Overlay([r \in {NameOf(g)} |-> Truth(choice # (g.t = "not"))], f.values), f.memory,
        f.previous, f.pending, f.split.join, f.loops, TRUE, f.latch)

(* The guard is false in the first arm and true in the second.             *)
SplitAt(f) ==
  LET g == SplitGuard(f)
      open == [f EXCEPT !.values = Entered(f), !.loops = FreshLoops(f),
                        !.phiDone = FALSE,
                        !.split = [on |-> TRUE, guard |-> g, join |-> JoinOf(f),
                                   second |-> FALSE, arms |-> <<>>, states |-> <<>>]]
  IN  <<open, Arm(open, FALSE)>>

Look(f, x) == IF x \in DOMAIN f THEN f[x] ELSE Unknown

(* What all arms agree on.                                                 *)
Agreed(fs) ==
  [x \in {x \in DOMAIN fs[1] : \A k \in DOMAIN fs : Look(fs[k], x) = fs[1][x]} |-> fs[1][x]]

BadMerge(f) ==
  \E a, b \in ToSet(f.split.states) : a.pending # b.pending

(* The walk goes on at the join, its phis read along each arm's edge.      *)
Merge(f) ==
  LET states == f.split.states
      join == f.split.join
      phis == join < End /\ ~code[join].header
      values(s) == IF phis THEN Overlay(PhiValues(join, s.previous, s.values), s.values)
                   ELSE s.values
      edges == {IF s.previous = NoEdge THEN NoEdge ELSE IF s.previous >= join THEN 1 ELSE 0 :
                  s \in ToSet(states)}
  IN  [f EXCEPT !.result = Append(@, [k |-> "alternatives", pc |-> f.pc, join |-> join,
                                      arms |-> f.split.arms]),
                !.values = Agreed([k \in DOMAIN states |-> values(states[k])]),
                !.memory = Agreed([k \in DOMAIN states |-> states[k].memory]),
                !.previous = IF Len(states) = 1 \/ edges \in {{0}, {1}}
                             THEN states[1].previous ELSE NoEdge,
                !.pending = states[1].pending,
                !.loops = {x \in states[1].loops : \A s \in ToSet(states) : x \in s.loops},
                !.pc = join, !.phiDone = phis, !.split = NoSplit]

(* The second arm after the first, the join after the second.              *)
Proceed(callers, f) ==
  IF f.split.second THEN Append(callers, Merge(f))
  ELSE callers \o <<[f EXCEPT !.split.second = TRUE], Arm(f, TRUE)>>

----------------------------------------------------------------------------
(* A bundle *)

Predicate(f, i) ==
  IF i.guard = NoToken \/ Summarized(f, i) THEN Const(1) ELSE Read(i.guard, Entered(f))

LoopState(f) == [pc |-> f.pc, values |-> Entered(f), memory |-> f.memory]

(* A backward branch from a state seen before would be taken for ever.     *)
RepeatsState(f, i) ==
  /\ Predicate(f, i) # Const(0) /\ ~Summarized(f, i)
  /\ i.target <= f.pc /\ LoopState(f) \in FreshLoops(f)

Halts(f, i) == i.op = "shalt" /\ Predicate(f, i) = Const(1)

BadJump(f, i) ==
  Jumps(i) /\ (\/ f.pending # NoJump \/ i.delay = NoDelay \/ Predicate(f, i) = Unknown
               \/ i.op # "sbr" \/ i.target = NoTarget \/ RepeatsState(f, i))

(* Whether the first instruction that raises is a halt.                    *)
Raises(f) == \E i \in ToSet(code[f.pc].ins) : Halts(f, i) \/ BadJump(f, i)
RaisesHalt(f) ==
  LET k == SelectInSeq(code[f.pc].ins, LAMBDA i : Halts(f, i) \/ BadJump(f, i))
  IN  k > 0 /\ Halts(f, code[f.pc].ins[k])

(* The branch taken in this bundle, if any: its slots left and its target. *)
Jump(f) ==
  LET k == SelectLastInSeq(code[f.pc].ins, LAMBDA i :
             i.op = "sbr" /\ Predicate(f, i) # Const(0) /\ ~Summarized(f, i))
  IN  IF k = 0 THEN f.pending
      ELSE [left |-> code[f.pc].ins[k].delay, target |-> code[f.pc].ins[k].target]

Slot(f, i) == SmemSlot(Read(i.at, Entered(f)), Read(i.plus, Entered(f)))

(* An SSA name stands for an address of which only later offsets are known;
   in repeated code each visit has an address of its own.                  *)
FreshAddress(i) ==
  /\ i.op \in {"scalar_lea", "int_to_ptr", "inlined_call_operand"}
  /\ i.sign = "vmem" \/ (i.sign = "hbm" /\ kernel.validAddresses)

Operand(i) ==
  IF i.index \in DOMAIN kernel.scalars THEN kernel.scalars[i.index]
  ELSE IF i.index \in DOMAIN unit.inputs THEN unit.inputs[i.index] ELSE Unknown

Result(f, i) ==
  LET values == Entered(f)
      v == IF i.op = "inlined_call_operand" THEN Operand(i)
           ELSE Evaluate(i, Read(i.cond, values), [k \in DOMAIN i.args |-> Read(i.args[k], values)],
                         Slot(f, i), f.memory)
  IN  IF v = Unknown /\ FreshAddress(i)
      THEN Pointer(<<i.dest, IF f.pc \in kernel.repeated THEN work + 1 ELSE 0>>, 0) ELSE v

(* Co-issued instructions read the registers from before the bundle; a
   disabled write keeps the old value.                                     *)
Writes(f) ==
  [r \in Assigned(f.pc) \ {i.dest : i \in Phis(f.pc)} |->
     LET k == SelectLastInSeq(code[f.pc].ins, LAMBDA i : i.dest = r)
         i == code[f.pc].ins[k]
     IN  CASE Predicate(f, i) = Const(0) -> Look(Entered(f), r)
           [] Predicate(f, i) = Unknown -> Unknown
           [] OTHER -> Result(f, i)]

StoresOf(f) ==
  {i \in ToSet(code[f.pc].ins) : i.op = "sst" /\ Predicate(f, i) # Const(0)}
ResolvedStore(f, i) == Slot(f, i) # NoSlot /\ i.args[1].t = "reg"

Stored(f) ==
  [x \in {Slot(f, i) : i \in {i \in StoresOf(f) : ResolvedStore(f, i)}} |->
     LET k == SelectLastInSeq(code[f.pc].ins, LAMBDA i : i \in StoresOf(f) /\ Slot(f, i) = x)
         i == code[f.pc].ins[k]
     IN  IF Predicate(f, i) = Unknown THEN Unknown ELSE Read(i.args[1], Entered(f))]

(* Allocations a DMA may write, as addresses; its third operand.           *)
DmaDestinations(f) ==
  {Read(i.args[3], Entered(f)) :
     i \in {i \in ToSet(code[f.pc].ins) : i.toSmem /\ Predicate(f, i) # Const(0)}}
Allocated(v) == IsAddress(v) /\ v.base \in Allocations

(* A call, or a write to an address that isn't known, may change everything
   but private spills; a DMA the allocation it writes, which then holds the
   inputs assumed for it.                                                  *)
Remembered(f, stored) ==
  LET wild == \/ \E i \in StoresOf(f) : ~ResolvedStore(f, i)
              \/ \E v \in DmaDestinations(f) : ~Allocated(v)
              \/ \E i \in ToSet(code[f.pc].ins) : i.op = "inlined_call"
      written == {v.base : v \in {v \in DmaDestinations(f) : Allocated(v)}}
      given == kernel.memory
  IN  IF wild THEN [x \in {x \in DOMAIN stored : x[1] \in kernel.spills} |-> stored[x]]
      ELSE Overlay([x \in {x \in DOMAIN given : x[1] \in written} |-> given[x]],
                   [x \in {x \in DOMAIN stored : x[1] \notin written} |-> stored[x]])

(* What the tree keeps of an instruction: its known predicate, the operands
   of DMAs and credits that are known numbers, the inputs of a call, and the
   operand a phi takes.                                                    *)
Substituted(f, token) ==
  IF token.t = "reg" /\ Look(Entered(f), NameOf(token)).t \in {"int", "flag"}
  THEN Look(Entered(f), NameOf(token)) ELSE token

Kept(f, i) ==
  LET p == Predicate(f, i) IN
  [pred |-> IF i.guard = NoToken \/ p = Unknown THEN -1 ELSE IF p = Const(0) THEN 0 ELSE 1,
   args |-> IF i.op \in {"dma", "dma_wait", "vsyncadd"}
            THEN [k \in DOMAIN i.args |-> Substituted(f, i.args[k])] ELSE i.args,
   inputs |-> IF i.op = "inlined_call"
              THEN [k \in DOMAIN i.args |->
                      LET v == Read(i.args[k], Entered(f)) IN IF IsConst(v) THEN v ELSE Unknown]
              ELSE <<>>,
   phi |-> IF i.op # "sphi" \/ f.phiDone THEN NoToken
           ELSE Chosen(i, f.pc, f.previous, i.args)]

Visited(f) ==
  [k |-> "bundle", pc |-> f.pc, visit |-> visits[f.pc],
   ins |-> [n \in DOMAIN code[f.pc].ins |-> Kept(f, code[f.pc].ins[n])]]

Advance(f) ==
  LET jump == Jump(f)
      backward == \E i \in Branches(f.pc) :
                    Predicate(f, i) # Const(0) /\ ~Summarized(f, i) /\ i.target <= f.pc
  IN  [f EXCEPT !.values = Overlay(Writes(f), Entered(f)),
                !.memory = Remembered(f, Overlay(Stored(f), f.memory)),
                !.loops = FreshLoops(f) \cup (IF backward THEN {LoopState(f)} ELSE {}),
                !.phiDone = FALSE, !.previous = f.pc,
                !.pc = IF jump.left = 0 THEN jump.target ELSE f.pc + 1,
                !.pending = IF jump = NoJump \/ jump.left = 0 THEN NoJump
                            ELSE [jump EXCEPT !.left = @ - 1],
                !.result = Append(@, Visited(f))]

----------------------------------------------------------------------------
(* The steps *)

Called(name, inputs) == [kernel |-> Kernels[name], inputs |-> inputs]

Init ==
  /\ unit = Called(CHOOSE n \in DOMAIN Kernels : TRUE, <<>>)
  /\ frames = <<>> /\ work = 0 /\ visits = <<>> /\ outcome = "idle" /\ tree = <<>>

(* resolve_scalar_operands is called.                                      *)
Start(name, inputs) ==
  /\ unit' = Called(name, inputs)
  /\ frames' = <<Frame(1, <<>>, unit'.kernel.memory, 0, NoJump, 0, {}, FALSE, 0)>>
  /\ work' = 0
  /\ visits' = [pc \in 1..Len(unit'.kernel.code) |-> 0]
  /\ outcome' = "walking"
  /\ tree' = <<>>

Truncated(f) == f.pending # NoJump /\ f.pc = End

Delivered(f, child) ==
  [f EXCEPT !.split.arms = Append(@, child.result),
            !.split.states = Append(@, [values |-> child.values, memory |-> child.memory,
               previous |-> child.previous, pending |-> child.pending, loops |-> child.loops])]

Problem(f) ==
  IF AtEnd(f)
  THEN \/ Truncated(f)
       \/ Len(frames) > 1 /\ Last(Callers).split.on /\ BadMerge(Delivered(Last(Callers), f))
  ELSE \/ work >= kernel.maxVisits
       \/ \E s \in Summaries(f) : BadSummary(s)
       \/ /\ Summaries(f) = {}
          /\ \/ ~f.phiDone /\ AmbiguousPhi(f.pc, f.previous)
             \/ UnknownGuards(f) # {} /\ BadSplit(f)
             \/ UnknownGuards(f) = {} /\ Raises(f) /\ ~RaisesHalt(f)

Fail ==
  /\ Problem(top)
  /\ outcome' = "error"
  /\ frames' = <<>>
  /\ UNCHANGED <<unit, work, visits, tree>>

Summarize ==
  /\ ~AtEnd(top) /\ Len(frames) < MaxDepth
  /\ \E s \in Summaries(top) : frames' = Callers \o EnterBody(top, s)
  /\ UNCHANGED <<unit, work, visits, outcome, tree>>

Split ==
  /\ ~AtEnd(top) /\ Len(frames) < MaxDepth
  /\ Summaries(top) = {} /\ UnknownGuards(top) # {}
  /\ frames' = Callers \o SplitAt(top)
  /\ UNCHANGED <<unit, work, visits, outcome, tree>>

Execute ==
  /\ ~AtEnd(top)
  /\ Summaries(top) = {} /\ UnknownGuards(top) = {} /\ ~Raises(top)
  /\ frames' = Append(Callers, Advance(top))
  /\ work' = work + 1
  /\ visits' = [visits EXCEPT ![top.pc] = @ + 1]
  /\ UNCHANGED <<unit, outcome, tree>>

(* HaltedPath: the arm it ends isn't a normal completion.  The next arm, or
   the join of the arms there are, goes on; without one the kernel halts.  *)
Halt ==
  /\ ~AtEnd(top)
  /\ Summaries(top) = {} /\ UnknownGuards(top) = {} /\ RaisesHalt(top)
  /\ LET catching == {n \in 1..(Len(frames) - 1) :
            frames[n].split.on /\ (~frames[n].split.second \/ frames[n].split.states # <<>>)}
     IN  IF catching = {}
         THEN outcome' = "halted" /\ frames' = <<>>
         ELSE LET n == Greatest(catching) IN
              /\ frames' = Proceed(SubSeq(frames, 1, n - 1), frames[n])
              /\ UNCHANGED outcome
  /\ work' = work + 1
  /\ UNCHANGED <<unit, visits, tree>>

ReturnArm ==
  /\ AtEnd(top)
  /\ Len(frames) > 1 /\ Last(Callers).split.on
  /\ frames' = Proceed(Front(Callers), Delivered(Last(Callers), top))
  /\ UNCHANGED <<unit, work, visits, outcome, tree>>

ReturnBody ==
  /\ AtEnd(top)
  /\ Len(frames) > 1 /\ Last(Callers).body.on
  /\ frames' = Append(Front(Callers), LeaveBody(Last(Callers), top.result))
  /\ UNCHANGED <<unit, work, visits, outcome, tree>>

Resolved ==
  /\ AtEnd(top)
  /\ Len(frames) = 1
  /\ outcome' = "resolved" /\ tree' = top.result /\ frames' = <<>>
  /\ UNCHANGED <<unit, work, visits>>

(* A turn fails, or does one of the others.                                *)
Walk ==
  /\ outcome = "walking"
  /\ \/ Fail
     \/ /\ ~Problem(top)
        /\ \/ Summarize
           \/ Split
           \/ Execute
           \/ Halt
           \/ ReturnArm
           \/ ReturnBody
           \/ Resolved

----------------------------------------------------------------------------
(* Properties *)

(* The value found for an instruction stands for every word the machine may
   write, for all words its operands stand for, wherever allocations lie
   that addresses it compares are in.                                      *)
SoundAt(i, cond, x, Places) ==
  LET v == Evaluate(i, cond, x, NoSlot, <<>>)
      bases == {y.base : y \in {y \in ToSet(x) : IsAddress(y)}}
      chosen(w) == {w[c] : c \in IF cond = Unknown THEN {1, 2}
                                 ELSE IF cond = Const(0) THEN {1} ELSE {2}}
  IN  v # Unknown =>
        \A place \in [bases -> Places] :
          (i.op = "scmp" => \A y \in ToSet(x) : Unwrapped(i, y, place)) =>
            \A w \in {w \in [DOMAIN x -> Word] :
                       \A k \in DOMAIN x : w[k] \in Words(x[k], place)} :
              (IF i.cond = NoToken THEN Machine(i, w) ELSE chosen(w)) \subseteq Words(v, place)

SoundFor(Places) ==
  (outcome = "walking" /\ ~AtEnd(top) /\ (AmbiguousPhi(top.pc, top.previous) => top.phiDone)) =>
    \A i \in {i \in ToSet(code[top.pc].ins) :
                i.dest # "" /\ i.op \notin {"sphi", "sld", "inlined_call_operand"}} :
      \A x \in {[k \in DOMAIN i.args |-> Read(i.args[k], Entered(top))]} :
        SoundAt(i, Read(i.cond, Entered(top)), x, Places)

ScalarsSound == SoundFor({0, 1})
============================================================================

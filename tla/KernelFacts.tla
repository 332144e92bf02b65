------------------------------ MODULE KernelFacts ------------------------------
(***************************************************************************)
(* What resolve_scalar_operands (python/sim_pjrt/llo/control_flow.py)      *)
(* works out from a kernel's bundles before it walks them: the joins of    *)
(* branches, counted loops, private spill slots, code that may repeat, and *)
(* polls for peers.  ControlFlow takes them as they are, in its Kernels.   *)
(***************************************************************************)
EXTENDS ControlFlow

----------------------------------------------------------------------------
(* _branch_joins, of the bundles c *)

SbrOf(c, pc) == {i \in ToSet(c[pc].ins) : i.op = "sbr"}

WellFormed(c) ==
  \A pc \in DOMAIN c : \A i \in SbrOf(c, pc) :
    i.target # NoTarget /\ i.delay # NoDelay /\ pc + i.delay <= Len(c)

(* The edges of a bundle, those of its last branch if it has one.          *)
Successors(c, pc) ==
  LET k == SelectLastInSeq(c[pc].ins, LAMBDA j : j.op = "sbr") IN
  IF k = 0 THEN <<pc + 1>>
  ELSE <<c[pc].ins[k].target>>
         \o (IF c[pc].ins[k].guard = NoToken THEN <<>> ELSE <<pc + c[pc].ins[k].delay + 1>>)

Predecessors(c, n) ==
  SelectSeq([pc \in 1..Len(c) |-> pc], LAMBDA pc : n \in ToSet(Successors(c, pc)))

(* Depth first over the reversed edges; nodes are listed as they are left. *)
RECURSIVE Leave(_, _, _)
Leave(c, n, dfs) ==
  LET deeper == FoldLeft(LAMBDA d, p :
                  IF p \in d.seen THEN d
                  ELSE Leave(c, p, [d EXCEPT !.seen = @ \cup {p}]), dfs, Predecessors(c, n))
  IN  [deeper EXCEPT !.order = Append(@, n)]

ReversePostorder(c) ==
  LET end == Len(c) + 1 IN Reverse(Leave(c, end, [seen |-> {end}, order |-> <<>>]).order)

RECURSIVE Meet(_, _, _, _)
Meet(parent, rank, a, b) ==
  IF a = b THEN a
  ELSE IF rank[a] > rank[b] THEN Meet(parent, rank, parent[a], b)
  ELSE Meet(parent, rank, a, parent[b])

(* The meeting point of a bundle's edges, as far as they have parents.     *)
Common(parent, rank, edges) ==
  LET met == SelectSeq(edges, LAMBDA n : n \in DOMAIN parent)
  IN  IF met = <<>> THEN NoTarget
      ELSE FoldLeft(LAMBDA a, b : Meet(parent, rank, a, b), met[1], Tail(met))

Adopt(parent, rank, pc, edges) ==
  LET common == Common(parent, rank, edges)
  IN  IF common = NoTarget THEN parent ELSE (pc :> common) @@ parent

(* Mutant of Settle: one pass is taken for the fixpoint.                   *)
SettleOnce(c, parent, rank, order) ==
  FoldLeft(LAMBDA f, pc : Adopt(f, rank, pc, Successors(c, pc)), parent, order)

RECURSIVE Settle(_, _, _, _)
Settle(c, parent, rank, order) ==
  LET pass == FoldLeft(LAMBDA f, pc : Adopt(f, rank, pc, Successors(c, pc)), parent, order)
  IN  IF pass = parent THEN parent ELSE Settle(c, pass, rank, order)

(* Each bundle's immediate postdominator, if it can reach the end.         *)
BranchJoins(c) ==
  LET order == ReversePostorder(c)
      rank == [n \in ToSet(order) |-> CHOOSE k \in DOMAIN order : order[k] = n]
  IN  IF ~WellFormed(c) THEN <<>>
      ELSE Settle(c, Len(c) + 1 :> Len(c) + 1, rank, Tail(order))

----------------------------------------------------------------------------
(* _counted_loops *)

SitesOf(c) == UNION {{[pc |-> pc, ins |-> i] : i \in ToSet(c[pc].ins)} : pc \in DOMAIN c}
JumpSites(c) ==
  UNION {{[pc |-> pc, ins |-> i] : i \in {i \in SbrOf(c, pc) : i.target # NoTarget}} :
           pc \in DOMAIN c}

(* Where a register is assigned, if there is only one such place.          *)
Definition(c, token) ==
  LET sites == {s \in SitesOf(c) : s.ins.dest # "" /\ s.ins.dest = NameOf(token)}
  IN  IF Cardinality(sites) = 1 THEN CHOOSE s \in sites : TRUE ELSE [pc |-> 0, ins |-> Nop]

Opposite == [ge |-> "lt", gt |-> "le", eq |-> "ne", lt |-> "", le |-> "", ne |-> ""]

(* The loop a branch closes: its counter starts from a phi at the header,
   grows by a constant and is then compared with a constant; no branch enters
   or leaves the loop elsewhere or skips the update or the comparison.     *)
Loop(c, s) ==
  LET compare == Definition(c, s.ins.guard)
      update == Definition(c, compare.ins.args[1])
      flipped == IsConst(update.ins.args[1])
      counter == update.ins.args[IF flipped THEN 2 ELSE 1]
      step == update.ins.args[IF flipped THEN 1 ELSE 2]
      phi == Definition(c, counter)
      header == s.ins.target
      end == s.pc + s.ins.delay + 1
      rel == IF s.ins.guard.t = "not" THEN Opposite[compare.ins.rel] ELSE compare.ins.rel
      plain(d, op) == d.ins.op = op /\ d.ins.guard = NoToken /\ Len(d.ins.args) = 2
      inside(pc) == header <= pc /\ pc < end
      disturbs(b) ==
        \/ inside(b.pc) /\ b.pc # s.pc /\ ~(header < b.ins.target /\ b.ins.target < end)
        \/ ~inside(b.pc) /\ header < b.ins.target /\ b.ins.target < end
        \/ inside(b.pc) /\ \E pc \in {update.pc, compare.pc} : b.pc < pc /\ pc < b.ins.target
      counted ==
        /\ header <= s.pc /\ s.ins.delay # NoDelay /\ end <= Len(c) + 1
        /\ s.ins.guard # NoToken
        /\ plain(compare, "scmp") /\ rel \in {"lt", "le", "ne"} /\ IsConst(compare.ins.args[2])
        /\ plain(update, "sadd") /\ IsConst(step) /\ step.lo > 0
        /\ plain(phi, "sphi") /\ phi.pc = header /\ phi.ins.args[2] = compare.ins.args[1]
        /\ header <= update.pc /\ update.pc < compare.pc /\ compare.pc < s.pc
        /\ ~\E b \in JumpSites(c) : disturbs(b)
  IN  IF ~counted THEN {}
      ELSE {[header |-> header, latch |-> s.pc, end |-> end, seed |-> phi.ins.args[1],
             step |-> step.lo, bound |-> compare.ins.args[2].lo, rel |-> rel,
             modulus |-> IF compare.ins.sign = "s32" THEN SignBit ELSE Modulus]}

CountedLoops(c) == UNION {Loop(c, s) : s \in JumpSites(c)}

Latches(c) ==
  [h \in DOMAIN c |-> {s.pc : s \in {s \in JumpSites(c) : s.ins.target = h /\ h <= s.pc}}]

----------------------------------------------------------------------------
(* Spills and repeated code *)

(* Spill slots only loads and stores name: no pointer can reach them.      *)
PrivateSpills(c) ==
  LET slots == {s.ins.at.base : s \in {s \in SitesOf(c) : s.ins.op \in {"sld", "sst"}
                                          /\ s.ins.at.t = "flag"}}
      elsewhere == UNION {{x.base : x \in ToSet(s.ins.args)} : s \in SitesOf(c)}
  IN  (slots \cap SpillSlots) \ elsewhere

Repeated(c) ==
  {pc \in DOMAIN c : \E s \in JumpSites(c) :
     s.ins.target <= pc /\ pc <= s.pc + Greatest({s.ins.delay, 0})}

(* The latches of polls for peers.                                         *)
PollLatches(c) ==
  {s.pc : s \in {s \in JumpSites(c) :
     /\ s.ins.target <= s.pc /\ c[s.ins.target].header
     /\ \E i \in ToSet(c[s.ins.target].ins) : i.peer}}

(* What is worked out from a kernel's bundles before the walk; branches    *)
(* that aren't well formed only matter once a join is needed.              *)
Prepared(k) ==
  [code |-> k.code, joins |-> BranchJoins(k.code), loops |-> CountedLoops(k.code),
   latches |-> Latches(k.code), spills |-> PrivateSpills(k.code),
   repeated |-> Repeated(k.code),
   ready |-> IF k.peersReady THEN PollLatches(k.code) ELSE {}] @@ k
================================================================================

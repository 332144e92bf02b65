------------------------------ MODULE LloMachine -------------------------------
(***************************************************************************)
(* What the walk of ControlFlow is checked against: a machine that runs    *)
(* the bundles on words, for given inputs.  Branches take effect after     *)
(* their delay slots, co-issued instructions read the registers from       *)
(* before the bundle, phis are read first.  An environment is [in, other]: *)
(* the words of the scalar inputs, and the word of whatever else isn't     *)
(* known (registers and memory before they are written, what calls, DMAs   *)
(* and other units leave behind).                                          *)
(***************************************************************************)
EXTENDS KernelFacts

CONSTANTS
  Place,         (* the word address of each allocation                    *)
  Extent,        (* and its length                                         *)
  MaxSteps       (* bound: bundles of an execution                         *)

Pick(S, other) == IF Cardinality(S) = 1 THEN CHOOSE w \in S : TRUE ELSE other

WordOf(token, env, regs) ==
  LET name == NameOf(token)
      word == IF name \in DOMAIN kernel.assumed THEN Truth(kernel.assumed[name]).lo
              ELSE IF name \in DOMAIN regs THEN regs[name] ELSE env.other
  IN  CASE token.t = "reg" -> word
        [] token.t = "not" -> IF word = 0 THEN 1 ELSE 0
        [] IsAddress(token) -> Wrap(Place[token.base] + token.lo)
        [] IsNumeric(token) -> Wrap(token.lo)

Enabled(i, env, regs) == i.guard = NoToken \/ WordOf(i.guard, env, regs) # 0

(* Registers at a bundle's start: its phis, and peers that are ready.      *)
PhiWords(pc, previous, env, regs) ==
  [r \in {i.dest : i \in Phis(pc)} |->
     LET i == CHOOSE i \in Phis(pc) : i.dest = r
         second == IF code[pc].header THEN previous >= pc ELSE previous = pc - 1
     IN  WordOf(i.args[IF second /\ Len(i.args) = 2 THEN 2 ELSE 1], env, regs)]

Before(st, env) ==
  [r \in DOMAIN PollEnds(st.pc) |-> PollEnds(st.pc)[r].lo]
    @@ PhiWords(st.pc, st.previous, env, st.regs) @@ st.regs

Private(i) == i.at.t = "flag" /\ i.at.base \in kernel.spills
Address(i, env, regs) == Wrap(WordOf(i.at, env, regs) + WordOf(i.plus, env, regs))

Loaded(i, st, env, regs) ==
  IF Private(i) THEN IF <<i.at.base, i.plus>> \in DOMAIN st.spills
                     THEN st.spills[<<i.at.base, i.plus>>] ELSE env.other
  ELSE st.mem[Address(i, env, regs)]

WordResult(i, st, env, regs) ==
  LET w == [k \in DOMAIN i.args |-> WordOf(i.args[k], env, regs)]
      given == Operand(i)
  IN  CASE i.op = "inlined_call_operand" ->
             IF IsConst(given) THEN given.lo
             ELSE IF i.index \in DOMAIN env.in THEN env.in[i.index] ELSE env.other
        [] i.op = "sld" -> Loaded(i, st, env, regs)
        [] i.cond # NoToken ->
             Pick(Machine(i, <<w[IF WordOf(i.cond, env, regs) # 0 THEN 2 ELSE 1]>>), env.other)
        [] OTHER -> Pick(Machine(i, w), env.other)

(* Memory after a bundle.                                                  *)
InputWords ==
  [w \in {Place[x[1]] + x[2] : x \in DOMAIN kernel.memory} |->
     LET x == CHOOSE x \in DOMAIN kernel.memory : Place[x[1]] + x[2] = w
     IN  kernel.memory[x].lo]

DmaWords(active, env, regs) ==
  UNION {{w \in Word : \E b \in DOMAIN Place :
            /\ WordOf(i.args[3], env, regs) \in Place[b]..(Place[b] + Extent - 1)
            /\ w \in Place[b]..(Place[b] + Extent - 1)} : i \in {i \in active : i.toSmem}}

Stores(active, st, env, regs) ==
  LET public == {i \in active : i.op = "sst" /\ ~Private(i)}
      called == \E i \in active : i.op = "inlined_call"
  IN  [w \in Word |->
         IF called THEN env.other
         ELSE IF w \in DmaWords(active, env, regs)
              THEN IF w \in DOMAIN InputWords THEN InputWords[w] ELSE env.other
         ELSE IF \E i \in public : Address(i, env, regs) = w
              THEN WordOf((CHOOSE i \in public : Address(i, env, regs) = w).args[1], env, regs)
         ELSE st.mem[w]]

SpillStores(active, st, env, regs) ==
  LET stored == {i \in active : i.op = "sst" /\ Private(i)}
  IN  [x \in {<<i.at.base, i.plus>> : i \in stored} |->
         WordOf((CHOOSE i \in stored : <<i.at.base, i.plus>> = x).args[1], env, regs)] @@ st.spills

(* One bundle.                                                             *)
Stepped(st, env) ==
  LET regs == Before(st, env)
      ins == code[st.pc].ins
      active == {i \in ToSet(ins) : Enabled(i, env, regs)}
      taken == {i \in active : i.op = "sbr"}
      jump == IF taken = {} THEN st.pending
              ELSE LET i == CHOOSE i \in taken : TRUE
                   IN  [left |-> i.delay, target |-> i.target]
      written == {i \in active : i.dest # "" /\ i.op # "sphi"}
  IN  [pc |-> IF jump.left = 0 THEN jump.target ELSE st.pc + 1,
       previous |-> st.pc,
       pending |-> IF jump = NoJump \/ jump.left = 0 THEN NoJump ELSE [jump EXCEPT !.left = @ - 1],
       regs |-> [r \in {i.dest : i \in written} |->
                   WordResult(CHOOSE i \in written : i.dest = r, st, env, regs)] @@ regs,
       mem |-> Stores(active, st, env, regs),
       spills |-> SpillStores(active, st, env, regs),
       halted |-> \E i \in active : i.op = "shalt",
       trace |-> Append(st.trace, [pc |-> st.pc, regs |-> regs,
                   pred |-> [k \in DOMAIN ins |-> IF Enabled(ins[k], env, regs) THEN 1 ELSE 0]])]

RECURSIVE Run(_, _)
Run(st, env) ==
  IF st.halted \/ st.pc = End \/ Len(st.trace) = MaxSteps THEN st ELSE Run(Stepped(st, env), env)

Execution(env) ==
  Run([pc |-> 1, previous |-> 0, pending |-> NoJump, regs |-> <<>>, spills |-> <<>>,
       mem |-> [w \in Word |-> IF w \in DOMAIN InputWords THEN InputWords[w] ELSE env.other],
       halted |-> FALSE, trace |-> <<>>], env)

Completes(x) == ~x.halted /\ x.pc = End

----------------------------------------------------------------------------
(* Executions of a tree *)

(* What the tree says of a bundle is true of a visit: its predicates, the
   operands it replaced, the inputs of calls and the operands of phis.  The
   closing branch of a body that stands for all iterations is charged.     *)
Matches(node, e, env, latch) ==
  /\ node.pc = e.pc
  /\ \A n \in DOMAIN node.ins :
       LET i == code[e.pc].ins[n]
           x == node.ins[n]
           same(v, token) == v.t \in {"int", "flag"} =>
                               WordOf(v, env, e.regs) = WordOf(token, env, e.regs)
       IN  /\ x.pred \in {-1, e.pred[n]} \/ (e.pc = latch /\ i.op = "sbr")
           /\ \A k \in DOMAIN x.args : same(x.args[k], i.args[k])
           /\ \A k \in DOMAIN x.inputs : same(x.inputs[k], i.args[k])
           /\ x.phi.t \in {"reg", "int"} => WordOf(x.phi, env, e.regs) = e.regs[i.dest]

(* Where a trace can be after nodes, from the positions P.                 *)
RECURSIVE Consume(_, _, _, _, _), Iterate(_, _, _, _)
Consume(nodes, P, trace, env, latch) ==
  Fold(LAMBDA Q, node :
    CASE node.k = "bundle" ->
           {p + 1 : p \in {p \in Q : p <= Len(trace) /\ Matches(node, trace[p], env, latch)}}
      [] node.k = "alternatives" ->
           UNION {Consume(node.arms[a], Q, trace, env, latch) : a \in DOMAIN node.arms}
      [] node.k = "loop" -> Iterate([node EXCEPT !.pc = 0], Q, trace, env), P, nodes)
Iterate(loop, Q, trace, env) ==
  IF loop.count = 0 \/ Q = {} THEN {}
  ELSE LET R == Consume(loop.body, Q, trace, env, loop.latch)
       IN  R \cup Iterate([loop EXCEPT !.count = @ - 1], R, trace, env)

----------------------------------------------------------------------------
(* Properties *)

(* Every execution that completes is a path of the tree, through one arm of
   each alternative and at most as many iterations of a summarised body as it
   is charged, and all the facts kept along it are true; a kernel that is
   reported to halt on every path completes for no inputs.                 *)
ExecutionsCovered ==
  outcome \in {"resolved", "halted"} =>
    \A env \in kernel.environments : \A x \in {Execution(env)} :
      Completes(x) => /\ outcome = "resolved"
                      /\ Len(x.trace) + 1 \in Consume(tree, {1}, x.trace, env, 0)

(* The join of a branch is the first bundle, other than itself, that every
   path from it to the end goes through.                                   *)
Edges(pc) ==
  IF Branches(pc) = {} THEN {pc + 1}
  ELSE UNION {{i.target} \cup (IF i.guard = NoToken THEN {} ELSE {pc + i.delay + 1}) :
                i \in Branches(pc)}

(* The bundles with a path to the end that doesn't go through one of them. *)
Ending(avoided) ==
  LET grow(to, n) == to \cup {pc \in (1..Len(code)) \ {avoided} : Edges(pc) \cap to # {}}
  IN  Fold(grow, {End} \ {avoided}, [n \in 1..End |-> n])

JoinsPostdominate ==
  (outcome = "walking" /\ work = 0 /\ Len(frames) = 1 /\ top.pc = 1 /\ WellFormed(code)) =>
    \A ending \in {[n \in 0..End |-> Ending(n)]} :
      LET after(pc) == {n \in (1..End) \ {pc} : pc \notin ending[n]} IN
      \A pc \in ending[0] \ {End} :
        /\ pc \in DOMAIN kernel.joins
        /\ kernel.joins[pc] \in after(pc)
        /\ after(pc) \ {kernel.joins[pc]} \subseteq after(kernel.joins[pc])
============================================================================

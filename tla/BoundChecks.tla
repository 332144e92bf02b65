------------------------------ MODULE BoundChecks ------------------------------
(***************************************************************************)
(* What the bound of a whole program is checked against: the bundles that  *)
(* an execution of it really visits, callee by callee (LloMachine), built  *)
(* and scheduled as one run that is never cut.                             *)
(***************************************************************************)
EXTENDS ProgramBound

(* The machine of a kernel that is called for arbitrary inputs.            *)
At(called) == INSTANCE LloMachine WITH unit <- called

(* A visited bundle as an item: every predicate, phi and number is known.  *)
Concrete(called, x, n, prefix, env) ==
  LET e == x.trace[n]
      previous == IF n = 1 THEN 0 ELSE x.trace[n - 1].pc
      bundle == called.kernel.code[e.pc]
      word(t) == IF t.t = "reg" THEN Const(At(called)!WordOf(t, env, e.regs)) ELSE t
      edge(i) == IF Len(i.args) = 2
                    /\ (IF bundle.header THEN previous >= e.pc ELSE previous = e.pc - 1)
                 THEN 2 ELSE 1
  IN  [k |-> "bundle", scope |-> prefix, code |-> bundle.ins,
       kept |-> [m \in DOMAIN bundle.ins |->
         LET i == bundle.ins[m] IN
         [pred |-> IF i.guard = NoToken THEN -1 ELSE e.pred[m],
          args |-> IF i.op \in {"dma", "dma_wait", "vsyncadd", "vdelay"}
                   THEN [a \in DOMAIN i.args |-> word(i.args[a])] ELSE i.args,
          phi |-> IF i.op = "sphi" THEN i.args[edge(i)] ELSE NoToken]]]

(* What an invocation visits: its own bundles, with the calls it makes in
   their place, or Cut when it halts or doesn't end.                       *)
Cut == [k |-> "cut"]
Invocation(label, prefix, env) == [k |-> "call", label |-> label, prefix |-> prefix, env |-> env]

VisitsOf(called, x, call) ==
  LET ins(n) == called.kernel.code[x.trace[n].pc].ins
      calling(n) == {m \in DOMAIN ins(n) :
                       x.trace[n].pred[m] = 1 /\ ins(n)[m].op = "inlined_call"}
      callee(n) == LET i == ins(n)[CHOOSE m \in calling(n) : TRUE]
                       w == [a \in DOMAIN i.args |->
                               At(called)!WordOf(i.args[a], call.env, x.trace[n].regs)]
                   IN  Invocation(i.callee, Append(call.prefix, n), [call.env EXCEPT !.in = w])
  IN  IF x.halted \/ x.pc # Len(called.kernel.code) + 1 THEN <<Cut>>
      ELSE [n \in DOMAIN x.trace |-> IF calling(n) # {} THEN callee(n)
                                     ELSE Concrete(called, x, n, call.prefix, call.env)]

Visits(p, call) ==
  LET called == Called(KernelOf(call.label, p), <<>>)
  IN  VisitsOf(called, At(called)!Execution(call.env), call)

Spliced(p, path) ==
  FlattenSeq([n \in DOMAIN path |->
                IF path[n].k = "call" THEN Visits(p, path[n]) ELSE <<path[n]>>])

(* Calls nest no deeper than there are modules.                            *)
PathOf(p, env) ==
  Fold(LAMBDA path, n : Spliced(p, path), <<Invocation(p.root, <<>>, env)>>,
           [n \in 1..Cardinality(p.modules) |-> n])

Paths ==
  {path \in {PathOf(program, env) :
               env \in Kernels[KernelOf(program.root, program)].environments} :
     \A n \in DOMAIN path : path[n].k = "bundle"}

----------------------------------------------------------------------------
(* A program is bounded by at least what any of its executions costs when it
   runs without the cuts: through either arm of an unknown branch, for any
   number of iterations a loop may take, for any inputs of its kernels.
   What the report calls a gap is excused.                                 *)
BoundCovers ==
  stage = "done" =>
    \A path \in Paths :
      LET built == Build(path, FALSE)
          result == Simulate(built.out, <<>>)
      IN  report.gaps \cup built.gaps \cup result.gaps = {} /\ ~built.invalid
            => result.cycles <= report.clock

----------------------------------------------------------------------------
(* Who wrote a register before the instructions of bundle n read it, and
   after them: the last enabled writer, through phis and casts.            *)
RECURSIVE HeldBy(_, _, _), HeldAfter(_, _, _)
HeldBy(path, n, r) ==
  LET phis == {m \in DOMAIN path[n].code : path[n].code[m].op = "sphi"
                                             /\ <<path[n].scope, path[n].code[m].dest>> = r}
  IN  IF phis = {} THEN HeldAfter(path, n - 1, r)
      ELSE UNION {HeldAfter(path, n - 1, s) : s \in
             Named(path[n].scope, path[n].kept[CHOOSE m \in phis : TRUE].phi)}
HeldAfter(path, n, r) ==
  IF n = 0 THEN {}
  ELSE LET writers == {m \in DOMAIN path[n].code :
                         /\ path[n].code[m].op \notin {"sphi", "inlined_call_operand"}
                         /\ path[n].kept[m].pred # 0
                         /\ r \in Written(path[n], path[n].code[m])}
           m == CHOOSE m \in writers : TRUE
       IN  IF writers = {} THEN HeldBy(path, n, r)
           ELSE IF Cast(path[n].code[m])
           THEN UNION {HeldBy(path, n, s) : s \in Named(path[n].scope, path[n].code[m].args[1])}
           ELSE {<<n, m>>}

(* The operations of a kind on a unit, in the order they issue.            *)
Issued(path, op, u) ==
  LET enabled(n, m) == /\ path[n].code[m].op = op /\ path[n].code[m].unit = u
                       /\ path[n].kept[m].pred # 0
  IN  FlattenSeq([n \in DOMAIN path |->
        SelectSeq([m \in DOMAIN path[n].code |-> <<n, m>>], LAMBDA id : enabled(id[1], id[2]))])

(* The push whose result a pop returns: results leave a unit in the order
   they were pushed.                                                       *)
PushOf(path, id) ==
  LET u == path[id[1]].code[id[2]].unit
      pushes == Issued(path, "vpush", u)
      n == CHOOSE n \in DOMAIN Issued(path, "vpop", u) : Issued(path, "vpop", u)[n] = id
  IN  IF n \in DOMAIN pushes /\ pushes[n][1] < id[1] THEN {pushes[n]} ELSE {}

(* On the path of an execution, an operation waits for whoever wrote each
   register it reads, its predicate included, and a pop for its own push.  *)
OperandsReady ==
  stage = "done" =>
    \A path \in Paths :
      LET built == Build(path, FALSE) IN
      ~built.invalid /\ built.gaps = {} =>
        \A n \in DOMAIN built.out : \A o \in ToSet(built.out[n].ops) :
          LET i == path[n].code[o.id[2]] IN
          /\ \A r \in RegistersRead(path[n].scope, i) :
               HeldBy(path, n, r) \subseteq o.deps
          /\ i.op = "vpop" => PushOf(path, o.id) \subseteq o.deps

(* Every program is estimated or refused, whatever its loops do, and none by
   the interpreter's recursion limit.                                      *)
EstimateEnds == <>(stage \in Finished)
============================================================================

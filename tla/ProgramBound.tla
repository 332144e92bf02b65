----------------------------- MODULE ProgramBound -----------------------------
(***************************************************************************)
(* estimate_final_program (python/sim_pjrt/llo/program.py): the calls of a *)
(* program are expanded one invocation at a time, each kernel resolved by  *)
(* the walk of ControlFlow for the inputs it is called with, and what they *)
(* expand to is bounded segment by segment (Segments).                     *)
(*                                                                         *)
(* iter_final_bundles is a generator that recurs into callees; its frames  *)
(* are calls.  An address is the <<bundle, visit>> pairs of the calls that *)
(* lead to it.                                                             *)
(***************************************************************************)
EXTENDS LloMachine, Segments

CONSTANT Programs  (* [name -> [root, modules, aliases]]                   *)

VARIABLES
  stage,     (* idle | visiting | resolving | expanding | estimating | done | failed *)
  program,   (* the one being estimated                                    *)
  asked,     (* the invocation whose kernel is needed                      *)
  calls,     (* invocations being expanded, outermost first                *)
  known,     (* resolve's cache, by kernel and scalar inputs               *)
  items,     (* bundles and boundaries yielded                             *)
  scopes,    (* the prefixes that have a number                            *)
  report     (* what estimate_bundles returned                             *)

programVars == <<stage, program, asked, calls, known, items, scopes, report>>
vars == <<walkVars, programVars>>

Finished == {"done", "failed"}

KernelOf(label, p) == Find(p.aliases, label, label)

----------------------------------------------------------------------------
(* annotate_loop_bounds                                                    *)

(* An HLO bound binds the loop around the only call of its operation, when
   every trip makes the call: no guard on it, no branch in the loop.       *)
AnnotatedLoops(bundles, bounds) ==
  LET branch(pc, i) == i \in ToSet(bundles[pc].ins) /\ i.op = "sbr"
      callsOf(pc) == {i \in ToSet(bundles[pc].ins) : i.op = "inlined_call"}
      sites(n) == {pc \in DOMAIN bundles : \E i \in callsOf(pc) : i.callee = n}
      binds(h, latch, pc, n) ==
        /\ \E i \in ToSet(bundles[latch].ins) : branch(latch, i) /\ i.target = h
        /\ h < latch /\ h <= pc /\ pc < latch /\ sites(n) = {pc}
        /\ \A i \in callsOf(pc) : i.guard = NoToken
        /\ \A q \in h..(latch - 1) : \A i \in ToSet(bundles[q].ins) : i.op # "sbr"
      found(h) == {x \in (DOMAIN bundles) \X (DOMAIN bounds) :
                     \E pc \in DOMAIN bundles : binds(h, x[1], pc, x[2])}
  IN  [h \in DOMAIN bundles |->
         IF found(h) = {} THEN bundles[h]
         ELSE LET x == CHOOSE x \in found(h) : TRUE
              IN  [bundles[h] EXCEPT !.latch = x[1], !.hlo = bounds[x[2]]]]

----------------------------------------------------------------------------
(* Expansion                                                               *)

Idle == [label |-> "", prefix |-> <<>>, inputs |-> <<>>]
Key == <<KernelOf(asked.label, program), asked.inputs>>
inner == Last(calls)
next == Head(inner.todo)

Instructions(node) == inner.code[node.pc].ins
CallOf(node) == {n \in DOMAIN node.ins : Instructions(node)[n].op = "inlined_call"}

(* A call shares its bundle with nothing that does work.                   *)
BadCall(node) ==
  \/ Cardinality(CallOf(node)) # 1
  \/ \E i \in ToSet(Instructions(node)) :
       i.op \notin {"inlined_call", "barrier", "inlined_call_operand"}

(* Alternatives and bodies are yielded in line, between boundaries.        *)
Unfolded(node) ==
  IF node.k = "loop"
  THEN <<Boundary("loop_start", node.count)>> \o node.body \o <<Boundary("loop_end", 0)>>
  ELSE <<Boundary("start", 0)>> \o node.arms[1]
         \o FlattenSeq([a \in 1..(Len(node.arms) - 1) |->
                          <<Boundary("next", 0)>> \o node.arms[a + 1]])
         \o <<Boundary("end", 0)>>

(* Names are local to an invocation: prefixes are numbered as they come.   *)
ScopeOf(numbers, call) ==
  LET k == SelectInSeq(numbers, LAMBDA p : p = call.prefix)
  IN  <<IF k = 0 THEN Len(numbers) + 1 ELSE k>>

Yielded(node) ==
  [k |-> "bundle", scope |-> ScopeOf(scopes, inner), code |-> Instructions(node),
   kept |-> node.ins]

ProgramInit ==
  /\ Init
  /\ stage = "idle" /\ program = [root |-> "", modules |-> {}, aliases |-> <<>>]
  /\ asked = Idle /\ calls = <<>> /\ known = <<>> /\ items = <<>> /\ scopes = <<>>
  /\ report = NoCost

Estimating(p) ==
  /\ stage = "idle"
  /\ stage' = "visiting" /\ program' = Programs[p]
  /\ asked' = [Idle EXCEPT !.label = Programs[p].root]
  /\ UNCHANGED <<walkVars, calls, known, items, scopes, report>>

Failed == stage' = "failed" /\ UNCHANGED <<program, asked, calls, known, items, scopes, report>>

(* The callee is missing, or is already being expanded.                    *)
Reject ==
  /\ stage = "visiting"
  /\ Key[1] \notin program.modules \/ \E c \in ToSet(calls) : c.name = Key[1]
  /\ Failed
  /\ UNCHANGED walkVars

Visitable ==
  stage = "visiting" /\ Key[1] \in program.modules /\ \A c \in ToSet(calls) : c.name # Key[1]

Resolve ==
  /\ Visitable /\ Key \notin DOMAIN known
  /\ Start(Key[1], Key[2])
  /\ stage' = "resolving"
  /\ UNCHANGED <<program, asked, calls, known, items, scopes, report>>

Resolving ==
  /\ stage = "resolving" /\ outcome = "walking"
  /\ Walk
  /\ UNCHANGED programVars

(* No normally completing path, or a ValueError of the walk.               *)
Unresolvable ==
  /\ stage = "resolving" /\ outcome \in {"halted", "error"}
  /\ Failed
  /\ UNCHANGED walkVars

Learn ==
  /\ stage = "resolving" /\ outcome = "resolved"
  /\ known' = (Key :> tree) @@ known
  /\ outcome' = "idle" /\ tree' = <<>>
  /\ stage' = "visiting"
  /\ UNCHANGED <<unit, frames, work, visits, program, asked, calls, items, scopes, report>>

Enter ==
  /\ Visitable /\ Key \in DOMAIN known
  /\ calls' = Append(calls, [name |-> Key[1], code |-> Kernels[Key[1]].code,
                              prefix |-> asked.prefix, todo |-> known[Key]])
  /\ asked' = Idle /\ stage' = "expanding"
  /\ UNCHANGED <<walkVars, program, known, items, scopes, report>>

Expanding == stage = "expanding" /\ inner.todo # <<>>
Rest(todo) == Append(Front(calls), [inner EXCEPT !.todo = todo])

Unfold ==
  /\ Expanding /\ next.k \in {"loop", "alternatives"}
  /\ calls' = Rest(Unfolded(next) \o Tail(inner.todo))
  /\ UNCHANGED <<walkVars, stage, program, asked, known, items, scopes, report>>

Yield ==
  /\ Expanding
  /\ \/ /\ next.k \in {"start", "next", "end", "loop_start", "loop_end"}
        /\ items' = Append(items, next)
        /\ UNCHANGED scopes
     \/ /\ next.k = "bundle" /\ CallOf(next) = {}
        /\ items' = Append(items, Yielded(next))
        /\ scopes' = IF inner.prefix \in ToSet(scopes) THEN scopes
                     ELSE Append(scopes, inner.prefix)
  /\ calls' = Rest(Tail(inner.todo))
  /\ UNCHANGED <<walkVars, stage, program, asked, known, report>>

Call ==
  /\ Expanding /\ next.k = "bundle" /\ CallOf(next) # {}
  /\ \/ BadCall(next) /\ Failed
     \/ /\ ~BadCall(next)
        /\ \E n \in CallOf(next) :
             asked' = [label |-> Instructions(next)[n].callee, inputs |-> next.ins[n].inputs,
                       prefix |-> Append(inner.prefix, <<next.pc, next.visit>>)]
        /\ calls' = Rest(Tail(inner.todo))
        /\ stage' = "visiting"
        /\ UNCHANGED <<program, known, items, scopes, report>>
  /\ UNCHANGED walkVars

Return ==
  /\ stage = "expanding" /\ inner.todo = <<>>
  /\ calls' = Front(calls)
  /\ stage' = IF Len(calls) = 1 THEN "estimating" ELSE "expanding"
  /\ UNCHANGED <<walkVars, program, asked, known, items, scopes, report>>

Report ==
  /\ stage = "estimating"
  /\ \E r \in {Estimate(items)} :
       report' = r /\ stage' = IF r.invalid THEN "failed" ELSE "done"
  /\ UNCHANGED <<walkVars, program, asked, calls, known, items, scopes>>

(* The estimate is over, or the walk recursed too deep (RecursionError).    *)
Over == stage \in Finished \/ Len(frames) = MaxDepth
Stop == Over /\ UNCHANGED vars

ProgramNext ==
  \/ \E p \in DOMAIN Programs : Estimating(p)
  \/ Reject \/ Resolve \/ Resolving \/ Unresolvable \/ Learn
  \/ Enter \/ Unfold \/ Yield \/ Call \/ Return \/ Report
  \/ Stop

(* Nothing else stops the estimate: WF_vars(ProgramNext), with its ENABLED
   spelled out (that there is a step until it is over is what the check for
   deadlocks shows).                                                       *)
Progress == []<>Over \/ []<><<ProgramNext>>_vars

Spec == ProgramInit /\ [][ProgramNext]_vars /\ Progress
============================================================================

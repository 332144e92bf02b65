------------------------------- MODULE Segments --------------------------------
(***************************************************************************)
(* estimate_bundles (python/sim_pjrt/llo/runtime.py): the expanded program *)
(* is cut at the boundaries of alternatives and repeated bodies.  Each run *)
(* of bundles between two of them is scheduled by itself and drained; an   *)
(* alternative costs its slowest arm, a repeated body its count.           *)
(*                                                                         *)
(* Simulate is what pipeline.simulate does with dependencies, DMA queues   *)
(* and credits; reservations and holds are in Pipeline.                    *)
(***************************************************************************)
EXTENDS InstructionModel

----------------------------------------------------------------------------
(* _tree: boundaries become nodes with arms                                *)

Boundary(kind, count) == [k |-> kind, count |-> count]
Opens(item) == item.k \in {"start", "loop_start"}
Closes(item) == item.k \in {"end", "loop_end"}
Matching == [end |-> "start", loop_end |-> "loop_start"]

(* stack: the open nodes, outermost first; the last arm of the last one is
   being filled.                                                           *)
Attach(stack, node) ==
  LET arms == stack[Len(stack)].arms
  IN  [stack EXCEPT ![Len(stack)].arms = [arms EXCEPT ![Len(arms)] = Append(@, node)]]

Decode(stack, item) ==
  LET last == stack[Len(stack)] IN
  IF stack = <<>> THEN <<>>
  ELSE CASE Opens(item) ->
              Append(stack, [k |-> item.k, count |-> item.count, arms |-> <<<<>>>>])
         [] item.k = "next" ->
              IF last.k # "start" THEN <<>>
              ELSE [stack EXCEPT ![Len(stack)].arms = Append(@, <<>>)]
         [] Closes(item) ->
              IF last.k # Matching[item.k] THEN <<>> ELSE Attach(Front(stack), last)
         [] item.k = "bundle" -> Attach(stack, item)

Root == [k |-> "root", count |-> 1, arms |-> <<<<>>>>]

(* <<>> when the boundaries don't match.                                   *)
Tree(items) ==
  LET stack == Fold(Decode, <<Root>>, items)
  IN  IF Len(stack) = 1 THEN stack[1].arms ELSE <<>>

----------------------------------------------------------------------------
(* simulate                                                                *)

Latest(S) == Greatest(S \cup {0})

(* Credits of a flag at a cycle, completions included.                     *)
CreditAt(c, flag, now) ==
  Find(c.credits, flag, 0)
    + MapThenSumSet(LAMBDA p : p.units, {p \in c.pending : p.flag = flag /\ p.when <= now})

(* When a wait is satisfied; -1: never, which is reported and not waited.  *)
Satisfied(c, w, now) ==
  LET enough == {n \in {now} \cup {p.when : p \in {p \in c.pending : p.when > now}} :
                   CreditAt(c, w.flag, n) >= w.units}
  IN  IF enough = {} THEN -1 ELSE Least(enough)

(* One operation of a bundle that starts at now.                           *)
Commit(c, o, before, now) ==
  LET begin == IF o.service = "" THEN now ELSE Latest({now, Find(c.services, o.service, 0)})
      waits == {Satisfied(before, w, now) : w \in o.waits}
      done == Latest({begin + o.latency} \cup waits)
      late == {u \in o.updates : u.late}
  IN  [c EXCEPT !.ready = (o.id :> done) @@ @,
                !.services = IF o.service = "" THEN @ ELSE (o.service :> done) @@ @,
                !.pending = @ \cup {[flag |-> u.flag, when |-> done, units |-> u.units,
                                     id |-> o.id] : u \in late},
                !.end = Latest({@, done}),
                !.release = Latest({@} \cup waits),
                !.gaps = @ \cup {<<"credits", o.id>> : w \in waits \cap {-1}}]

(* Counters written at once change together, after all waits are read, and
   the next bundle may issue.                                              *)
Synced(c, ops, now) ==
  LET updates == UNION {{<<o.id, u>> : u \in {u \in o.updates : ~u.late}} : o \in ToSet(ops)}
      flags == {u[2].flag : u \in updates}
      change(f) == MapThenSumSet(LAMBDA u : u[2].units, {u \in updates : u[2].flag = f})
      due(f) == {p \in c.pending : p.flag = f /\ p.when <= now}
      under == {f \in flags : CreditAt(c, f, now) + change(f) < 0}
  IN  [c EXCEPT
         !.issue = c.release,
         !.credits = [f \in flags \ under |-> CreditAt(c, f, now) + change(f)] @@ @,
         !.pending = @ \ UNION {due(f) : f \in flags \ under},
         !.gaps = @ \cup {<<"underflow", f>> : f \in under}]

(* A bundle issues when everything its operations wait for is ready.       *)
Begin(c, ops) ==
  Latest({c.issue} \cup {Find(c.ready, d, 0) : d \in UNION {o.deps : o \in ToSet(ops)}})

Issuing(c, bundle, start) ==
  Synced(Fold(LAMBDA d, o : Commit(d, o, c, start),
              [c EXCEPT !.release = start + bundle.cycles], bundle.ops),
         bundle.ops, start)

Cycle(c, bundle) == Issuing(c, bundle, Begin(c, bundle.ops))

Drained(c) ==
  LET finish == Latest({c.issue, c.end})
  IN  [cycles |-> finish, gaps |-> c.gaps,
       credits |-> [f \in DOMAIN c.credits \cup {p.flag : p \in c.pending} |->
                      CreditAt(c, f, finish)]]

Simulate(bundles, credits) ==
  Drained(Fold(Cycle, [issue |-> 0, release |-> 0, end |-> 0, ready |-> <<>>,
                       services |-> <<>>, credits |-> credits, pending |-> {},
                       gaps |-> {}], bundles))

----------------------------------------------------------------------------
(* evaluate                                                                *)

NoCost == [clock |-> 0, visits |-> 0, credits |-> <<>>, gaps |-> {}, invalid |-> FALSE]

(* run_segment: a run is drained, and leaves its credits.                  *)
After(e, run, built, result) ==
  [clock |-> e.clock + result.cycles, visits |-> e.visits + Len(run),
   credits |-> result.credits, gaps |-> e.gaps \cup built.gaps \cup result.gaps,
   invalid |-> e.invalid \/ built.invalid]

RunSegment(e, run, bounded) ==
  LET built == Build(run, bounded)
  IN  IF run = <<>> THEN e ELSE After(e, run, built, Simulate(built.out, e.credits))

(* Mutant of Left: the credits of the slowest arm survive.                 *)
LeftBySlowest(arms, slowest) == slowest.credits

(* After an alternative a counter holds what every arm leaves.             *)
Left(arms, slowest) ==
  [f \in UNION {DOMAIN a.credits : a \in ToSet(arms)} |->
     Least({Find(a.credits, f, 0) : a \in ToSet(arms)})]

Slowest(arms) ==
  arms[Least({n \in DOMAIN arms : \A a \in ToSet(arms) : a.clock <= arms[n].clock})]

AfterArms(arms, slowest) ==
  [slowest EXCEPT !.credits = Left(arms, slowest),
                  !.gaps = UNION {a.gaps : a \in ToSet(arms)},
                  !.invalid = \E a \in ToSet(arms) : a.invalid]

AfterBody(here, body, count) ==
  LET times(field) == here[field] + (body[field] - here[field]) * count
  IN  [body EXCEPT !.clock = times("clock"), !.visits = times("visits"), !.credits = <<>>]

(* Every arm starts where the alternative does; a body starts and leaves
   without credits.  s: what is estimated so far and the bundles to run.   *)
Drain(s, bounded) == RunSegment(s.e, s.run, bounded)

RECURSIVE Evaluated(_, _, _)
Evaluated(e, nodes, bounded) ==
  LET node(s, n) ==
        IF n.k = "bundle" THEN [s EXCEPT !.run = Append(@, n)]
        ELSE LET here == Drain(s, bounded)
                 arms == [a \in DOMAIN n.arms |-> Evaluated(here, n.arms[a], TRUE)]
                 body == Evaluated([here EXCEPT !.credits = <<>>], n.arms[1], TRUE)
             IN  [run |-> <<>>,
                  e |-> IF n.k = "start" THEN AfterArms(arms, Slowest(arms))
                        ELSE AfterBody(here, body, n.count)]
  IN  Drain(Fold(node, [run |-> <<>>, e |-> e], nodes), bounded)

Bounded(items) == \E n \in ToSet(items) : n.k # "bundle"

Estimate(items) ==
  IF Tree(items) = <<>> THEN [NoCost EXCEPT !.invalid = TRUE]
  ELSE Evaluated(NoCost, Tree(items)[1], Bounded(items))
============================================================================

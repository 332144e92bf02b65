------------------------------- MODULE Pipeline -------------------------------
(***************************************************************************)
(* simulate (python/sim_pjrt/llo/pipeline.py): bundles of operations issue *)
(* in order, each at the first cycle at which its dependencies are ready,  *)
(* the structures it checks aren't held and its reservations fit between   *)
(* the ones already booked.  Results, completions of DMA queues and        *)
(* credits overlap with what issues later.                                 *)
(*                                                                         *)
(* A bundle goes through the loop body's phases: Fetch (checks, earliest   *)
(* start, waits on credits), Shift (one turn of the calendar loop), Settle,*)
(* Commit (one operation) and Close (credits, bookings, holds, release).   *)
(* The maximum of a set is written \E m \in LatestOf(S).                   *)
(***************************************************************************)
EXTENDS Integers, Sequences, FiniteSets, FiniteSetsExt

CONSTANTS
  Bundles,         (* the bundles of a path                                *)
  MaxBundles,      (* bound: length of the path                            *)
  MaxDeps,         (* bound: producers one bundle depends on               *)
  Resources, Counters, Services,
  InitialReady,    (* initial_ready: cycles of producers before the path   *)
  InitialCredits   (* initial_credits                                      *)

NoService == "none"

Operation ==
  [latency : Nat,
   spans : SUBSET [resource : Resources, offset : Nat, duration : Nat \ {0}],
   holds : SUBSET [resource : Resources, cycles : Nat],
   checks : SUBSET Resources,
   waits : SUBSET [counter : Counters, units : Nat],
   updates : SUBSET [counter : Counters, units : Int, late : BOOLEAN],
   service : Services \cup {NoService},
   waitUntil : Nat]

Bundle == [ops : Seq(Operation), cycles : Nat \ {0}]

ASSUME PipelineAssumption ==
  /\ Bundles \subseteq Bundle
  /\ \A b \in Bundles : \A k \in DOMAIN b.ops :
       /\ IsFiniteSet(b.ops[k].updates)
       /\ \A u \in b.ops[k].updates : u.late => u.units \in Nat
  /\ MaxBundles \in Nat /\ MaxDeps \in Nat
  /\ NoService \notin Services
  /\ \A id \in DOMAIN InitialReady : InitialReady[id] \in Nat /\ id[1] = 0
  /\ InitialCredits \in [Counters -> Nat]

VARIABLES
  stage,        (* fetch | shift | commit | end | invalid (ValueError)     *)
  visit,        (* bundles fetched                                         *)
  bundle,       (* the one being issued                                    *)
  op,           (* operations of it that are committed                     *)
  issue,        (* earliest cycle of the next bundle                       *)
  start,        (* cycle of the current one                                *)
  ready,        (* dict: the cycle each operation's result is ready        *)
  credits, pending, serviceReady, calendars,
  holds,        (* hold_ready, with every deadline rather than the latest  *)
  waitReady,    (* for each operation, the instants it waits for           *)
  resultEnd, gaps,
  floor,        (* history: start before the calendar loop                 *)
  booked,       (* history: all reservations                               *)
  applied,      (* history: credits written at issue                       *)
  finished      (* history: credits written at completion                  *)

scalars == <<issue, resultEnd, gaps>>
creditVars == <<credits, pending, applied, finished>>
calendarVars == <<calendars, booked>>
vars == <<stage, visit, bundle, op, start, ready, creditVars, serviceReady,
          calendarVars, holds, waitReady, scalars, floor>>

NoBundle == [ops |-> <<>>, cycles |-> 1]
Span == [resource : Resources, left : Nat, right : Nat, id : Nat \X Nat]
Completion == [when : Nat, units : Nat, id : Nat \X Nat, counter : Counters]

TypeOK ==
  /\ stage \in {"fetch", "shift", "commit", "end", "invalid"}
  /\ visit \in 0..MaxBundles /\ op \in Nat
  /\ bundle \in Bundles \cup {NoBundle}
  /\ issue \in Nat /\ start \in Nat /\ resultEnd \in Nat /\ floor \in Nat
  /\ \A id \in DOMAIN ready : ready[id] \in Nat
  /\ credits \in [Counters -> Nat] /\ applied \in [Counters -> Int]
  /\ pending \in [Counters -> SUBSET Completion]
  /\ finished \subseteq Completion
  /\ serviceReady \in [Services -> Nat]
  /\ calendars \subseteq Span /\ booked \subseteq Span
  /\ holds \subseteq [resource : Resources, until : Nat]
  /\ \A k \in DOMAIN waitReady : waitReady[k] \subseteq Nat
  /\ gaps \in BOOLEAN

LatestOf(S) == {t \in S : \A u \in S : u <= t}
EarliestOf(S) == {t \in S : \A u \in S : t <= u}

Init ==
  /\ stage = "fetch" /\ visit = 0 /\ op = 0 /\ bundle = NoBundle
  /\ issue = 0 /\ start = 0 /\ resultEnd = 0 /\ floor = 0
  /\ ready = InitialReady
  /\ credits = InitialCredits /\ applied = [c \in Counters |-> 0]
  /\ pending = [c \in Counters |-> {}] /\ finished = {}
  /\ serviceReady = [s \in Services |-> 0]
  /\ calendars = {} /\ booked = {} /\ holds = {}
  /\ waitReady = <<>>
  /\ gaps = FALSE

----------------------------------------------------------------------------
(* Credits *)

Units(completions) == MapThenSumSet(LAMBDA p : p.units, completions)

(* Mutant of Due: what completes in this very cycle isn't seen yet.        *)
DueBefore(c, cycle) == {p \in pending[c] : p.when < cycle}

Due(c, cycle) == {p \in pending[c] : p.when <= cycle}

(* credit_at                                                               *)
CreditAt(c, cycle) == credits[c] + Units(Due(c, cycle))

(* The first instant from cycle on at which the counter suffices, if what is
   known to complete is enough.                                            *)
SatisfiedAt(w, cycle) ==
  IF CreditAt(w.counter, cycle) >= w.units THEN {cycle}
  ELSE EarliestOf({p.when : p \in {p \in pending[w.counter] :
                     CreditAt(w.counter, p.when) >= w.units}})

----------------------------------------------------------------------------
(* Checks of a bundle *)

Positions(b) == DOMAIN b.ops
All(b, field) == UNION {b.ops[k][field] : k \in Positions(b)}

(* Reservations of a bundle that starts at cycle s.                        *)
SpansAt(b, s) ==
  UNION {{[resource |-> r.resource, left |-> s + r.offset,
           right |-> s + r.offset + r.duration, id |-> <<visit, k>>] :
             r \in b.ops[k].spans} : k \in Positions(b)}

Overlap(x, y) ==
  x.resource = y.resource /\ x.left < y.right /\ y.left < x.right

CoIssuedHazard(b) ==
  \E j, k \in Positions(b) :
    /\ j # k
    /\ \E h \in b.ops[j].holds : h.cycles > 0 /\ h.resource \in b.ops[k].checks

CoIssuedConflict(b) ==
  \E j, k \in Positions(b) : \E q \in b.ops[j].spans, r \in b.ops[k].spans :
    /\ <<j, q>> # <<k, r>>
    /\ q.resource = r.resource
    /\ q.offset < r.offset + r.duration /\ r.offset < q.offset + q.duration

MissingProducer(deps) == ~(deps \subseteq DOMAIN ready)

Accepted(b, deps) ==
  ~(MissingProducer(deps) \/ CoIssuedHazard(b) \/ CoIssuedConflict(b))

----------------------------------------------------------------------------
Refuse(b, deps) ==
  /\ stage = "fetch" /\ visit < MaxBundles /\ ~Accepted(b, deps)
  /\ stage' = "invalid"
  /\ UNCHANGED <<visit, bundle, op, start, ready, creditVars, serviceReady,
                 calendarVars, holds, waitReady, scalars, floor>>

(* The earliest start, and what each operation waits for.                  *)
Fetch(b, deps) ==
  /\ stage = "fetch" /\ visit < MaxBundles /\ Accepted(b, deps)
  /\ stage' = "shift" /\ visit' = visit + 1 /\ bundle' = b /\ op' = 0
  /\ \E s \in LatestOf({issue} \cup {ready[d] : d \in deps}
                         \cup {h.until : h \in {h \in holds :
                                 h.resource \in All(b, "checks")}}) :
       /\ start' = s /\ floor' = s
       /\ waitReady' = [k \in Positions(b) |->
            {s, b.ops[k].waitUntil}
              \cup UNION {SatisfiedAt(w, s) : w \in b.ops[k].waits}]
       /\ gaps' = (gaps \/ \E w \in All(b, "waits") : SatisfiedAt(w, s) = {})
       /\ LET read == {w.counter : w \in All(b, "waits")} IN
          /\ credits' = [c \in Counters |->
               IF c \in read THEN CreditAt(c, s) ELSE credits[c]]
          /\ pending' = [c \in Counters |->
               IF c \in read THEN pending[c] \ Due(c, s) ELSE pending[c]]
  /\ UNCHANGED <<ready, applied, finished, serviceReady, calendarVars, holds,
                 issue, resultEnd>>

(* Reservations that are over are dropped as their resources are looked at. *)
Pruned ==
  {x \in calendars :
     x.resource \in {r.resource : r \in All(bundle, "spans")} => x.right > start}

(* Mutant of Pushes: the reservation's offset is forgotten.                *)
PushesBehind ==
  {p[2].right :
     p \in {p \in SpansAt(bundle, start) \X Pruned : Overlap(p[1], p[2])}}

(* Where the bundle must move for each booking it runs into.               *)
Pushes ==
  {start + (p[2].right - p[1].left) :
     p \in {p \in SpansAt(bundle, start) \X Pruned : Overlap(p[1], p[2])}}

(* Mutant of Shift: resources aren't looked at again after a shift.        *)
ShiftOnce ==
  /\ stage = "shift"
  /\ \E s \in LatestOf(Pushes) : start' = s
  /\ stage' = "commit"
  /\ calendars' = Pruned
  /\ UNCHANGED <<visit, bundle, op, ready, creditVars, serviceReady, booked,
                 holds, waitReady, scalars, floor>>

Shift ==
  /\ stage = "shift"
  /\ \E s \in LatestOf(Pushes) : start' = s
  /\ calendars' = Pruned
  /\ UNCHANGED <<stage, visit, bundle, op, ready, creditVars, serviceReady,
                 booked, holds, waitReady, scalars, floor>>

Settle ==
  /\ stage = "shift" /\ Pushes = {}
  /\ stage' = "commit"
  /\ calendars' = Pruned
  /\ UNCHANGED <<visit, bundle, op, start, ready, creditVars, serviceReady,
                 booked, holds, waitReady, scalars, floor>>

(* An operation: behind the others of its queue, its result after its
   latency and its waits.                                                  *)
Commit ==
  LET o == bundle.ops[op + 1]
      id == <<visit, op + 1>>
      queue == {serviceReady[s] : s \in {o.service} \cap Services}
  IN  /\ stage = "commit" /\ op < Len(bundle.ops)
      /\ op' = op + 1
      /\ \E begin \in LatestOf({start} \cup queue) :
         \E done \in LatestOf({begin + o.latency} \cup waitReady[op + 1]) :
           LET late == {[when |-> done, units |-> u.units, id |-> id,
                         counter |-> u.counter] :
                          u \in {u \in o.updates : u.late}} IN
           /\ ready' = [i \in DOMAIN ready \cup {id} |->
                IF i = id THEN done ELSE ready[i]]
           /\ serviceReady' = [s \in Services |->
                IF s = o.service THEN done ELSE serviceReady[s]]
           /\ pending' = [c \in Counters |->
                pending[c] \cup {p \in late : p.counter = c}]
           /\ finished' = finished \cup late
           /\ \E e \in LatestOf({resultEnd, done}) : resultEnd' = e
      /\ UNCHANGED <<stage, visit, bundle, start, credits, applied,
                     calendarVars, holds, waitReady, issue, gaps, floor>>

(* The credits a bundle writes at issue.                                   *)
Written(c) ==
  MapThenSumSet(LAMBDA k :
    MapThenSumSet(LAMBDA u : u.units,
      {u \in bundle.ops[k].updates : u.counter = c /\ ~u.late}),
    Positions(bundle))

WrittenCounters ==
  {u.counter : u \in {u \in All(bundle, "updates") : ~u.late}}

(* Mutant of Underflows: a counter may become negative.                    *)
NeverUnderflows(c) == FALSE

Underflows(c) == CreditAt(c, start) + Written(c) < 0

Release == {start + bundle.cycles} \cup UNION {waitReady[k] : k \in DOMAIN waitReady}

Held ==
  {[resource |-> h.resource, until |-> start + h.cycles] :
     h \in {h \in All(bundle, "holds") : h.cycles > 0}}

(* The bundle is committed: its credits are written together, after all reads;
   a counter that would become negative stays and leaves a gap.            *)
Close ==
  /\ stage = "commit" /\ op = Len(bundle.ops)
  /\ credits' = [c \in Counters |->
       IF c \notin WrittenCounters THEN credits[c]
       ELSE CreditAt(c, start) + (IF Underflows(c) THEN 0 ELSE Written(c))]
  /\ pending' = [c \in Counters |->
       IF c \in WrittenCounters THEN pending[c] \ Due(c, start) ELSE pending[c]]
  /\ applied' = [c \in Counters |->
       IF c \in WrittenCounters /\ ~Underflows(c) THEN applied[c] + Written(c)
                                                  ELSE applied[c]]
  /\ gaps' = (gaps \/ \E c \in WrittenCounters : Underflows(c))
  /\ calendars' = calendars \cup SpansAt(bundle, start)
  /\ booked' = booked \cup SpansAt(bundle, start)
  /\ holds' = holds \cup Held
  /\ \E e \in LatestOf({resultEnd} \cup {x.right : x \in SpansAt(bundle, start)}
                         \cup {h.until : h \in Held}) : resultEnd' = e
  /\ \E r \in LatestOf(Release) : issue' = r
  /\ stage' = "fetch"
  /\ UNCHANGED <<visit, bundle, op, start, ready, finished, serviceReady,
                 waitReady, floor>>

Empty ==
  /\ stage = "fetch" /\ visit = 0
  /\ stage' = "invalid"
  /\ UNCHANGED <<visit, bundle, op, start, ready, creditVars, serviceReady,
                 calendarVars, holds, waitReady, scalars, floor>>

(* The end of the path: all that is in flight completes.                   *)
Finish ==
  /\ stage = "fetch" /\ visit > 0
  /\ stage' = "end"
  /\ \E finish \in LatestOf({issue, resultEnd}) :
       /\ credits' = [c \in Counters |-> CreditAt(c, finish)]
       /\ pending' = [c \in Counters |-> pending[c] \ Due(c, finish)]
  /\ UNCHANGED <<visit, bundle, op, start, ready, applied, finished,
                 serviceReady, calendarVars, holds, waitReady, scalars, floor>>

(* Producers of earlier bundles, of none, and of the bundle itself.        *)
Dependencies ==
  {deps \in SUBSET (DOMAIN ready \cup {<<visit + 1, 1>>}) :
     Cardinality(deps) <= MaxDeps}

Next ==
  \/ \E b \in Bundles, deps \in Dependencies : Refuse(b, deps) \/ Fetch(b, deps)
  \/ Shift
  \/ Settle
  \/ Commit
  \/ Close
  \/ Empty
  \/ Finish

Spec == Init /\ [][Next]_vars

----------------------------------------------------------------------------
(* Properties *)

(* No resource is reserved twice for the same cycle, although the calendar
   forgets what is over, is shifted as a whole and has holes for reservations
   that lie in the future.                                                 *)
ExclusiveReservations ==
  \A x, y \in booked : x # y => ~Overlap(x, y)

(* A bundle issues at the first cycle from its dependencies on at which none
   of its reservations meets any ever made: the cycle a search one by one
   finds (test_offset_reservations_against_exhaustive_integer_scheduler).  *)
Collides(s) == \E x \in SpansAt(bundle, s), y \in booked : Overlap(x, y)

EarliestIssue ==
  /\ stage \in {"shift", "commit"} => \A s \in floor..(start - 1) : Collides(s)
  /\ stage = "commit" => ~Collides(start)

(* A wait sees the credits written by earlier bundles and all completions up
   to its instant, neither less nor more, whichever of them were folded into
   the counter before; it ends at the first instant they suffice, or leaves
   a gap.  At the end of a path nothing is left in flight.                 *)
Available(c, t) ==
  InitialCredits[c] + applied[c]
    + Units({p \in finished : p.counter = c /\ p.when <= t})

FirstAvailable(w) ==
  EarliestOf({t \in {floor} \cup {p.when : p \in finished} :
                t >= floor /\ Available(w.counter, t) >= w.units})

CreditsExact ==
  /\ stage = "shift" =>
       \A k \in Positions(bundle) : \A w \in bundle.ops[k].waits :
         /\ FirstAvailable(w) \subseteq waitReady[k]
         /\ FirstAvailable(w) = {} => gaps
  /\ stage = "end" =>
       \A c \in Counters :
         credits[c] = InitialCredits[c] + applied[c]
                        + Units({p \in finished : p.counter = c})
============================================================================

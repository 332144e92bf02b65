--------------------------- MODULE PipelineProofs ----------------------------
(***************************************************************************)
(* On any path, whatever the bundles: no two reservations overlap, each    *)
(* bundle issues at the first cycle it can, and a wait reads exactly the   *)
(* credits there are.                                                      *)
(*                                                                         *)
(* A calendar only shows what isn't over, so its being free says something *)
(* about every reservation ever made only because starts never decrease    *)
(* (InOrder) and what was dropped was over by the current one (Retained).   *)
(* A bundle's own reservations are disjoint at any start since their       *)
(* offsets are (Disjoint, CoIssuedAnywhere).                               *)
(*                                                                         *)
(* A counter is what the history says although simulate folds completions  *)
(* into it only as it is read, since what was folded was over (Completions, *)
(* Balanced); adding them up is by SetSums.                                *)
(***************************************************************************)
EXTENDS Pipeline, SetSums

InOrder ==
  /\ start \in Nat /\ issue \in Nat /\ floor \in Nat
  /\ bundle \in Bundles \cup {NoBundle}
  /\ stage = "fetch" => start <= issue

Retained ==
  /\ calendars \subseteq booked
  /\ \A x \in booked : x \in calendars \/ x.right <= start

Cycles ==
  /\ \A d \in DOMAIN ready : ready[d] \in Nat
  /\ \A h \in holds : h.until \in Nat
  /\ \A s \in Services : serviceReady[s] \in Nat
  /\ \A k \in DOMAIN waitReady : waitReady[k] \subseteq Nat
  /\ \A c \in Counters : \A p \in pending[c] : p.when \in Nat
  /\ op \in Nat
  /\ stage \in {"shift", "commit"} =>
       bundle \in Bundles /\ DOMAIN waitReady = Positions(bundle)

Disjoint == stage \in {"shift", "commit"} => ~CoIssuedConflict(bundle)

Clear ==
  stage = "commit" =>
    \A x \in SpansAt(bundle, start), y \in calendars : ~Overlap(x, y)

BookedSpans ==
  \A x \in booked : x.left \in Nat /\ x.right \in Nat

IInv ==
  /\ InOrder /\ Cycles /\ Retained /\ Disjoint /\ Clear /\ BookedSpans
  /\ ExclusiveReservations

(* What a reservation at cycle s is.                                       *)
LEMMA SpanIs ==
  ASSUME NEW b \in Bundles \cup {NoBundle}, NEW s \in Nat, NEW x \in SpansAt(b, s)
  PROVE  \E k \in Positions(b) : \E r \in b.ops[k].spans :
           /\ r \in [resource : Resources, offset : Nat, duration : Nat \ {0}]
           /\ x = [resource |-> r.resource, left |-> s + r.offset,
                   right |-> s + r.offset + r.duration, id |-> <<visit, k>>]
<1>1. PICK k \in Positions(b) : \E r \in b.ops[k].spans :
        x = [resource |-> r.resource, left |-> s + r.offset,
             right |-> s + r.offset + r.duration, id |-> <<visit, k>>]
  BY DEF SpansAt
<1>2. b \in Bundles
  BY <1>1 DEF NoBundle, Positions
<1>3. b.ops \in Seq(Operation)
  BY <1>2, PipelineAssumption DEF Bundle
<1>4. b.ops[k] \in Operation
  BY <1>1, <1>3 DEF Positions
<1>5. b.ops[k].spans \subseteq
        [resource : Resources, offset : Nat, duration : Nat \ {0}]
  BY <1>4 DEF Operation
<1> QED
  BY <1>1, <1>5

(* A reservation never begins before its bundle.                           *)
LEMMA SpanAfterStart ==
  ASSUME NEW b \in Bundles \cup {NoBundle}, NEW s \in Nat, NEW x \in SpansAt(b, s)
  PROVE  x.left \in Nat /\ x.right \in Nat /\ s <= x.left
<1>1. PICK k \in Positions(b) : \E r \in b.ops[k].spans :
           /\ r \in [resource : Resources, offset : Nat, duration : Nat \ {0}]
           /\ x = [resource |-> r.resource, left |-> s + r.offset,
                   right |-> s + r.offset + r.duration, id |-> <<visit, k>>]
  BY SpanIs
<1>2. PICK r \in b.ops[k].spans :
           /\ r \in [resource : Resources, offset : Nat, duration : Nat \ {0}]
           /\ x = [resource |-> r.resource, left |-> s + r.offset,
                   right |-> s + r.offset + r.duration, id |-> <<visit, k>>]
  BY <1>1
<1>3. r.offset \in Nat /\ r.duration \in Nat
  BY <1>2
<1>4. x.left = s + r.offset /\ x.right = s + r.offset + r.duration
  BY <1>2
<1> QED
  BY <1>3, <1>4

(* Reservations that meet at some start conflict by their offsets.         *)
LEMMA CoIssuedAnywhere ==
  ASSUME NEW b \in Bundles \cup {NoBundle}, NEW s \in Nat,
         NEW x \in SpansAt(b, s), NEW y \in SpansAt(b, s), x # y, Overlap(x, y)
  PROVE  CoIssuedConflict(b)
<1> DEFINE At(k, r, c) ==
      [resource |-> r.resource, left |-> c + r.offset,
       right |-> c + r.offset + r.duration, id |-> <<visit, k>>]
<1>1. PICK j \in Positions(b) : \E q \in b.ops[j].spans :
        /\ q \in [resource : Resources, offset : Nat, duration : Nat \ {0}]
        /\ x = At(j, q, s)
  BY SpanIs
<1>2. PICK q \in b.ops[j].spans :
        /\ q \in [resource : Resources, offset : Nat, duration : Nat \ {0}]
        /\ x = At(j, q, s)
  BY <1>1
<1>3. PICK k \in Positions(b) : \E r \in b.ops[k].spans :
        /\ r \in [resource : Resources, offset : Nat, duration : Nat \ {0}]
        /\ y = At(k, r, s)
  BY SpanIs
<1>4. PICK r \in b.ops[k].spans :
        /\ r \in [resource : Resources, offset : Nat, duration : Nat \ {0}]
        /\ y = At(k, r, s)
  BY <1>3
<1>5. /\ q.offset \in Nat /\ q.duration \in Nat
      /\ r.offset \in Nat /\ r.duration \in Nat
  BY <1>2, <1>4
<1>6. /\ q.resource = r.resource
      /\ s + q.offset < s + r.offset + r.duration
      /\ s + r.offset < s + q.offset + q.duration
  BY <1>2, <1>4 DEF Overlap
<1>7. /\ q.offset < r.offset + r.duration
      /\ r.offset < q.offset + q.duration
  BY <1>5, <1>6
<1>8. <<j, q>> # <<k, r>>
  BY <1>2, <1>4
<1> QED
  BY <1>6, <1>7, <1>8 DEF CoIssuedConflict

(* The latest of some cycles is one of them.                               *)
LEMMA LatestIsOne ==
  ASSUME NEW S \in SUBSET Nat, NEW t \in LatestOf(S)
  PROVE  t \in Nat /\ \A u \in S : u <= t
  BY DEF LatestOf

LEMMA InitInvariant == Init => IInv
  BY PipelineAssumption DEF Init, IInv, InOrder, Cycles, Retained, Disjoint, Clear,
     BookedSpans, ExclusiveReservations, NoBundle

LEMMA StepInvariant == IInv /\ [Next]_vars => IInv'
<1> SUFFICES ASSUME IInv, [Next]_vars PROVE IInv'
  OBVIOUS
<1> USE DEF IInv
<1>a. /\ start \in Nat /\ issue \in Nat
      /\ bundle \in Bundles \cup {NoBundle}
  BY DEF InOrder
<1>b. \A x \in booked : x.left \in Nat /\ x.right \in Nat
  BY DEF BookedSpans
<1>r. ASSUME NEW x \in booked
      PROVE  x \in Pruned \/ x.right <= start
  BY <1>a, <1>b DEF Retained, Pruned
<1>1. ASSUME NEW b \in Bundles, NEW deps \in Dependencies, Refuse(b, deps)
      PROVE  IInv'
  BY <1>1 DEF Refuse, scalars, creditVars, calendarVars, InOrder, Cycles, Retained,
       Disjoint, Clear, BookedSpans, ExclusiveReservations, Overlap
<1>2. ASSUME NEW b \in Bundles, NEW deps \in Dependencies, Fetch(b, deps)
      PROVE  IInv'
  <2> DEFINE S == {issue} \cup {ready[d] : d \in deps}
                         \cup {h.until : h \in {h \in holds :
                                 h.resource \in All(b, "checks")}}
  <2>1. S \in SUBSET Nat
    <3>1. deps \subseteq DOMAIN ready
      BY <1>2 DEF Fetch, Accepted, MissingProducer
    <3> QED
      BY <1>a, <3>1 DEF Cycles
  <2>2. PICK s \in LatestOf(S) :
          /\ start' = s
          /\ waitReady' = [k \in Positions(b) |->
               {s, b.ops[k].waitUntil}
                 \cup UNION {SatisfiedAt(w, s) : w \in b.ops[k].waits}]
          /\ LET read == {w.counter : w \in All(b, "waits")} IN
             /\ pending' = [c \in Counters |->
                  IF c \in read THEN pending[c] \ Due(c, s) ELSE pending[c]]
    BY <1>2 DEF Fetch
  <2> HIDE DEF S
  <2>3. start' \in Nat /\ s \in Nat
    BY <2>1, <2>2, LatestIsOne
  <2>4. issue <= start'
    BY <2>1, <2>2, LatestIsOne DEF S
  <2>5. start <= start'
    BY <1>2, <1>a, <2>3, <2>4 DEF Fetch, InOrder
  <2>6. ASSUME NEW k \in Positions(b), NEW w \in b.ops[k].waits
        PROVE  SatisfiedAt(w, s) \subseteq Nat
    <3>1. b.ops[k] \in Operation
      BY PipelineAssumption DEF Bundle, Positions
    <3>2. w.counter \in Counters
      BY <3>1 DEF Operation
    <3> QED
      BY <2>3, <3>2 DEF SatisfiedAt, EarliestOf, Cycles
  <2>7. \A k \in Positions(b) : waitReady'[k] \subseteq Nat
    <3> SUFFICES ASSUME NEW k \in Positions(b) PROVE waitReady'[k] \subseteq Nat
      OBVIOUS
    <3>1. b.ops[k] \in Operation
      BY PipelineAssumption DEF Bundle, Positions
    <3>2. b.ops[k].waitUntil \in Nat
      BY <3>1 DEF Operation
    <3>3. waitReady'[k] = {s, b.ops[k].waitUntil}
                 \cup UNION {SatisfiedAt(w, s) : w \in b.ops[k].waits}
      BY <2>2
    <3> QED
      BY <2>3, <2>6, <3>2, <3>3
  <2>8. DOMAIN waitReady' = Positions(b)
    BY <2>2
  <2>9. \A c \in Counters : pending'[c] \subseteq pending[c]
    BY <2>2
  <2>10. InOrder'
    BY <1>2, <1>a, <2>3 DEF Fetch, InOrder
  <2>11. Cycles'
    BY <1>2, <2>7, <2>8, <2>9 DEF Fetch, Cycles
  <2>12. (Retained /\ BookedSpans /\ ExclusiveReservations)'
    BY <1>2, <1>a, <1>b, <2>3, <2>5
    DEF Fetch, calendarVars, Retained, BookedSpans, ExclusiveReservations, Overlap
  <2>13. (Disjoint /\ Clear)'
    BY <1>2 DEF Fetch, Accepted, Disjoint, Clear
  <2> QED
    BY <2>10, <2>11, <2>12, <2>13
<1>3. CASE Shift
  <2>1. PICK s \in LatestOf(Pushes) : start' = s
    BY <1>3 DEF Shift
  <2>2. s \in Pushes
    BY <2>1 DEF LatestOf
  <2>3. PICK x \in SpansAt(bundle, start), y \in Pruned :
          s = start + (y.right - x.left) /\ Overlap(x, y)
    BY <2>2 DEF Pushes
  <2>4. x.left \in Nat
    BY <1>a, SpanAfterStart
  <2>5. y.right \in Nat
    BY <1>b DEF Pruned, Retained
  <2>6. s \in Nat /\ start <= s
    BY <1>a, <2>3, <2>4, <2>5 DEF Overlap
  <2>7. Pruned \subseteq booked
    BY DEF Pruned, Retained
  <2>8. (InOrder /\ Cycles /\ Disjoint /\ Clear /\ BookedSpans)'
    BY <1>3, <2>1, <2>6, <1>a DEF Shift, creditVars, scalars, InOrder, Cycles,
       Disjoint, Clear, BookedSpans
  <2>9. Retained'
    BY <1>3, <1>r, <1>a, <1>b, <2>1, <2>6, <2>7 DEF Shift, Retained
  <2>10. ExclusiveReservations'
    BY <1>3 DEF Shift, ExclusiveReservations, Overlap
  <2> QED
    BY <2>8, <2>9, <2>10
<1>4. CASE Settle
  <2>1. Pruned \subseteq booked
    BY DEF Pruned, Retained
  <2>2. (InOrder /\ Cycles /\ Disjoint /\ BookedSpans)'
    BY <1>4, <1>a DEF Settle, creditVars, scalars, InOrder, Cycles, Disjoint, BookedSpans
  <2>3. Retained'
    BY <1>4, <1>r, <2>1 DEF Settle, Retained
  <2>4. \A x \in SpansAt(bundle, start), y \in Pruned : ~Overlap(x, y)
    <3> SUFFICES ASSUME NEW x \in SpansAt(bundle, start), NEW y \in Pruned,
                        Overlap(x, y)
                 PROVE  Pushes # {}
      BY <1>4 DEF Settle
    <3> DEFINE pairs == {p \in SpansAt(bundle, start) \X Pruned : Overlap(p[1], p[2])}
    <3>1. <<x, y>> \in pairs
      OBVIOUS
    <3>2. Pushes = {start + (p[2].right - p[1].left) : p \in pairs}
      BY DEF Pushes
    <3> HIDE DEF pairs
    <3> QED
      BY <3>1, <3>2
  <2>5. SpansAt(bundle, start)' = SpansAt(bundle, start)
    BY <1>4 DEF Settle, SpansAt, Positions
  <2>6. Clear'
    BY <1>4, <2>4, <2>5 DEF Settle, Clear, Overlap
  <2>7. ExclusiveReservations'
    BY <1>4 DEF Settle, ExclusiveReservations, Overlap
  <2> QED
    BY <2>2, <2>3, <2>6, <2>7
<1>5. CASE Commit
  <2> DEFINE o == bundle.ops[op + 1]
             id == <<visit, op + 1>>
             queue == {serviceReady[s] : s \in {o.service} \cap Services}
             Late(done) == {[when |-> done, units |-> u.units, id |-> id,
                             counter |-> u.counter] :
                              u \in {u \in o.updates : u.late}}
             Done(done) ==
               /\ ready' = [i \in DOMAIN ready \cup {id} |->
                    IF i = id THEN done ELSE ready[i]]
               /\ serviceReady' = [s \in Services |->
                    IF s = o.service THEN done ELSE serviceReady[s]]
               /\ pending' = [c \in Counters |->
                    pending[c] \cup {p \in Late(done) : p.counter = c}]
  <2>1. op + 1 \in Positions(bundle) /\ bundle.ops \in Seq(Operation)
    <3>1. bundle \in Bundles
      BY <1>5 DEF Commit, InOrder, NoBundle, Cycles
    <3>2. bundle.ops \in Seq(Operation)
      BY <3>1, PipelineAssumption DEF Bundle
    <3> QED
      BY <1>5, <3>2 DEF Commit, Positions, Cycles
  <2>2. o \in Operation
    BY <2>1 DEF Positions
  <2>3. o.latency \in Nat
    BY <2>2 DEF Operation
  <2>4. PICK begin \in LatestOf({start} \cup queue) :
          \E done \in LatestOf({begin + o.latency} \cup waitReady[op + 1]) : Done(done)
    BY <1>5 DEF Commit
  <2>4a. PICK done \in LatestOf({begin + o.latency} \cup waitReady[op + 1]) :
           Done(done)
    BY <2>4
  <2> HIDE DEF o, id
  <2>5. begin \in Nat
    BY <1>a, <2>4, LatestIsOne DEF Cycles
  <2>6. waitReady[op + 1] \subseteq Nat
    BY <1>5, <2>1 DEF Commit, Cycles
  <2>7. done \in Nat
    <3>1. {begin + o.latency} \cup waitReady[op + 1] \in SUBSET Nat
      BY <2>3, <2>5, <2>6
    <3> QED
      BY <3>1, <2>4a, LatestIsOne
  <2>8. \A i \in DOMAIN ready' : ready'[i] \in Nat
    BY <2>4a, <2>7 DEF Cycles
  <2>9. \A s \in Services : serviceReady'[s] \in Nat
    BY <2>4a, <2>7 DEF Cycles
  <2>10. \A c \in Counters : \A p \in pending'[c] : p.when \in Nat
    BY <2>4a, <2>7 DEF Cycles
  <2>11. (InOrder /\ Disjoint /\ BookedSpans)'
    BY <1>5, <1>a DEF Commit, calendarVars, InOrder, Disjoint, BookedSpans
  <2>12. Cycles'
    <3>1. /\ op' = op + 1 /\ stage' = stage /\ bundle' = bundle
          /\ waitReady' = waitReady /\ holds' = holds
      BY <1>5 DEF Commit
    <3> QED
      BY <2>8, <2>9, <2>10, <3>1 DEF Cycles, Positions
  <2>13. (Retained /\ ExclusiveReservations)'
    BY <1>5 DEF Commit, calendarVars, Retained, ExclusiveReservations, Overlap
  <2>14. SpansAt(bundle, start)' = SpansAt(bundle, start)
    BY <1>5 DEF Commit, SpansAt, Positions
  <2>15. Clear'
    BY <1>5, <2>14 DEF Commit, calendarVars, Clear, Overlap
  <2> QED
    BY <2>11, <2>12, <2>13, <2>15
<1>6. CASE Close
  <2> DEFINE N == SpansAt(bundle, start)
  <2>1. \A x \in N : x.left \in Nat /\ x.right \in Nat /\ start <= x.left
    BY <1>a, SpanAfterStart
  <2>2. bundle \in Bundles
    BY <1>6 DEF Close, Cycles
  <2>3. \A k \in DOMAIN waitReady : waitReady[k] \subseteq Nat
    BY DEF Cycles
  <2>4. Release \in SUBSET Nat
    BY <1>a, <2>2, <2>3, PipelineAssumption DEF Release, Bundle
  <2>5. PICK r \in LatestOf(Release) : issue' = r
    BY <1>6 DEF Close
  <2>6. issue' \in Nat /\ start + bundle.cycles <= issue'
    BY <2>4, <2>5, LatestIsOne DEF Release
  <2>7. start <= issue'
    BY <1>a, <2>2, <2>6, PipelineAssumption DEF Bundle
  <2>8. InOrder'
    BY <1>6, <1>a, <2>6, <2>7 DEF Close, InOrder
  <2>9. \A h \in Held : h.until \in Nat
    <3>1. \A h \in All(bundle, "holds") : h.cycles \in Nat
      <4> SUFFICES ASSUME NEW k \in Positions(bundle),
                          NEW h \in bundle.ops[k]["holds"]
                   PROVE  h.cycles \in Nat
        BY DEF All
      <4>1. bundle.ops[k] \in Operation
        BY <2>2, PipelineAssumption DEF Bundle, Positions
      <4> QED
        BY <4>1 DEF Operation
    <3> QED
      BY <1>a, <3>1 DEF Held
  <2>10. \A c \in Counters : pending'[c] \subseteq pending[c]
    BY <1>6 DEF Close
  <2>11. Cycles'
    BY <1>6, <2>9, <2>10 DEF Close, Cycles
  <2>12. Retained' /\ BookedSpans'
    BY <1>6, <1>a, <1>b, <2>1 DEF Close, Retained, BookedSpans
  <2>13. ASSUME NEW x \in N, NEW y \in booked
         PROVE  ~Overlap(x, y) /\ ~Overlap(y, x)
    <3>1. CASE y \in calendars
      <4>1. ~Overlap(x, y)
        BY <1>6, <3>1 DEF Close, Clear
      <4> QED
        BY <4>1 DEF Overlap
    <3>2. CASE y.right <= start
      BY <3>2, <1>a, <1>b, <2>1 DEF Overlap
    <3> QED
      BY <3>1, <3>2 DEF Retained
  <2>14. ASSUME NEW x \in N, NEW y \in N, x # y
         PROVE  ~Overlap(x, y)
    BY <1>6, <1>a, <2>14, CoIssuedAnywhere DEF Close, Disjoint
  <2>15. booked' = booked \cup N
    BY <1>6 DEF Close
  <2>16. ExclusiveReservations'
    <3> HIDE DEF N
    <3> QED
      BY <2>13, <2>14, <2>15 DEF ExclusiveReservations, Overlap
  <2>17. (Disjoint /\ Clear)'
    BY <1>6 DEF Close, Disjoint, Clear
  <2> QED
    BY <2>8, <2>11, <2>12, <2>16, <2>17
<1>7. CASE Empty
  BY <1>7 DEF Empty, scalars, creditVars, calendarVars, InOrder, Cycles, Retained,
       Disjoint, Clear, BookedSpans, ExclusiveReservations, Overlap
<1>8. CASE Finish
  <2>1. \A c \in Counters : pending'[c] \subseteq pending[c]
    BY <1>8 DEF Finish
  <2> QED
    BY <1>8, <2>1 DEF Finish, scalars, calendarVars, InOrder, Cycles, Retained,
       Disjoint, Clear, BookedSpans, ExclusiveReservations, Overlap
<1>9. CASE UNCHANGED vars
  <2>1. SpansAt(bundle, start)' = SpansAt(bundle, start)
    BY <1>9 DEF vars, SpansAt, Positions
  <2> QED
    BY <1>9, <2>1 DEF vars, scalars, creditVars, calendarVars, InOrder, Cycles,
       Retained, Disjoint, Clear, BookedSpans, ExclusiveReservations, Overlap
<1> QED
  BY <1>1, <1>2, <1>3, <1>4, <1>5, <1>6, <1>7, <1>8, <1>9 DEF Next

(* On any path of any bundles, no resource is ever reserved twice for one
   cycle: the calendars, from which simulate drops what is over, are enough
   to decide it.                                                           *)
THEOREM ReservationsExclusive == Spec => []ExclusiveReservations
<1>1. IInv => ExclusiveReservations
  BY DEF IInv
<1> QED
  BY <1>1, InitInvariant, StepInvariant, PTL DEF Spec

----------------------------------------------------------------------------
(* A reservation that meets a booking still meets it from any later start
   before the one at which it is behind the booking.                       *)
LEMMA MeetsUntilBehind ==
  ASSUME NEW b \in Bundles \cup {NoBundle}, NEW s \in Nat, NEW t \in Nat, s <= t,
         NEW x \in SpansAt(b, s), NEW y, y.right \in Nat, y.left \in Nat,
         Overlap(x, y), t < s + (y.right - x.left)
  PROVE  \E z \in SpansAt(b, t) : Overlap(z, y)
<1> DEFINE At(k, r, c) ==
      [resource |-> r.resource, left |-> c + r.offset,
       right |-> c + r.offset + r.duration, id |-> <<visit, k>>]
<1>1. PICK k \in Positions(b) : \E r \in b.ops[k].spans :
        /\ r \in [resource : Resources, offset : Nat, duration : Nat \ {0}]
        /\ x = At(k, r, s)
  BY SpanIs
<1>2. PICK r \in b.ops[k].spans :
        /\ r \in [resource : Resources, offset : Nat, duration : Nat \ {0}]
        /\ x = At(k, r, s)
  BY <1>1
<1>3. At(k, r, t) \in SpansAt(b, t)
  <2>1. At(k, r, t) \in {At(k, u, t) : u \in b.ops[k].spans}
    OBVIOUS
  <2>2. {At(k, u, t) : u \in b.ops[k].spans}
          \in {{At(l, u, t) : u \in b.ops[l].spans} : l \in Positions(b)}
    OBVIOUS
  <2>3. SpansAt(b, t) =
          UNION {{At(l, u, t) : u \in b.ops[l].spans} : l \in Positions(b)}
    BY DEF SpansAt
  <2> QED
    BY <2>1, <2>2, <2>3
<1>4. r.offset \in Nat /\ r.duration \in Nat
  BY <1>2
<1>5. /\ r.resource = y.resource
      /\ s + r.offset < y.right /\ y.left < s + r.offset + r.duration
      /\ t < s + (y.right - (s + r.offset))
  BY <1>2 DEF Overlap
<1>6. t + r.offset < y.right /\ y.left < t + r.offset + r.duration
  BY <1>4, <1>5
<1>7. Overlap(At(k, r, t), y)
  BY <1>5, <1>6 DEF Overlap
<1> QED
  BY <1>3, <1>7

LEMMA InitEarliest == Init => EarliestIssue
  BY DEF Init, EarliestIssue

LEMMA StepEarliest == IInv /\ EarliestIssue /\ [Next]_vars => EarliestIssue'
<1> SUFFICES ASSUME IInv, EarliestIssue, [Next]_vars PROVE EarliestIssue'
  OBVIOUS
<1>a. /\ start \in Nat /\ issue \in Nat /\ floor \in Nat
      /\ bundle \in Bundles \cup {NoBundle}
  BY DEF IInv, InOrder
<1>b. \A x \in booked : x.left \in Nat /\ x.right \in Nat
  BY DEF IInv, BookedSpans
<1>1. ASSUME NEW b \in Bundles, NEW deps \in Dependencies, Refuse(b, deps)
      PROVE  EarliestIssue'
  BY <1>1 DEF Refuse, EarliestIssue
<1>2. ASSUME NEW b \in Bundles, NEW deps \in Dependencies, Fetch(b, deps)
      PROVE  EarliestIssue'
  <2>1. IInv'
    BY StepInvariant
  <2>2. stage' = "shift" /\ start' = floor'
    BY <1>2 DEF Fetch
  <2>3. floor' \in Nat
    BY <2>1 DEF IInv, InOrder
  <2>4. \A f \in Nat : \A t \in f..(f - 1) : FALSE
    OBVIOUS
  <2>5. \A t \in floor'..(start' - 1) : FALSE
    BY <2>2, <2>3, <2>4
  <2> QED
    BY <2>2, <2>5 DEF EarliestIssue
<1>3. CASE Shift
  <2>1. PICK s \in LatestOf(Pushes) : start' = s
    BY <1>3 DEF Shift
  <2>2. s \in Pushes
    BY <2>1 DEF LatestOf
  <2>3. PICK x \in SpansAt(bundle, start), y \in Pruned :
          s = start + (y.right - x.left) /\ Overlap(x, y)
    BY <2>2 DEF Pushes
  <2>4. x.left \in Nat
    BY <1>a, SpanAfterStart
  <2>5. y \in booked /\ y.right \in Nat /\ y.left \in Nat
    BY <1>b DEF Pruned, Retained, IInv
  <2>6. ASSUME NEW t \in floor..(s - 1)
        PROVE  Collides(t)
    <3>1. s \in Int /\ t \in Nat
      BY <1>a, <2>3, <2>4, <2>5
    <3>2. CASE t < start
      BY <3>2, <3>1, <1>a, <1>3 DEF EarliestIssue, Shift
    <3>3. CASE start <= t
      <4>1. \E z \in SpansAt(bundle, t) : Overlap(z, y)
        BY <3>1, <3>3, <1>a, <2>3, <2>4, <2>5, MeetsUntilBehind
      <4> QED
        BY <4>1, <2>5 DEF Collides
    <3> QED
      BY <3>1, <3>2, <3>3, <1>a
  <2>7. \A t : Collides(t)' <=> Collides(t)
    BY <1>3 DEF Shift, Collides, SpansAt, Positions, Overlap
  <2>8. floor' = floor /\ stage' = "shift"
    BY <1>3 DEF Shift
  <2> QED
    BY <2>1, <2>6, <2>7, <2>8 DEF EarliestIssue
<1>4. CASE Settle
  <2>1. IInv'
    BY StepInvariant
  <2>2. /\ stage' = "commit" /\ start' = start /\ floor' = floor
        /\ bundle' = bundle /\ visit' = visit /\ booked' = booked
    BY <1>4 DEF Settle
  <2>3. \A t : Collides(t)' <=> Collides(t)
    BY <2>2 DEF Collides, SpansAt, Positions, Overlap
  <2>4. \A t \in floor..(start - 1) : Collides(t)
    BY <1>4 DEF Settle, EarliestIssue
  <2>5. ASSUME NEW x \in SpansAt(bundle, start), NEW y \in booked
        PROVE  ~Overlap(x, y)
    <3>1. SpansAt(bundle, start)' = SpansAt(bundle, start)
      BY <2>2 DEF SpansAt, Positions
    <3>2. CASE y \in calendars'
      BY <3>1, <3>2, <2>1, <2>2 DEF IInv, Clear, Overlap
    <3>3. CASE y.right <= start
      <4>1. x.left \in Nat /\ start <= x.left
        BY <1>a, SpanAfterStart
      <4> QED
        BY <4>1, <3>3, <1>a, <1>b DEF Overlap
    <3> QED
      BY <3>2, <3>3, <2>1, <2>2 DEF IInv, Retained
  <2>6. ~Collides(start)
    BY <2>5 DEF Collides
  <2> QED
    BY <2>2, <2>3, <2>4, <2>6 DEF EarliestIssue
<1>5. CASE Commit
  <2>1. /\ stage' = stage /\ start' = start /\ floor' = floor
        /\ bundle' = bundle /\ visit' = visit /\ booked' = booked
    BY <1>5 DEF Commit, calendarVars
  <2> QED
    BY <2>1 DEF EarliestIssue, Collides, SpansAt, Positions, Overlap
<1>6. CASE Close
  BY <1>6 DEF Close, EarliestIssue
<1>7. CASE Empty
  BY <1>7 DEF Empty, EarliestIssue
<1>8. CASE Finish
  BY <1>8 DEF Finish, EarliestIssue
<1>9. CASE UNCHANGED vars
  BY <1>9 DEF vars, calendarVars, EarliestIssue, Collides, SpansAt, Positions, Overlap
<1> QED
  BY <1>1, <1>2, <1>3, <1>4, <1>5, <1>6, <1>7, <1>8, <1>9 DEF Next

(* The calendar loop, that jumps from conflict to conflict, finds what an
   exhaustive search finds: every earlier cycle meets a reservation, the one
   chosen meets none, those dropped from the calendars included.           *)
THEOREM IssuesEarliest == Spec => []EarliestIssue
  BY InitInvariant, StepInvariant, InitEarliest, StepEarliest, PTL DEF Spec

----------------------------------------------------------------------------
(* Credits.  Units as a sum over a finite set.                                       *)
Weights(S) == [p \in S |-> p.units]

LEMMA UnitsAreTotal ==
  ASSUME NEW S, IsFiniteSet(S)
  PROVE  Units(S) = Total(Weights(S), S)
<1> DEFINE Sums(f) == f = [s \in SUBSET S |->
                       IF s = {} THEN 0
                       ELSE (CHOOSE x \in s : TRUE).units + f[s \ {CHOOSE x \in s : TRUE}]]
           w == Weights(S)
<1>1. Units(S) = (CHOOSE f : Sums(f))[S]
  BY DEF Units, MapThenSumSet, MapThenFoldSet
<1>2. ASSUME NEW f
      PROVE  Sums(f) <=> Solves(f, w, S)
  <2>1. \A s \in SUBSET S : s # {} => w[Pick(s)] = Pick(s).units
    BY PickIsIn DEF Weights
  <2>2. ASSUME NEW s \in SUBSET S
        PROVE  Step(f, w, s) = IF s = {} THEN 0 ELSE Pick(s).units + f[s \ {Pick(s)}]
    BY <2>1 DEF Step
  <2>3. [s \in SUBSET S |-> Step(f, w, s)]
          = [s \in SUBSET S |-> IF s = {} THEN 0 ELSE Pick(s).units + f[s \ {Pick(s)}]]
    BY <2>2
  <2> QED BY <2>3 DEF Solves, Pick
<1>3. Sums(CHOOSE f : Sums(f))
  <2>1. \E f : Solves(f, w, S)
    BY SolutionExists
  <2> HIDE DEF Sums
  <2> QED BY <1>2, <2>1
<1> QED BY <1>1, <1>2, <1>3, TotalSolves

LEMMA UnitsInt ==
  ASSUME NEW S, IsFiniteSet(S), \A p \in S : p.units \in Int
  PROVE  Units(S) \in Int
<1>1. \A p \in S : Weights(S)[p] \in Int
  BY DEF Weights
<1> QED BY <1>1, UnitsAreTotal, TotalInt

LEMMA UnitsNat ==
  ASSUME NEW S, IsFiniteSet(S), \A p \in S : p.units \in Nat
  PROVE  Units(S) \in Nat
<1>1. \A p \in S : Weights(S)[p] \in Nat
  BY DEF Weights
<1> QED BY <1>1, UnitsAreTotal, TotalNat

LEMMA UnitsUnion ==
  ASSUME NEW S, NEW T, IsFiniteSet(S), IsFiniteSet(T), S \cap T = {},
         \A p \in S \cup T : p.units \in Nat
  PROVE  /\ Units(S \cup T) = Units(S) + Units(T)
         /\ Units(S) \in Nat /\ Units(T) \in Nat
<1> DEFINE w == Weights(S \cup T)
<1>1. IsFiniteSet(S \cup T)
  BY FS_Union
<1>2. \A p \in S \cup T : w[p] \in Int
  BY DEF Weights
<1>3. (\A p \in S : Weights(S)[p] = w[p]) /\ (\A p \in T : Weights(T)[p] = w[p])
  BY DEF Weights
<1> HIDE DEF w
<1>4. Units(S) = Total(w, S) /\ Units(T) = Total(w, T)
  BY <1>3, UnitsAreTotal, TotalSame
<1>5. Units(S \cup T) = Total(w, S \cup T)
  BY <1>1, UnitsAreTotal DEF w
<1> QED BY <1>2, <1>4, <1>5, TotalUnion, UnitsNat

LEMMA UnitsMonotone ==
  ASSUME NEW S, NEW T \in SUBSET S, IsFiniteSet(S), \A p \in S : p.units \in Nat
  PROVE  Units(T) <= Units(S)
<1> DEFINE V == S \ T
<1>1. IsFiniteSet(T) /\ IsFiniteSet(V) /\ T \cap V = {} /\ T \cup V = S
  BY FS_Subset
<1> HIDE DEF V
<1>2. Units(T \cup V) = Units(T) + Units(V) /\ Units(T) \in Nat /\ Units(V) \in Nat
  BY <1>1, UnitsUnion
<1>3. Units(S) = Units(T) + Units(V)
  BY <1>1, <1>2
<1> HIDE DEF V
<1> QED BY <1>2, <1>3

(* What a bundle writes is a number.                                       *)
LEMMA WrittenInt ==
  ASSUME bundle \in Bundles, NEW c \in Counters
  PROVE  Written(c) \in Int
<1> DEFINE U(k) == {u \in bundle.ops[k].updates : u.counter = c /\ ~u.late}
           S == Positions(bundle)
           w == [k \in S |-> Units(U(k))]
           Sums(f) == f = [s \in SUBSET S |->
                       IF s = {} THEN 0
                       ELSE Units(U(CHOOSE x \in s : TRUE)) + f[s \ {CHOOSE x \in s : TRUE}]]
<1>1. IsFiniteSet(S) /\ \A k \in S : bundle.ops[k] \in Operation
  <2>1. bundle.ops \in Seq(Operation)
    BY PipelineAssumption DEF Bundle
  <2>2. S = 1..Len(bundle.ops) /\ Len(bundle.ops) \in Nat
    BY <2>1 DEF Positions
  <2>3. IsFiniteSet(S)
    BY <2>2, FS_Interval
  <2>4. \A k \in S : bundle.ops[k] \in Operation
    BY <2>1, <2>2
  <2> QED BY <2>3, <2>4
<1>2. ASSUME NEW k \in S
      PROVE  w[k] \in Int
  <2>1. IsFiniteSet(U(k))
    BY PipelineAssumption, FS_Subset DEF Positions
  <2>2. \A u \in U(k) : u.units \in Int
    BY <1>1 DEF Operation
  <2> QED BY <2>1, <2>2, UnitsInt
<1>3. Written(c) = (CHOOSE f : Sums(f))[S]
  BY DEF Written, Units, MapThenSumSet, MapThenFoldSet
<1>4. ASSUME NEW f
      PROVE  Sums(f) <=> Solves(f, w, S)
  <2> HIDE DEF U, S
  <2>1. \A s \in SUBSET S : s # {} => w[Pick(s)] = Units(U(Pick(s)))
    BY PickIsIn
  <2> HIDE DEF w
  <2>2. ASSUME NEW s \in SUBSET S
        PROVE  Step(f, w, s) = IF s = {} THEN 0 ELSE Units(U(Pick(s))) + f[s \ {Pick(s)}]
    BY <2>1 DEF Step
  <2>3. [s \in SUBSET S |-> Step(f, w, s)]
          = [s \in SUBSET S |-> IF s = {} THEN 0 ELSE Units(U(Pick(s))) + f[s \ {Pick(s)}]]
    BY <2>2
  <2> QED BY <2>3 DEF Solves, Pick
<1>5. Sums(CHOOSE f : Sums(f))
  <2>1. \E f : Solves(f, w, S)
    BY <1>1, SolutionExists
  <2> HIDE DEF Sums, w
  <2> QED BY <1>4, <2>1
<1> HIDE DEF w, S
<1>6. Written(c) = Total(w, S)
  <2> HIDE DEF Sums
  <2> QED BY <1>1, <1>3, <1>4, <1>5, TotalSolves
<1> QED BY <1>1, <1>2, <1>6, TotalInt

(* The completions that are folded into a counter are over, the others are
   pending: whenever a counter is read, it is what the history says.        *)
Of(c) == {p \in finished : p.counter = c}
Folded(c) == Of(c) \ pending[c]

(* What a bundle reads lies at or after this cycle.                        *)
Present == IF stage = "fetch" THEN issue ELSE start

Completions ==
  /\ IsFiniteSet(finished) /\ finished \subseteq Completion
  /\ \A p \in finished : p.when <= resultEnd
  /\ \A p \in finished : p.id[1] <= visit /\ (p.id[1] = visit => p.id[2] <= op)
  /\ \A c \in Counters : pending[c] \subseteq Of(c)
  /\ stage \in {"fetch", "shift", "commit"} =>
       \A c \in Counters : \A p \in Folded(c) : p.when <= Present

Numbers ==
  /\ visit \in Nat /\ resultEnd \in Nat
  /\ credits \in [Counters -> Nat] /\ applied \in [Counters -> Int]
  /\ pending = [c \in Counters |-> pending[c]]

Balanced ==
  \A c \in Counters :
    credits[c] = InitialCredits[c] + applied[c] + Units(Folded(c))

Accounts == Completions /\ Numbers /\ Balanced

LEMMA CompletionFacts ==
  ASSUME Completions, NEW c \in Counters
  PROVE  /\ IsFiniteSet(Of(c)) /\ IsFiniteSet(pending[c]) /\ IsFiniteSet(Folded(c))
         /\ \A p \in Of(c) : p \in finished /\ p.when \in Nat /\ p.units \in Nat /\ p.counter = c
         /\ pending[c] \subseteq Of(c)
<1>1. Of(c) \subseteq finished /\ pending[c] \subseteq Of(c) /\ Folded(c) \subseteq Of(c)
  BY DEF Completions, Of, Folded
<1>2. \A p \in finished : p.when \in Nat /\ p.units \in Nat
  BY DEF Completions, Completion
<1>3. IsFiniteSet(Of(c))
  BY <1>1, FS_Subset DEF Completions
<1> QED BY <1>1, <1>2, <1>3, FS_Subset DEF Of

LEMMA CreditMonotone ==
  ASSUME Completions, Numbers, NEW c \in Counters, NEW t \in Nat, NEW u \in Nat, t <= u
  PROVE  /\ CreditAt(c, t) \in Nat /\ CreditAt(c, u) \in Nat
         /\ CreditAt(c, t) <= CreditAt(c, u)
         /\ credits[c] <= CreditAt(c, t)
<1>1. /\ Due(c, t) \subseteq Due(c, u) /\ Due(c, u) \subseteq pending[c]
      /\ \A p \in pending[c] : p.when \in Nat /\ p.units \in Nat
  BY CompletionFacts DEF Due
<1>2. IsFiniteSet(Due(c, u)) /\ IsFiniteSet(Due(c, t))
  BY <1>1, CompletionFacts, FS_Subset
<1>3. Units(Due(c, t)) \in Nat /\ Units(Due(c, u)) \in Nat
  BY <1>1, <1>2, UnitsNat
<1>4. Units(Due(c, t)) <= Units(Due(c, u))
  BY <1>1, <1>2, UnitsMonotone
<1>5. credits[c] \in Nat
  BY DEF Numbers
<1> QED BY <1>3, <1>4, <1>5 DEF CreditAt

(* Reading a counter at a cycle at which all that is folded in is over.     *)
LEMMA CreditIs ==
  ASSUME Accounts, NEW c \in Counters, NEW t \in Nat, \A p \in Folded(c) : p.when <= t
  PROVE  /\ CreditAt(c, t) = Available(c, t)
         /\ Folded(c) \cup Due(c, t) = {p \in finished : p.counter = c /\ p.when <= t}
         /\ CreditAt(c, t)
              = InitialCredits[c] + applied[c] + Units(Folded(c) \cup Due(c, t))
         /\ CreditAt(c, t) \in Nat
<1>1. /\ IsFiniteSet(pending[c]) /\ IsFiniteSet(Folded(c)) /\ pending[c] \subseteq Of(c)
      /\ \A p \in Of(c) : p.units \in Nat
  BY CompletionFacts DEF Accounts
<1>2. IsFiniteSet(Due(c, t)) /\ Due(c, t) \subseteq pending[c]
  BY <1>1, FS_Subset DEF Due
<1>3. Folded(c) \cap Due(c, t) = {}
  BY <1>2 DEF Folded
<1>4. \A p \in Folded(c) \cup Due(c, t) : p.units \in Nat
  BY <1>1, <1>2 DEF Folded
<1>5. /\ Units(Folded(c) \cup Due(c, t)) = Units(Folded(c)) + Units(Due(c, t))
      /\ Units(Folded(c)) \in Nat /\ Units(Due(c, t)) \in Nat
  BY <1>1, <1>2, <1>3, <1>4, UnitsUnion
<1>6. Folded(c) \cup Due(c, t) = {p \in finished : p.counter = c /\ p.when <= t}
  BY <1>1 DEF Folded, Of, Due
<1>7. /\ credits[c] \in Nat /\ applied[c] \in Int /\ InitialCredits[c] \in Nat
      /\ credits[c] = InitialCredits[c] + applied[c] + Units(Folded(c))
  BY PipelineAssumption DEF Accounts, Numbers, Balanced
<1>8. CreditAt(c, t) = credits[c] + Units(Due(c, t))
  BY DEF CreditAt
<1>9. Available(c, t) = InitialCredits[c] + applied[c] + Units(Folded(c) \cup Due(c, t))
  BY <1>6 DEF Available
<1> QED BY <1>5, <1>6, <1>7, <1>8, <1>9

(* The first instant from s on at which a wait is satisfied.                *)
FirstFrom(w, s) ==
  EarliestOf({t \in {s} \cup {p.when : p \in finished} :
                t >= s /\ Available(w.counter, t) >= w.units})

LEMMA SatisfiedIsFirst ==
  ASSUME Accounts, NEW w, w.counter \in Counters, w.units \in Nat, NEW s \in Nat,
         \A p \in Folded(w.counter) : p.when <= s
  PROVE  SatisfiedAt(w, s) = FirstFrom(w, s)
<1> DEFINE c == w.counter
           Enough(t) == CreditAt(c, t) >= w.units
           From == {t \in {s} \cup {p.when : p \in finished} : t >= s /\ Available(c, t) >= w.units}
           Known == {p.when : p \in {p \in pending[c] : Enough(p.when)}}
<1>1. /\ \A p \in finished : p.when \in Nat
      /\ \A p \in pending[c] : p \in finished /\ p.counter = c
      /\ IsFiniteSet(pending[c])
  BY CompletionFacts DEF Accounts, Completions, Completion
<1>2. ASSUME NEW t \in Nat, NEW u \in Nat, t <= u
      PROVE  CreditAt(c, t) \in Nat /\ CreditAt(c, u) \in Nat /\ CreditAt(c, t) <= CreditAt(c, u)
  BY <1>2, CreditMonotone DEF Accounts
<1>3. \A t \in Nat : t >= s => CreditAt(c, t) = Available(c, t)
  <2> SUFFICES ASSUME NEW t \in Nat, t >= s PROVE CreditAt(c, t) = Available(c, t)
    OBVIOUS
  <2>1. \A p \in Folded(c) : p.when <= t
    BY <1>1 DEF Folded, Of
  <2> QED BY <2>1, CreditIs
<1>4. \A t \in From : t \in Nat /\ t >= s /\ Enough(t)
  BY <1>1, <1>3
<1>5. CASE Enough(s)
  <2>1. s \in From
    BY <1>3, <1>5
  <2> HIDE DEF From
  <2>2. EarliestOf(From) = {s}
    <3>1. \A t \in From : t \in Nat /\ s <= t
      BY <1>4
    <3>2. s \in EarliestOf(From)
      BY <2>1, <3>1 DEF EarliestOf
    <3>3. \A t \in EarliestOf(From) : t \in From /\ t <= s
      BY <2>1 DEF EarliestOf
    <3>4. ASSUME NEW t \in EarliestOf(From) PROVE t = s
      BY <3>1, <3>3
    <3> QED BY <3>2, <3>4
  <2>3. SatisfiedAt(w, s) = {s}
    BY <1>5 DEF SatisfiedAt
  <2>4. FirstFrom(w, s) = EarliestOf(From)
    BY DEF FirstFrom, From
  <2> QED BY <2>2, <2>3, <2>4
<1>6. CASE ~Enough(s)
  <2>1. ASSUME NEW t \in From
        PROVE  \E m \in Known : m <= t
    <3> DEFINE D == Due(c, t)
               when == [p \in D |-> p.when]
    <3>1. t \in Nat /\ Enough(t) /\ t >= s
      BY <1>4, <2>1
    <3>2. D \subseteq pending[c] /\ IsFiniteSet(D)
      BY <1>1, FS_Subset DEF Due
    <3>3. PICK q \in D : s < q.when
      <4> SUFFICES ASSUME \A q \in D : ~(s < q.when) PROVE FALSE
        OBVIOUS
      <4>1. Due(c, t) = Due(c, s)
        BY <1>1, <3>1 DEF Due
      <4> QED BY <1>6, <3>1, <4>1 DEF CreditAt
    <3>4. \A p \in D : when[p] = p.when /\ p.when \in Nat /\ p.when <= t /\ p \in pending[c]
      BY <1>1, <3>2 DEF Due
    <3> HIDE DEF when
    <3>5. PICK m \in D : \A p \in D : p.when <= m.when
      <4>1. PICK m \in D : \A p \in D : when[p] <= when[m]
        BY <3>2, <3>3, <3>4, HeaviestExists
      <4> QED BY <3>4, <4>1
    <3>6. m.when \in Nat /\ s < m.when /\ m.when <= t
      BY <3>3, <3>4, <3>5
    <3>7. Due(c, m.when) = Due(c, t)
      <4>1. \A p \in pending[c] : p.when \in Nat /\ (p.when <= t => p.when <= m.when)
        BY <1>1, <3>5 DEF Due
      <4> QED BY <3>1, <3>6, <4>1 DEF Due
    <3>8. Enough(m.when)
      BY <3>1, <3>7 DEF CreditAt
    <3> QED BY <3>4, <3>6, <3>8
  <2>2. ASSUME NEW m \in Known
        PROVE  m \in From
    <3>1. PICK p \in pending[c] : m = p.when /\ Enough(m)
      BY <2>2
    <3>2. m \in Nat /\ p \in finished
      BY <1>1, <3>1
    <3>3. m >= s
      <4> SUFFICES ASSUME ~(m >= s) PROVE FALSE
        OBVIOUS
      <4>1. CreditAt(c, m) \in Nat /\ CreditAt(c, s) \in Nat /\ CreditAt(c, m) <= CreditAt(c, s)
        BY <1>2, <3>2
      <4> QED BY <1>6, <3>1, <4>1
    <3> QED BY <1>3, <3>1, <3>2, <3>3
  <2> HIDE DEF From, Known
  <2>3. EarliestOf(Known) = EarliestOf(From)
    BY <1>4, <2>1, <2>2 DEF EarliestOf
  <2>4. SatisfiedAt(w, s) = EarliestOf(Known)
    BY <1>6 DEF SatisfiedAt, Known
  <2> QED BY <2>3, <2>4 DEF FirstFrom, From
<1> QED BY <1>5, <1>6

LEMMA OperationIs ==
  ASSUME NEW b \in Bundles, NEW k \in Positions(b)
  PROVE  /\ b.ops[k] \in Operation /\ IsFiniteSet(b.ops[k].updates)
         /\ \A u \in b.ops[k].updates : u.late => u.units \in Nat
         /\ b.cycles \in Nat
<1>1. b.ops \in Seq(Operation) /\ b.cycles \in Nat
  BY PipelineAssumption DEF Bundle
<1>2. b.ops[k] \in Operation
  BY <1>1 DEF Positions
<1> QED BY <1>1, <1>2, PipelineAssumption DEF Positions

(* Where a fetched bundle starts, and what it reads there.                 *)
LEMMA FetchEffect ==
  ASSUME IInv, NEW b \in Bundles, NEW deps \in Dependencies, Fetch(b, deps)
  PROVE  \E s \in Nat :
           /\ issue <= s /\ start' = s /\ floor' = s
           /\ waitReady' = [k \in Positions(b) |->
                {s, b.ops[k].waitUntil}
                  \cup UNION {SatisfiedAt(w, s) : w \in b.ops[k].waits}]
           /\ gaps' = (gaps \/ \E w \in All(b, "waits") : SatisfiedAt(w, s) = {})
           /\ \A c \in Counters :
                \/ credits'[c] = credits[c] /\ pending'[c] = pending[c]
                \/ credits'[c] = CreditAt(c, s) /\ pending'[c] = pending[c] \ Due(c, s)
           /\ pending' = [c \in Counters |-> pending'[c]]
           /\ credits' = [c \in Counters |-> credits'[c]]
<1> DEFINE S == {issue} \cup {ready[d] : d \in deps}
                         \cup {h.until : h \in {h \in holds :
                                 h.resource \in All(b, "checks")}}
           read == {w.counter : w \in All(b, "waits")}
<1>1. S \in SUBSET Nat
  <2>1. deps \subseteq DOMAIN ready
    BY DEF Fetch, Accepted, MissingProducer
  <2> QED BY <2>1 DEF IInv, InOrder, Cycles
<1>2. PICK s \in LatestOf(S) :
        /\ start' = s /\ floor' = s
        /\ waitReady' = [k \in Positions(b) |->
             {s, b.ops[k].waitUntil}
               \cup UNION {SatisfiedAt(w, s) : w \in b.ops[k].waits}]
        /\ gaps' = (gaps \/ \E w \in All(b, "waits") : SatisfiedAt(w, s) = {})
        /\ credits' = [c \in Counters |->
             IF c \in read THEN CreditAt(c, s) ELSE credits[c]]
        /\ pending' = [c \in Counters |->
             IF c \in read THEN pending[c] \ Due(c, s) ELSE pending[c]]
  BY DEF Fetch
<1>3. s \in Nat /\ \A u \in S : u <= s
  <2> HIDE DEF S
  <2> QED BY <1>1, <1>2, LatestIsOne
<1>4. issue <= s
  BY <1>3
<1> HIDE DEF S, read
<1>5. /\ \A c \in Counters :
           \/ credits'[c] = credits[c] /\ pending'[c] = pending[c]
           \/ credits'[c] = CreditAt(c, s) /\ pending'[c] = pending[c] \ Due(c, s)
      /\ pending' = [c \in Counters |-> pending'[c]]
      /\ credits' = [c \in Counters |-> credits'[c]]
  BY <1>2
<1> QED BY <1>2, <1>3, <1>4, <1>5

(* When a committed operation is done, and what it leaves in flight.       *)
Late(o, id, done) ==
  {[when |-> done, units |-> u.units, id |-> id, counter |-> u.counter] :
     u \in {u \in o.updates : u.late}}

LEMMA CommitEffect ==
  ASSUME IInv, Commit
  PROVE  /\ bundle \in Bundles /\ op \in Nat /\ op + 1 \in Positions(bundle)
         /\ \E done \in Nat :
              /\ ready' = [i \in DOMAIN ready \cup {<<visit, op + 1>>} |->
                   IF i = <<visit, op + 1>> THEN done ELSE ready[i]]
              /\ serviceReady' = [s \in Services |->
                   IF s = bundle.ops[op + 1].service THEN done ELSE serviceReady[s]]
              /\ pending' = [c \in Counters |-> pending[c] \cup
                   {p \in Late(bundle.ops[op + 1], <<visit, op + 1>>, done) : p.counter = c}]
              /\ finished' = finished \cup Late(bundle.ops[op + 1], <<visit, op + 1>>, done)
              /\ resultEnd' \in LatestOf({resultEnd, done})
<1> DEFINE o == bundle.ops[op + 1]
           id == <<visit, op + 1>>
           queue == {serviceReady[s] : s \in {o.service} \cap Services}
           Done(done) ==
             /\ ready' = [i \in DOMAIN ready \cup {id} |-> IF i = id THEN done ELSE ready[i]]
             /\ serviceReady' = [s \in Services |->
                  IF s = o.service THEN done ELSE serviceReady[s]]
             /\ pending' = [c \in Counters |->
                  pending[c] \cup {p \in Late(o, id, done) : p.counter = c}]
             /\ finished' = finished \cup Late(o, id, done)
             /\ \E e \in LatestOf({resultEnd, done}) : resultEnd' = e
<1>1. bundle \in Bundles /\ op \in Nat /\ start \in Nat /\ DOMAIN waitReady = Positions(bundle)
  BY DEF Commit, IInv, InOrder, Cycles
<1>2. op + 1 \in Positions(bundle)
  <2>1. bundle.ops \in Seq(Operation)
    BY <1>1, PipelineAssumption DEF Bundle
  <2> QED BY <1>1, <2>1 DEF Commit, Positions
<1>3. o.latency \in Nat
  BY <1>1, <1>2, OperationIs DEF Operation
<1>4. PICK begin \in LatestOf({start} \cup queue) :
        \E done \in LatestOf({begin + o.latency} \cup waitReady[op + 1]) : Done(done)
  BY DEF Commit, Late
<1>5. PICK done \in LatestOf({begin + o.latency} \cup waitReady[op + 1]) : Done(done)
  BY <1>4
<1>6. begin \in Nat
  <2>1. {start} \cup queue \in SUBSET Nat
    BY <1>1 DEF IInv, Cycles
  <2> HIDE DEF queue, o
  <2> QED BY <1>4, <2>1, LatestIsOne
<1>7. done \in Nat
  <2>1. {begin + o.latency} \cup waitReady[op + 1] \in SUBSET Nat
    BY <1>1, <1>2, <1>3, <1>6 DEF IInv, Cycles
  <2> QED BY <1>5, <2>1, LatestIsOne
<1> QED BY <1>1, <1>2, <1>5, <1>7

LEMMA CloseEffect ==
  ASSUME IInv, Close
  PROVE  bundle \in Bundles /\ start \in Nat /\ issue' \in Nat /\ start <= issue'
<1>1. bundle \in Bundles /\ start \in Nat
  BY DEF Close, IInv, InOrder, Cycles
<1>2. bundle.cycles \in Nat
  BY <1>1, PipelineAssumption DEF Bundle
<1>3. Release \in SUBSET Nat
  BY <1>1, <1>2 DEF Release, IInv, Cycles
<1>4. PICK r \in LatestOf(Release) : issue' = r
  BY DEF Close
<1>5. r \in Nat /\ start + bundle.cycles <= r
  BY <1>3, <1>4, LatestIsOne DEF Release
<1> QED BY <1>1, <1>2, <1>4, <1>5

(* Folding what is due into a counter.                                     *)
LEMMA FoldDue ==
  ASSUME Completions, NEW c \in Counters, NEW t, finished' = finished,
         pending'[c] = pending[c] \ Due(c, t)
  PROVE  Of(c)' = Of(c) /\ Folded(c)' = Folded(c) \cup Due(c, t) /\ pending'[c] \subseteq Of(c)'
  BY DEF Completions, Of, Folded, Due

LEMMA ShiftEffect ==
  ASSUME IInv, Shift
  PROVE  start' \in Nat /\ start <= start'
<1>1. PICK s \in LatestOf(Pushes) : start' = s
  BY DEF Shift
<1>2. s \in Pushes
  BY <1>1 DEF LatestOf
<1>3. PICK x \in SpansAt(bundle, start), y \in Pruned :
        s = start + (y.right - x.left) /\ Overlap(x, y)
  BY <1>2 DEF Pushes
<1>4. start \in Nat /\ bundle \in Bundles \cup {NoBundle}
  BY DEF IInv, InOrder
<1>5. x.left \in Nat
  BY <1>4, SpanAfterStart
<1>6. y.right \in Nat
  BY DEF Pruned, IInv, Retained, BookedSpans
<1> QED BY <1>1, <1>3, <1>4, <1>5, <1>6 DEF Overlap

LEMMA AccountsInit == Init => Accounts
<1> SUFFICES ASSUME Init PROVE Accounts
  OBVIOUS
<1>1. /\ finished = {} /\ \A c \in Counters : pending[c] = {} /\ credits[c] = InitialCredits[c]
      /\ \A c \in Counters : applied[c] = 0
      /\ InitialCredits \in [Counters -> Nat]
  BY PipelineAssumption DEF Init
<1>2. Completions
  BY <1>1, FS_EmptySet DEF Completions, Of, Folded
<1>3. Numbers
  BY <1>1 DEF Init, Numbers
<1>4. ASSUME NEW c \in Counters
      PROVE  credits[c] = InitialCredits[c] + applied[c] + Units(Folded(c))
  <2>1. Folded(c) = {}
    BY <1>1 DEF Folded, Of
  <2>2. Units({}) = 0
    BY UnitsAreTotal, TotalEmpty, FS_EmptySet
  <2> QED BY <1>1, <2>1, <2>2
<1> QED BY <1>2, <1>3, <1>4 DEF Accounts, Balanced

(* The accounts are left alone.                                            *)
LEMMA AccountsKept ==
  ASSUME Accounts, UNCHANGED <<visit, op, creditVars, resultEnd>>,
         \/ stage' \notin {"fetch", "shift", "commit"}
         \/ /\ stage \in {"fetch", "shift", "commit"} /\ Present \in Nat
            /\ Present' \in Nat /\ Present <= Present'
  PROVE  Accounts'
<1>1. \A c \in Counters : Of(c)' = Of(c) /\ Folded(c)' = Folded(c)
  BY DEF Of, Folded, creditVars
<1>2. Numbers' /\ Balanced'
  BY <1>1 DEF Accounts, Numbers, Balanced, creditVars
<1>3. \A c \in Counters : \A p \in Folded(c) : p.when \in Nat
  BY CompletionFacts DEF Accounts, Folded
<1>4. Completions'
  BY <1>1, <1>3 DEF Accounts, Completions, creditVars
<1> QED BY <1>2, <1>4 DEF Accounts

LEMMA FetchAccounts ==
  ASSUME IInv, Accounts, NEW b \in Bundles, NEW deps \in Dependencies, Fetch(b, deps)
  PROVE  Accounts'
<1>1. PICK s \in Nat :
        /\ issue <= s /\ start' = s
        /\ \A c \in Counters :
             \/ credits'[c] = credits[c] /\ pending'[c] = pending[c]
             \/ credits'[c] = CreditAt(c, s) /\ pending'[c] = pending[c] \ Due(c, s)
        /\ pending' = [c \in Counters |-> pending'[c]]
        /\ credits' = [c \in Counters |-> credits'[c]]
  BY FetchEffect
<1>2. /\ UNCHANGED <<applied, finished, resultEnd>>
      /\ stage = "fetch" /\ stage' = "shift" /\ visit' = visit + 1 /\ op' = 0
  BY DEF Fetch
<1>3. Completions /\ Numbers /\ visit \in Nat /\ issue \in Nat
  BY DEF Accounts, Numbers, IInv, InOrder
<1>4. \A c \in Counters : \A p \in Of(c) : p.when \in Nat
  BY <1>3, CompletionFacts
<1>5. ASSUME NEW c \in Counters
      PROVE  /\ Of(c)' = Of(c) /\ pending'[c] \subseteq Of(c)
             /\ \A p \in Folded(c)' : p.when <= s
             /\ credits'[c] \in Nat
             /\ credits'[c] = InitialCredits[c] + applied'[c] + Units(Folded(c)')
  <2>0. \A p \in Folded(c) : p.when <= s
    BY <1>1, <1>2, <1>3, <1>4 DEF Completions, Folded, Present
  <2>1. CASE credits'[c] = credits[c] /\ pending'[c] = pending[c]
    <3>1. Of(c)' = Of(c) /\ Folded(c)' = Folded(c)
      BY <1>2, <2>1 DEF Of, Folded
    <3> QED BY <1>2, <1>3, <2>0, <2>1, <3>1 DEF Accounts, Balanced, Numbers, Completions
  <2>2. CASE credits'[c] = CreditAt(c, s) /\ pending'[c] = pending[c] \ Due(c, s)
    <3>1. Of(c)' = Of(c) /\ Folded(c)' = Folded(c) \cup Due(c, s) /\ pending'[c] \subseteq Of(c)
      BY <1>2, <1>3, <2>2, FoldDue
    <3>2. /\ CreditAt(c, s) = InitialCredits[c] + applied[c] + Units(Folded(c) \cup Due(c, s))
          /\ CreditAt(c, s) \in Nat
      BY <2>0, CreditIs
    <3>3. \A p \in Folded(c) \cup Due(c, s) : p.when <= s
      BY <2>0 DEF Due
    <3> QED BY <1>2, <2>2, <3>1, <3>2, <3>3
  <2> QED BY <1>1, <2>1, <2>2
<1>6. Completions'
  <2>1. \A p \in finished : p.id[1] <= visit' /\ (p.id[1] = visit' => p.id[2] <= op')
    <3>1. \A p \in finished : p.id[1] \in Nat /\ p.id[1] <= visit
      BY <1>3 DEF Completions, Completion
    <3> QED BY <1>2, <1>3, <3>1
  <2>2. Present' = s
    BY <1>1, <1>2 DEF Present
  <2> QED BY <1>2, <1>3, <1>5, <2>1, <2>2 DEF Completions
<1>7. Numbers'
  <2>1. credits' \in [Counters -> Nat]
    BY <1>1, <1>5
  <2>2. applied' \in [Counters -> Int] /\ visit' \in Nat /\ resultEnd' \in Nat
    BY <1>2, <1>3 DEF Numbers
  <2> QED BY <1>1, <2>1, <2>2 DEF Numbers
<1> QED BY <1>5, <1>6, <1>7 DEF Accounts, Balanced

LEMMA CommitAccounts ==
  ASSUME IInv, Accounts, Commit
  PROVE  Accounts'
<1> DEFINE o == bundle.ops[op + 1]
           id == <<visit, op + 1>>
<1>1. PICK done \in Nat :
        /\ pending' = [c \in Counters |-> pending[c] \cup {p \in Late(o, id, done) : p.counter = c}]
        /\ finished' = finished \cup Late(o, id, done)
        /\ resultEnd' \in LatestOf({resultEnd, done})
  BY CommitEffect
<1> DEFINE L == Late(o, id, done)
<1>2. /\ op \in Nat /\ visit \in Nat /\ start \in Nat /\ resultEnd \in Nat
      /\ o \in Operation /\ IsFiniteSet(o.updates)
      /\ \A u \in o.updates : u.late => u.units \in Nat
  BY CommitEffect, OperationIs DEF Accounts, Numbers, IInv, InOrder
<1>3. /\ UNCHANGED <<stage, visit, start, credits, applied>> /\ stage = "commit" /\ op' = op + 1
  BY DEF Commit
<1> HIDE DEF o
<1>4. IsFiniteSet(L)
  <2> DEFINE S == {u \in o.updates : u.late}
             f == [u \in S |-> [when |-> done, units |-> u.units, id |-> id, counter |-> u.counter]]
  <2>1. IsFiniteSet(S)
    BY <1>2, FS_Subset
  <2>2. f \in Surjection(S, L)
    BY DEF Surjection, Late
  <2> HIDE DEF S, f, L
  <2> QED BY <2>1, <2>2, FS_Surjection
<1>5. \A p \in L : /\ p \in Completion /\ p.when = done /\ p.id = id /\ p.counter \in Counters
  <2>1. \A u \in o.updates : u.counter \in Counters
    BY <1>2 DEF Operation
  <2> QED BY <1>2, <2>1 DEF Late, Completion
<1>6. resultEnd' \in Nat /\ resultEnd <= resultEnd' /\ done <= resultEnd'
  BY <1>1, <1>2 DEF LatestOf
<1>7. /\ Completions
      /\ \A p \in finished : p.id[1] \in Nat /\ p.id[2] \in Nat /\ p.when \in Nat
  BY DEF Accounts, Completions, Completion
<1>8. L \cap finished = {}
  <2>1. \A p \in L : p.id[1] = visit /\ p.id[2] = op + 1
    BY <1>5
  <2>2. \A p \in finished : ~(p.id[1] = visit /\ p.id[2] = op + 1)
    BY <1>2, <1>7 DEF Completions
  <2> QED BY <2>1, <2>2
<1> HIDE DEF L
<1>9. ASSUME NEW c \in Counters
      PROVE  pending'[c] \subseteq Of(c)' /\ Folded(c)' = Folded(c)
  <2>1. pending'[c] = pending[c] \cup {p \in L : p.counter = c}
    BY <1>1 DEF L
  <2>2. Of(c)' = Of(c) \cup {p \in L : p.counter = c}
    BY <1>1 DEF Of, L
  <2>3. pending[c] \subseteq Of(c) /\ Of(c) \subseteq finished
    BY <1>7, CompletionFacts
  <2> QED BY <1>8, <2>1, <2>2, <2>3 DEF Folded
<1>10. Completions'
  <2>1. IsFiniteSet(finished') /\ finished' \subseteq Completion
    BY <1>1, <1>4, <1>5, <1>7, FS_Union DEF Completions, L
  <2>2. \A p \in finished' : p.when <= resultEnd'
    BY <1>1, <1>2, <1>5, <1>6, <1>7 DEF Completions, L
  <2>3. \A p \in finished' : p.id[1] <= visit' /\ (p.id[1] = visit' => p.id[2] <= op')
    <3>1. \A p \in finished : p.id[1] <= visit' /\ (p.id[1] = visit' => p.id[2] <= op')
      BY <1>2, <1>3, <1>7 DEF Completions
    <3>2. \A p \in L : p.id[1] = visit /\ p.id[2] = op + 1
      BY <1>5
    <3>3. \A p \in finished' : p \in finished \/ p \in L
      BY <1>1 DEF L
    <3> QED BY <1>2, <1>3, <3>1, <3>2, <3>3
  <2>4. Present' = start /\ Present = start
    BY <1>3 DEF Present
  <2> QED BY <1>3, <1>7, <1>9, <2>1, <2>2, <2>3, <2>4 DEF Completions
<1>11. Numbers'
  BY <1>1, <1>2, <1>3, <1>6 DEF Accounts, Numbers
<1>12. Balanced'
  BY <1>3, <1>9 DEF Accounts, Balanced
<1> QED BY <1>10, <1>11, <1>12 DEF Accounts

LEMMA CloseAccounts ==
  ASSUME IInv, Accounts, Close
  PROVE  Accounts'
<1>1. /\ bundle \in Bundles /\ start \in Nat /\ issue' \in Nat /\ start <= issue'
      /\ Completions /\ Numbers
  BY CloseEffect DEF Accounts
<1>2. /\ UNCHANGED <<visit, op, finished>> /\ stage = "commit" /\ stage' = "fetch"
      /\ credits' = [c \in Counters |->
           IF c \notin WrittenCounters THEN credits[c]
           ELSE CreditAt(c, start) + (IF Underflows(c) THEN 0 ELSE Written(c))]
      /\ pending' = [c \in Counters |->
           IF c \in WrittenCounters THEN pending[c] \ Due(c, start) ELSE pending[c]]
      /\ applied' = [c \in Counters |->
           IF c \in WrittenCounters /\ ~Underflows(c) THEN applied[c] + Written(c) ELSE applied[c]]
  BY DEF Close
<1>3. resultEnd' \in Nat /\ resultEnd <= resultEnd'
  <2> DEFINE S == {resultEnd} \cup {x.right : x \in SpansAt(bundle, start)} \cup {h.until : h \in Held}
  <2>1. resultEnd' \in LatestOf(S)
    BY DEF Close
  <2>2. \A x \in SpansAt(bundle, start) : x.right \in Nat
    BY <1>1, SpanAfterStart
  <2>3. \A h \in Held : h.until \in Nat
    <3>1. \A h \in All(bundle, "holds") : h.cycles \in Nat
      <4> SUFFICES ASSUME NEW k \in Positions(bundle), NEW h \in bundle.ops[k]["holds"]
                   PROVE  h.cycles \in Nat
        BY DEF All
      <4> QED BY <1>1, OperationIs DEF Operation
    <3> QED BY <1>1, <3>1 DEF Held
  <2>4. S \in SUBSET Nat
    BY <1>1, <2>2, <2>3 DEF Numbers
  <2> QED BY <2>1, <2>4 DEF LatestOf
<1>4. ASSUME NEW c \in Counters
      PROVE  /\ Of(c)' = Of(c) /\ pending'[c] \subseteq Of(c)
             /\ \A p \in Folded(c)' : p.when <= start
             /\ credits'[c] \in Nat /\ applied'[c] \in Int
             /\ credits'[c] = InitialCredits[c] + applied'[c] + Units(Folded(c)')
  <2>0. /\ \A p \in Folded(c) : p.when <= start
        /\ applied[c] \in Int /\ credits[c] \in Nat /\ InitialCredits[c] \in Nat
    BY <1>1, <1>2, PipelineAssumption DEF Completions, Present, Numbers
  <2>1. CASE c \notin WrittenCounters
    <3>1. credits'[c] = credits[c] /\ applied'[c] = applied[c] /\ pending'[c] = pending[c]
      BY <1>2, <2>1
    <3>2. Of(c)' = Of(c) /\ Folded(c)' = Folded(c)
      BY <1>2, <3>1 DEF Of, Folded
    <3> QED BY <1>1, <2>0, <3>1, <3>2 DEF Accounts, Balanced, Completions
  <2>2. CASE c \in WrittenCounters
    <3>1. pending'[c] = pending[c] \ Due(c, start)
      BY <1>2, <2>2
    <3>2. Of(c)' = Of(c) /\ Folded(c)' = Folded(c) \cup Due(c, start) /\ pending'[c] \subseteq Of(c)
      BY <1>1, <1>2, <3>1, FoldDue
    <3>3. /\ CreditAt(c, start) = InitialCredits[c] + applied[c] + Units(Folded(c) \cup Due(c, start))
          /\ CreditAt(c, start) \in Nat
      BY <1>1, <2>0, CreditIs
    <3>4. \A p \in Folded(c)' : p.when <= start
      BY <2>0, <3>2 DEF Due
    <3>5. IsFiniteSet(Folded(c)') /\ \A p \in Folded(c)' : p.units \in Nat
      <4>1. Folded(c)' \subseteq Of(c)
        BY <3>2 DEF Folded
      <4> QED BY <1>1, <4>1, CompletionFacts, FS_Subset
    <3>6. Units(Folded(c)') \in Nat
      BY <3>5, UnitsNat
    <3>7. Written(c) \in Int
      BY <1>1, WrittenInt
    <3>8. CASE Underflows(c)
      <4>1. credits'[c] = CreditAt(c, start) /\ applied'[c] = applied[c]
        BY <1>2, <2>2, <3>3, <3>8
      <4> QED BY <2>0, <3>2, <3>3, <3>4, <4>1
    <3>9. CASE ~Underflows(c)
      <4>1. credits'[c] = CreditAt(c, start) + Written(c) /\ applied'[c] = applied[c] + Written(c)
        BY <1>2, <2>2, <3>9
      <4>2. CreditAt(c, start) + Written(c) >= 0
        BY <3>3, <3>7, <3>9 DEF Underflows
      <4>3. CreditAt(c, start) = InitialCredits[c] + applied[c] + Units(Folded(c)')
        BY <3>2, <3>3
      <4>4. credits'[c] \in Nat /\ applied'[c] \in Int
        BY <2>0, <3>3, <3>7, <4>1, <4>2
      <4>5. credits'[c] = InitialCredits[c] + applied'[c] + Units(Folded(c)')
        BY <2>0, <3>6, <3>7, <4>1, <4>3
      <4> QED BY <3>2, <3>4, <4>4, <4>5
    <3> QED BY <3>8, <3>9
  <2> QED BY <2>1, <2>2
<1>5. Completions'
  <2>1. \A c \in Counters : \A p \in Folded(c)' : p.when <= issue'
    <3> SUFFICES ASSUME NEW c \in Counters, NEW p \in Folded(c)' PROVE p.when <= issue'
      OBVIOUS
    <3>1. p \in Of(c)
      BY <1>4 DEF Folded
    <3>2. p.when \in Nat /\ p.when <= start
      BY <1>1, <1>4, <3>1, CompletionFacts
    <3> QED BY <1>1, <3>2
  <2>2. \A p \in finished : p.when <= resultEnd'
    <3>1. \A p \in finished : p.when \in Nat /\ p.when <= resultEnd /\ resultEnd \in Nat
      BY <1>1 DEF Completions, Completion, Numbers
    <3> QED BY <1>3, <3>1
  <2>3. Present' = issue'
    BY <1>2 DEF Present
  <2> QED BY <1>1, <1>2, <1>4, <2>1, <2>2, <2>3 DEF Completions
<1>6. Numbers'
  <2>1. credits' \in [Counters -> Nat] /\ applied' \in [Counters -> Int] /\ pending' = [c \in Counters |-> pending'[c]]
    BY <1>2, <1>4
  <2> QED BY <1>1, <1>2, <1>3, <2>1 DEF Numbers
<1> QED BY <1>4, <1>5, <1>6 DEF Accounts, Balanced

(* At the end of the path everything in flight is folded in.               *)
LEMMA FinishAccounts ==
  ASSUME IInv, Accounts, Finish
  PROVE  /\ Accounts'
         /\ \A c \in Counters : credits'[c] = InitialCredits[c] + applied'[c]
                                  + Units({p \in finished : p.counter = c})
<1>1. PICK f \in LatestOf({issue, resultEnd}) :
        /\ credits' = [c \in Counters |-> CreditAt(c, f)]
        /\ pending' = [c \in Counters |-> pending[c] \ Due(c, f)]
  BY DEF Finish
<1>2. /\ Completions /\ Numbers /\ stage' = "end"
      /\ UNCHANGED <<visit, op, applied, finished, resultEnd>>
  BY DEF Finish, Accounts, scalars
<1>3. f \in Nat /\ resultEnd <= f
  BY <1>2 DEF LatestOf, Numbers, IInv, InOrder
<1>4. ASSUME NEW c \in Counters
      PROVE  /\ Of(c)' = Of(c) /\ pending'[c] \subseteq Of(c)
             /\ credits'[c] \in Nat
             /\ credits'[c] = InitialCredits[c] + applied'[c] + Units(Folded(c)')
             /\ Folded(c)' = Of(c)
  <2>1. \A p \in Of(c) : p.when <= f
    <3>1. \A p \in Of(c) : p.when \in Nat /\ p.when <= resultEnd /\ resultEnd \in Nat
      BY <1>2, CompletionFacts DEF Completions, Numbers
    <3> QED BY <1>3, <3>1
  <2>2. pending'[c] = pending[c] \ Due(c, f)
    BY <1>1
  <2>3. Of(c)' = Of(c) /\ Folded(c)' = Folded(c) \cup Due(c, f) /\ pending'[c] \subseteq Of(c)
    BY <1>2, <2>2, FoldDue
  <2>4. Due(c, f) = pending[c]
    BY <1>2, <2>1, CompletionFacts DEF Due
  <2>5. Folded(c)' = Of(c)
    BY <1>2, <2>3, <2>4, CompletionFacts DEF Folded
  <2>6. \A p \in Folded(c) : p.when <= f
    BY <2>1 DEF Folded
  <2>7. /\ CreditAt(c, f) \in Nat
        /\ CreditAt(c, f) = InitialCredits[c] + applied[c] + Units(Folded(c) \cup Due(c, f))
    BY <1>3, <2>6, CreditIs
  <2> QED BY <1>1, <1>2, <2>3, <2>5, <2>7
<1>5. Completions'
  BY <1>2, <1>4 DEF Completions
<1>6. Numbers'
  <2>1. credits' \in [Counters -> Nat] /\ pending' = [c \in Counters |-> pending'[c]]
    BY <1>1, <1>4
  <2> QED BY <1>2, <2>1 DEF Numbers
<1> QED BY <1>2, <1>4, <1>5, <1>6 DEF Accounts, Balanced, Of

LEMMA AccountsStep ==
  ASSUME IInv, Accounts, [Next]_vars
  PROVE  Accounts'
<1>0. start \in Nat /\ issue \in Nat
  BY DEF IInv, InOrder
<1>1. ASSUME NEW b \in Bundles, NEW deps \in Dependencies, Refuse(b, deps)
      PROVE  Accounts'
  BY <1>1, AccountsKept DEF Refuse, scalars
<1>2. ASSUME NEW b \in Bundles, NEW deps \in Dependencies, Fetch(b, deps)
      PROVE  Accounts'
  BY <1>2, FetchAccounts
<1>3. CASE Shift
  BY <1>0, <1>3, ShiftEffect, AccountsKept DEF Shift, scalars, Present
<1>4. CASE Settle
  BY <1>0, <1>4, AccountsKept DEF Settle, scalars, Present
<1>5. CASE Empty
  BY <1>5, AccountsKept DEF Empty, scalars
<1>6. CASE UNCHANGED vars
  BY <1>0, <1>6, AccountsKept DEF vars, scalars, Present
<1> QED BY <1>1, <1>2, <1>3, <1>4, <1>5, <1>6, CommitAccounts, CloseAccounts, FinishAccounts DEF Next

(* The waits of a bundle are read when it is fetched.                      *)
LEMMA FetchReads ==
  ASSUME IInv, Accounts, NEW b \in Bundles, NEW deps \in Dependencies, Fetch(b, deps)
  PROVE  CreditsExact'
<1>1. PICK s \in Nat :
        /\ issue <= s /\ start' = s /\ floor' = s
        /\ waitReady' = [k \in Positions(b) |->
             {s, b.ops[k].waitUntil}
               \cup UNION {SatisfiedAt(w, s) : w \in b.ops[k].waits}]
        /\ gaps' = (gaps \/ \E w \in All(b, "waits") : SatisfiedAt(w, s) = {})
  BY Zenon, FetchEffect
<1>2. /\ UNCHANGED <<applied, finished>> /\ stage = "fetch" /\ stage' = "shift" /\ bundle' = b
      /\ Completions /\ issue \in Nat
  BY DEF Fetch, Accounts, IInv, InOrder
<1>3. ASSUME NEW k \in Positions(b), NEW w \in b.ops[k].waits
      PROVE  /\ FirstAvailable(w)' \subseteq waitReady'[k]
             /\ FirstAvailable(w)' = {} => gaps'
  <2>1. w.counter \in Counters /\ w.units \in Nat
    BY OperationIs DEF Operation
  <2>2. \A p \in Folded(w.counter) : p.when <= s
    <3>1. \A p \in Folded(w.counter) : p.when \in Nat /\ p.when <= issue
      BY <1>2, <2>1, CompletionFacts DEF Completions, Present, Folded
    <3> QED BY <1>1, <1>2, <3>1
  <2>3. SatisfiedAt(w, s) = FirstFrom(w, s)
    BY <2>1, <2>2, SatisfiedIsFirst
  <2>4. FirstAvailable(w)' = FirstFrom(w, s)
    BY <1>1, <1>2 DEF FirstAvailable, FirstFrom, Available, EarliestOf
  <2>5. w \in All(b, "waits")
    BY DEF All
  <2> QED BY <1>1, <2>3, <2>4, <2>5
<1> QED BY <1>2, <1>3 DEF CreditsExact, Positions

LEMMA CreditsStep ==
  ASSUME IInv, Accounts, CreditsExact, [Next]_vars
  PROVE  CreditsExact'
<1>1. CASE (Shift \/ UNCHANGED vars) /\ stage = "shift"
  <2>1. UNCHANGED <<bundle, floor, waitReady, finished, applied, gaps, stage>>
    BY <1>1 DEF Shift, vars, creditVars, scalars
  <2>2. \A w : FirstAvailable(w)' = FirstAvailable(w)
    BY <2>1 DEF FirstAvailable, Available, EarliestOf
  <2> QED BY <1>1, <2>1, <2>2 DEF CreditsExact, Positions
<1>2. CASE UNCHANGED vars /\ stage # "shift"
  BY <1>2 DEF vars, creditVars, CreditsExact
<1>3. CASE Finish
  <2>1. stage' = "end" /\ finished' = finished
    BY <1>3 DEF Finish
  <2> QED BY <1>3, <2>1, FinishAccounts DEF CreditsExact
<1>4. ASSUME NEW b \in Bundles, NEW deps \in Dependencies, Refuse(b, deps) \/ Fetch(b, deps)
      PROVE  CreditsExact'
  <2>1. Refuse(b, deps) => stage' = "invalid"
    BY DEF Refuse
  <2> QED BY <1>4, <2>1, FetchReads DEF CreditsExact
<1>5. CASE Settle \/ Commit \/ Close \/ Empty
  <2>1. stage' \notin {"shift", "end"}
    BY <1>5 DEF Settle, Commit, Close, Empty
  <2> QED BY <2>1 DEF CreditsExact
<1>6. Shift => stage = "shift"
  BY DEF Shift
<1> QED BY <1>1, <1>2, <1>3, <1>4, <1>5, <1>6 DEF Next

(* Whatever the bundles, their waits read exactly the credits that are
   there, and a path loses none.                                           *)
THEOREM CreditsAreExact == Spec => []CreditsExact
<1>1. Init => CreditsExact
  BY DEF Init, CreditsExact
<1> QED BY <1>1, InitInvariant, StepInvariant, AccountsInit, AccountsStep, CreditsStep, PTL DEF Spec

----------------------------------------------------------------------------
(* The rest of the type invariant.                                         *)
Shapes ==
  /\ stage \in {"fetch", "shift", "commit", "end", "invalid"}
  /\ visit \in 0..MaxBundles
  /\ serviceReady \in [Services -> Nat]
  /\ calendars \subseteq Span /\ booked \subseteq Span
  /\ holds \subseteq [resource : Resources, until : Nat]
  /\ gaps \in BOOLEAN

LEMMA SpansAreSpans ==
  ASSUME NEW b \in Bundles \cup {NoBundle}, NEW s \in Nat, visit \in Nat
  PROVE  SpansAt(b, s) \subseteq Span
<1> SUFFICES ASSUME NEW x \in SpansAt(b, s) PROVE x \in Span
  OBVIOUS
<1>1. PICK k \in Positions(b) : \E r \in b.ops[k].spans :
        /\ r \in [resource : Resources, offset : Nat, duration : Nat \ {0}]
        /\ x = [resource |-> r.resource, left |-> s + r.offset,
                right |-> s + r.offset + r.duration, id |-> <<visit, k>>]
  BY SpanIs
<1>2. PICK r \in b.ops[k].spans :
        /\ r \in [resource : Resources, offset : Nat, duration : Nat \ {0}]
        /\ x = [resource |-> r.resource, left |-> s + r.offset,
                right |-> s + r.offset + r.duration, id |-> <<visit, k>>]
  BY <1>1
<1>3. k \in Nat
  <2>1. b \in Bundles
    BY DEF NoBundle, Positions
  <2>2. b.ops \in Seq(Operation)
    BY <2>1, PipelineAssumption DEF Bundle
  <2> QED BY <2>2 DEF Positions
<1> QED BY <1>2, <1>3 DEF Span

LEMMA ShapesStep ==
  ASSUME IInv, Accounts, Shapes, [Next]_vars
  PROVE  Shapes'
<1>0. visit \in Nat /\ visit <= MaxBundles /\ MaxBundles \in Nat
  BY PipelineAssumption DEF Shapes
<1>1. CASE \E b \in Bundles, deps \in Dependencies : Refuse(b, deps)
  BY <1>1 DEF Refuse, Shapes, calendarVars, scalars
<1>2. ASSUME NEW b \in Bundles, NEW deps \in Dependencies, Fetch(b, deps)
      PROVE  Shapes'
  <2>1. gaps' \in BOOLEAN
    BY <1>2, FetchEffect DEF Shapes
  <2>2. /\ stage' = "shift" /\ visit' = visit + 1 /\ visit < MaxBundles
        /\ UNCHANGED <<serviceReady, calendars, booked, holds>>
    BY <1>2 DEF Fetch, calendarVars
  <2> QED BY <1>0, <2>1, <2>2 DEF Shapes
<1>3. CASE Shift \/ Settle
  <2>1. /\ stage' \in {"shift", "commit"} /\ calendars' = Pruned
        /\ UNCHANGED <<visit, serviceReady, booked, holds, gaps>>
    BY <1>3 DEF Shift, Settle, scalars
  <2>2. Pruned \subseteq calendars
    BY DEF Pruned
  <2> QED BY <2>1, <2>2 DEF Shapes
<1>4. CASE Commit
  <2>1. UNCHANGED <<stage, visit, calendars, booked, holds, gaps>>
    BY <1>4 DEF Commit, calendarVars
  <2>2. serviceReady' \in [Services -> Nat]
    BY <1>4, CommitEffect DEF Shapes
  <2> QED BY <2>1, <2>2 DEF Shapes
<1>5. CASE Close
  <2>1. /\ stage' = "fetch" /\ UNCHANGED <<visit, serviceReady>>
        /\ calendars' = calendars \cup SpansAt(bundle, start)
        /\ booked' = booked \cup SpansAt(bundle, start)
        /\ holds' = holds \cup Held
        /\ gaps' = (gaps \/ \E c \in WrittenCounters : Underflows(c))
    BY <1>5 DEF Close
  <2>2. bundle \in Bundles /\ start \in Nat
    BY <1>5, CloseEffect
  <2>3. SpansAt(bundle, start) \subseteq Span
    BY <1>0, <2>2, SpansAreSpans
  <2>4. Held \subseteq [resource : Resources, until : Nat]
    <3>1. \A h \in All(bundle, "holds") : h.cycles \in Nat /\ h.resource \in Resources
      <4> SUFFICES ASSUME NEW k \in Positions(bundle), NEW h \in bundle.ops[k]["holds"]
                   PROVE  h.cycles \in Nat /\ h.resource \in Resources
        BY DEF All
      <4> QED BY <2>2, OperationIs DEF Operation
    <3> QED BY <2>2, <3>1 DEF Held
  <2> QED BY <2>1, <2>3, <2>4 DEF Shapes
<1>6. CASE Empty \/ Finish \/ UNCHANGED vars
  <2>1. /\ UNCHANGED <<visit, serviceReady, calendars, booked, holds, gaps>>
        /\ stage' \in {"invalid", "end", stage}
    BY <1>6 DEF Empty, Finish, vars, calendarVars, scalars
  <2> QED BY <2>1 DEF Shapes
<1> QED BY <1>1, <1>2, <1>3, <1>4, <1>5, <1>6 DEF Next

(* Types, for any bundles.                                                 *)
THEOREM PipelineTypes == Spec => []TypeOK
<1>1. Init => Shapes
  <2> SUFFICES ASSUME Init PROVE Shapes
    OBVIOUS
  <2>1. serviceReady \in [Services -> Nat]
    BY DEF Init
  <2>2. visit \in 0..MaxBundles
    BY PipelineAssumption DEF Init
  <2> QED BY <2>1, <2>2 DEF Init, Shapes
<1>2. ASSUME IInv, Accounts, Shapes
      PROVE  TypeOK
  <2>1. pending \in [Counters -> SUBSET Completion]
    <3>1. \A c \in Counters : pending[c] \in SUBSET Completion
      BY <1>2 DEF Accounts, Completions, Of
    <3>2. pending = [c \in Counters |-> pending[c]]
      BY <1>2 DEF Accounts, Numbers
    <3> QED BY <3>1, <3>2
  <2> QED BY <1>2, <2>1 DEF TypeOK, IInv, InOrder, Cycles, Accounts, Numbers, Completions, Shapes
<1> QED BY <1>1, <1>2, InitInvariant, StepInvariant, AccountsInit, AccountsStep, ShapesStep, PTL DEF Spec

==============================================================================

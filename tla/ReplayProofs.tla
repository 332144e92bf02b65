------------------------------ MODULE ReplayProofs ------------------------------
(***************************************************************************)
(* Proofs about the collection of a profile and the run that replays it.   *)
(***************************************************************************)
EXTENDS Replay, SetSums

----------------------------------------------------------------------------
(* What the import finds of a capture.  A name is that of a recorded key,  *)
(* or of a program whose ids lead to no record.                            *)
RecordsFit ==
  \A k \in DOMAIN records :
    /\ k \in Keys \ Foreign /\ records[k].devices = DevicesOf[k]
    /\ records[k].modules # {}
    /\ \A m \in records[k].modules : m.name = Labelled(k) /\ m.id \in ModuleIds

NameFits(e) ==
  \/ \E k \in DOMAIN records : e.name = Labelled(k)
  \/ e.name.label = NoLabel /\ e.arg = NoId /\ e.suffix \notin ModuleIds

EventFits(e) ==
  /\ e.plane = "TPU" /\ e.clock = "device" /\ e.track \in {"XLA_Modules", "XLA_Ops"}
  /\ e.launch \in 1..launches /\ e.device \in Devices
  /\ e.ts \in Nat /\ e.dur \in Nat /\ e.dur > Slack
  /\ e.ts + e.dur <= clock[e.device]
  /\ NameFits(e)

(* A launch has one name, one queue and one event of a kind on a device,   *)
(* and its intervals overlap; a device runs one launch after the other.    *)
EventsAgree(e, f) ==
  /\ e.launch = f.launch =>
       /\ e.name = f.name
       /\ e.device = f.device /\ e.track = f.track => e = f
       /\ e.track = "XLA_Modules" /\ f.track = "XLA_Modules" =>
            e.queue = f.queue /\ e.ts < f.ts + f.dur
  /\ e.launch < f.launch /\ e.device = f.device => e.ts + e.dur <= f.ts

Seen(l, k) == \E e \in ModulesOf(l) : e.name = Labelled(k)

(* The intervals that are missing of one launch, and of two, are among     *)
(* those that are missing of all.                                          *)
MissedFit ==
  /\ \A l \in 1..launches, k \in Keys :
       Seen(l, k) => /\ Cardinality(ModulesOf(l)) <= DevicesOf[k]
                     /\ Cardinality(ModulesOf(l)) >= DevicesOf[k] - missed
  /\ \A l, m \in 1..launches, k \in Keys :
       l # m /\ Seen(l, k) /\ Seen(m, k) =>
         Cardinality(ModulesOf(l)) + Cardinality(ModulesOf(m)) >= 2 * DevicesOf[k] - missed

TraceInv ==
  /\ IsFiniteSet(trace) /\ launches \in Nat /\ missed \in 0..MaxMissed
  /\ clock \in [Devices -> Nat]
  /\ RecordsFit
  /\ \A e \in trace : EventFits(e)
  /\ \A e, f \in trace : EventsAgree(e, f)
  /\ MissedFit

(* What the native compiler takes: ReadReplayTiming accepts it, and its    *)
(* module intervals are those of the program's devices.                    *)
Acceptable(k, timing) ==
  /\ k \in Keys
  /\ timing \in [valid : BOOLEAN, devices : Nat, count : Nat, duration : Int,
                 activities : SUBSET [track : Tracks, index : Nat, start : Int, end : Int]]
  /\ AcceptsTiming(timing) /\ ModuleCount(timing) \in {0, DevicesOf[k]}

Importable(k, record) ==
  /\ record = [devices |-> record.devices, invocations |-> record.invocations,
               valid |-> record.valid, median |-> record.median,
               nearest |-> record.nearest, timeline |-> record.timeline]
  /\ Acceptable(k, Measured(record))

(* Nothing is compiled before the run.                                     *)
Idle ==
  /\ compiling = None /\ last = None
  /\ attributes = [k \in Keys |-> Unannotated]

SessionFits ==
  /\ session.predictor \in {"llo", "replay"} /\ session.replayMiss \in {"error", "llo"}
  /\ session.deviceCount \in Nat
  /\ session.PJRT_SIM_PREDICTOR = IF session.predictor = "replay" THEN "replay" ELSE None
  /\ session.PJRT_SIM_REPLAY_MISS =
       IF session.predictor = "replay" THEN session.replayMiss ELSE None
  /\ session.predictor = "llo" => session.replayMiss = "error" /\ DOMAIN database = {}

Timed(end) ==
  /\ end \in [program : Keys, source : {"llo", "replay"}, outcome : Outcomes, duration : Int]
  /\ DevicesOf[end.program] <= session.deviceCount =>
       IF end.source = "replay"
       THEN end.outcome = "replay" /\ end.duration = database[end.program].duration
       ELSE end.outcome \in {"libtpu", "failed"}

(* The annotations are those of the query of the module's own key.         *)
CompilingFits ==
  IF compiling = None THEN attributes = [k \in Keys |-> Unannotated]
  ELSE /\ compiling \in [program : Keys, source : {"llo", "replay"},
                         outcome : Outcomes \cup {None}, duration : Int]
       /\ LET query == QueryFor(compiling.program)
          IN  /\ query.source = compiling.source
              /\ attributes = [[k \in Keys |-> Unannotated] EXCEPT
                                 ![compiling.program] = Annotated(Unannotated, query)]
       /\ compiling.outcome # None => Timed(compiling)

ReplayInv ==
  /\ phase \in {"collect", "imported", "replay", "refused"}
  /\ phase = "collect" => TraceInv
  /\ phase = "imported" => \A k \in DOMAIN database : Importable(k, database[k])
  /\ phase # "replay" => Idle
  /\ phase = "replay" => /\ \A k \in DOMAIN database : Acceptable(k, database[k])
                         /\ SessionFits /\ CompilingFits
  /\ WholeLaunches /\ TimedAsQueried

----------------------------------------------------------------------------
(* The capture.                                                            *)
LEMMA CompileKeepsTrace ==
  ASSUME TraceInv, NEW k \in Keys, NEW id \in ModuleIds, CompileAndRecord(k, id)
  PROVE  TraceInv' /\ phase' = "collect"
<1> USE DEF CompileAndRecord
<1>1. /\ DOMAIN records' = DOMAIN records \cup {k}
      /\ \A j \in DOMAIN records : j # k => records'[j] = records[j]
      /\ records'[k].modules = Compiles(k) \cup {[name |-> Labelled(k), id |-> id]}
      /\ records'[k].devices = DevicesOf[k]
  OBVIOUS
<1>2. RecordsFit'
  <2> SUFFICES ASSUME NEW j \in DOMAIN records'
               PROVE  /\ j \in Keys \ Foreign /\ records'[j].devices = DevicesOf[j]
                      /\ records'[j].modules # {}
                      /\ \A m \in records'[j].modules :
                           m.name = Labelled(j) /\ m.id \in ModuleIds
    BY DEF RecordsFit, Labelled
  <2>1. CASE j # k
    BY <1>1, <2>1 DEF TraceInv, RecordsFit
  <2>2. CASE j = k
    <3>1. \A m \in Compiles(k) : m.name = Labelled(k) /\ m.id \in ModuleIds
      BY DEF Compiles, TraceInv, RecordsFit
    <3>2. k \notin Foreign
      OBVIOUS
    <3> HIDE DEF CompileAndRecord
    <3>3. \A m \in records'[k].modules : m.name = Labelled(k) /\ m.id \in ModuleIds
      BY <1>1, <3>1
    <3>4. records'[k].modules # {}
      BY <1>1
    <3> QED BY <1>1, <2>2, <3>2, <3>3, <3>4
  <2> QED BY <2>1, <2>2
<1>3. (\A e \in trace : EventFits(e))'
  BY <1>1 DEF TraceInv, EventFits, NameFits, Labelled
<1>4. (\A e, f \in trace : EventsAgree(e, f))'
  BY DEF TraceInv, EventsAgree
<1>5. /\ phase' = "collect" /\ trace' = trace /\ launches' = launches
      /\ missed' = missed /\ clock' = clock
  OBVIOUS
<1> USE DEF TraceInv
<1> HIDE DEF CompileAndRecord
<1>6. \A l, j : ModulesOf(l)' = ModulesOf(l) /\ (Seen(l, j)' <=> Seen(l, j))
  BY <1>5 DEF Seen, ModulesOf, Labelled
<1>7. MissedFit'
  BY <1>5, <1>6 DEF MissedFit
<1> QED BY <1>2, <1>3, <1>4, <1>5, <1>7

(* What a launch adds to the trace.                                        *)
LEMMA LaunchAdds ==
  ASSUME TraceInv,
         NEW k \in Keys, NEW queue, NEW on \in SUBSET Devices,
         NEW span \in [on -> Spans], NEW recorded \in SUBSET on,
         Launch(k, queue, on, span, recorded)
  PROVE  /\ IsFiniteSet(on) /\ IsFiniteSet(trace')
         /\ k \in DOMAIN records \cup Foreign /\ Cardinality(on) = DevicesOf[k]
         /\ trace \subseteq trace'
         /\ \A d \in recorded : Event(k, queue, d, span[d]) \in trace'
         /\ \A d \in on : Operation(Event(k, queue, d, span[d])) \in trace'
         /\ \A e \in trace' : \/ e \in trace
                              \/ \E d \in recorded : e = Event(k, queue, d, span[d])
                              \/ \E d \in on : e = Operation(Event(k, queue, d, span[d]))
         /\ \A c, d \in on : clock[c] + span[c].gap < clock[d] + span[d].gap + span[d].dur
         /\ \A d \in on : /\ d \in Devices /\ clock[d] \in Nat
                          /\ span[d].gap \in Nat /\ span[d].dur \in Nat
                          /\ span[d].dur > Slack + 1
<1> DEFINE event == [d \in on |-> Event(k, queue, d, span[d])]
           begins == {event[d].ts : d \in on}
           ends == {event[d].ts + event[d].dur : d \in on}
<1>1. \A d \in on : /\ d \in Devices /\ clock[d] \in Nat
                    /\ span[d].gap \in Nat /\ span[d].dur \in Nat
                    /\ span[d].dur > Slack + 1
  BY CaptureAssumption DEF TraceInv
<1>2. \A d \in on : event[d].ts = clock[d] + span[d].gap /\ event[d].dur = span[d].dur
  <2> TAKE d \in on
  <2>1. event[d] = Event(k, queue, d, span[d])
    OBVIOUS
  <2> QED BY <2>1 DEF Event
<1>3. Max(begins) < Min(ends)
  BY DEF Launch
<1>4. IsFiniteSet(on)
  BY FS_Subset, CaptureAssumption
<1>5. \A c, d \in on : clock[c] + span[c].gap < clock[d] + span[d].gap + span[d].dur
  <2> SUFFICES ASSUME NEW c \in on, NEW d \in on
               PROVE  clock[c] + span[c].gap < clock[d] + span[d].gap + span[d].dur
    OBVIOUS
  <2> DEFINE w == [x \in on |-> clock[x] + span[x].gap]
             v == [x \in on |-> 0 - (clock[x] + span[x].gap + span[x].dur)]
  <2>1. PICK a \in on : \A y \in on : w[y] <= w[a]
    <3>1. \A x \in on : w[x] \in Int
      BY <1>1
    <3> HIDE DEF w
    <3> QED BY <1>4, <3>1, HeaviestExists
  <2>2. PICK b \in on : \A y \in on : v[y] <= v[b]
    <3>1. \A x \in on : v[x] \in Int
      BY <1>1
    <3> HIDE DEF v
    <3> QED BY <1>4, <3>1, HeaviestExists
  <2>3. \A y \in on : event[y].ts \in Int /\ event[y].ts <= event[a].ts
    BY <1>1, <1>2, <2>1
  <2>4. \A y \in on : /\ event[y].ts + event[y].dur \in Int
                      /\ event[b].ts + event[b].dur <= event[y].ts + event[y].dur
    BY <1>1, <1>2, <2>2
  <2> HIDE DEF event
  <2>5. Max(begins) \in begins /\ \A x \in begins : Max(begins) >= x
    BY <2>3 DEF Max
  <2>6. Min(ends) \in ends /\ \A x \in ends : Min(ends) <= x
    BY <2>4 DEF Min
  <2>7. event[c].ts \in begins /\ event[d].ts + event[d].dur \in ends
    OBVIOUS
  <2> HIDE DEF begins, ends
  <2>8. Max(begins) \in Int /\ Min(ends) \in Int
    BY <2>3, <2>4, <2>5, <2>6 DEF begins, ends
  <2>9. event[c].ts <= Max(begins) /\ Min(ends) <= event[d].ts + event[d].dur
    BY <2>5, <2>6, <2>7, <2>3, <2>8
  <2>10. event[c].ts < event[d].ts + event[d].dur
    BY <1>3, <2>3, <2>4, <2>8, <2>9
  <2> QED BY <1>2, <2>10
<1>6. /\ k \in DOMAIN records \cup Foreign /\ Cardinality(on) = DevicesOf[k]
      /\ trace' = trace \cup {event[d] : d \in recorded} \cup {Operation(event[d]) : d \in on}
      /\ clock' = [d \in Devices |-> IF d \in on THEN event[d].ts + event[d].dur ELSE clock[d]]
  BY DEF Launch
<1>7. /\ trace \subseteq trace'
      /\ \A d \in recorded : event[d] \in trace'
      /\ \A d \in on : Operation(event[d]) \in trace'
      /\ \A e \in trace' : \/ e \in trace
                           \/ \E d \in recorded : e = event[d]
                           \/ \E d \in on : e = Operation(event[d])
  <2> HIDE DEF event
  <2> QED BY <1>6
<1>8. IsFiniteSet(trace')
  <2> DEFINE Made == {event[d] : d \in on}
             Ops == {Operation(event[d]) : d \in on}
             f == [d \in on |-> event[d]]
             g == [d \in on |-> Operation(event[d])]
  <2>1. f \in Surjection(on, Made) /\ g \in Surjection(on, Ops)
    BY DEF Surjection
  <2>2. IsFiniteSet(Made) /\ IsFiniteSet(Ops)
    <3> HIDE DEF f, g, Made, Ops
    <3> QED BY <1>4, <2>1, FS_Surjection
  <2>3. {event[d] : d \in recorded} \in SUBSET Made
    OBVIOUS
  <2>4. IsFiniteSet({event[d] : d \in recorded})
    <3> HIDE DEF Made
    <3> QED BY <2>2, <2>3, FS_Subset
  <2> QED BY <1>6, <2>2, <2>4, FS_Union DEF TraceInv
<1> QED BY <1>1, <1>4, <1>5, <1>6, <1>7, <1>8

LEMMA LaunchClock ==
  ASSUME NEW k \in Keys, NEW queue, NEW on \in SUBSET Devices, NEW span, NEW recorded,
         Launch(k, queue, on, span, recorded)
  PROVE  /\ clock' = [d \in Devices |-> clock'[d]]
         /\ \A d \in Devices : clock'[d] = IF d \in on THEN clock[d] + span[d].gap + span[d].dur
                                           ELSE clock[d]
<1> DEFINE event == [d \in on |-> Event(k, queue, d, span[d])]
<1>1. \A d \in on : event[d].ts = clock[d] + span[d].gap /\ event[d].dur = span[d].dur
  BY DEF Event
<1>2. clock' = [d \in Devices |-> IF d \in on THEN event[d].ts + event[d].dur ELSE clock[d]]
  BY DEF Launch
<1> HIDE DEF event
<1> QED BY <1>1, <1>2

LEMMA LaunchKeepsTrace ==
  ASSUME TraceInv,
         NEW k \in Keys, NEW queue, NEW on \in SUBSET Devices,
         NEW span \in [on -> Spans], NEW recorded \in SUBSET on,
         Launch(k, queue, on, span, recorded)
  PROVE  TraceInv' /\ phase' = "collect"
<1> DEFINE name == IF k \in Foreign THEN [base |-> NameOf[k], label |-> NoLabel]
                   ELSE Labelled(k)
           Begin(d) == clock[d] + span[d].gap
           End(d) == clock[d] + span[d].gap + span[d].dur
           New(e) ==
             /\ e.launch = launches + 1 /\ e.plane = "TPU" /\ e.clock = "device"
             /\ e.device \in on /\ e.name = name /\ e.suffix = Fingerprint[k]
             /\ \/ /\ e.track = "XLA_Modules" /\ e.device \in recorded /\ e.queue = queue
                   /\ e.ts = Begin(e.device) /\ e.ts + e.dur = End(e.device)
                   /\ e.arg = IF k \in Foreign THEN NoId ELSE Fingerprint[k]
                   /\ e = Event(k, queue, e.device, span[e.device])
                \/ /\ e.track = "XLA_Ops" /\ e.arg = NoId
                   /\ e.ts = Begin(e.device) + 1 /\ e.ts + e.dur = End(e.device)
                   /\ e = Operation(Event(k, queue, e.device, span[e.device]))
<1>1. /\ IsFiniteSet(on) /\ IsFiniteSet(trace')
      /\ k \in DOMAIN records \cup Foreign /\ Cardinality(on) = DevicesOf[k]
      /\ trace \subseteq trace'
      /\ \A d \in recorded : Event(k, queue, d, span[d]) \in trace'
      /\ \A d \in on : Operation(Event(k, queue, d, span[d])) \in trace'
      /\ \A e \in trace' : \/ e \in trace
                           \/ \E d \in recorded : e = Event(k, queue, d, span[d])
                           \/ \E d \in on : e = Operation(Event(k, queue, d, span[d]))
      /\ clock' = [d \in Devices |-> clock'[d]]
      /\ \A d \in Devices : clock'[d] = IF d \in on THEN End(d) ELSE clock[d]
      /\ \A c, d \in on : Begin(c) < End(d)
      /\ \A d \in on : d \in Devices
  <2> HIDE DEF New, name, Launch, TraceInv
  <2>1. /\ IsFiniteSet(on) /\ IsFiniteSet(trace')
        /\ k \in DOMAIN records \cup Foreign /\ Cardinality(on) = DevicesOf[k]
    BY LaunchAdds
  <2>2. /\ trace \subseteq trace'
        /\ \A d \in recorded : Event(k, queue, d, span[d]) \in trace'
        /\ \A d \in on : Operation(Event(k, queue, d, span[d])) \in trace'
        /\ \A e \in trace' : \/ e \in trace
                             \/ \E d \in recorded : e = Event(k, queue, d, span[d])
                             \/ \E d \in on : e = Operation(Event(k, queue, d, span[d]))
    BY LaunchAdds
  <2>3. /\ clock' = [d \in Devices |-> clock'[d]]
        /\ \A d \in Devices : clock'[d] = IF d \in on THEN End(d) ELSE clock[d]
    BY LaunchClock
  <2>4. \A c, d \in on : Begin(c) < End(d)
    BY LaunchAdds
  <2> QED BY <2>1, <2>2, <2>3, <2>4
<1>0. \A d \in on : /\ clock[d] \in Nat /\ Begin(d) \in Nat /\ End(d) \in Nat
                    /\ clock[d] <= Begin(d) /\ Begin(d) + 1 + Slack < End(d)
                    /\ Begin(d) + 1 \in Nat
  <2> TAKE d \in on
  <2>1. /\ clock[d] \in Nat /\ span[d].gap \in Nat /\ span[d].dur \in Nat
        /\ span[d].dur > Slack + 1
    BY LaunchAdds
  <2> QED BY <2>1 DEF Slack
<1>2. /\ phase = "collect" /\ phase' = phase /\ records' = records
      /\ launches' = launches + 1 /\ missed' = missed + Cardinality(on \ recorded)
      /\ missed + Cardinality(on \ recorded) <= MaxMissed
  BY DEF Launch
<1>3. /\ launches \in Nat /\ missed \in 0..MaxMissed /\ clock \in [Devices -> Nat]
      /\ RecordsFit /\ MissedFit
      /\ \A e \in trace : EventFits(e)
      /\ \A e, f \in trace : EventsAgree(e, f)
  BY DEF TraceInv
<1>4. /\ NoLabel \notin Keys /\ MaxMissed \in Nat
      /\ k \in Foreign => Fingerprint[k] \notin ModuleIds
  BY CaptureAssumption
<1> HIDE DEF Launch
<1>5. \A d \in recorded : New(Event(k, queue, d, span[d]))
  <2> TAKE d \in recorded
  <2> DEFINE e == Event(k, queue, d, span[d])
  <2>1. /\ e.launch = launches + 1 /\ e.plane = "TPU" /\ e.clock = "device"
        /\ e.track = "XLA_Modules" /\ e.device = d /\ e.name = name
        /\ e.suffix = Fingerprint[k] /\ e.queue = queue
        /\ e.arg = IF k \in Foreign THEN NoId ELSE Fingerprint[k]
    BY DEF Event
  <2>2. e.ts = Begin(d) /\ e.dur = span[d].dur
    BY DEF Event
  <2>3. e.ts + e.dur = End(d)
    BY <2>2
  <2>4. e = Event(k, queue, e.device, span[e.device])
    BY <2>1
  <2> HIDE DEF e, Begin, End, name
  <2> QED BY <2>1, <2>2, <2>3, <2>4 DEF e
<1>6. \A d \in on : New(Operation(Event(k, queue, d, span[d])))
  <2> TAKE d \in on
  <2> DEFINE e == Operation(Event(k, queue, d, span[d]))
  <2>1. /\ e.launch = launches + 1 /\ e.plane = "TPU" /\ e.clock = "device"
        /\ e.track = "XLA_Ops" /\ e.device = d /\ e.name = name
        /\ e.suffix = Fingerprint[k] /\ e.arg = NoId
    BY DEF Event, Operation
  <2>2. e.ts = Begin(d) + 1 /\ e.dur = span[d].dur - 1
    BY DEF Event, Operation
  <2>3. e.ts + e.dur = End(d)
    <3>1. /\ clock[d] \in Nat /\ span[d].gap \in Nat /\ span[d].dur \in Nat
      BY LaunchAdds
    <3> QED BY <2>2, <3>1
  <2>4. e = Operation(Event(k, queue, e.device, span[e.device]))
    BY <2>1
  <2> HIDE DEF e, Begin, End, name
  <2> QED BY <2>1, <2>2, <2>3, <2>4 DEF e
<1> HIDE DEF New, Begin, End
<1>7. \A e \in trace' : e \in trace \/ New(e)
  BY <1>1, <1>5, <1>6
<1>8. trace \subseteq trace'
  BY <1>1
<1>9. \A d \in Devices : /\ clock'[d] \in Nat /\ clock[d] <= clock'[d]
                         /\ d \in on => clock'[d] = End(d)
  BY <1>0, <1>1, <1>3
<1>10. clock' \in [Devices -> Nat]
  BY <1>0, <1>1, <1>3
<1>11. \/ name.label = NoLabel /\ k \in Foreign
       \/ name = Labelled(k) /\ k \in DOMAIN records
  BY <1>1
<1>12. ASSUME NEW e, New(e)
       PROVE  /\ e.launch = launches + 1 /\ e.device \in on /\ e.name = name
              /\ e.plane = "TPU" /\ e.clock = "device"
              /\ e.track \in {"XLA_Modules", "XLA_Ops"}
              /\ e.ts \in Nat /\ e.ts + e.dur = clock'[e.device]
              /\ clock[e.device] <= e.ts
              /\ e.suffix = Fingerprint[k]
              /\ k \in Foreign => e.arg = NoId
              /\ e.track = "XLA_Modules" =>
                   e.queue = queue /\ e.ts = Begin(e.device) /\ e.ts + e.dur = End(e.device)
  <2> HIDE DEF name
  <2>1. e.device \in on /\ e.device \in Devices
    BY <1>1, <1>12 DEF New
  <2>2. /\ e.ts \in Nat /\ e.ts + e.dur = clock'[e.device]
        /\ clock[e.device] <= e.ts
    BY <1>0, <1>9, <1>12, <2>1 DEF New
  <2> QED BY <1>12, <2>2 DEF New
<1>21. ASSUME NEW e, New(e) PROVE e.dur \in Nat /\ e.dur > Slack
  <2>1. PICK d \in on : \/ e = Event(k, queue, d, span[d])
                        \/ e = Operation(Event(k, queue, d, span[d]))
    BY <1>21 DEF New
  <2>2. /\ Event(k, queue, d, span[d]).dur = span[d].dur
        /\ Operation(Event(k, queue, d, span[d])).dur = span[d].dur - 1
    BY DEF Event, Operation
  <2>4. e.dur = span[d].dur \/ e.dur = span[d].dur - 1
    BY <2>1, <2>2
  <2>3. span[d].dur \in Nat /\ span[d].dur > Slack + 1
    BY LaunchAdds
  <2> QED BY <2>3, <2>4 DEF Slack
<1> HIDE DEF name
<1>13. (\A e \in trace : EventFits(e))'
  <2> SUFFICES ASSUME NEW e \in trace'
               PROVE  /\ e.plane = "TPU" /\ e.clock = "device"
                      /\ e.track \in {"XLA_Modules", "XLA_Ops"}
                      /\ e.launch \in 1..launches' /\ e.device \in Devices
                      /\ e.ts \in Nat /\ e.dur \in Nat /\ e.dur > Slack
                      /\ e.ts + e.dur <= clock'[e.device]
                      /\ NameFits(e)'
    BY DEF EventFits
  <2>1. CASE e \in trace
    <3>1. /\ EventFits(e)
          /\ NameFits(e)' <=> NameFits(e)
      BY <1>2, <1>3, <2>1 DEF NameFits, Labelled
    <3> QED BY <1>2, <1>3, <1>9, <3>1 DEF EventFits
  <2>2. CASE New(e)
    <3>1. NameFits(e)'
      BY <1>2, <1>4, <1>11, <1>12, <2>2, CaptureAssumption DEF NameFits, Labelled
    <3>2. launches' \in Nat /\ e.launch = launches' /\ e.launch \in 1..launches'
      BY <1>2, <1>3, <1>12, <2>2
    <3>3. clock'[e.device] \in Nat
      BY <1>9, <1>12, <2>2
    <3> QED BY <1>12, <1>21, <2>2, <3>1, <3>2, <3>3
  <2> QED BY <1>7, <2>1, <2>2
<1>14. (\A e, f \in trace : EventsAgree(e, f))'
  <2> SUFFICES ASSUME NEW e \in trace', NEW f \in trace'
               PROVE  EventsAgree(e, f)
    BY DEF EventsAgree
  <2>1. CASE e \in trace /\ f \in trace
    BY <1>3, <2>1
  <2>2. CASE e \in trace /\ New(f)
    <3>1. EventFits(e)
      BY <1>3, <2>2
    <3>2. e.launch < f.launch
      BY <1>3, <1>12, <2>2, <3>1 DEF EventFits
    <3>3. e.device = f.device => e.ts + e.dur <= f.ts
      <4>1. clock[f.device] <= f.ts /\ f.device \in Devices
        BY <1>12, <2>2
      <4> QED BY <1>3, <1>12, <2>2, <3>1, <4>1 DEF EventFits
    <3>4. e.launch # f.launch
      BY <1>3, <1>12, <2>2, <3>1 DEF EventFits
    <3> QED BY <3>3, <3>4 DEF EventsAgree
  <2>3. CASE New(e) /\ f \in trace
    <3>1. EventFits(f)
      BY <1>3, <2>3
    <3>2. ~(e.launch < f.launch) /\ e.launch # f.launch
      BY <1>3, <1>12, <2>3, <3>1 DEF EventFits
    <3> QED BY <3>2 DEF EventsAgree
  <2>4. CASE New(e) /\ New(f)
    <3>1. e.launch = f.launch /\ ~(e.launch < f.launch) /\ e.name = f.name
      BY <1>3, <1>12, <2>4
    <3>2. e.device = f.device /\ e.track = f.track => e = f
      BY <2>4 DEF New
    <3>3. e.track = "XLA_Modules" /\ f.track = "XLA_Modules" =>
            e.queue = f.queue /\ e.ts < f.ts + f.dur
      <4> HAVE e.track = "XLA_Modules" /\ f.track = "XLA_Modules"
      <4>1. /\ e.queue = queue /\ f.queue = queue /\ e.device \in on /\ f.device \in on
            /\ e.ts = Begin(e.device) /\ f.ts + f.dur = End(f.device)
        BY <1>12, <2>4
      <4> QED BY <1>1, <4>1
    <3> QED BY <3>1, <3>2, <3>3 DEF EventsAgree
  <2> QED BY <1>7, <2>1, <2>2, <2>3, <2>4
<1> DEFINE made == {Event(k, queue, d, span[d]) : d \in recorded}
<1>15. \A l \in 1..launches : ModulesOf(l)' = ModulesOf(l)
  <2> TAKE l \in 1..launches
  <2>1. \A e : New(e) => e.launch # l
    BY <1>3, <1>12
  <2> QED BY <1>7, <1>8, <2>1 DEF ModulesOf
<1>22. PICK n \in Nat : n = launches + 1
  BY <1>3
<1>16. ModulesOf(n)' = made
  <2>1. \A e \in trace : e.launch # n
    BY <1>3, <1>22 DEF EventFits
  <2>2. ASSUME NEW e, New(e), e.track = "XLA_Modules" PROVE e \in made
    <3>1. e.device \in recorded /\ e = Event(k, queue, e.device, span[e.device])
      <4> HIDE DEF made
      <4> QED BY <2>2 DEF New
    <3> QED BY <3>1
  <2>3. \A e \in made : e \in trace' /\ e.launch = n /\ e.track = "XLA_Modules"
    BY <1>1, <1>22 DEF Event
  <2>4. \A e : e \in ModulesOf(n)' <=>
                 e \in trace' /\ e.launch = n /\ e.track = "XLA_Modules"
    BY DEF ModulesOf
  <2>5. \A e \in trace' : New(e) \/ e.launch # n
    BY <1>7, <2>1
  <2> HIDE DEF made
  <2> QED BY <2>2, <2>3, <2>4, <2>5
<1>17. /\ IsFiniteSet(recorded) /\ Cardinality(made) = Cardinality(recorded)
       /\ Cardinality(recorded) \in Nat /\ Cardinality(on \ recorded) \in Nat
       /\ Cardinality(recorded) = DevicesOf[k] - Cardinality(on \ recorded)
       /\ DevicesOf[k] \in Nat
  <2> DEFINE f == [d \in recorded |-> Event(k, queue, d, span[d])]
  <2>1. IsFiniteSet(recorded)
    BY <1>1, FS_Subset
  <2>2. \A d \in recorded : f[d].device = d
    BY DEF Event
  <2>3. f \in Surjection(recorded, made)
    BY DEF Surjection
  <2>4. f \in Injection(recorded, made)
    <3>1. f \in [recorded -> made]
      OBVIOUS
    <3> HIDE DEF f, made
    <3> QED BY <2>2, <3>1 DEF Injection, IsInjective
  <2>5. Cardinality(made) = Cardinality(recorded)
    <3> HIDE DEF f, made
    <3> QED BY <2>1, <2>3, <2>4, FS_Surjection
  <2>6. IsFiniteSet(on \ recorded) /\ Cardinality(on \ recorded)
          = Cardinality(on) - Cardinality(on \cap recorded)
    BY <1>1, FS_Difference
  <2>7. on \cap recorded = recorded
    OBVIOUS
  <2>8. Cardinality(on) \in Nat /\ Cardinality(recorded) \in Nat
        /\ Cardinality(on \ recorded) \in Nat
    BY <1>1, <2>1, <2>6, FS_CardinalityType
  <2>9. Cardinality(on \ recorded) = Cardinality(on) - Cardinality(recorded)
    BY <2>6, <2>7
  <2>10. Cardinality(on) = DevicesOf[k]
    BY <1>1
  <2> HIDE DEF made
  <2> QED BY <2>1, <2>5, <2>8, <2>9, <2>10
<1> HIDE DEF made
<1>18. MissedFit'
  <2>1. \A j \in Keys : (\E e \in made : e.name = Labelled(j)) => j = k
    <3> SUFFICES ASSUME NEW j \in Keys, NEW e \in made, e.name = Labelled(j)
                 PROVE  j = k
      OBVIOUS
    <3>1. e.name = name
      <4>1. PICK d \in recorded : e = Event(k, queue, d, span[d])
        BY DEF made
      <4>2. New(e)
        BY <1>5, <4>1
      <4> QED BY <1>12, <4>2
    <3>2. name.label = j
      BY <3>1 DEF Labelled
    <3>3. k = j \/ name.label = NoLabel
      <4>1. Labelled(k).label = k
        BY DEF Labelled
      <4> QED BY <1>11, <3>2, <4>1
    <3> QED BY <1>4, <3>2, <3>3
  <2>2. \A l \in 1..launches, j \in Keys : Seen(l, j)' <=> Seen(l, j)
    BY <1>15 DEF Seen, Labelled
  <2>3. \A j \in Keys : Seen(n, j)' => j = k
    <3>1. \A j \in Keys : Seen(n, j)' <=> \E e \in made : e.name = Labelled(j)
      BY <1>16 DEF Seen, Labelled
    <3> QED BY <2>1, <3>1
  <2>4. \A l \in 1..launches' : l \in 1..launches \/ l = n
    BY <1>2, <1>3, <1>22
  <2>5. /\ Cardinality(ModulesOf(n)') = DevicesOf[k] - Cardinality(on \ recorded)
        /\ missed' = missed + Cardinality(on \ recorded) /\ missed \in Nat
        /\ Cardinality(on \ recorded) \in Nat /\ DevicesOf[k] \in Nat
    BY <1>2, <1>3, <1>4, <1>16, <1>17
  <2>6. \A l \in 1..launches : IsFiniteSet(ModulesOf(l)) /\ Cardinality(ModulesOf(l)) \in Nat
    <3> TAKE l \in 1..launches
    <3>1. ModulesOf(l) \subseteq trace
      BY DEF ModulesOf
    <3>2. IsFiniteSet(ModulesOf(l))
      BY <3>1, FS_Subset DEF TraceInv
    <3> QED BY <3>2, FS_CardinalityType
  <2>7. \A j \in Keys : DevicesOf[j] \in Nat
    BY CaptureAssumption
  <2>8. ASSUME NEW l \in 1..launches', NEW j \in Keys, Seen(l, j)'
        PROVE  /\ Cardinality(ModulesOf(l)') <= DevicesOf[j]
               /\ Cardinality(ModulesOf(l)') >= DevicesOf[j] - missed'
    <3>1. CASE l = n
      BY <2>3, <2>5, <2>8, <3>1
    <3>2. CASE l \in 1..launches
      <4>1. /\ ModulesOf(l)' = ModulesOf(l) /\ Cardinality(ModulesOf(l)) \in Nat
            /\ Cardinality(ModulesOf(l)) <= DevicesOf[j]
            /\ Cardinality(ModulesOf(l)) >= DevicesOf[j] - missed
        BY <1>3, <1>15, <2>2, <2>6, <2>8, <3>2 DEF MissedFit
      <4> QED BY <2>5, <2>7, <4>1
    <3> QED BY <2>4, <3>1, <3>2
  <2>9. ASSUME NEW l \in 1..launches', NEW m \in 1..launches', NEW j \in Keys,
               l # m, Seen(l, j)', Seen(m, j)'
        PROVE  Cardinality(ModulesOf(l)') + Cardinality(ModulesOf(m)')
                 >= 2 * DevicesOf[j] - missed'
    <3>1. CASE l \in 1..launches /\ m \in 1..launches
      <4>1. /\ ModulesOf(l)' = ModulesOf(l) /\ Cardinality(ModulesOf(l)) \in Nat
            /\ ModulesOf(m)' = ModulesOf(m) /\ Cardinality(ModulesOf(m)) \in Nat
            /\ Cardinality(ModulesOf(l)) + Cardinality(ModulesOf(m)) >= 2 * DevicesOf[j] - missed
        BY <1>3, <1>15, <2>2, <2>6, <2>9, <3>1 DEF MissedFit
      <4> QED BY <2>5, <2>7, <4>1
    <3>2. CASE l = n /\ m \in 1..launches
      <4>1. /\ ModulesOf(m)' = ModulesOf(m) /\ Cardinality(ModulesOf(m)) \in Nat
            /\ Cardinality(ModulesOf(m)) >= DevicesOf[j] - missed
        BY <1>3, <1>15, <2>2, <2>6, <2>9, <3>2 DEF MissedFit
      <4>2. j = k /\ Cardinality(ModulesOf(l)') = DevicesOf[k] - Cardinality(on \ recorded)
        BY <2>3, <2>5, <2>9, <3>2
      <4> QED BY <2>5, <4>1, <4>2
    <3>3. CASE l \in 1..launches /\ m = n
      <4>1. /\ ModulesOf(l)' = ModulesOf(l) /\ Cardinality(ModulesOf(l)) \in Nat
            /\ Cardinality(ModulesOf(l)) >= DevicesOf[j] - missed
        BY <1>3, <1>15, <2>2, <2>6, <2>9, <3>3 DEF MissedFit
      <4>2. j = k /\ Cardinality(ModulesOf(m)') = DevicesOf[k] - Cardinality(on \ recorded)
        BY <2>3, <2>5, <2>9, <3>3
      <4> QED BY <2>5, <4>1, <4>2
    <3> QED BY <2>4, <2>9, <3>1, <3>2, <3>3
  <2> QED BY <2>8, <2>9 DEF MissedFit
<1>19. RecordsFit'
  BY <1>2, <1>3 DEF RecordsFit, Labelled
<1>20. launches' \in Nat /\ missed' \in 0..MaxMissed
  BY <1>2, <1>3, <1>4, <1>17
<1> QED BY <1>1, <1>2, <1>10, <1>13, <1>14, <1>18, <1>19, <1>20 DEF TraceInv

----------------------------------------------------------------------------
(* Extremes.                                                               *)
LEMMA LightestExists ==
  ASSUME NEW w, NEW S, IsFiniteSet(S), S # {}, \A x \in S : w[x] \in Int
  PROVE  \E x \in S : \A y \in S : w[x] <= w[y]
<1> DEFINE v == [x \in S |-> 0 - w[x]]
<1>1. \A x \in S : v[x] \in Int
  OBVIOUS
<1>2. \E x \in S : \A y \in S : v[y] <= v[x]
  <2> HIDE DEF v
  <2> QED BY <1>1, HeaviestExists
<1> QED BY <1>2

LEMMA MinIs ==
  ASSUME NEW S, IsFiniteSet(S), S # {}, S \subseteq Int
  PROVE  Min(S) \in S /\ Min(S) \in Int /\ \A x \in S : Min(S) <= x
<1> DEFINE w == [x \in S |-> x]
<1>1. \E x \in S : \A y \in S : w[x] <= w[y]
  <2>1. \A x \in S : w[x] \in Int
    OBVIOUS
  <2> HIDE DEF w
  <2> QED BY <2>1, LightestExists
<1> QED BY <1>1 DEF Min

LEMMA MaxIs ==
  ASSUME NEW S, IsFiniteSet(S), S # {}, S \subseteq Int
  PROVE  Max(S) \in S /\ Max(S) \in Int /\ \A x \in S : x <= Max(S)
<1> DEFINE w == [x \in S |-> x]
<1>1. \E x \in S : \A y \in S : w[y] <= w[x]
  <2>1. \A x \in S : w[x] \in Int
    OBVIOUS
  <2> HIDE DEF w
  <2> QED BY <2>1, HeaviestExists
<1> QED BY <1>1 DEF Max

(* What a function makes of a finite set is finite.                        *)
LEMMA ImageIsFinite ==
  ASSUME NEW S, IsFiniteSet(S), NEW f
  PROVE  /\ IsFiniteSet({f[x] : x \in S})
         /\ Cardinality({f[x] : x \in S}) <= Cardinality(S)
<1> DEFINE T == {f[x] : x \in S}
           g == [x \in S |-> f[x]]
<1>1. g \in Surjection(S, T)
  BY DEF Surjection
<1> HIDE DEF g, T
<1>2. IsFiniteSet(T) /\ Cardinality(T) <= Cardinality(S)
  BY <1>1, FS_Surjection
<1> QED BY <1>2 DEF T

(* Rounding up, and to the nearest.                                        *)
LEMMA Rounding ==
  /\ \A t \in Int : CeilNs(t) \in Int /\ t <= 2 * CeilNs(t) /\ (t > 0 => CeilNs(t) > 0)
  /\ \A t \in Int : RoundNs(t) \in Int /\ (t >= 0 => RoundNs(t) >= 0)
  /\ \A t, d \in Int : t <= 2 * d => RoundNs(t) <= d
  /\ \A t, d \in Int : t <= d => RoundNs(t) <= RoundNs(d)
<1>1. \A t \in Int : CeilNs(t) \in Int /\ t <= 2 * CeilNs(t) /\ (t > 0 => CeilNs(t) > 0)
  BY DEF CeilNs
<1>3. \A t \in Int : t = 2 * (t \div 2) + (t % 2) /\ t % 2 \in 0..1 /\ t \div 2 \in Int
  OBVIOUS
<1>2. \A t \in Int : /\ RoundNs(t) \in Int
                     /\ RoundNs(t) = t \div 2 \/ RoundNs(t) = t \div 2 + 1
                     /\ t % 2 = 0 => RoundNs(t) = t \div 2
                     /\ RoundNs(t) = t \div 2 + 1 =>
                          t % 2 # 0 /\ (t \div 2) % 2 # 0
                     /\ RoundNs(t) = t \div 2 =>
                          t % 2 = 0 \/ (t \div 2) % 2 = 0
  <2> TAKE t \in Int
  <2> DEFINE n == t \div 2
             even == t % 2 = 0 \/ n % 2 = 0
  <2>1. RoundNs(t) = IF even THEN n ELSE n + 1
    BY DEF RoundNs
  <2>2. n \in Int /\ n # n + 1
    OBVIOUS
  <2> HIDE DEF n
  <2> QED BY <2>1, <2>2 DEF n
<1>4. \A t \in Int : t >= 0 => RoundNs(t) >= 0
  BY <1>2, <1>3
<1>5. \A t, d \in Int : t <= 2 * d => RoundNs(t) <= d
  <2> SUFFICES ASSUME NEW t \in Int, NEW d \in Int, t <= 2 * d
               PROVE  RoundNs(t) <= d
    OBVIOUS
  <2>1. CASE t % 2 = 0
    BY <1>2, <1>3, <2>1
  <2>2. CASE t % 2 = 1
    <3>1. t \div 2 + 1 <= d
      BY <1>3, <2>2
    <3> QED BY <1>2, <1>3, <3>1
  <2> QED BY <1>3, <2>1, <2>2
<1>6. \A t, d \in Int : t <= d => RoundNs(t) <= RoundNs(d)
  <2> SUFFICES ASSUME NEW t \in Int, NEW d \in Int, t <= d
               PROVE  RoundNs(t) <= RoundNs(d)
    OBVIOUS
  <2>1. t \div 2 <= d \div 2
    BY <1>3
  <2>2. CASE t \div 2 < d \div 2
    BY <1>2, <1>3, <2>2
  <2>3. CASE t \div 2 = d \div 2
    <3>1. t % 2 <= d % 2
      BY <1>3, <2>3
    <3>2. RoundNs(t) = t \div 2 + 1 => RoundNs(d) = d \div 2 + 1
      <4> HAVE RoundNs(t) = t \div 2 + 1
      <4>1. t % 2 # 0 /\ (t \div 2) % 2 # 0
        BY <1>2
      <4>2. d % 2 # 0 /\ (d \div 2) % 2 # 0
        BY <1>3, <2>3, <3>1, <4>1
      <4> QED BY <1>2, <4>2
    <3> QED BY <1>2, <1>3, <2>3, <3>2
  <2> QED BY <1>3, <2>1, <2>2, <2>3
<1> QED BY <1>1, <1>2, <1>4, <1>5, <1>6

----------------------------------------------------------------------------
(* The samples of a recorded key are the module intervals of its name.     *)
Imported(withOperations) ==
  Noise \cup {e \in trace : withOperations \/ e.track = "XLA_Modules"}

Samples(k) == {o \in trace : o.track = "XLA_Modules" /\ o.name = Labelled(k)}

LEMMA ImportedEvents ==
  ASSUME TraceInv, NEW withOperations
  PROVE  /\ RealEvents(Imported(withOperations))
              = {e \in trace : withOperations \/ e.track = "XLA_Modules"}
         /\ Modules(Imported(withOperations)) = {e \in trace : e.track = "XLA_Modules"}
<1>1. \A e \in trace : /\ e.plane = "TPU" /\ e.clock = "device" /\ e.track \in Tracks
                       /\ e.dur > 0
  BY DEF TraceInv, EventFits, Slack, Tracks
<1>2. RealEvents(Noise) = {}
  BY CaptureAssumption
<1>3. RealEvents(Imported(withOperations))
        = {e \in trace : withOperations \/ e.track = "XLA_Modules"}
  BY <1>1, <1>2 DEF RealEvents, Imported
<1> QED BY <1>3 DEF Modules

LEMMA SamplesAre ==
  ASSUME TraceInv, NEW withOperations, NEW k \in DOMAIN records
  PROVE  SamplesOf(Imported(withOperations), records, k) = Samples(k)
<1>1. RecordsFit /\ \A e \in trace : NameFits(e)
  BY DEF TraceInv, EventFits
<1>2. NoLabel \notin Keys
  BY CaptureAssumption
<1>3. ASSUME NEW o \in trace
      PROVE  Candidates(records, EventProgram(o)) = {k} <=> o.name = Labelled(k)
  <2> DEFINE p == EventProgram(o)
  <2>1. p.name = o.name /\ p.id = IF o.arg # NoId THEN o.arg ELSE o.suffix
    BY DEF EventProgram
  <2> HIDE DEF p
  <2>2. CASE \E j \in DOMAIN records : o.name = Labelled(j)
    <3>1. PICK j \in DOMAIN records : o.name = Labelled(j)
      BY <2>2
    <3>2. o.name.label = j /\ j \in Keys
      BY <1>1, <3>1 DEF Labelled, RecordsFit
    <3>3. Candidates(records, p) = ByName(records, o.name)
      BY <1>2, <2>1, <3>2 DEF Candidates
    <3>4. ByName(records, o.name) = {j}
      <4>1. \A i \in DOMAIN records : \A m \in records[i].modules :
              m.name = Labelled(i) /\ Labelled(i).label = i
        BY <1>1 DEF RecordsFit, Labelled
      <4>2. \E m \in records[j].modules : m.name = o.name
        BY <1>1, <3>1 DEF RecordsFit
      <4>3. \A i \in ByName(records, o.name) : i = j
        BY <3>2, <4>1 DEF ByName
      <4> QED BY <4>2, <4>3 DEF ByName
    <3>5. Labelled(k).label = k
      BY DEF Labelled
    <3> QED BY <3>1, <3>2, <3>3, <3>4, <3>5 DEF p
  <2>3. CASE o.name.label = NoLabel /\ o.arg = NoId /\ o.suffix \notin ModuleIds
    <3>1. \A i \in DOMAIN records : \A m \in records[i].modules :
            m.name = Labelled(i) /\ m.id \in ModuleIds /\ i \in Keys
      BY <1>1 DEF RecordsFit
    <3>2. ById(records, p.id) = {}
      BY <2>1, <2>3, <3>1 DEF ById
    <3>3. ByName(records, p.name) = {}
      <4> SUFFICES ASSUME NEW i \in DOMAIN records, NEW m \in records[i].modules,
                          m.name = p.name
                   PROVE  FALSE
        BY DEF ByName
      <4>1. p.name.label = i
        <5>1. p.name = Labelled(i)
          BY <3>1
        <5> QED BY <5>1 DEF Labelled
      <4> QED BY <1>2, <2>1, <2>3, <3>1, <4>1
    <3>4. Candidates(records, p) = {}
      BY <3>2, <3>3 DEF Candidates
    <3>5. o.name # Labelled(k)
      <4>1. Labelled(k).label = k /\ k \in Keys
        BY <1>1 DEF Labelled, RecordsFit
      <4> QED BY <1>2, <2>3, <4>1
    <3> QED BY <3>4, <3>5 DEF p
  <2> QED BY <1>1, <2>2, <2>3 DEF NameFits
<1> QED BY <1>3, ImportedEvents DEF SamplesOf, Samples

(* The intervals of a launch are samples of the key it is named for.       *)
LEMMA LaunchSamples ==
  ASSUME TraceInv, NEW k, NEW o \in Samples(k)
  PROVE  /\ o.launch \in 1..launches /\ o \in ModulesOf(o.launch)
         /\ ModulesOf(o.launch) \subseteq Samples(k)
         /\ Seen(o.launch, k)
<1>1. o \in trace /\ o.track = "XLA_Modules" /\ o.name = Labelled(k)
  BY DEF Samples
<1>2. o.launch \in 1..launches
  BY <1>1 DEF TraceInv, EventFits
<1>3. \A e \in trace : e.launch = o.launch => e.name = o.name
  BY <1>1 DEF TraceInv, EventsAgree
<1> QED BY <1>1, <1>2, <1>3 DEF ModulesOf, Samples, Seen

LEMMA LaunchIsFinite ==
  ASSUME TraceInv, NEW l
  PROVE  /\ IsFiniteSet(ModulesOf(l)) /\ Cardinality(ModulesOf(l)) \in Nat
         /\ \A o \in ModulesOf(l) : o \in trace /\ o.launch = l /\ o.track = "XLA_Modules"
<1>1. ModulesOf(l) \in SUBSET trace
  BY DEF ModulesOf
<1>2. IsFiniteSet(ModulesOf(l))
  BY <1>1, FS_Subset DEF TraceInv
<1> QED BY <1>2, FS_CardinalityType DEF ModulesOf

----------------------------------------------------------------------------
(* Groups of samples: whole launches.                                      *)
LEMMA SamplesFinite ==
  ASSUME TraceInv, NEW k
  PROVE  Samples(k) \subseteq trace /\ IsFiniteSet(Samples(k))
<1>1. Samples(k) \in SUBSET trace
  BY DEF Samples
<1> QED BY <1>1, FS_Subset DEF TraceInv

LEMMA Ends ==
  ASSUME TraceInv, NEW o \in trace
  PROVE  /\ o.ts \in Nat /\ o.dur \in Nat /\ EndOf(o) \in Int
         /\ o.ts + o.dur <= EndOf(o) /\ o.ts < EndOf(o) /\ o.ts < o.ts + o.dur
<1>1. o.ts \in Nat /\ o.dur \in Nat /\ o.dur > 0
  <2>1. EventFits(o)
    BY DEF TraceInv
  <2> QED BY <2>1 DEF EventFits, Slack
<1> DEFINE c == CeilNs(o.dur)
<1>2. c \in Int /\ o.dur <= 2 * c
  <2>1. PICK d \in Nat : d = o.dur
    BY <1>1
  <2>2. CeilNs(d) \in Int /\ d <= 2 * CeilNs(d)
    BY Rounding
  <2> QED BY <2>1, <2>2
<1>3. EndOf(o) = o.ts + 2 * c
  BY DEF EndOf
<1> HIDE DEF c
<1> QED BY <1>1, <1>2, <1>3

LEMMA LaunchOverlaps ==
  ASSUME TraceInv, NEW l, NEW e \in ModulesOf(l), NEW f \in ModulesOf(l)
  PROVE  /\ e.queue = f.queue /\ e.name = f.name
         /\ e.ts < f.ts + f.dur /\ e.ts < EndOf(f)
         /\ e.device = f.device => e = f
<1>1. /\ e \in trace /\ f \in trace /\ e.launch = f.launch
      /\ e.track = "XLA_Modules" /\ f.track = "XLA_Modules"
  BY DEF ModulesOf
<1>2. /\ e.queue = f.queue /\ e.name = f.name /\ e.ts < f.ts + f.dur
      /\ e.device = f.device => e = f
  BY <1>1 DEF TraceInv, EventsAgree
<1>3. e.ts < EndOf(f)
  BY <1>1, <1>2, Ends
<1> QED BY <1>2, <1>3

(* A sample that starts a group begins after all earlier ones have ended.  *)
LEMMA StartsSplit ==
  ASSUME TraceInv, NEW queue \in SUBSET trace, NEW t \in Starts(queue)
  PROVE  /\ t \in Int
         /\ \A e \in queue : e.ts < t => EndOf(e) <= t
<1>1. PICK s \in queue : s.ts = t /\ \A q \in queue : q.ts < s.ts => EndOf(q) <= s.ts
  BY DEF Starts
<1> QED BY <1>1, Ends

OnQueue(k, q) == {o \in Samples(k) : o.queue = q}
Group(queue, start) ==
  {o \in queue : o.ts >= start /\ ~\E t \in Starts(queue) : start < t /\ t <= o.ts}

LEMMA GroupsAre ==
  ASSUME NEW k
  PROVE  \A g : g \in Groups(Samples(k)) <=>
           \E q \in {o.queue : o \in Samples(k)} :
             \E start \in Starts(OnQueue(k, q)) : g = Group(OnQueue(k, q), start)
<1> DEFINE Of(q) == {Group(OnQueue(k, q), start) : start \in Starts(OnQueue(k, q))}
           queues == {o.queue : o \in Samples(k)}
<1>1. Groups(Samples(k)) = UNION {Of(q) : q \in queues}
  BY DEF Groups, OnQueue, Group
<1>2. \A g, q : g \in Of(q) <=> \E start \in Starts(OnQueue(k, q)) : g = Group(OnQueue(k, q), start)
  OBVIOUS
<1> HIDE DEF Of, queues
<1>3. \A g : g \in Groups(Samples(k)) <=> \E q \in queues : g \in Of(q)
  BY <1>1
<1> QED BY <1>2, <1>3 DEF queues

LEMMA GroupsKeepLaunches ==
  ASSUME TraceInv, NEW k, NEW g \in Groups(Samples(k))
  PROVE  /\ g \subseteq Samples(k)
         /\ \A o \in g : ModulesOf(o.launch) \subseteq g
<1>0. PICK q : \E start \in Starts(OnQueue(k, q)) : g = Group(OnQueue(k, q), start)
  BY GroupsAre
<1>1. PICK start \in Starts(OnQueue(k, q)) : g = Group(OnQueue(k, q), start)
  BY <1>0
<1> DEFINE queue == OnQueue(k, q)
<1>2. queue \subseteq Samples(k) /\ queue \in SUBSET trace
  BY SamplesFinite DEF OnQueue
<1>3. g \subseteq queue
  BY <1>1 DEF Group
<1>4. ASSUME NEW o \in g, NEW e \in ModulesOf(o.launch)
      PROVE  e \in g
  <2>1. o \in Samples(k) /\ o \in queue /\ o \in trace
    BY <1>2, <1>3
  <2>2. o \in ModulesOf(o.launch) /\ e \in Samples(k) /\ e \in trace
    BY <2>1, LaunchSamples, SamplesFinite
  <2>3. /\ e.queue = o.queue /\ e.ts < EndOf(o) /\ o.ts < EndOf(e)
    BY <2>2, LaunchOverlaps
  <2>4. e \in queue
    BY <2>1, <2>2, <2>3 DEF OnQueue
  <2>5. e.ts \in Int /\ o.ts \in Int /\ EndOf(e) \in Int /\ EndOf(o) \in Int /\ start \in Int
    <3>1. start \in Starts(queue)
      BY <1>1
    <3>2. start \in Int
      BY <1>2, <3>1, StartsSplit
    <3> QED BY <2>1, <2>2, <3>2, Ends
  <2>6. o.ts >= start /\ ~\E t \in Starts(queue) : start < t /\ t <= o.ts
    BY <1>1 DEF Group
  <2>7. e.ts >= start
    <3> SUFFICES ASSUME e.ts < start PROVE FALSE
      BY <2>5
    <3>1. start \in Starts(queue)
      BY <1>1
    <3>2. EndOf(e) <= start
      BY <1>2, <2>4, <3>1, StartsSplit
    <3> QED BY <2>3, <2>5, <2>6, <3>2
  <2>8. ASSUME NEW t \in Starts(queue), start < t, t <= e.ts
        PROVE  FALSE
    <3>1. t \in Int /\ \A f \in queue : f.ts < t => EndOf(f) <= t
      BY <1>2, StartsSplit
    <3>2. o.ts < t
      BY <2>5, <2>6, <2>8, <3>1
    <3>3. EndOf(o) <= t
      BY <2>1, <3>1, <3>2
    <3> QED BY <2>3, <2>5, <2>8, <3>1, <3>3
  <2> QED BY <1>1, <2>4, <2>7, <2>8 DEF Group
<1> QED BY <1>2, <1>3, <1>4

(* Two launches would be too many samples for the devices of the program.  *)
LEMMA GroupIsLaunch ==
  ASSUME TraceInv, NEW k \in DOMAIN records, DevicesOf[k] > 1,
         NEW g \in Groups(Samples(k)), Cardinality(g) = DevicesOf[k]
  PROVE  \E l \in 1..launches : g = ModulesOf(l) /\ Seen(l, k)
<1>1. g \subseteq Samples(k) /\ \A o \in g : ModulesOf(o.launch) \subseteq g
  BY GroupsKeepLaunches
<1>2. IsFiniteSet(g)
  BY <1>1, SamplesFinite, FS_Subset
<1>3. k \in Keys /\ DevicesOf[k] \in Nat /\ missed \in Nat /\ missed < DevicesOf[k]
  BY CaptureAssumption DEF TraceInv, RecordsFit
<1>4. g # {}
  BY <1>2, <1>3, FS_EmptySet
<1>5. PICK o \in g : TRUE
  BY <1>4
<1> DEFINE l == o.launch
<1>6. l \in 1..launches /\ Seen(l, k) /\ ModulesOf(l) \subseteq g
  BY <1>1, LaunchSamples
<1>7. ASSUME NEW e \in g, e.launch # l PROVE FALSE
  <2> DEFINE m == e.launch
  <2>1. m \in 1..launches /\ Seen(m, k) /\ ModulesOf(m) \subseteq g /\ m # l
    BY <1>1, <1>7, LaunchSamples
  <2> HIDE DEF m, l
  <2>2. /\ IsFiniteSet(ModulesOf(l)) /\ Cardinality(ModulesOf(l)) \in Nat
        /\ IsFiniteSet(ModulesOf(m)) /\ Cardinality(ModulesOf(m)) \in Nat
        /\ \A x \in ModulesOf(l) : x \notin ModulesOf(m)
    BY <2>1, LaunchIsFinite
  <2>3. Cardinality(ModulesOf(l)) + Cardinality(ModulesOf(m)) >= 2 * DevicesOf[k] - missed
    BY <1>3, <1>6, <2>1 DEF TraceInv, MissedFit
  <2> DEFINE both == ModulesOf(l) \cup ModulesOf(m)
  <2>4. /\ IsFiniteSet(both)
        /\ Cardinality(both) = Cardinality(ModulesOf(l)) + Cardinality(ModulesOf(m))
                               - Cardinality(ModulesOf(l) \cap ModulesOf(m))
    BY <2>2, FS_Union
  <2>5. ModulesOf(l) \cap ModulesOf(m) = {}
    BY <2>2
  <2>6. Cardinality(ModulesOf(l) \cap ModulesOf(m)) = 0
    BY <2>5, FS_EmptySet
  <2>7. both \in SUBSET g
    BY <1>6, <2>1
  <2> HIDE DEF both
  <2>8. Cardinality(both) <= Cardinality(g)
    BY <1>2, <2>7, FS_Subset
  <2>9. Cardinality(both) \in Nat
    BY <2>4, FS_CardinalityType
  <2> QED BY <1>3, <2>2, <2>3, <2>4, <2>6, <2>8, <2>9
<1>8. g \subseteq ModulesOf(l)
  <2> SUFFICES ASSUME NEW e \in g PROVE e \in ModulesOf(l)
    OBVIOUS
  <2>1. e.launch = l /\ e \in Samples(k)
    BY <1>1, <1>7
  <2> QED BY <2>1, LaunchSamples
<1> QED BY <1>6, <1>8

LEMMA LaunchBounds ==
  ASSUME TraceInv, NEW l, ModulesOf(l) # {}
  PROVE  LET begins == {o.ts : o \in ModulesOf(l)}
             ends == {EndOf(o) : o \in ModulesOf(l)}
         IN  /\ Min(begins) \in begins /\ Min(begins) \in Int
             /\ Max(ends) \in ends /\ Max(ends) \in Int
             /\ \A o \in ModulesOf(l) : Min(begins) <= o.ts /\ EndOf(o) <= Max(ends)
<1> DEFINE M == ModulesOf(l)
           begins == {o.ts : o \in M}
           ends == {EndOf(o) : o \in M}
           f == [o \in M |-> o.ts]
           g == [o \in M |-> EndOf(o)]
<1>1. IsFiniteSet(M) /\ \A o \in M : o.ts \in Int /\ EndOf(o) \in Int
  BY LaunchIsFinite, Ends
<1>2. IsFiniteSet({f[o] : o \in M}) /\ IsFiniteSet({g[o] : o \in M})
  <2> HIDE DEF f, g, M
  <2> QED BY <1>1, ImageIsFinite
<1>3. {f[o] : o \in M} = begins /\ {g[o] : o \in M} = ends
  OBVIOUS
<1>4. begins # {} /\ ends # {} /\ begins \subseteq Int /\ ends \subseteq Int
  BY <1>1
<1>5. \A o \in M : o.ts \in begins /\ EndOf(o) \in ends
  OBVIOUS
<1> HIDE DEF begins, ends, f, g
<1>6. /\ Min(begins) \in begins /\ Min(begins) \in Int /\ \A x \in begins : Min(begins) <= x
      /\ Max(ends) \in ends /\ Max(ends) \in Int /\ \A x \in ends : x <= Max(ends)
  BY <1>2, <1>3, <1>4, MinIs, MaxIs
<1>7. \A o \in M : Min(begins) <= o.ts /\ EndOf(o) <= Max(ends)
  BY <1>5, <1>6
<1> QED BY <1>6, <1>7 DEF begins, ends

(* A launch is a group when nothing of its program touches it on its queue.*)
LEMMA IsolatedIsGroup ==
  ASSUME TraceInv, NEW k, NEW l, ModulesOf(l) # {}, Isolated(k, l),
         \A o \in ModulesOf(l) : o.name = Labelled(k)
  PROVE  ModulesOf(l) \in Groups(Samples(k))
<1> DEFINE M == ModulesOf(l)
           start == Min({o.ts : o \in M})
           end == Max({EndOf(o) : o \in M})
<1>1. /\ start \in {o.ts : o \in M} /\ start \in Int
      /\ end \in {EndOf(o) : o \in M} /\ end \in Int
      /\ \A o \in M : start <= o.ts /\ EndOf(o) <= end
  <2> HIDE DEF M
  <2> USE DEF M
  <2> QED BY LaunchBounds
<1> HIDE DEF start, end
<1>2. PICK s \in M : s.ts = start
  BY <1>1
<1> DEFINE queue == OnQueue(k, s.queue)
<1>3. M \subseteq queue /\ queue \in SUBSET trace /\ s \in Samples(k)
  <2>1. \A o \in M : o \in Samples(k)
    BY DEF ModulesOf, Samples
  <2>2. \A o \in M : o.queue = s.queue
    BY LaunchOverlaps
  <2> QED BY <2>1, <2>2, SamplesFinite DEF OnQueue
<1>4. \A e \in queue : e \in M \/ EndOf(e) <= start \/ end <= e.ts
  <2> SUFFICES ASSUME NEW e \in queue, e \notin M
               PROVE  EndOf(e) <= start \/ end <= e.ts
    OBVIOUS
  <2>1. /\ e \in trace /\ e.track = "XLA_Modules" /\ e.name = Labelled(k)
        /\ e.queue = s.queue /\ e.launch # l
    BY DEF OnQueue, Samples, ModulesOf
  <2>2. s \in ModulesOf(l)
    OBVIOUS
  <2> QED BY <2>1, <2>2 DEF Isolated, start, end
<1> HIDE DEF M
<1>5. \A e \in queue : e.ts \in Int /\ EndOf(e) \in Int /\ e.ts < EndOf(e)
  BY <1>3, Ends
<1>6. start < end
  BY <1>1, <1>2, <1>3, <1>5
<1>7. start \in Starts(queue)
  <2>1. ASSUME NEW q \in queue, q.ts < s.ts PROVE EndOf(q) <= s.ts
    <3>1. q \notin M
      BY <1>1, <1>2, <1>5, <2>1
    <3>2. ~(end <= q.ts)
      BY <1>1, <1>2, <1>5, <1>6, <2>1
    <3> QED BY <1>2, <1>4, <3>1, <3>2
  <2>2. s \in queue
    BY <1>3
  <2> QED BY <1>2, <2>1, <2>2 DEF Starts
<1>8. ASSUME NEW o \in M PROVE o \in Group(queue, start)
  <2>1. o \in queue /\ o.ts >= start /\ o.ts \in Int
    BY <1>1, <1>3, <1>5
  <2>2. ASSUME NEW t \in Starts(queue), start < t, t <= o.ts PROVE FALSE
    <3>1. t \in Int /\ EndOf(s) <= t
      BY <1>2, <1>3, <2>2, StartsSplit
    <3>2. o.ts < EndOf(s)
      BY LaunchOverlaps DEF M
    <3>3. EndOf(s) \in Int
      BY <1>3, <1>5
    <3> QED BY <2>1, <2>2, <3>1, <3>2, <3>3
  <2> QED BY <2>1, <2>2 DEF Group
<1>9. ASSUME NEW o \in Group(queue, start), o \notin M PROVE FALSE
  <2>1. o \in queue /\ start <= o.ts /\ ~\E t \in Starts(queue) : start < t /\ t <= o.ts
    BY DEF Group
  <2>2. end <= o.ts
    BY <1>1, <1>4, <1>5, <1>9, <2>1
  <2> DEFINE later == {e \in queue : end <= e.ts}
             w == [e \in later |-> e.ts]
  <2>3. later \in SUBSET trace
    BY <1>3
  <2>4. IsFiniteSet(later)
    BY <2>3, FS_Subset DEF TraceInv
  <2>5. o \in later
    BY <2>1, <2>2
  <2>6. \E x \in later : \A y \in later : w[x] <= w[y]
    <3>1. \A x \in later : w[x] \in Int
      BY <1>5
    <3> HIDE DEF w, later
    <3> QED BY <2>4, <2>5, <3>1, LightestExists
  <2>7. PICK x \in later : \A y \in later : x.ts <= y.ts
    BY <2>6
  <2>8. \A q \in queue : q.ts < x.ts => EndOf(q) <= x.ts
    <3> SUFFICES ASSUME NEW q \in queue, q.ts < x.ts PROVE EndOf(q) <= x.ts
      OBVIOUS
    <3>1. end <= x.ts /\ x.ts \in Int /\ q.ts \in Int /\ EndOf(q) \in Int
      BY <1>5
    <3>2. ~(end <= q.ts)
      BY <2>7, <3>1
    <3>3. EndOf(q) <= end
      <4>1. q \in M \/ EndOf(q) <= start
        BY <1>4, <3>2
      <4> QED BY <1>1, <1>6, <3>1, <4>1
    <3> QED BY <1>1, <3>1, <3>3
  <2>9. x.ts \in Starts(queue)
    BY <2>8 DEF Starts
  <2>10. start < x.ts /\ x.ts <= o.ts
    BY <1>1, <1>5, <1>6, <2>5, <2>7
  <2> QED BY <2>1, <2>9, <2>10
<1>10. M = Group(queue, start)
  BY <1>8, <1>9
<1>11. s.queue \in {o.queue : o \in Samples(k)}
  BY <1>3
<1> QED BY <1>7, <1>10, <1>11, GroupsAre DEF M

(* The samples of a launch are of different devices, and overlap.          *)
LEMMA LaunchAccepted ==
  ASSUME TraceInv, NEW l, NEW n \in Nat \ {0}, Cardinality(ModulesOf(l)) = n
  PROVE  Accepted(ModulesOf(l), n)
<1> DEFINE M == ModulesOf(l)
           devices == {o.device : o \in M}
           f == [o \in M |-> o.device]
<1>1. IsFiniteSet(M) /\ M # {}
  BY LaunchIsFinite, FS_EmptySet
<1>2. f \in Surjection(M, devices)
  BY DEF Surjection
<1>3. f \in Injection(M, devices)
  <2>1. f \in [M -> devices]
    OBVIOUS
  <2>2. \A a, b \in M : f[a] = f[b] => a = b
    BY LaunchOverlaps
  <2> HIDE DEF f, devices, M
  <2> QED BY <2>1, <2>2 DEF Injection, IsInjective
<1>4. Cardinality(devices) = n
  <2> HIDE DEF f, devices
  <2> QED BY <1>1, <1>2, <1>3, FS_Surjection
<1> DEFINE begins == {o.ts : o \in M}
           ends == {EndOf(o) : o \in M}
           b == [o \in M |-> o.ts]
           e == [o \in M |-> EndOf(o)]
<1>5. \A o \in M : o.ts \in Int /\ EndOf(o) \in Int
  BY LaunchIsFinite, Ends
<1>6. IsFiniteSet({b[o] : o \in M}) /\ IsFiniteSet({e[o] : o \in M})
  <2> HIDE DEF b, e, M
  <2> QED BY <1>1, ImageIsFinite
<1>7. {b[o] : o \in M} = begins /\ {e[o] : o \in M} = ends
  OBVIOUS
<1>8. begins # {} /\ ends # {} /\ begins \subseteq Int /\ ends \subseteq Int
  BY <1>1, <1>5
<1>9. Max(begins) \in begins /\ Min(ends) \in ends
  <2> HIDE DEF begins, ends
  <2> QED BY <1>6, <1>7, <1>8, MaxIs, MinIs
<1>10. \A x \in begins, y \in ends : x < y
  BY LaunchOverlaps
<1>11. Max(begins) < Min(ends)
  <2> HIDE DEF begins, ends
  <2> QED BY <1>9, <1>10
<1> QED BY <1>4, <1>11 DEF Accepted

(* Every invocation is a launch, and every accepted launch an invocation.  *)
LEMMA InvocationIsLaunch ==
  ASSUME TraceInv, NEW k \in DOMAIN records, NEW events, NEW first,
         NEW i \in Invocations(events, Samples(k), DevicesOf[k], first)
  PROVE  \E l \in 1..launches : /\ i = InvocationOf(events, ModulesOf(l), first)
                                /\ Seen(l, k)
                                /\ Cardinality(ModulesOf(l)) = DevicesOf[k]
<1>1. k \in Keys /\ DevicesOf[k] \in Nat /\ DevicesOf[k] >= 1 /\ missed \in Nat
  BY CaptureAssumption DEF TraceInv, RecordsFit
<1>2. CASE DevicesOf[k] = 1
  <2>1. PICK o \in Samples(k) : i = InvocationOf(events, {o}, first)
    BY <1>2 DEF Invocations
  <2> DEFINE l == o.launch
  <2>2. l \in 1..launches /\ Seen(l, k) /\ o \in ModulesOf(l)
    BY LaunchSamples
  <2> HIDE DEF l
  <2>3. /\ IsFiniteSet(ModulesOf(l)) /\ Cardinality(ModulesOf(l)) \in Nat
        /\ Cardinality(ModulesOf(l)) <= 1
    BY <1>1, <1>2, <2>2, LaunchIsFinite DEF TraceInv, MissedFit
  <2>4. Cardinality(ModulesOf(l)) = 1
    BY <2>2, <2>3, FS_EmptySet
  <2>5. \E x : ModulesOf(l) = {x}
    BY <2>3, <2>4, FS_Singleton
  <2>6. ModulesOf(l) = {o}
    BY <2>2, <2>5
  <2> QED BY <1>2, <2>1, <2>2, <2>4, <2>6
<1>3. CASE DevicesOf[k] > 1
  <2>1. PICK g \in Groups(Samples(k)) :
          Accepted(g, DevicesOf[k]) /\ i = InvocationOf(events, g, first)
    BY <1>1, <1>3 DEF Invocations
  <2>2. Cardinality(g) = DevicesOf[k]
    BY <2>1 DEF Accepted
  <2> QED BY <1>3, <2>1, <2>2, GroupIsLaunch
<1> QED BY <1>1, <1>2, <1>3

LEMMA LaunchIsInvocation ==
  ASSUME TraceInv, NEW k \in DOMAIN records, NEW events, NEW first,
         NEW l, Cardinality(ModulesOf(l)) = DevicesOf[k], Isolated(k, l),
         \A o \in ModulesOf(l) : o.name = Labelled(k)
  PROVE  InvocationOf(events, ModulesOf(l), first)
           \in Invocations(events, Samples(k), DevicesOf[k], first)
<1>1. k \in Keys /\ DevicesOf[k] \in Nat \ {0}
  BY CaptureAssumption DEF TraceInv, RecordsFit
<1>2. IsFiniteSet(ModulesOf(l)) /\ ModulesOf(l) # {}
  BY <1>1, LaunchIsFinite, FS_EmptySet
<1>3. CASE DevicesOf[k] = 1
  <2>1. PICK o : ModulesOf(l) = {o}
    BY <1>2, <1>3, FS_Singleton
  <2>2. o \in Samples(k)
    BY <2>1 DEF ModulesOf, Samples
  <2> QED BY <1>3, <2>1, <2>2 DEF Invocations
<1>4. CASE DevicesOf[k] # 1
  <2>1. ModulesOf(l) \in Groups(Samples(k))
    BY <1>2, IsolatedIsGroup
  <2>2. Accepted(ModulesOf(l), DevicesOf[k])
    BY <1>1, LaunchAccepted
  <2> QED BY <1>4, <2>1, <2>2 DEF Invocations
<1> QED BY <1>3, <1>4

----------------------------------------------------------------------------
(* The invocation of a launch lasts from its first begin to its last end.  *)
LEMMA InvocationFacts ==
  ASSUME TraceInv, NEW l, NEW n \in Nat \ {0}, Cardinality(ModulesOf(l)) = n,
         NEW events, NEW first
  PROVE  LET i == InvocationOf(events, ModulesOf(l), first)
         IN  /\ i.samples = ModulesOf(l) /\ i.ts \in Int
             /\ i.duration \in Int /\ i.duration > 0
             /\ \A o \in ModulesOf(l) : i.ts <= o.ts /\ o.ts + o.dur - i.ts <= 2 * i.duration
<1> DEFINE M == ModulesOf(l)
           begins == {o.ts : o \in M}
           ends == {EndOf(o) : o \in M}
           own == {o.ts + o.dur : o \in M}
           begin == Min(begins)
           end == IF Cardinality(M) = 1 THEN Max(own) ELSE Max(ends)
           i == InvocationOf(events, M, first)
<1>1. IsFiniteSet(M) /\ M # {}
  BY LaunchIsFinite, FS_EmptySet
<1>2. \A o \in M : /\ o.ts \in Int /\ EndOf(o) \in Int /\ o.ts + o.dur \in Int /\ o.dur \in Int
                   /\ o.ts + o.dur <= EndOf(o) /\ o.ts < o.ts + o.dur
  BY LaunchIsFinite, Ends
<1>3. /\ begin \in Int /\ \A o \in M : begin <= o.ts
      /\ Max(ends) \in Int /\ \A o \in M : EndOf(o) <= Max(ends)
  BY <1>1, LaunchBounds
<1>4. Max(own) \in Int /\ \A o \in M : o.ts + o.dur <= Max(own)
  <2> DEFINE f == [o \in M |-> o.ts + o.dur]
  <2>1. IsFiniteSet({f[o] : o \in M})
    <3> HIDE DEF f, M
    <3> QED BY <1>1, ImageIsFinite
  <2>2. {f[o] : o \in M} = own
    OBVIOUS
  <2>3. own # {} /\ own \subseteq Int /\ \A o \in M : o.ts + o.dur \in own
    BY <1>1, <1>2
  <2> HIDE DEF own, f
  <2> QED BY <2>1, <2>2, <2>3, MaxIs
<1> HIDE DEF begin, begins, own, ends
<1>5. end \in Int /\ \A o \in M : begin <= o.ts /\ o.ts + o.dur <= end
  <2>1. CASE Cardinality(M) = 1
    BY <1>3, <1>4, <2>1
  <2>2. CASE Cardinality(M) # 1
    <3>1. end = Max(ends)
      BY <2>2
    <3> HIDE DEF end
    <3> QED BY <1>2, <1>3, <3>1
  <2> QED BY <2>1, <2>2
<1>6. i.samples = M /\ i.ts = begin /\ i.duration = CeilNs(end - begin)
  BY DEF InvocationOf, begin, begins, own, ends
<1> HIDE DEF end, i
<1>7. PICK o \in M : TRUE
  BY <1>1
<1>8. end - begin \in Int /\ end - begin > 0
  BY <1>2, <1>3, <1>5, <1>7
<1>9. i.duration \in Int /\ i.duration > 0 /\ end - begin <= 2 * i.duration
  BY <1>6, <1>8, Rounding
<1>10. \A q \in M : i.ts <= q.ts /\ q.ts + q.dur - i.ts <= 2 * i.duration
  BY <1>2, <1>3, <1>5, <1>6, <1>9
<1> QED BY <1>3, <1>6, <1>9, <1>10 DEF i

LEMMA InvocationsFinite ==
  ASSUME TraceInv, NEW k, NEW events, NEW devices, NEW first
  PROVE  IsFiniteSet(Invocations(events, Samples(k), devices, first))
<1> DEFINE groups == SUBSET Samples(k)
           f == [g \in groups |-> InvocationOf(events, g, first)]
<1>1. IsFiniteSet(groups)
  BY SamplesFinite, FS_SUBSET
<1>2. IsFiniteSet({f[g] : g \in groups})
  <2> HIDE DEF f, groups
  <2> QED BY <1>1, ImageIsFinite
<1>3. Invocations(events, Samples(k), devices, first) \in SUBSET {f[g] : g \in groups}
  <2> SUFFICES ASSUME NEW i \in Invocations(events, Samples(k), devices, first)
               PROVE  \E g \in groups : i = InvocationOf(events, g, first)
    OBVIOUS
  <2>1. \A g \in Groups(Samples(k)) : g \in groups
    BY GroupsKeepLaunches
  <2>2. \A o \in Samples(k) : {o} \in groups
    OBVIOUS
  <2> HIDE DEF groups
  <2> QED BY <2>1, <2>2 DEF Invocations
<1> QED BY <1>2, <1>3, FS_Subset

(* The n-th duration of finitely many is one of theirs.                    *)
LEMMA RankedIs ==
  ASSUME NEW I, IsFiniteSet(I), \A i \in I : i.duration \in Int,
         NEW n \in Nat \ {0}, n <= Cardinality(I)
  PROVE  \E i \in I : Ranked(I, n) = i.duration
<1> DEFINE durations == {i.duration : i \in I}
           upTo(d) == {i \in I : i.duration <= d}
           enough == {i \in I : Cardinality(upTo(i.duration)) >= n}
           w == [i \in I |-> i.duration]
<1>1. I # {} /\ Cardinality(I) \in Nat
  BY FS_EmptySet, FS_CardinalityType
<1>2. \A i \in I : w[i] \in Int
  OBVIOUS
<1>3. \A d : Cardinality(upTo(d)) \in Nat
  <2> TAKE d
  <2>1. upTo(d) \in SUBSET I
    OBVIOUS
  <2> HIDE DEF upTo
  <2> QED BY <2>1, FS_Subset, FS_CardinalityType
<1>4. enough # {}
  <2>1. \E x \in I : \A y \in I : w[y] <= w[x]
    <3> HIDE DEF w
    <3> QED BY <1>1, <1>2, HeaviestExists
  <2>2. PICK x \in I : \A y \in I : y.duration <= x.duration
    BY <2>1
  <2>3. upTo(x.duration) = I
    BY <2>2
  <2> HIDE DEF upTo
  <2>4. x \in enough
    BY <1>1, <2>3
  <2> QED BY <2>4
<1>5. enough \in SUBSET I
  OBVIOUS
<1>6. \E x \in enough : \A y \in enough : w[x] <= w[y]
  <2>1. IsFiniteSet(enough) /\ \A x \in enough : w[x] \in Int
    <3> HIDE DEF enough, w
    <3> QED BY <1>2, <1>5, FS_Subset
  <2> HIDE DEF enough, w
  <2> QED BY <1>4, <2>1, LightestExists
<1>7. PICK x \in enough : \A y \in enough : x.duration <= y.duration
  BY <1>6
<1> HIDE DEF upTo
<1>8. /\ x.duration \in durations
      /\ Cardinality(upTo(x.duration)) >= n
      /\ \A i \in I : i.duration < x.duration => Cardinality(upTo(i.duration)) < n
  <2>1. x.duration \in durations /\ Cardinality(upTo(x.duration)) >= n /\ x.duration \in Int
    OBVIOUS
  <2>2. ASSUME NEW i \in I, i.duration < x.duration
        PROVE  Cardinality(upTo(i.duration)) < n
    <3>1. i \notin enough
      BY <1>7, <2>1, <2>2
    <3>2. Cardinality(upTo(i.duration)) \in Nat
      BY <1>3
    <3> QED BY <3>1, <3>2
  <2> QED BY <2>1, <2>2
<1>9. Ranked(I, n) = CHOOSE d \in durations :
                       /\ Cardinality(upTo(d)) >= n
                       /\ \A i \in I : i.duration < d => Cardinality(upTo(i.duration)) < n
  BY DEF Ranked, upTo
<1>10. Ranked(I, n) \in durations
  <2> HIDE DEF durations
  <2> QED BY <1>8, <1>9
<1> QED BY <1>10

LEMMA MedianIs ==
  ASSUME NEW I, IsFiniteSet(I), I # {}, \A i \in I : i.duration \in Int /\ i.duration > 0
  PROVE  MedianTwice(I) \in Int /\ MedianTwice(I) > 1
<1> DEFINE n == Cardinality(I)
           a == Ranked(I, (n + 1) \div 2)
           b == Ranked(I, n \div 2 + 1)
<1>1. n \in Nat \ {0}
  BY FS_CardinalityType, FS_EmptySet
<1> HIDE DEF n
<1>2. /\ (n + 1) \div 2 \in Nat \ {0} /\ (n + 1) \div 2 <= n
      /\ n \div 2 + 1 \in Nat \ {0} /\ n \div 2 + 1 <= n
  BY <1>1
<1>3. \E i \in I : a = i.duration
  BY <1>2, RankedIs DEF n
<1>4. \E i \in I : b = i.duration
  BY <1>2, RankedIs DEF n
<1>5. MedianTwice(I) = a + b
  BY DEF MedianTwice, n
<1> HIDE DEF a, b
<1> QED BY <1>3, <1>4, <1>5

(* There is a first of the invocations that are nearest to the median.     *)
LEMMA NearestIs ==
  ASSUME NEW samples, IsFiniteSet(samples), \A o \in samples : o.ts \in Int,
         NEW I, IsFiniteSet(I), I # {},
         \A i \in I : /\ i.duration \in Int /\ i.duration > 0 /\ i.ts \in Int
                      /\ i.samples \subseteq samples /\ i.samples # {}
  PROVE  Nearest(samples, I) \in I
<1> DEFINE median == MedianTwice(I)
           far(i) == Max({2 * i.duration - median, median - 2 * i.duration})
           nearest == {i \in I : \A j \in I : far(i) <= far(j)}
           queue(i) == {o \in samples : o.queue \in {q.queue : q \in i.samples}}
           begin(i) == IF Cardinality(i.samples) = 1 THEN 0 ELSE Min({o.ts : o \in queue(i)})
           before(i, j) == begin(i) < begin(j) \/ (begin(i) = begin(j) /\ i.ts <= j.ts)
<1>1. median \in Int
  BY MedianIs
<1>2. \A i \in I : far(i) \in Int
  <2> TAKE i \in I
  <2> DEFINE a == 2 * i.duration - median
             b == median - 2 * i.duration
  <2>1. a \in Int /\ b \in Int
    BY <1>1
  <2> HIDE DEF a, b
  <2>2. IsFiniteSet({a, b})
    <3>1. IsFiniteSet({a})
      BY FS_Singleton
    <3>2. IsFiniteSet({a} \cup {b})
      BY <3>1, FS_AddElement
    <3>3. {a, b} = {a} \cup {b}
      OBVIOUS
    <3> QED BY <3>2, <3>3
  <2>3. {a, b} # {} /\ \A x \in {a, b} : x \in Int
    BY <2>1
  <2>4. Max({a, b}) \in {a, b}
    BY <2>2, <2>3, MaxIs
  <2>5. Max({a, b}) \in Int
    BY <2>3, <2>4
  <2> QED BY <2>5 DEF a, b
<1>3. \A i \in I : begin(i) \in Int
  <2> TAKE i \in I
  <2> DEFINE Q == queue(i)
             f == [o \in Q |-> o.ts]
  <2>1. Q \in SUBSET samples /\ \A o \in i.samples : o \in Q
    OBVIOUS
  <2>2. IsFiniteSet(Q) /\ Q # {} /\ \A o \in Q : o.ts \in Int
    <3> HIDE DEF Q
    <3> QED BY <2>1, FS_Subset
  <2> HIDE DEF Q
  <2>3. IsFiniteSet({f[o] : o \in Q}) /\ {f[o] : o \in Q} = {o.ts : o \in Q}
    <3>1. IsFiniteSet({f[o] : o \in Q})
      <4> HIDE DEF f
      <4> QED BY <2>2, ImageIsFinite
    <3> QED BY <3>1
  <2>4. {o.ts : o \in Q} # {} /\ {o.ts : o \in Q} \subseteq Int
    BY <2>2
  <2>5. Min({o.ts : o \in Q}) \in Int
    BY <2>3, <2>4, MinIs
  <2> QED BY <2>5 DEF Q
<1> HIDE DEF far, begin, queue
<1>4. nearest # {}
  <2> DEFINE w == [i \in I |-> far(i)]
  <2>1. \A i \in I : w[i] \in Int
    BY <1>2
  <2>2. \E i \in I : \A j \in I : w[i] <= w[j]
    <3> HIDE DEF w
    <3> QED BY <2>1, LightestExists
  <2> QED BY <2>2
<1>5. nearest \in SUBSET I
  OBVIOUS
<1>6. IsFiniteSet(nearest)
  <2> HIDE DEF nearest
  <2> QED BY <1>5, FS_Subset
<1> HIDE DEF nearest
<1>7. PICK x \in nearest : \A y \in nearest : begin(x) <= begin(y)
  <2> DEFINE w == [i \in nearest |-> begin(i)]
  <2>1. \A i \in nearest : w[i] \in Int
    BY <1>3, <1>5
  <2>2. \E i \in nearest : \A j \in nearest : w[i] <= w[j]
    <3> HIDE DEF w
    <3> QED BY <1>4, <1>6, <2>1, LightestExists
  <2> QED BY <2>2
<1> DEFINE ties == {i \in nearest : begin(i) = begin(x)}
<1>8. PICK z \in ties : \A y \in ties : z.ts <= y.ts
  <2> DEFINE w == [i \in ties |-> i.ts]
  <2>1. ties \in SUBSET nearest /\ x \in ties
    OBVIOUS
  <2>2. \A i \in ties : w[i] \in Int
    BY <1>5
  <2>3. \E i \in ties : \A j \in ties : w[i] <= w[j]
    <3> HIDE DEF w, ties
    <3>1. IsFiniteSet(ties)
      BY <1>6, <2>1, FS_Subset
    <3> QED BY <2>1, <2>2, <3>1, LightestExists
  <2> QED BY <2>3
<1>9. \A j \in nearest : before(z, j)
  BY <1>3, <1>5, <1>7, <1>8
<1>10. Nearest(samples, I) = CHOOSE i \in nearest : \A j \in nearest : before(i, j)
  BY DEF Nearest, nearest, far, begin, queue
<1>11. z \in nearest
  OBVIOUS
<1> HIDE DEF before
<1> QED BY <1>5, <1>9, <1>10, <1>11

----------------------------------------------------------------------------
(* The timeline of a launch.                                               *)
LEMMA PairIs ==
  ASSUME NEW a \in Int, NEW b \in Int
  PROVE  /\ Max({a, b}) = IF a >= b THEN a ELSE b
         /\ Min({a, b}) = IF a <= b THEN a ELSE b
<1>1. IsFiniteSet({a, b})
  <2>1. IsFiniteSet({a}) /\ {a, b} = {a} \cup {b}
    BY FS_Singleton
  <2> QED BY <2>1, FS_AddElement
<1>2. /\ Max({a, b}) \in {a, b} /\ \A x \in {a, b} : x <= Max({a, b})
      /\ Min({a, b}) \in {a, b} /\ \A x \in {a, b} : Min({a, b}) <= x
  BY <1>1, MaxIs, MinIs
<1> QED BY <1>2

(* The devices of a launch are counted from 0, by their numbers.           *)
IndexOf(l) ==
  [o \in ModulesOf(l) |-> Cardinality({q \in ModulesOf(l) : q.device < o.device})]

LEMMA IndexIs ==
  ASSUME TraceInv, NEW l, NEW n \in Nat \ {0},
         Cardinality(ModulesOf(l)) = n
  PROVE  /\ \A o \in ModulesOf(l) : IndexOf(l)[o] \in 0..(n - 1)
         /\ \A o, p \in ModulesOf(l) : IndexOf(l)[o] = IndexOf(l)[p] => o = p
         /\ \A x \in 0..(n - 1) : \E o \in ModulesOf(l) : IndexOf(l)[o] = x
<1> DEFINE M == ModulesOf(l)
           below(o) == {q \in M : q.device < o.device}
           f == IndexOf(l)
<1>1. IsFiniteSet(M)
  BY LaunchIsFinite
<1>2. \A o \in M : o.device \in Int
  <2>1. \A o \in M : o \in trace
    BY LaunchIsFinite
  <2>2. \A o \in trace : o.device \in Devices
    BY DEF TraceInv, EventFits
  <2>3. \A d \in Devices : d \in Int
    <3>1. Devices \subseteq Nat /\ \A d \in Nat : d \in Int
      BY CaptureAssumption
    <3> HIDE DEF M
    <3> QED BY <3>1
  <2> QED BY <2>1, <2>2, <2>3
<1>3. \A o \in M : /\ f[o] = Cardinality(below(o)) /\ below(o) \in SUBSET M
                   /\ IsFiniteSet(below(o)) /\ f[o] \in Nat
  <2> TAKE o \in M
  <2>1. f[o] = Cardinality(below(o)) /\ below(o) \in SUBSET M
    BY DEF IndexOf
  <2> HIDE DEF below, f
  <2> QED BY <1>1, <2>1, FS_Subset, FS_CardinalityType
<1>4. \A o \in M : f[o] < n
  <2> TAKE o \in M
  <2>1. o \notin below(o)
    BY <1>2
  <2>2. below(o) # M
    BY <2>1
  <2> HIDE DEF below, f
  <2>3. Cardinality(below(o)) <= n /\ Cardinality(below(o)) # n
    BY <1>1, <1>3, <2>2, FS_Subset
  <2> QED BY <1>3, <2>3
<1>5. \A o, p \in M : o.device < p.device => f[o] < f[p]
  <2> SUFFICES ASSUME NEW o \in M, NEW p \in M, o.device < p.device
               PROVE  f[o] < f[p]
    OBVIOUS
  <2>1. below(o) \in SUBSET below(p) /\ o \in below(p) /\ o \notin below(o)
    BY <1>2
  <2>2. below(o) # below(p)
    BY <2>1
  <2> HIDE DEF below, f
  <2>3. /\ Cardinality(below(o)) <= Cardinality(below(p))
        /\ Cardinality(below(o)) # Cardinality(below(p))
    BY <1>3, <2>1, <2>2, FS_Subset
  <2> QED BY <1>3, <2>3
<1> HIDE DEF f, below
<1>6. \A o, p \in M : f[o] = f[p] => o = p
  <2> SUFFICES ASSUME NEW o \in M, NEW p \in M, f[o] = f[p] PROVE o = p
    OBVIOUS
  <2>1. f[o] \in Nat /\ o.device \in Int /\ p.device \in Int
    BY <1>2, <1>3
  <2>2. ~(o.device < p.device) /\ ~(p.device < o.device)
    BY <1>5, <2>1
  <2>3. o.device = p.device
    BY <2>1, <2>2
  <2>4. \A a, b \in M : a.device = b.device => a = b
    BY LaunchOverlaps
  <2> QED BY <2>3, <2>4
<1>7. \A o \in M : f[o] \in 0..(n - 1)
  BY <1>3, <1>4
<1>8. \A x \in 0..(n - 1) : \E o \in M : f[o] = x
  <2> DEFINE S == 0..(n - 1)
  <2>1. f \in Injection(M, S)
    <3>1. f \in [M -> S]
      BY <1>7 DEF f, IndexOf
    <3> HIDE DEF M, S
    <3> QED BY <1>6, <3>1 DEF Injection, IsInjective
  <2>2. IsFiniteSet(S) /\ Cardinality(S) = n
    BY FS_Interval
  <2> HIDE DEF S
  <2>3. f \in Surjection(M, S)
    BY <1>1, <2>1, <2>2, FS_Injection
  <2> QED BY <2>3 DEF Surjection, S
<1> QED BY <1>6, <1>7, <1>8 DEF f

(* An operation that an interval contains ran for the same launch.         *)
LEMMA ContainedIsOfLaunch ==
  ASSUME TraceInv, NEW o \in trace, NEW op \in trace, Contains(o, op)
  PROVE  o.launch = op.launch
<1>1. /\ o.device = op.device
      /\ o.ts <= op.ts + Slack /\ o.ts + o.dur + Slack >= op.ts + op.dur
  BY DEF Contains
<1>2. /\ o.ts \in Nat /\ o.dur \in Nat /\ op.ts \in Nat /\ op.dur \in Nat
      /\ o.dur > Slack /\ op.dur > Slack
      /\ o.launch \in Int /\ op.launch \in Int
  BY DEF TraceInv, EventFits
<1>3. /\ o.launch < op.launch => o.ts + o.dur <= op.ts
      /\ op.launch < o.launch => op.ts + op.dur <= o.ts
  BY <1>1 DEF TraceInv, EventsAgree
<1> QED BY <1>1, <1>2, <1>3 DEF Slack

ModuleActivity(i, l, o) ==
  [launch |-> o.launch, track |-> o.track, index |-> IndexOf(l)[o],
   start |-> RoundNs(o.ts - i.ts),
   end |-> Min({i.duration, RoundNs(o.ts - i.ts) + CeilNs(o.dur)})]

OperationActivity(i, l, o, op) ==
  [launch |-> op.launch, track |-> op.track, index |-> IndexOf(l)[o],
   start |-> Max({0, RoundNs(op.ts - i.ts)}),
   end |-> Min({i.duration, RoundNs(op.ts + op.dur - i.ts)})]

LEMMA ActivitiesAre ==
  ASSUME NEW l, NEW events, NEW i, i.samples = ModulesOf(l)
  PROVE  /\ \A a \in Activities(events, i) :
              \/ \E o \in ModulesOf(l) : a = ModuleActivity(i, l, o)
              \/ \E o \in ModulesOf(l) : \E op \in AttributedTo(events, o) :
                   a = OperationActivity(i, l, o, op)
         /\ \A o \in ModulesOf(l) : ModuleActivity(i, l, o) \in Activities(events, i)
<1> DEFINE M == ModulesOf(l)
           ops(o) == {OperationActivity(i, l, o, op) : op \in AttributedTo(events, o)}
<1>1. Activities(events, i) = {ModuleActivity(i, l, o) : o \in M} \cup UNION {ops(o) : o \in M}
  BY DEF Activities, ModuleActivity, OperationActivity, IndexOf
<1> QED BY <1>1

(* Inside of the invocation, the activities are in order.                  *)
InOrder(a, duration) ==
  /\ a.start \in Int /\ a.end \in Int
  /\ 0 <= a.start /\ a.start <= a.end /\ a.end <= duration

LEMMA ModuleInOrder ==
  ASSUME TraceInv, NEW l, NEW o \in ModulesOf(l), NEW i,
         i.ts \in Int, i.duration \in Int, i.duration > 0,
         i.ts <= o.ts, o.ts + o.dur - i.ts <= 2 * i.duration
  PROVE  InOrder(ModuleActivity(i, l, o), i.duration)
<1> DEFINE start == RoundNs(o.ts - i.ts)
           c == CeilNs(o.dur)
           d == i.duration
<1>1. o.ts \in Int /\ o.dur \in Int /\ o.dur > 0
  BY LaunchIsFinite DEF TraceInv, EventFits, Slack
<1>2. /\ o.ts - i.ts \in Int /\ o.ts - i.ts >= 0
      /\ o.ts - i.ts <= 2 * i.duration
  BY <1>1
<1>3. start \in Int /\ start >= 0 /\ start <= d
  BY <1>2, Rounding
<1>4. c \in Int /\ c > 0
  BY <1>1, Rounding
<1>5. /\ ModuleActivity(i, l, o).start = start
      /\ ModuleActivity(i, l, o).end = Min({d, start + c})
  BY DEF ModuleActivity
<1>6. d \in Int
  OBVIOUS
<1> HIDE DEF start, c, d
<1>7. start + c \in Int
  BY <1>3, <1>4
<1>8. Min({d, start + c}) = IF d <= start + c THEN d ELSE start + c
  BY <1>6, <1>7, PairIs
<1> QED BY <1>3, <1>4, <1>5, <1>6, <1>8 DEF InOrder, d

LEMMA OperationInOrder ==
  ASSUME TraceInv, NEW l, NEW o \in ModulesOf(l), NEW op \in trace, Contains(o, op), NEW i,
         i.ts \in Int, i.duration \in Int, i.duration > 0,
         i.ts <= o.ts, o.ts + o.dur - i.ts <= 2 * i.duration
  PROVE  InOrder(OperationActivity(i, l, o, op), i.duration)
<1> DEFINE b == op.ts - i.ts
           e == op.ts + op.dur - i.ts
           d == i.duration
           start == RoundNs(b)
           end == RoundNs(e)
<1>1. /\ o.ts <= op.ts + Slack /\ o.ts + o.dur + Slack >= op.ts + op.dur
  BY DEF Contains
<1>2. /\ o.ts \in Int /\ o.dur \in Int /\ op.ts \in Int /\ op.dur \in Int /\ op.dur > Slack
  BY LaunchIsFinite DEF TraceInv, EventFits
<1>3. b \in Int /\ e \in Int /\ b <= e /\ e >= 0 /\ b <= 2 * d /\ d \in Int /\ d > 0
  BY <1>1, <1>2 DEF Slack
<1>4. /\ OperationActivity(i, l, o, op).start = Max({0, start})
      /\ OperationActivity(i, l, o, op).end = Min({d, end})
  BY DEF OperationActivity
<1> HIDE DEF b, e, d
<1>5. start \in Int /\ end \in Int /\ start <= end /\ end >= 0 /\ start <= d
  BY <1>3, Rounding
<1> HIDE DEF start, end
<1>6. Max({0, start}) = IF 0 >= start THEN 0 ELSE start
  <2>1. 0 \in Int
    OBVIOUS
  <2> QED BY <1>5, <2>1, PairIs
<1>7. Min({d, end}) = IF d <= end THEN d ELSE end
  BY <1>3, <1>5, PairIs
<1> QED BY <1>3, <1>4, <1>5, <1>6, <1>7 DEF InOrder, d

LEMMA ActivitiesFit ==
  ASSUME TraceInv, NEW withOperations, NEW l, NEW n \in Nat \ {0},
         Cardinality(ModulesOf(l)) = n, NEW first
  PROVE  LET events == Imported(withOperations)
             i == InvocationOf(events, ModulesOf(l), first)
         IN  /\ \A a \in Activities(events, i) :
                  /\ a.launch = l /\ a.track \in {"XLA_Modules", "XLA_Ops"}
                  /\ a.index \in 0..(n - 1) /\ InOrder(a, i.duration)
                  /\ a.track = "XLA_Modules" =>
                       \E o \in ModulesOf(l) : a = ModuleActivity(i, l, o)
             /\ \A o \in ModulesOf(l) : /\ ModuleActivity(i, l, o) \in Activities(events, i)
                                        /\ ModuleActivity(i, l, o).track = "XLA_Modules"
                                        /\ ModuleActivity(i, l, o).index = IndexOf(l)[o]
<1> DEFINE events == Imported(withOperations)
           M == ModulesOf(l)
           i == InvocationOf(events, M, first)
<1>1. /\ i.samples = M /\ i.ts \in Int /\ i.duration \in Int /\ i.duration > 0
      /\ \A o \in M : i.ts <= o.ts /\ o.ts + o.dur - i.ts <= 2 * i.duration
  BY InvocationFacts
<1>2. \A o \in M : IndexOf(l)[o] \in 0..(n - 1)
  BY IndexIs
<1> HIDE DEF i
<1>3. \A o \in M : o \in trace /\ o.launch = l /\ o.track = "XLA_Modules"
  BY LaunchIsFinite
<1>4. ASSUME NEW o \in M
      PROVE  LET a == ModuleActivity(i, l, o)
             IN  /\ a.launch = l /\ a.track = "XLA_Modules" /\ a.index = IndexOf(l)[o]
                 /\ InOrder(a, i.duration)
  <2>1. InOrder(ModuleActivity(i, l, o), i.duration)
    BY <1>1, ModuleInOrder
  <2>2. LET a == ModuleActivity(i, l, o)
        IN  a.launch = l /\ a.track = "XLA_Modules" /\ a.index = IndexOf(l)[o]
    BY <1>3 DEF ModuleActivity
  <2> QED BY <2>1, <2>2
<1>5. ASSUME NEW o \in M, NEW op \in AttributedTo(events, o)
      PROVE  LET a == OperationActivity(i, l, o, op)
             IN  /\ a.launch = l /\ a.track = "XLA_Ops" /\ a.index = IndexOf(l)[o]
                 /\ InOrder(a, i.duration)
  <2>1. /\ op \in RealEvents(events) /\ op.track # "XLA_Modules"
        /\ {q \in Modules(events) : Contains(q, op)} = {o}
    BY DEF AttributedTo
  <2>2. op \in trace
    BY <2>1, ImportedEvents
  <2>3. Contains(o, op)
    BY <2>1
  <2>4. op.track = "XLA_Ops"
    BY <2>1, <2>2 DEF TraceInv, EventFits
  <2>5. op.launch = l
    BY <1>3, <2>2, <2>3, ContainedIsOfLaunch
  <2>6. InOrder(OperationActivity(i, l, o, op), i.duration)
    BY <1>1, <2>2, <2>3, OperationInOrder
  <2>7. LET a == OperationActivity(i, l, o, op)
        IN  a.launch = l /\ a.track = "XLA_Ops" /\ a.index = IndexOf(l)[o]
    BY <2>4, <2>5 DEF OperationActivity
  <2> QED BY <2>6, <2>7
<1>6. /\ \A a \in Activities(events, i) :
           \/ \E o \in M : a = ModuleActivity(i, l, o)
           \/ \E o \in M : \E op \in AttributedTo(events, o) : a = OperationActivity(i, l, o, op)
      /\ \A o \in M : ModuleActivity(i, l, o) \in Activities(events, i)
  BY <1>1, ActivitiesAre
<1> HIDE DEF M
<1>7. ASSUME NEW a \in Activities(events, i)
      PROVE  /\ a.launch = l /\ a.track \in {"XLA_Modules", "XLA_Ops"}
             /\ a.index \in 0..(n - 1) /\ InOrder(a, i.duration)
             /\ a.track = "XLA_Modules" => \E o \in M : a = ModuleActivity(i, l, o)
  <2>1. CASE \E o \in M : a = ModuleActivity(i, l, o)
    BY <1>2, <1>4, <2>1
  <2>2. CASE \E o \in M : \E op \in AttributedTo(events, o) : a = OperationActivity(i, l, o, op)
    BY <1>2, <1>5, <2>2
  <2> QED BY <1>6, <2>1, <2>2
<1> QED BY <1>4, <1>6, <1>7 DEF i, M

----------------------------------------------------------------------------
(* The import makes of a key measurements that the native compiler takes.  *)
Stripped(a) == [track |-> a.track, index |-> a.index, start |-> a.start, end |-> a.end]

LEMMA TimingAccepted ==
  ASSUME TraceInv, NEW k \in Keys, NEW withOperations, NEW first,
         NEW l, Cardinality(ModulesOf(l)) = DevicesOf[k],
         NEW r, r.devices = DevicesOf[k], r.valid = TRUE,
         NEW i, i = InvocationOf(Imported(withOperations), ModulesOf(l), first),
         r.nearest = i, r.timeline \in {Activities(Imported(withOperations), i), {}},
         r.median \in Int, r.median > 1,
         IsFiniteSet(r.invocations), \E j \in r.invocations : j.retained
  PROVE  Acceptable(k, Measured(r))
<1> DEFINE n == DevicesOf[k]
           m == Measured(r)
           count == {j \in r.invocations : j.retained}
           acts == {Stripped(a) : a \in r.timeline}
           M == ModulesOf(l)
<1>1. n \in Nat \ {0} /\ Cardinality(M) = n
  BY CaptureAssumption
<1>2. /\ m.valid = TRUE /\ m.devices = n /\ m.count = Cardinality(count)
      /\ m.duration = IF r.timeline = {} THEN (r.median + 1) \div 2 ELSE r.nearest.duration
      /\ m.activities = acts
      /\ m = [valid |-> m.valid, devices |-> m.devices, count |-> m.count,
              duration |-> m.duration, activities |-> m.activities]
  BY DEF Measured, Stripped
<1>3. m.count \in Nat /\ m.count >= 1
  <2>1. count \in SUBSET r.invocations /\ count # {}
    OBVIOUS
  <2>2. IsFiniteSet(count) /\ Cardinality(count) \in Nat /\ Cardinality(count) # 0
    <3> HIDE DEF count
    <3> QED BY <2>1, FS_Subset, FS_CardinalityType, FS_EmptySet
  <2> HIDE DEF m
  <2> QED BY <1>2, <2>2
<1>4. i.duration \in Int /\ i.duration > 0
  BY <1>1, InvocationFacts
<1>5. m.duration \in Int /\ m.duration > 0
  <2>1. CASE r.timeline = {}
    <3>1. (r.median + 1) \div 2 \in Int /\ (r.median + 1) \div 2 > 0
      OBVIOUS
    <3> HIDE DEF m
    <3> QED BY <1>2, <2>1, <3>1
  <2>2. CASE r.timeline # {}
    <3> HIDE DEF m
    <3> QED BY <1>2, <1>4, <2>2
  <2> QED BY <2>1, <2>2
<1> HIDE DEF m, count
<1>6. CASE r.timeline = {}
  <2>1. acts = {} /\ m.activities = {}
    BY <1>2, <1>6
  <2>2. AcceptsTiming(m)
    BY <1>3, <1>5, <2>1 DEF AcceptsTiming
  <2>3. ModuleCount(m) = 0
    <3>1. {a \in m.activities : a.track = "XLA_Modules"} = {}
      BY <2>1
    <3> QED BY <3>1, FS_EmptySet DEF ModuleCount
  <2>4. m \in [valid : BOOLEAN, devices : Nat, count : Nat, duration : Int,
               activities : SUBSET [track : Tracks, index : Nat, start : Int, end : Int]]
    BY <1>1, <1>2, <1>3, <1>5, <2>1
  <2> QED BY <2>2, <2>3, <2>4 DEF Acceptable, m
<1>7. CASE r.timeline # {}
  <2> DEFINE A == Activities(Imported(withOperations), i)
             own(o) == ModuleActivity(i, l, o)
             f == IndexOf(l)
  <2>1. r.timeline = A /\ m.duration = i.duration /\ acts = {Stripped(a) : a \in A}
    BY <1>2, <1>7
  <2>2. /\ \A a \in A : /\ a.track \in {"XLA_Modules", "XLA_Ops"}
                        /\ a.index \in 0..(n - 1) /\ InOrder(a, i.duration)
                        /\ a.track = "XLA_Modules" => \E o \in M : a = own(o)
        /\ \A o \in M : own(o) \in A /\ own(o).track = "XLA_Modules" /\ own(o).index = f[o]
    <3> HIDE DEF own, f, A
    <3> QED BY <1>1, ActivitiesFit DEF own, f, A
  <2> HIDE DEF A, own
  <2>3. ASSUME NEW a \in acts
        PROVE  /\ a \in [track : Tracks, index : Nat, start : Int, end : Int]
               /\ a.index \in 0..(n - 1) /\ 0 <= a.start /\ a.start <= a.end
               /\ a.end <= i.duration
               /\ a.track = "XLA_Modules" => \E o \in M : a = Stripped(own(o)) /\ a.index = f[o]
    <3>1. PICK b \in A : a = Stripped(b)
      BY <2>1
    <3>2. /\ b.track \in {"XLA_Modules", "XLA_Ops"} /\ b.index \in 0..(n - 1)
          /\ b.start \in Int /\ b.end \in Int
          /\ 0 <= b.start /\ b.start <= b.end /\ b.end <= i.duration
      BY <2>2 DEF InOrder
    <3> HIDE DEF acts, n
    <3>3. b.track \in Tracks
      <4>1. "XLA_Modules" \in Tracks /\ "XLA_Ops" \in Tracks
        BY DEF Tracks
      <4>2. b.track = "XLA_Modules" \/ b.track = "XLA_Ops"
        BY <3>2
      <4> QED BY <4>1, <4>2
    <3>6. b.index \in Nat
      BY <1>1, <3>2
    <3>7. a = [track |-> b.track, index |-> b.index, start |-> b.start, end |-> b.end]
      BY <3>1 DEF Stripped
    <3>8. a \in [track : Tracks, index : Nat, start : Int, end : Int]
      BY <3>2, <3>3, <3>6, <3>7
    <3>9. /\ a.track = b.track /\ a.index = b.index /\ a.start = b.start /\ a.end = b.end
      BY <3>7
    <3>4. /\ a.track = b.track /\ a.index = b.index /\ a.start = b.start /\ a.end = b.end
          /\ a \in [track : Tracks, index : Nat, start : Int, end : Int]
      BY <3>8, <3>9
    <3>5. ASSUME a.track = "XLA_Modules"
          PROVE  \E o \in M : a = Stripped(own(o)) /\ a.index = f[o]
      <4> HIDE DEF M, f
      <4>1. PICK o \in M : b = own(o)
        BY <2>2, <3>4, <3>5
      <4>2. own(o).index = f[o]
        BY <2>2
      <4> QED BY <3>1, <3>4, <4>1, <4>2
    <3> QED BY <3>2, <3>4, <3>5
  <2>4. \A o \in M : /\ Stripped(own(o)) \in acts
                     /\ Stripped(own(o)).track = "XLA_Modules"
                     /\ Stripped(own(o)).index = f[o]
    <3> TAKE o \in M
    <3>1. own(o) \in A /\ own(o).track = "XLA_Modules" /\ own(o).index = f[o]
      BY <2>2
    <3> QED BY <2>1, <3>1 DEF Stripped
  <2>5. /\ \A o \in M : f[o] \in 0..(n - 1)
        /\ \A o, p \in M : f[o] = f[p] => o = p
        /\ \A x \in 0..(n - 1) : \E o \in M : f[o] = x
    <3> HIDE DEF f
    <3> QED BY <1>1, IndexIs DEF f
  <2> DEFINE modules(x) == {a \in acts : a.index = x /\ a.track = "XLA_Modules"}
             mods == {a \in acts : a.track = "XLA_Modules"}
  <2> HIDE DEF acts, f
  <2>6. ASSUME NEW x \in 0..(n - 1)
        PROVE  Cardinality(modules(x)) = 1
    <3>1. PICK o \in M : f[o] = x
      BY <2>5
    <3>2. modules(x) = {Stripped(own(o))}
      <4>1. Stripped(own(o)) \in modules(x)
        BY <2>4, <3>1
      <4>2. ASSUME NEW a \in modules(x) PROVE a = Stripped(own(o))
        <5>1. a \in acts /\ a.index = x /\ a.track = "XLA_Modules"
          OBVIOUS
        <5>2. PICK p \in M : a = Stripped(own(p)) /\ a.index = f[p]
          BY <2>3, <5>1
        <5>3. p = o
          BY <2>5, <3>1, <5>1, <5>2
        <5> QED BY <5>2, <5>3
      <4> HIDE DEF modules
      <4> QED BY <4>1, <4>2
    <3> HIDE DEF modules
    <3> QED BY <3>2, FS_Singleton
  <2>7. Cardinality(mods) = n
    <3> DEFINE g == [o \in M |-> Stripped(own(o))]
    <3>1. \A o \in M : g[o] = Stripped(own(o)) /\ g[o].index = f[o] /\ g[o] \in mods
      BY <2>4
    <3>2. \A a \in mods : \E o \in M : a = g[o]
      BY <2>3, <3>1
    <3>3. g \in [M -> mods]
      BY <3>1
    <3> HIDE DEF g, mods, M
    <3>4. g \in Surjection(M, mods)
      BY <3>2, <3>3 DEF Surjection
    <3>5. g \in Injection(M, mods)
      BY <2>5, <3>1, <3>3 DEF Injection, IsInjective
    <3>6. IsFiniteSet(M)
      BY LaunchIsFinite DEF M
    <3> QED BY <1>1, <3>4, <3>5, <3>6, FS_Surjection
  <2>8. AcceptsTiming(m)
    <3>1. \A a \in m.activities : /\ 0 <= a.start /\ a.start <= a.end /\ a.end <= m.duration
                                  /\ a.index < m.devices
      BY <1>1, <1>2, <2>1, <2>3
    <3>2. \A x \in 0..m.devices - 1 :
            Cardinality({a \in m.activities : a.index = x /\ a.track = "XLA_Modules"}) = 1
      BY <1>2, <2>6
    <3> QED BY <1>3, <1>5, <3>1, <3>2 DEF AcceptsTiming
  <2>9. ModuleCount(m) = n
    BY <1>2, <2>7 DEF ModuleCount
  <2>10. m \in [valid : BOOLEAN, devices : Nat, count : Nat, duration : Int,
                activities : SUBSET [track : Tracks, index : Nat, start : Int, end : Int]]
    <3>1. m.activities \in SUBSET [track : Tracks, index : Nat, start : Int, end : Int]
      BY <1>2, <2>3
    <3>2. m.valid \in BOOLEAN /\ m.devices \in Nat /\ m.count \in Nat /\ m.duration \in Int
      BY <1>1, <1>2, <1>3, <1>5
    <3> QED BY <1>2, <3>1, <3>2
  <2> QED BY <2>8, <2>9, <2>10 DEF Acceptable, m
<1> QED BY <1>6, <1>7

LEMMA ImportedRecord ==
  ASSUME TraceInv, NEW withOperations, NEW first, NEW k \in DOMAIN records,
         LET events == Imported(withOperations)
         IN  ~Excluded(events, SamplesOf(events, records, k), records[k].devices, first)
  PROVE  LET r == ExecutableOf(Imported(withOperations), records, k, first)
         IN  OfOneLaunch(k, r) /\ NotLost(k, r) /\ Acceptable(k, Measured(r))
<1> DEFINE events == Imported(withOperations)
           n == DevicesOf[k]
           invocations == Invocations(events, Samples(k), n, first)
           retained == {i \in invocations : i.retained}
           nearest == Nearest(Samples(k), retained)
           r == ExecutableOf(events, records, k, first)
<1>1. /\ k \in Keys /\ records[k].devices = n /\ n \in Nat \ {0}
  BY CaptureAssumption DEF TraceInv, RecordsFit
<1>2. SamplesOf(events, records, k) = Samples(k)
  BY SamplesAre
<1>3. /\ r.devices = n /\ r.invocations = invocations /\ r.valid = TRUE
      /\ r.median = MedianTwice(retained) /\ r.nearest = nearest
      /\ r.timeline = TimelineOf(events, nearest)
  BY <1>1, <1>2 DEF ExecutableOf
<1>4. \E i \in invocations : i.retained
  BY <1>1, <1>2 DEF Excluded
<1>5. IsFiniteSet(invocations) /\ retained \in SUBSET invocations /\ retained # {}
  BY <1>4, InvocationsFinite
<1> HIDE DEF r, events, invocations
<1>6. \A i \in invocations : \E l \in 1..launches :
        /\ i = InvocationOf(events, ModulesOf(l), first)
        /\ Seen(l, k) /\ Cardinality(ModulesOf(l)) = n
  BY InvocationIsLaunch DEF invocations
<1>7. \A i \in invocations : /\ i.duration \in Int /\ i.duration > 0 /\ i.ts \in Int
                             /\ i.samples \subseteq Samples(k) /\ i.samples # {}
  <2> TAKE i \in invocations
  <2>1. PICK l \in 1..launches : /\ i = InvocationOf(events, ModulesOf(l), first)
                                 /\ Seen(l, k) /\ Cardinality(ModulesOf(l)) = n
    BY <1>6
  <2>2. /\ i.samples = ModulesOf(l) /\ i.ts \in Int /\ i.duration \in Int /\ i.duration > 0
    BY <1>1, <2>1, InvocationFacts
  <2>3. PICK e \in ModulesOf(l) : e.name = Labelled(k)
    BY <2>1 DEF Seen
  <2>4. e \in Samples(k) /\ e.launch = l
    BY <2>3 DEF ModulesOf, Samples
  <2>5. ModulesOf(l) \subseteq Samples(k)
    BY <2>4, LaunchSamples
  <2> QED BY <2>2, <2>3, <2>5
<1>8. IsFiniteSet(retained)
  <2> HIDE DEF retained
  <2> QED BY <1>5, FS_Subset
<1>9. nearest \in retained
  <2>1. IsFiniteSet(Samples(k)) /\ \A o \in Samples(k) : o.ts \in Int
    BY SamplesFinite, Ends
  <2>2. \A i \in retained : /\ i.duration \in Int /\ i.duration > 0 /\ i.ts \in Int
                            /\ i.samples \subseteq Samples(k) /\ i.samples # {}
    BY <1>5, <1>7
  <2> HIDE DEF retained
  <2> QED BY <1>5, <1>8, <2>1, <2>2, NearestIs
<1>10. r.median \in Int /\ r.median > 1
  <2>1. \A i \in retained : i.duration \in Int /\ i.duration > 0
    BY <1>5, <1>7
  <2> HIDE DEF retained
  <2> QED BY <1>3, <1>5, <1>8, <2>1, MedianIs
<1>11. PICK l \in 1..launches : /\ nearest = InvocationOf(events, ModulesOf(l), first)
                                /\ Seen(l, k) /\ Cardinality(ModulesOf(l)) = n
  BY <1>5, <1>6, <1>9
<1>12. r.timeline \in {Activities(events, nearest), {}}
  BY <1>3 DEF TimelineOf
<1> HIDE DEF nearest, retained
<1>13. Acceptable(k, Measured(r))
  BY <1>1, <1>3, <1>4, <1>5, <1>10, <1>11, <1>12, TimingAccepted DEF events
<1>14. NotLost(k, r)
  <2> SUFFICES ASSUME NEW m \in 1..launches, Cardinality(ModulesOf(m)) = DevicesOf[k],
                      Isolated(k, m), \A o \in ModulesOf(m) : o.name = Labelled(k)
               PROVE  \E i \in r.invocations : i.samples = ModulesOf(m)
    BY DEF NotLost
  <2>1. InvocationOf(events, ModulesOf(m), first) \in invocations
    BY LaunchIsInvocation DEF invocations
  <2>2. InvocationOf(events, ModulesOf(m), first).samples = ModulesOf(m)
    BY <1>1, InvocationFacts
  <2> QED BY <1>3, <2>1, <2>2
<1>15. OfOneLaunch(k, r)
  <2>1. ASSUME NEW i \in r.invocations
        PROVE  \E m \in 1..launches :
                 /\ i.samples = {e \in trace : e.launch = m /\ e.track = "XLA_Modules"}
                 /\ Cardinality(i.samples) = DevicesOf[k]
                 /\ \A o \in i.samples : o.name = Labelled(k)
    <3>1. PICK m \in 1..launches : /\ i = InvocationOf(events, ModulesOf(m), first)
                                   /\ Seen(m, k) /\ Cardinality(ModulesOf(m)) = n
      BY <1>3, <1>6
    <3>2. i.samples = ModulesOf(m)
      BY <1>1, <3>1, InvocationFacts
    <3>3. \A o \in i.samples : o.name = Labelled(k)
      BY <1>3, <1>7 DEF Samples
    <3> QED BY <3>1, <3>2, <3>3 DEF ModulesOf
  <2>2. ASSUME NEW a \in r.timeline, NEW o \in r.nearest.samples
        PROVE  a.launch = o.launch
    <3>1. r.nearest.samples = ModulesOf(l)
      BY <1>1, <1>3, <1>11, InvocationFacts
    <3>2. a \in Activities(events, nearest)
      BY <1>12
    <3>3. a.launch = l
      BY <1>1, <1>11, <3>2, ActivitiesFit DEF events
    <3> QED BY <3>1, <3>3, LaunchIsFinite
  <2> QED BY <2>1, <2>2 DEF OfOneLaunch
<1> QED BY <1>13, <1>14, <1>15 DEF r, events
----------------------------------------------------------------------------
(* The steps.                                                              *)
LEMMA CaptureStarts ==
  ASSUME Init
  PROVE  ReplayInv
<1>1. /\ phase = "collect" /\ trace = {} /\ launches = 0 /\ missed = 0
      /\ clock = [d \in Devices |-> 0] /\ DOMAIN records = {} /\ last = None
  BY DEF Init, CaptureInit, ReplayInit
<1>2. Idle
  BY DEF Init, ReplayInit, Idle
<1>3. RecordsFit
  BY <1>1 DEF RecordsFit
<1>4. MissedFit
  BY <1>1 DEF MissedFit
<1>5. TraceInv
  BY <1>1, <1>3, <1>4, FS_EmptySet, CaptureAssumption DEF TraceInv
<1> QED BY <1>1, <1>2, <1>5 DEF ReplayInv, WholeLaunches, TimedAsQueried

LEMMA TraceStays ==
  ASSUME TraceInv, UNCHANGED <<records, trace, clock, launches, missed>>
  PROVE  TraceInv'
<1>1. RecordsFit'
  BY DEF TraceInv, RecordsFit, Labelled
<1>2. (\A e \in trace : EventFits(e))'
  BY DEF TraceInv, EventFits, NameFits, Labelled
<1>3. (\A e, f \in trace : EventsAgree(e, f))'
  BY DEF TraceInv, EventsAgree
<1>4. MissedFit'
  <2>1. \A l, j : ModulesOf(l)' = ModulesOf(l) /\ (Seen(l, j)' <=> Seen(l, j))
    BY DEF Seen, ModulesOf, Labelled
  <2> QED BY <2>1 DEF MissedFit, TraceInv
<1> QED BY <1>1, <1>2, <1>3, <1>4 DEF TraceInv

LEMMA ImportMeasures ==
  ASSUME ReplayInv, NEW first, NEW withOperations \in BOOLEAN,
         ImportProfile(first, withOperations), UNCHANGED replayVars
  PROVE  ReplayInv'
<1>1. /\ phase = "collect" /\ phase' \in {"refused", "imported"}
      /\ database' = BuildDatabase(Imported(withOperations), records, first)
      /\ UNCHANGED <<records, trace, clock, launches, missed>>
  BY DEF ImportProfile, Imported
<1>2. TraceInv /\ Idle
  BY <1>1 DEF ReplayInv
<1>3. Idle' /\ last' = None
  BY <1>2 DEF Idle, replayVars
<1>4. ASSUME NEW k \in DOMAIN database'
      PROVE  (Importable(k, database[k]) /\ OfOneLaunch(k, database[k])
              /\ NotLost(k, database[k]))'
  <2> DEFINE events == Imported(withOperations)
  <2>1. /\ k \in DOMAIN records
        /\ ~Excluded(events, SamplesOf(events, records, k), records[k].devices, first)
        /\ database'[k] = ExecutableOf(events, records, k, first)
    <3> HIDE DEF events
    <3> QED BY <1>1 DEF BuildDatabase, events
  <2> HIDE DEF events
  <2>2. PICK r : r = ExecutableOf(events, records, k, first)
    OBVIOUS
  <2>3. OfOneLaunch(k, r) /\ NotLost(k, r) /\ Acceptable(k, Measured(r))
    BY <1>2, <2>1, <2>2, ImportedRecord DEF events
  <2>4. r = [devices |-> r.devices, invocations |-> r.invocations, valid |-> r.valid,
             median |-> r.median, nearest |-> r.nearest, timeline |-> r.timeline]
    BY <2>2 DEF ExecutableOf
  <2>5. Importable(k, r)
    BY <2>3, <2>4 DEF Importable
  <2>6. OfOneLaunch(k, r)'
    BY <1>1, <2>3 DEF OfOneLaunch, Labelled
  <2>7. \A l : ModulesOf(l)' = ModulesOf(l) /\ (Isolated(k, l)' <=> Isolated(k, l))
    BY <1>1 DEF ModulesOf, Isolated, Labelled
  <2>8. NotLost(k, r)'
    BY <1>1, <2>3, <2>7 DEF NotLost, Labelled
  <2>9. r = database'[k]
    BY <2>1, <2>2
  <2> QED BY <2>5, <2>6, <2>8, <2>9
<1>5. WholeLaunches'
  BY <1>4 DEF WholeLaunches
<1> QED BY <1>1, <1>3, <1>4, <1>5 DEF ReplayInv, TimedAsQueried

LEMMA CaptureKeeps ==
  ASSUME ReplayInv, CaptureNext, UNCHANGED replayVars
  PROVE  ReplayInv'
<1>1. ASSUME phase = "collect", TraceInv', phase' = "collect"
      PROVE  ReplayInv'
  <2>1. Idle' /\ last' = None
    BY <1>1 DEF ReplayInv, Idle, replayVars
  <2> QED BY <1>1, <2>1 DEF ReplayInv, WholeLaunches, TimedAsQueried
<1>2. ASSUME NEW k \in Keys, NEW id \in ModuleIds, CompileAndRecord(k, id)
      PROVE  ReplayInv'
  <2>1. phase = "collect" /\ TraceInv
    BY <1>2 DEF CompileAndRecord, ReplayInv
  <2> QED BY <1>1, <1>2, <2>1, CompileKeepsTrace
<1>3. ASSUME NEW k \in Keys, NEW queue \in Queues \cup {NoQueue}, NEW on \in SUBSET Devices,
             NEW span \in [on -> Spans], NEW recorded \in SUBSET on,
             Launch(k, queue, on, span, recorded)
      PROVE  ReplayInv'
  <2>1. phase = "collect" /\ TraceInv
    BY <1>3 DEF Launch, ReplayInv
  <2> QED BY <1>1, <1>3, <2>1, LaunchKeepsTrace
<1>4. ASSUME NEW first \in 0..1, NEW withOperations \in BOOLEAN,
             ImportProfile(first, withOperations)
      PROVE  ReplayInv'
  BY <1>4, ImportMeasures
<1> QED BY <1>2, <1>3, <1>4 DEF CaptureNext

(* A database that may be replayed stays so when entries are marked as     *)
(* invalid: what the native compiler checks doesn't look at that.          *)
LEMMA MarkedStays ==
  ASSUME NEW k, NEW record, Importable(k, record), NEW valid \in BOOLEAN
  PROVE  Acceptable(k, Measured([record EXCEPT !.valid = valid]))
<1> DEFINE marked == [record EXCEPT !.valid = valid]
<1>1. marked = [devices |-> record.devices, invocations |-> record.invocations,
                valid |-> valid, median |-> record.median,
                nearest |-> record.nearest, timeline |-> record.timeline]
  BY DEF Importable
<1> HIDE DEF marked
<1>2. PICK old : old = Measured(record)
  OBVIOUS
<1>3. PICK new : new = Measured(marked)
  OBVIOUS
<1>4. Acceptable(k, old)
  BY <1>2 DEF Importable
<1>5. /\ new.valid = valid /\ new.devices = old.devices /\ new.count = old.count
      /\ new.duration = old.duration /\ new.activities = old.activities
      /\ new = [valid |-> new.valid, devices |-> new.devices, count |-> new.count,
                duration |-> new.duration, activities |-> new.activities]
  BY <1>1, <1>2, <1>3 DEF Measured
<1>6. new \in [valid : BOOLEAN, devices : Nat, count : Nat, duration : Int,
               activities : SUBSET [track : Tracks, index : Nat, start : Int, end : Int]]
  BY <1>4, <1>5 DEF Acceptable
<1>7. AcceptsTiming(new) /\ ModuleCount(new) \in {0, DevicesOf[k]}
  BY <1>4, <1>5 DEF Acceptable, AcceptsTiming, ModuleCount
<1>8. Acceptable(k, new)
  BY <1>4, <1>6, <1>7 DEF Acceptable
<1> QED BY <1>3, <1>8 DEF marked

LEMMA RunStarts ==
  ASSUME ReplayInv,
         NEW predictor \in {"llo", "replay"}, NEW replayMiss \in {"error", "llo"},
         NEW withDatabase \in BOOLEAN, NEW report \in BOOLEAN,
         NEW deviceCount \in 1..Cardinality(Devices), NEW invalid,
         Run(predictor, replayMiss, withDatabase, report, deviceCount, invalid)
  PROVE  ReplayInv'
<1>1. phase = "imported" /\ UNCHANGED <<attributes, compiling, queries, last>>
  BY DEF Run
<1>2. Idle /\ \A k \in DOMAIN database : Importable(k, database[k])
  BY <1>1 DEF ReplayInv
<1>3. Idle' /\ last' = None
  BY <1>1, <1>2 DEF Idle
<1>4. CASE phase' = "refused"
  BY <1>3, <1>4 DEF ReplayInv, WholeLaunches, TimedAsQueried
<1>5. CASE phase' = "replay"
  <2>1. /\ predictor = "llo" => replayMiss = "error"
        /\ session' =
             [predictor |-> predictor, replayMiss |-> replayMiss,
              observed |-> predictor = "replay" \/ report, deviceCount |-> deviceCount,
              PJRT_SIM_PREDICTOR |-> IF predictor = "replay" THEN "replay" ELSE None,
              PJRT_SIM_REPLAY_MISS |-> IF predictor = "replay" THEN replayMiss ELSE None]
        /\ database' = IF predictor = "llo" THEN NoDatabase
                       ELSE [k \in DOMAIN database |->
                               Measured([database[k] EXCEPT !.valid = k \notin invalid])]
    BY <1>5 DEF Run
  <2>2. SessionFits'
    <3>1. predictor = "llo" => DOMAIN database' = {}
      BY <2>1 DEF NoDatabase
    <3>2. deviceCount \in Nat
      OBVIOUS
    <3> QED BY <2>1, <3>1, <3>2 DEF SessionFits
  <2>3. (\A k \in DOMAIN database : Acceptable(k, database[k]))'
    <3> SUFFICES ASSUME NEW k \in DOMAIN database'
                 PROVE  Acceptable(k, database'[k])
      OBVIOUS
    <3>1. CASE predictor = "llo"
      BY <2>1, <3>1 DEF NoDatabase
    <3>2. CASE predictor = "replay"
      <4>1. /\ k \in DOMAIN database
            /\ database'[k] = Measured([database[k] EXCEPT !.valid = k \notin invalid])
        BY <2>1, <3>2
      <4>2. Importable(k, database[k])
        BY <1>2, <4>1
      <4>3. PICK valid \in BOOLEAN : valid = (k \notin invalid)
        OBVIOUS
      <4>4. Acceptable(k, Measured([database[k] EXCEPT !.valid = valid]))
        BY <4>2, MarkedStays
      <4> QED BY <4>1, <4>3, <4>4
    <3> QED BY <3>1, <3>2
  <2>4. CompilingFits'
    BY <1>3 DEF Idle, CompilingFits
  <2> QED BY <1>3, <1>5, <2>2, <2>3, <2>4 DEF ReplayInv, WholeLaunches, TimedAsQueried
<1>6. phase' \in {"refused", "replay"}
  BY DEF Run
<1> QED BY <1>4, <1>5, <1>6

LEMMA ReplayStays ==
  ASSUME ReplayInv, phase = "replay", UNCHANGED <<captureVars, session>>,
         CompilingFits', TimedAsQueried'
  PROVE  ReplayInv'
<1>1. phase' = "replay" /\ database' = database /\ session' = session
  BY DEF captureVars
<1>2. SessionFits'
  BY <1>1 DEF ReplayInv, SessionFits
<1>3. (\A k \in DOMAIN database : Acceptable(k, database[k]))'
  BY <1>1 DEF ReplayInv
<1> QED BY <1>1, <1>2, <1>3 DEF ReplayInv, WholeLaunches

LEMMA ObserveKeeps ==
  ASSUME ReplayInv, NEW k \in Keys, Observe(k)
  PROVE  ReplayInv'
<1>1. /\ phase = "replay" /\ compiling = None
      /\ UNCHANGED <<captureVars, session>> /\ database' = database
  BY DEF Observe, captureVars
<1>2. /\ SessionFits /\ CompilingFits
      /\ attributes = [j \in Keys |-> Unannotated]
  BY <1>1 DEF ReplayInv, CompilingFits
<1>3. ExecutionKey(k) = k
  BY <1>2 DEF ExecutionKey
<1> DEFINE query == QueryFor(k)
<1>4. QueryFor(k)' = query
  BY <1>1 DEF QueryFor, Lookup
<1>5. CASE query.source = None
  <2>1. /\ last' = Ended(k, None, "raised", 0)
        /\ UNCHANGED <<attributes, compiling>>
    BY <1>3, <1>5 DEF Observe
  <2>2. session.predictor = "replay" /\ Lookup(k) # "hit"
    BY <1>2, <1>5, NoneAssumption DEF QueryFor, SessionFits
  <2>3. k \in DOMAIN database => ~database[k].valid
    BY <2>2 DEF Lookup
  <2>4. CompilingFits'
    BY <1>1, <1>2, <2>1 DEF CompilingFits
  <2>5. TimedAsQueried'
    BY <1>1, <2>1, <2>2, <2>3, NoneAssumption DEF TimedAsQueried, Ended
  <2> QED BY <1>1, <2>4, <2>5, ReplayStays
<1>6. CASE query.source # None
  <2>1. /\ attributes' = [attributes EXCEPT ![k] = Annotated(@, query)]
        /\ compiling' = [program |-> k, source |-> query.source,
                         outcome |-> None, duration |-> 0]
        /\ last' = last
    BY <1>3, <1>6 DEF Observe
  <2>2. query.source \in {"llo", "replay"}
    BY <1>6 DEF QueryFor
  <2>3. /\ compiling' \in [program : Keys, source : {"llo", "replay"},
                           outcome : Outcomes \cup {None}, duration : Int]
        /\ compiling' # None
    <3> HIDE DEF query
    <3>1. compiling' \in [program : Keys, source : {"llo", "replay"},
                          outcome : Outcomes \cup {None}, duration : Int]
      BY <2>1, <2>2
    <3> QED BY <3>1, NoneAssumption
  <2>4. Annotated(Unannotated, query)' = Annotated(Unannotated, query)
    BY <1>1, <1>4 DEF Annotated, Unannotated
  <2>5. attributes' = [[j \in Keys |-> Unannotated] EXCEPT ![k] = Annotated(Unannotated, query)]
    <3> HIDE DEF query
    <3> QED BY <1>2, <2>1
  <2>6. CompilingFits'
    <3> HIDE DEF query
    <3>1. compiling'.program = k /\ compiling'.source = query.source /\ compiling'.outcome = None
      BY <2>1
    <3> QED BY <1>4, <2>3, <2>4, <2>5, <3>1 DEF CompilingFits, query
  <2>7. TimedAsQueried'
    BY <1>1, <2>1 DEF TimedAsQueried, ReplayInv
  <2> QED BY <1>1, <2>6, <2>7, ReplayStays
<1> QED BY <1>5, <1>6

(* What the native compiler makes of an annotated module.                  *)
LEMMA CompiledAsQueried ==
  ASSUME SessionFits, NEW k \in Keys, NEW source \in {"llo", "replay"},
         QueryFor(k).source = source,
         \A j \in DOMAIN database : Acceptable(j, database[j]),
         NEW end \in CompileProgram(k, Annotated(Unannotated, QueryFor(k)))
  PROVE  Timed([end EXCEPT !.source = source])
<1> DEFINE query == QueryFor(k)
           annotations == Annotated(Unannotated, query)
           compiled == [end EXCEPT !.source = source]
<1>1. DevicesOf[k] \in Nat /\ session.deviceCount \in Nat
  BY CaptureAssumption DEF SessionFits
<1>2. None # "llo" /\ None # "replay" /\ None # TRUE
  BY NoneAssumption
<1>3. CASE DevicesOf[k] > session.deviceCount
  <2>1. end = Ended(k, None, "too_many_devices", 0)
    BY <1>3 DEF CompileProgram
  <2>2. compiled = Ended(k, source, "too_many_devices", 0)
    BY <2>1 DEF Ended
  <2>3. compiled \in [program : Keys, source : {"llo", "replay"}, outcome : Outcomes,
                      duration : Int]
    BY <2>2 DEF Ended, Outcomes
  <2>4. compiled.program = k
    BY <2>2 DEF Ended
  <2>5. ~(DevicesOf[k] <= session.deviceCount)
    BY <1>1, <1>3
  <2> HIDE DEF compiled
  <2>6. Timed(compiled)
    BY <2>3, <2>4, <2>5 DEF Timed
  <2> QED BY <2>6 DEF compiled
<1>4. CASE ~(DevicesOf[k] > session.deviceCount) /\ source = "llo"
  <2>1. ~(session.PJRT_SIM_PREDICTOR = "replay"
          /\ ~(annotations.miss = TRUE /\ session.PJRT_SIM_REPLAY_MISS = "llo"))
    <3>1. CASE session.predictor = "llo"
      BY <1>2, <3>1 DEF SessionFits
    <3>2. CASE session.predictor = "replay"
      <4>1. query.lookup = "miss" /\ query.source = "llo" /\ session.replayMiss = "llo"
        BY <1>2, <1>4, <3>2 DEF QueryFor, Lookup
      <4>2. session.PJRT_SIM_REPLAY_MISS = "llo"
        BY <3>2, <4>1 DEF SessionFits
      <4>3. annotations.miss = TRUE
        <5> HIDE DEF query
        <5> QED BY <4>1 DEF Annotated, Unannotated
      <4> QED BY <4>2, <4>3
    <3> QED BY <3>1, <3>2 DEF SessionFits
  <2>2. end \in {Ended(k, None, "libtpu", 0), Ended(k, None, "failed", 0)}
    <3> HIDE DEF query
    <3> QED BY <1>4, <2>1 DEF CompileProgram, query
  <2>3. PICK outcome \in {"libtpu", "failed"} : end = Ended(k, None, outcome, 0)
    BY <2>2
  <2>4. compiled = Ended(k, "llo", outcome, 0)
    BY <1>4, <2>3 DEF Ended
  <2>5. /\ compiled.outcome = outcome /\ compiled.source = "llo"
        /\ compiled \in [program : Keys, source : {"llo", "replay"}, outcome : Outcomes,
                         duration : Int]
    BY <2>4 DEF Ended, Outcomes
  <2> HIDE DEF compiled
  <2>6. Timed(compiled)
    BY <2>5 DEF Timed
  <2> QED BY <2>6 DEF compiled
<1>5. CASE ~(DevicesOf[k] > session.deviceCount) /\ source = "replay"
  <2>1. /\ session.predictor = "replay" /\ Lookup(k) = "hit"
        /\ query.source = "replay" /\ query.key = k
    BY <1>2, <1>5 DEF QueryFor, SessionFits
  <2>2. k \in DOMAIN database
    BY <2>1 DEF Lookup
  <2>3. Acceptable(k, database[k])
    BY <2>2
  <2>4. /\ database[k].duration \in Int /\ database[k] # None
        /\ AcceptsTiming(database[k]) /\ ModuleCount(database[k]) \in {0, DevicesOf[k]}
    BY <2>3, NoneAssumption DEF Acceptable
  <2>5. annotations.timing = database[k] /\ annotations.miss = None
    <3> HIDE DEF query
    <3> QED BY <2>1 DEF Annotated, Unannotated
  <2>6. session.PJRT_SIM_PREDICTOR = "replay"
    BY <2>1 DEF SessionFits
  <2>7. end = Ended(k, None, "replay", database[k].duration)
    <3> HIDE DEF annotations
    <3>1. end \in CompileProgram(k, annotations)
      BY DEF annotations
    <3> QED BY <1>2, <1>5, <2>4, <2>5, <2>6, <3>1 DEF CompileProgram
  <2>8. compiled = Ended(k, "replay", "replay", database[k].duration)
    BY <1>5, <2>7 DEF Ended
  <2>9. /\ compiled.outcome = "replay" /\ compiled.source = "replay" /\ compiled.program = k
        /\ compiled.duration = database[k].duration
        /\ compiled \in [program : Keys, source : {"llo", "replay"}, outcome : Outcomes,
                         duration : Int]
    BY <2>4, <2>8 DEF Ended, Outcomes
  <2> HIDE DEF compiled
  <2>10. Timed(compiled)
    BY <2>9 DEF Timed
  <2> QED BY <2>10 DEF compiled
<1> QED BY <1>3, <1>4, <1>5

LEMMA CompileKeeps ==
  ASSUME ReplayInv, CompileObserved
  PROVE  ReplayInv'
<1>1. /\ compiling # None /\ UNCHANGED <<captureVars, session>> /\ database' = database
      /\ attributes' = attributes /\ last' = last /\ session' = session
  BY DEF CompileObserved, captureVars
<1>2. phase = "replay"
  BY <1>1 DEF ReplayInv, Idle
<1>3. SessionFits /\ CompilingFits /\ \A k \in DOMAIN database : Acceptable(k, database[k])
  BY <1>2 DEF ReplayInv
<1>4. PICK k : k = compiling.program
  OBVIOUS
<1>5. PICK source : source = compiling.source
  OBVIOUS
<1>6. /\ k \in Keys /\ source \in {"llo", "replay"} /\ QueryFor(k).source = source
      /\ attributes = [[j \in Keys |-> Unannotated] EXCEPT
                         ![k] = Annotated(Unannotated, QueryFor(k))]
  <2>1. /\ compiling \in [program : Keys, source : {"llo", "replay"},
                          outcome : Outcomes \cup {None}, duration : Int]
        /\ QueryFor(compiling.program).source = compiling.source
        /\ attributes = [[j \in Keys |-> Unannotated] EXCEPT
                           ![compiling.program] =
                             Annotated(Unannotated, QueryFor(compiling.program))]
    BY <1>1, <1>3 DEF CompilingFits
  <2> QED BY <2>1, <1>4, <1>5
<1>7. attributes[k] = Annotated(Unannotated, QueryFor(k))
  BY <1>6
<1>8. PICK end \in CompileProgram(k, attributes[k]) :
        compiling' = [end EXCEPT !.source = source]
  BY <1>4, <1>5 DEF CompileObserved
<1>9. Timed(compiling')
  BY <1>3, <1>6, <1>7, <1>8, CompiledAsQueried
<1>10. /\ compiling' \in [program : Keys, source : {"llo", "replay"},
                          outcome : Outcomes \cup {None}, duration : Int]
       /\ compiling'.program = k /\ compiling'.source = source
  <2>1. end.program = k /\ DOMAIN end = {"program", "source", "outcome", "duration"}
    <3>1. PICK outcome, duration : end = Ended(k, None, outcome, duration)
      <4> HIDE DEF Ended
      <4> QED BY <1>8 DEF CompileProgram
    <3> QED BY <3>1 DEF Ended
  <2>2. compiling'.program = k /\ compiling'.source = source
    BY <1>8, <2>1
  <2> QED BY <1>9, <2>2 DEF Timed
<1>11. compiling' # None
  BY <1>10, NoneAssumption
<1>12. QueryFor(k)' = QueryFor(k) /\ Annotated(Unannotated, QueryFor(k))'
                                   = Annotated(Unannotated, QueryFor(k))
  BY <1>1 DEF QueryFor, Lookup, Annotated, Unannotated
<1>13. Timed(compiling)'
  BY <1>1, <1>9 DEF Timed
<1>14. CompilingFits'
  <2>1. (LET query == QueryFor(compiling.program)
         IN  /\ query.source = compiling.source
             /\ attributes = [[j \in Keys |-> Unannotated] EXCEPT
                                ![compiling.program] = Annotated(Unannotated, query)])'
    BY <1>1, <1>6, <1>10, <1>12
  <2> QED BY <1>10, <1>11, <1>13, <2>1 DEF CompilingFits
<1>15. TimedAsQueried'
  BY <1>1 DEF TimedAsQueried, ReplayInv
<1> QED BY <1>1, <1>2, <1>14, <1>15, ReplayStays

LEMMA RemovalKeeps ==
  ASSUME ReplayInv, RemoveAnnotations
  PROVE  ReplayInv'
<1>1. /\ compiling # None /\ compiling.outcome # None
      /\ UNCHANGED <<captureVars, session>> /\ database' = database /\ session' = session
      /\ attributes' = [attributes EXCEPT ![compiling.program] = Unannotated]
      /\ last' = compiling /\ compiling' = None
  BY DEF RemoveAnnotations, captureVars
<1>2. phase = "replay"
  BY <1>1 DEF ReplayInv, Idle
<1>3. /\ SessionFits /\ Timed(compiling)
      /\ QueryFor(compiling.program).source = compiling.source
      /\ compiling.program \in Keys /\ compiling.source \in {"llo", "replay"}
      /\ attributes = [[j \in Keys |-> Unannotated] EXCEPT
                         ![compiling.program] =
                           Annotated(Unannotated, QueryFor(compiling.program))]
  BY <1>1, <1>2 DEF ReplayInv, CompilingFits
<1>4. attributes' = [j \in Keys |-> Unannotated]
  BY <1>1, <1>3
<1>5. CompilingFits'
  BY <1>1, <1>4 DEF CompilingFits
<1>6. compiling.source = "llo" =>
        \/ session.predictor = "llo"
        \/ session.replayMiss = "llo" /\ compiling.program \notin DOMAIN database
  <2> SUFFICES ASSUME compiling.source = "llo", session.predictor = "replay"
               PROVE  session.replayMiss = "llo" /\ compiling.program \notin DOMAIN database
    BY <1>3 DEF SessionFits
  <2>1. Lookup(compiling.program) = "miss" /\ session.replayMiss = "llo"
    BY <1>3, NoneAssumption DEF QueryFor
  <2> QED BY <2>1 DEF Lookup
<1>7. TimedAsQueried'
  BY <1>1, <1>3, <1>6 DEF TimedAsQueried, Timed
<1> QED BY <1>1, <1>2, <1>5, <1>7, ReplayStays

LEMMA UnobservedKeeps ==
  ASSUME ReplayInv, NEW k \in Keys, CompileUnobserved(k)
  PROVE  ReplayInv'
<1>1. /\ phase = "replay" /\ compiling = None
      /\ UNCHANGED <<captureVars, session>> /\ session' = session
      /\ attributes' = attributes /\ compiling' = compiling
  BY DEF CompileUnobserved, captureVars
<1>2. SessionFits /\ CompilingFits
  BY <1>1 DEF ReplayInv
<1>3. CompilingFits'
  BY <1>1, <1>2 DEF CompilingFits
<1>4. PICK end \in CompileProgram(k, Unannotated) : last' = [end EXCEPT !.source = "unobserved"]
  BY DEF CompileUnobserved
<1>5. PICK outcome, duration : end = Ended(k, None, outcome, duration)
  <2> HIDE DEF Ended
  <2> QED BY <1>4 DEF CompileProgram
<1>6. last' = Ended(k, "unobserved", outcome, duration)
  BY <1>4, <1>5 DEF Ended
<1>7. DevicesOf[k] \in Nat /\ session.deviceCount \in Nat
  BY <1>2, CaptureAssumption DEF SessionFits
<1>8. DevicesOf[k] <= session.deviceCount /\ session.predictor = "replay"
        => outcome = "no_metadata"
  <2> SUFFICES ASSUME ~(DevicesOf[k] > session.deviceCount), session.predictor = "replay"
               PROVE  outcome = "no_metadata"
    BY <1>7
  <2>1. /\ session.PJRT_SIM_PREDICTOR = "replay"
        /\ Unannotated.miss # TRUE /\ Unannotated.timing = None
    BY <1>2, NoneAssumption DEF SessionFits, Unannotated
  <2>2. end = Ended(k, None, "no_metadata", 0)
    <3> HIDE DEF Ended
    <3> QED BY <1>4, <2>1 DEF CompileProgram
  <2> QED BY <1>5, <2>2 DEF Ended
<1>9. TimedAsQueried'
  BY <1>1, <1>6, <1>8 DEF TimedAsQueried, Ended
<1> QED BY <1>1, <1>3, <1>9, ReplayStays

LEMMA StutterKeeps ==
  ASSUME ReplayInv, UNCHANGED vars
  PROVE  ReplayInv'
<1>1. /\ UNCHANGED <<captureVars, session>>
      /\ UNCHANGED <<phase, records, trace, clock, launches, missed, database>>
      /\ UNCHANGED <<session, attributes, compiling, last>>
  BY DEF vars, captureVars, replayVars
<1>2. TimedAsQueried'
  BY <1>1 DEF ReplayInv, TimedAsQueried
<1>3. CASE phase = "replay"
  <2>1. \A k : QueryFor(k)' = QueryFor(k)
    BY <1>1 DEF QueryFor, Lookup
  <2>2. \A query : Annotated(Unannotated, query)' = Annotated(Unannotated, query)
    BY <1>1 DEF Annotated, Unannotated
  <2>3. \A end : Timed(end)' = Timed(end)
    BY <1>1 DEF Timed
  <2>4. CompilingFits'
    BY <1>1, <1>3, <2>1, <2>2, <2>3 DEF ReplayInv, CompilingFits
  <2> QED BY <1>1, <1>2, <1>3, <2>4, ReplayStays
<1>4. CASE phase = "collect"
  <2>1. TraceInv'
    BY <1>1, <1>4, TraceStays DEF ReplayInv
  <2> QED BY <1>1, <1>2, <1>4, <2>1 DEF ReplayInv, Idle, WholeLaunches
<1>5. CASE phase = "imported"
  <2>1. WholeLaunches'
    <3> SUFFICES ASSUME NEW k \in DOMAIN database
                 PROVE  (OfOneLaunch(k, database[k]) /\ NotLost(k, database[k]))'
      BY <1>1 DEF WholeLaunches
    <3>1. OfOneLaunch(k, database[k]) /\ NotLost(k, database[k])
      BY <1>5 DEF ReplayInv, WholeLaunches
    <3>2. OfOneLaunch(k, database[k])'
      BY <1>1, <3>1 DEF OfOneLaunch, Labelled
    <3>3. \A l : ModulesOf(l)' = ModulesOf(l) /\ (Isolated(k, l)' <=> Isolated(k, l))
      BY <1>1 DEF ModulesOf, Isolated, Labelled
    <3>4. NotLost(k, database[k])'
      BY <1>1, <3>1, <3>3 DEF NotLost, Labelled
    <3> QED BY <3>2, <3>4
  <2> QED BY <1>1, <1>2, <1>5, <2>1 DEF ReplayInv, Idle
<1>6. CASE phase = "refused"
  BY <1>1, <1>2, <1>6 DEF ReplayInv, Idle, WholeLaunches
<1> QED BY <1>3, <1>4, <1>5, <1>6 DEF ReplayInv

LEMMA ReplaySteps ==
  ASSUME ReplayInv, [Next]_vars
  PROVE  ReplayInv'
<1>1. CASE CaptureNext /\ UNCHANGED replayVars
  BY <1>1, CaptureKeeps
<1>2. ASSUME NEW predictor \in {"llo", "replay"}, NEW replayMiss \in {"error", "llo"},
             NEW withDatabase \in BOOLEAN, NEW report \in BOOLEAN,
             NEW deviceCount \in 1..Cardinality(Devices),
             NEW invalid \in {{}} \cup {{k} : k \in DOMAIN database},
             Run(predictor, replayMiss, withDatabase, report, deviceCount, invalid)
      PROVE  ReplayInv'
  BY <1>2, RunStarts
<1>3. ASSUME NEW k \in Keys, Observe(k)
      PROVE  ReplayInv'
  BY <1>3, ObserveKeeps
<1>4. CASE CompileObserved
  BY <1>4, CompileKeeps
<1>5. CASE RemoveAnnotations
  BY <1>5, RemovalKeeps
<1>6. ASSUME NEW k \in Keys, CompileUnobserved(k)
      PROVE  ReplayInv'
  BY <1>6, UnobservedKeeps
<1>7. CASE UNCHANGED vars
  BY <1>7, StutterKeeps
<1> QED BY <1>1, <1>2, <1>3, <1>4, <1>5, <1>6, <1>7 DEF Next

----------------------------------------------------------------------------
(* A measured invocation is one launch of the program it is filed under,   *)
(* whole, and no whole launch that nothing else touches is lost, however   *)
(* many programs, devices and launches there are.  (bind_identities,       *)
(* attribute_operations in profiling/importer.py)                          *)
THEOREM LaunchesStayWhole == Spec => []WholeLaunches
<1>1. Init => ReplayInv
  BY CaptureStarts
<1>2. ReplayInv /\ [Next]_vars => ReplayInv'
  BY ReplaySteps
<1>3. ReplayInv => WholeLaunches
  BY DEF ReplayInv
<1> QED BY <1>1, <1>2, <1>3, PTL DEF Spec

(* Every compilation is timed by what its query says, and the native       *)
(* compiler accepts whatever the import measured.  (compile_and_record in  *)
(* profiling/identity.py, CompileProgram and ReadReplayTiming)             *)
THEOREM CompilationsTimed == Spec => []TimedAsQueried
<1>1. Init => ReplayInv
  BY CaptureStarts
<1>2. ReplayInv /\ [Next]_vars => ReplayInv'
  BY ReplaySteps
<1>3. ReplayInv => TimedAsQueried
  BY DEF ReplayInv
<1> QED BY <1>1, <1>2, <1>3, PTL DEF Spec
=================================================================================

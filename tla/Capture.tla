-------------------------------- MODULE Capture --------------------------------
(***************************************************************************)
(* A capture on a real TPU (profiling/capture.py): the compilation observer*)
(* labels and records what the workload compiles (profiling/identity.py),  *)
(* the devices run launches of it, the profiler records them, mostly, and  *)
(* the importer makes a database of the trace and the records.             *)
(*                                                                         *)
(* The devices and the profiler are not this program's: Launch is what a   *)
(* capture of them may hold.  Programs of several devices synchronise, so  *)
(* that the intervals of one launch overlap; a device runs one program at  *)
(* a time; at most MaxMissed intervals are missing from the trace.         *)
(***************************************************************************)
EXTENDS ProfileImport

CONSTANTS
  Keys,          \* execution keys of the programs that run
  Foreign,       \* the keys among them whose compilation isn't observed
  NameOf,        \* the symbol of each key's module: [Keys -> names]
  DevicesOf,     \* replicas times partitions: [Keys -> 1..2]
  Fingerprint,   \* the program_id in a trace: [Keys -> ids]
  ModuleIds,     \* ids of HLO modules
  Devices,       \* the devices, numbered
  Spans,         \* what a device may add to the trace: [gap, dur]
  Queues,        \* queue ids
  Noise,         \* events that are no measurement
  MaxCompiles, MaxLaunches, MaxMissed

(* The intervals outlast the tolerance of the importer, and the trace never
   misses as many as a program of several devices has in one launch: of two
   launches that lost half of their devices each, the importer would make
   one.                                                                    *)
ASSUME CaptureAssumption ==
  /\ Foreign \subseteq Keys /\ NoLabel \notin Keys
  /\ Devices \subseteq Nat /\ IsFiniteSet(Devices)
  /\ DevicesOf \in [Keys -> 1..Cardinality(Devices)]
  /\ \A k \in Foreign : Fingerprint[k] \notin ModuleIds
  /\ MaxMissed \in Nat /\ \A k \in Keys : DevicesOf[k] > 1 => MaxMissed < DevicesOf[k]
  /\ \A s \in Spans : s.gap \in Nat /\ s.dur \in Nat /\ s.dur > Slack + 1
  /\ RealEvents(Noise) = {}

VARIABLES
  phase,       \* "collect", "imported", "replay" or "refused"
  records,     \* executables.json: [key -> [modules, devices]]
  trace,       \* the module and operation events of the launches
  clock,       \* when each device is free
  launches, missed,
  skip,        \* --skip-first of the import
  database     \* timings.json: what BuildDatabase returns

captureVars == <<phase, records, trace, clock, launches, missed, skip, database>>

NoDatabase == [k \in {} |-> 0]

CaptureInit ==
  /\ phase = "collect" /\ records = [k \in {} |-> 0] /\ trace = {}
  /\ clock = [d \in Devices |-> 0] /\ launches = 0 /\ missed = 0
  /\ skip = 0 /\ database = NoDatabase

----------------------------------------------------------------------------
(* An observed compilation carries its key in the name of its module; the
   name of the caller's module is restored before the compiler returns.    *)
Labelled(k) == [base |-> NameOf[k], label |-> k]

Compiles(k) == IF k \in DOMAIN records THEN records[k].modules ELSE {}

CompileAndRecord(k, id) ==
  /\ phase = "collect" /\ k \notin Foreign
  /\ Cardinality(Compiles(k)) < MaxCompiles
  /\ records' = [j \in DOMAIN records \cup {k} |->
       IF j = k THEN [modules |-> Compiles(k) \cup {[name |-> Labelled(k), id |-> id]},
                      devices |-> DevicesOf[k]]
       ELSE records[j]]
  /\ UNCHANGED <<phase, trace, clock, launches, missed, skip, database>>

(* A launch on some devices: a module interval on each, if it was recorded,
   and an operation inside of it.                                          *)
Event(k, queue, d, span) ==
  [launch |-> launches + 1, plane |-> "TPU", track |-> "XLA_Modules", clock |-> "device",
   device |-> d, ts |-> clock[d] + span.gap, dur |-> span.dur,
   name |-> IF k \in Foreign THEN [base |-> NameOf[k], label |-> NoLabel] ELSE Labelled(k),
   suffix |-> Fingerprint[k], arg |-> IF k \in Foreign THEN NoId ELSE Fingerprint[k],
   queue |-> queue]

Operation(event) ==
  [event EXCEPT !.track = "XLA_Ops", !.ts = @ + 1, !.dur = @ - 1,
                !.arg = NoId, !.queue = NoQueue]

Launch(k, queue, on, span, recorded) ==
  LET event == [d \in on |-> Event(k, queue, d, span[d])]
  IN  /\ phase = "collect" /\ launches < MaxLaunches
      /\ k \in DOMAIN records \cup Foreign
      /\ Cardinality(on) = DevicesOf[k]
      /\ Max({event[d].ts : d \in on}) < Min({event[d].ts + event[d].dur : d \in on})
      /\ missed + Cardinality(on \ recorded) <= MaxMissed
      /\ trace' = trace \cup {event[d] : d \in recorded} \cup {Operation(event[d]) : d \in on}
      /\ clock' = [d \in Devices |-> IF d \in on THEN event[d].ts + event[d].dur ELSE clock[d]]
      /\ launches' = launches + 1
      /\ missed' = missed + Cardinality(on \ recorded)
      /\ UNCHANGED <<phase, records, skip, database>>

(* import_profile: a capture may come without operations.                  *)
ImportProfile(first, withOperations) ==
  LET events == Noise \cup {e \in trace : withOperations \/ e.track = "XLA_Modules"}
  IN  /\ phase = "collect"
      /\ phase' = IF Programs(events) = {} THEN "refused" ELSE "imported"
      /\ database' = BuildDatabase(events, records, first)
      /\ skip' = first
      /\ UNCHANGED <<records, trace, clock, launches, missed>>

CaptureNext ==
  \/ \E k \in Keys, id \in ModuleIds : CompileAndRecord(k, id)
  \/ \E k \in Keys, queue \in Queues \cup {NoQueue} :
       \E on \in SUBSET Devices :
         \E span \in [on -> Spans], recorded \in SUBSET on : Launch(k, queue, on, span, recorded)
  \/ \E first \in 0..1, withOperations \in BOOLEAN : ImportProfile(first, withOperations)

----------------------------------------------------------------------------
(* A measured invocation is one launch of the program it is filed under,
   whole: one sample for each of its devices, and in its timeline nothing
   that ran for another launch.  (grouping of samples by overlap in
   bind_identities, containment in attribute_operations)                   *)
OfOneLaunch(k, record) ==
  /\ \A i \in record.invocations :
       \E l \in 1..launches :
         /\ i.samples = {e \in trace : e.launch = l /\ e.track = "XLA_Modules"}
         /\ Cardinality(i.samples) = DevicesOf[k]
         /\ \A o \in i.samples : o.name = Labelled(k)
  /\ \A a \in record.timeline : \A o \in record.nearest.samples : a.launch = o.launch

(* And no whole launch is lost that nothing else of its program touches on
   its queue, warmup and multi-device exclusions apart.                    *)
ModulesOf(l) == {e \in trace : e.launch = l /\ e.track = "XLA_Modules"}

Isolated(k, l) ==
  \A o \in ModulesOf(l), e \in trace :
    e.launch # l /\ e.track = "XLA_Modules" /\ e.name = Labelled(k) /\ e.queue = o.queue
      => EndOf(e) <= Min({q.ts : q \in ModulesOf(l)})
         \/ Max({EndOf(q) : q \in ModulesOf(l)}) <= e.ts

NotLost(k, record) ==
  \A l \in 1..launches :
    /\ Cardinality(ModulesOf(l)) = DevicesOf[k] /\ Isolated(k, l)
    /\ \A o \in ModulesOf(l) : o.name = Labelled(k)
    => \E i \in record.invocations : i.samples = ModulesOf(l)

WholeLaunches ==
  phase = "imported" =>
    \A k \in DOMAIN database : OfOneLaunch(k, database[k]) /\ NotLost(k, database[k])
================================================================================

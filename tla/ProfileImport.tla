----------------------------- MODULE ProfileImport -----------------------------
(***************************************************************************)
(* The import of a device trace into a database of measured durations      *)
(* (profiling/importer.py, timeline.py): which events are measurements,    *)
(* which program and which compile identity each belongs to, which samples *)
(* of several devices are one invocation, and the timeline of the          *)
(* invocation that is nearest to the median.                               *)
(*                                                                         *)
(* A tick is half a nanosecond: timestamps are finer than the whole        *)
(* nanoseconds that durations are rounded up to.  An event is a record     *)
(*   [launch, plane, track, clock, device, ts, dur, name, suffix, arg,     *)
(*    queue]                                                               *)
(* whose name is [base, label], suffix the number in parentheses after it  *)
(* and arg its program_id; launch says which launch it was recorded for,   *)
(* and no definition of the import looks at it.                            *)
(***************************************************************************)
EXTENDS Integers, FiniteSets, FiniteSetsExt

CONSTANTS
  NoId,        \* no number in the name, or no program_id
  NoQueue,     \* no queue_id
  NoLabel      \* the name has no "__spjrt_" in it

(* The tracks of a device, their names with _ for a space.                 *)
Tracks == {"XLA_Modules", "XLA_Ops", "Async_XLA_Ops", "XLA_TraceMe"}
Slack == 2                                      \* .001 us
CeilNs(ticks) == (ticks + 1) \div 2
RoundNs(ticks) ==                               \* halves go to the even number
  LET n == ticks \div 2 IN IF ticks % 2 = 0 \/ n % 2 = 0 THEN n ELSE n + 1

RealEvents(trace) ==
  {e \in trace : /\ e.plane = "TPU" /\ e.track \in Tracks
                 /\ e.clock = "device" /\ e.dur > 0}

(* The id is the event's argument, or else the number in its name.         *)
EventProgram(e) == [name |-> e.name, id |-> IF e.arg # NoId THEN e.arg ELSE e.suffix]

Modules(trace) == {e \in RealEvents(trace) : e.track = "XLA_Modules"}
Programs(trace) == {EventProgram(o) : o \in Modules(trace)}

(* Warmup: the first samples of a program on a device are left out.        *)
Retained(trace, o, skip) ==
  Cardinality({q \in Modules(trace) : /\ EventProgram(q) = EventProgram(o)
                                      /\ q.device = o.device /\ q.ts < o.ts}) >= skip

----------------------------------------------------------------------------
(* Operations belong to the one invocation that contains them.             *)
Contains(o, op) ==
  /\ o.device = op.device
  /\ o.ts <= op.ts + Slack /\ o.ts + o.dur + Slack >= op.ts + op.dur
  /\ op.arg \in {NoId, EventProgram(o).id}
  /\ NoQueue \in {o.queue, op.queue} \/ o.queue = op.queue

AttributedTo(trace, o) ==
  {op \in RealEvents(trace) :
     /\ op.track # "XLA_Modules"
     /\ {q \in Modules(trace) : Contains(q, op)} = {o}}

----------------------------------------------------------------------------
(* The compile identity of a program.  records maps a key to the modules
   compiled for it and to its number of devices.                           *)
ByName(records, name) == {k \in DOMAIN records : \E m \in records[k].modules : m.name = name}
ById(records, id) == {k \in DOMAIN records : \E m \in records[k].modules : m.id = id}

Candidates(records, p) ==
  IF p.name.label = NoLabel /\ p.id # NoId THEN ById(records, p.id)
  ELSE ByName(records, p.name)

SamplesOf(trace, records, k) ==
  {o \in Modules(trace) : Candidates(records, EventProgram(o)) = {k}}

----------------------------------------------------------------------------
(* Invocations: each sample of a program of one device, each isolated group
   of overlapping samples, one per device, of a program of several.        *)
EndOf(o) == o.ts + 2 * CeilNs(o.dur)

InvocationOf(trace, group, skip) ==
  LET begin == Min({o.ts : o \in group})
      end == IF Cardinality(group) = 1 THEN Max({o.ts + o.dur : o \in group})
             ELSE Max({EndOf(o) : o \in group})
  IN  [samples |-> group, ts |-> begin, duration |-> CeilNs(end - begin),
       retained |-> \A o \in group : Retained(trace, o, skip)]

(* A group of a queue goes on while a sample starts before the others end. *)
Starts(queue) == {o.ts : o \in {s \in queue : \A q \in queue : q.ts < s.ts => EndOf(q) <= s.ts}}
Groups(samples) ==
  UNION {LET queue == {o \in samples : o.queue = q}
         IN  {{o \in queue : o.ts >= start /\ ~\E t \in Starts(queue) : start < t /\ t <= o.ts} :
                start \in Starts(queue)} : q \in {o.queue : o \in samples}}

(* Mutant: a group is known by its devices alone.                          *)
AcceptedByDevices(group, devices) ==
  /\ Cardinality({o.device : o \in group}) = devices
  /\ Max({o.ts : o \in group}) < Min({EndOf(o) : o \in group})

Accepted(group, devices) ==
  /\ Cardinality(group) = devices
  /\ Cardinality({o.device : o \in group}) = devices
  /\ Max({o.ts : o \in group}) < Min({EndOf(o) : o \in group})

Invocations(trace, samples, devices, skip) ==
  {InvocationOf(trace, g, skip) :
     g \in IF devices = 1 THEN {{o} : o \in samples}
           ELSE {g \in Groups(samples) : Accepted(g, devices)}}

(* Why a key gets no entry in the database.                                *)
Excluded(trace, samples, devices, skip) ==
  \/ devices = 1 /\ Cardinality({o.device : o \in samples}) > 1
  \/ devices > 1 /\ \E o \in samples : o.queue = NoQueue
  \/ ~\E i \in Invocations(trace, samples, devices, skip) : i.retained

----------------------------------------------------------------------------
(* The durations of the retained invocations, and twice their median.      *)
Ranked(invocations, n) ==
  LET upTo(d) == Cardinality({i \in invocations : i.duration <= d})
  IN  CHOOSE d \in {i.duration : i \in invocations} :
        upTo(d) >= n /\ \A i \in invocations : i.duration < d => upTo(i.duration) < n

MedianTwice(invocations) ==
  LET n == Cardinality(invocations)
  IN  Ranked(invocations, (n + 1) \div 2) + Ranked(invocations, n \div 2 + 1)

(* The timeline is that of one real invocation: the first, queue by queue,
   of those nearest to the median.                                         *)
Nearest(samples, retained) ==
  LET median == MedianTwice(retained)
      far(i) == Max({2 * i.duration - median, median - 2 * i.duration})
      nearest == {i \in retained : \A j \in retained : far(i) <= far(j)}
      queue(i) == {o \in samples : o.queue \in {q.queue : q \in i.samples}}
      first(i) == IF Cardinality(i.samples) = 1 THEN 0 ELSE Min({o.ts : o \in queue(i)})
      before(i, j) == first(i) < first(j) \/ (first(i) = first(j) /\ i.ts <= j.ts)
  IN  CHOOSE i \in nearest : \A j \in nearest : before(i, j)

Activities(trace, i) ==
  LET index(o) == Cardinality({q \in i.samples : q.device < o.device})
      atModule(o) == RoundNs(o.ts - i.ts)
  IN  {[launch |-> o.launch, track |-> o.track, index |-> index(o), start |-> atModule(o),
        end |-> Min({i.duration, atModule(o) + CeilNs(o.dur)})] : o \in i.samples}
      \cup UNION {{[launch |-> op.launch, track |-> op.track, index |-> index(o),
                    start |-> Max({0, RoundNs(op.ts - i.ts)}),
                    end |-> Min({i.duration, RoundNs(op.ts + op.dur - i.ts)})] :
                     op \in AttributedTo(trace, o)} : o \in i.samples}

(* A capture without the operations of every device has no timeline.       *)
TimelineOf(trace, i) ==
  LET activities == Activities(trace, i)
      devices(track) == {a.index : a \in {a \in activities : a.track = track}}
  IN  IF devices("XLA_Modules") = devices("XLA_Ops") THEN activities ELSE {}

----------------------------------------------------------------------------
ExecutableOf(trace, records, k, skip) ==
  LET devices == records[k].devices
      samples == SamplesOf(trace, records, k)
      invocations == Invocations(trace, samples, devices, skip)
      retained == {i \in invocations : i.retained}
      nearest == Nearest(samples, retained)
  IN  [devices |-> devices, invocations |-> invocations, valid |-> TRUE,
       median |-> MedianTwice(retained), nearest |-> nearest,
       timeline |-> TimelineOf(trace, nearest)]

BuildDatabase(trace, records, skip) ==
  LET bound == {k \in DOMAIN records :
                  ~Excluded(trace, SamplesOf(trace, records, k), records[k].devices, skip)}
  IN  [k \in bound |-> ExecutableOf(trace, records, k, skip)]
================================================================================

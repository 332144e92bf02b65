---------------------------- MODULE ProfileSession ----------------------------
(***************************************************************************)
(* Profiling sessions (src/src/profiler.cc) and the handles of the         *)
(* profiler extension that own them (src/src/profiler_api.cc).  Calls in   *)
(* progress and completion callbacks outlive the session they report to:   *)
(* they load the active session without a lock, and what they report later *)
(* may find it stopped, replaced by another, or its handle destroyed.      *)
(*                                                                         *)
(* Each activity is a ProfileCall on a thread, or the interval from its    *)
(* submission to a future (Ready), which a pool thread finishes.  Times    *)
(* come from the system's clock, which may be set back.                    *)
(***************************************************************************)
EXTENDS Integers, Sequences

CONSTANTS
  Handles,     (* PLUGIN_Profiler objects                                  *)
  Sessions,    (* bound: sessions ever started                             *)
  Activities,  (* calls and callbacks that report                          *)
  Batch,       (* activities of an executable: offsets of start and end    *)
  MaxEvents,   (* max_events_                                              *)
  MaxTime      (* bound: values of the clock                               *)

ASSUME ProfileAssumption ==
  /\ Sessions \in Nat /\ MaxEvents \in Nat /\ MaxTime \in Nat \ {0}
  /\ Batch \in Seq(Nat \X Nat)
  /\ \A k \in DOMAIN Batch : Batch[k][1] <= Batch[k][2]

VARIABLES
  now,      (* what Now() returns                                          *)
  started,  (* number of sessions made                                     *)
  active,   (* active_session, 0 when there is none                        *)
  session,  (* the ProfileSession objects                                  *)
  handle,   (* the PLUGIN_Profiler objects                                 *)
  activity  (* the ProfileActivity of each call or callback                *)

vars == <<now, started, active, session, handle, activity>>

Times == 1..MaxTime
Names == 1..Sessions
NoSession == 0
Unfinished == 0

NewSession == [stopped |-> FALSE, stopTime |-> 0, events |-> <<>>,
               deferred |-> <<>>, dropped |-> 0]
NewHandle == [state |-> "created", session |-> NoSession, running |-> FALSE,
              collected |-> FALSE, bytes |-> {}]
Idle == [at |-> "idle", session |-> NoSession, start |-> 0, index |-> 0]

----------------------------------------------------------------------------
(* ProfileSession *)

(* Mutant of Full: one event more than the limit.                          *)
FullLate(s) == Len(s.events) + Len(s.deferred) > MaxEvents

Full(s) == Len(s.events) + Len(s.deferred) >= MaxEvents

Event(start, end) == [start |-> start, end |-> end, incomplete |-> FALSE]

(* Begin: nothing more once stopped; counted as dropped when full.         *)
Begin(s, e) ==
  IF s.stopped THEN s
  ELSE IF Full(s) THEN [s EXCEPT !.dropped = @ + 1]
  ELSE [s EXCEPT !.events = Append(@, e)]

(* The index Begin returns, 0 for kDropped.                                *)
BeginIndex(s) == IF s.stopped \/ Full(s) THEN 0 ELSE Len(s.events) + 1

(* DeferActivities: an execution's activities, to be expanded when the trace
   is collected.                                                           *)
Defer(s, start) ==
  IF s.stopped THEN s
  ELSE IF Full(s) THEN [s EXCEPT !.dropped = @ + 1]
  ELSE [s EXCEPT !.deferred = Append(@, start)]

Later(t, u) == IF t < u THEN u ELSE t

(* Mutant of Finish: the end may be set again, or after the stop.          *)
FinishAgain(s, i, t) ==
  IF i = 0 THEN s ELSE [s EXCEPT !.events[i].end = Later(t, s.events[i].start)]

Finish(s, i, t) ==
  IF s.stopped \/ i = 0 \/ s.events[i].end # Unfinished THEN s
  ELSE [s EXCEPT !.events[i].end = Later(t, s.events[i].start)]

(* Mutant of Clip: an end that was set is left alone.                      *)
ClipUnfinished(e, stop) ==
  IF e.end # Unfinished THEN e
  ELSE [e EXCEPT !.end = Later(stop, e.start), !.incomplete = TRUE]

(* What goes on after the stop ends there, and is marked incomplete.       *)
Clip(e, stop) ==
  IF e.end # Unfinished /\ e.end <= stop THEN e
  ELSE [e EXCEPT !.end = Later(stop, e.start), !.incomplete = TRUE]

StopSession(s, t) ==
  IF s.stopped THEN s
  ELSE [s EXCEPT !.stopped = TRUE, !.stopTime = t,
                 !.events = [i \in DOMAIN @ |-> Clip(@[i], t)]]

(* Serialize: activities are expanded batch by batch until the trace is full
   and clipped like the events, if the session is stopped.                 *)
ClipExpanded(s, e) == IF s.stopTime = 0 THEN e ELSE Clip(e, s.stopTime)

Expanded(s) ==
  LET all == Len(s.deferred) * Len(Batch)
      room == MaxEvents - Len(s.events)
      At(k) == Batch[((k - 1) % Len(Batch)) + 1]
      From(k) == s.deferred[((k - 1) \div Len(Batch)) + 1]
  IN  [k \in 1..(IF all < room THEN all ELSE room) |->
         ClipExpanded(s, Event(From(k) + At(k)[1], From(k) + At(k)[2]))]

Events(s) ==
  {<<"event", i, s.events[i]>> : i \in DOMAIN s.events}
    \cup {<<"activity", k, Expanded(s)[k]>> : k \in DOMAIN Expanded(s)}

(* What starts after the stop is left out.                                 *)
Serialize(s) == {x \in Events(s) : s.stopTime = 0 \/ x[3].start <= s.stopTime}

----------------------------------------------------------------------------
Init ==
  /\ now = 1 /\ started = 0 /\ active = NoSession
  /\ session = [n \in Names |-> NewSession]
  /\ handle = [h \in Handles |-> NewHandle]
  /\ activity = [a \in Activities |-> Idle]

Clock ==
  /\ now' \in Times \ {now}
  /\ UNCHANGED <<started, active, session, handle, activity>>

(* session_mutex is held while a handle is between the two steps of a stop. *)
SessionLocked == \E h \in Handles : handle[h].state \in {"stopping", "destroying"}

(* Mutant of Start: a second session is started beside the first.          *)
StartSecond(h) ==
  /\ handle[h].state = "created" /\ ~SessionLocked
  /\ started < Sessions
  /\ started' = started + 1 /\ active' = started'
  /\ handle' = [handle EXCEPT ![h] = [NewHandle EXCEPT !.session = started',
                                                      !.running = TRUE]]
  /\ UNCHANGED <<now, session, activity>>

(* Start: refused while a session is active.                               *)
Start(h) ==
  /\ handle[h].state = "created" /\ ~SessionLocked
  /\ active = NoSession /\ started < Sessions
  /\ started' = started + 1 /\ active' = started'
  /\ handle' = [handle EXCEPT ![h] = [NewHandle EXCEPT !.session = started',
                                                      !.running = TRUE]]
  /\ UNCHANGED <<now, session, activity>>

(* StopProfile, from Stop or Destroy of the handle: the session first ...  *)
StopEvents(h) ==
  /\ handle[h].state = "created" /\ ~SessionLocked
  /\ handle[h].session # NoSession
  /\ \E next \in {"stopping", "destroying"} :
       handle' = [handle EXCEPT ![h].state = next]
  /\ session' = [session EXCEPT ![handle[h].session] = StopSession(@, now)]
  /\ UNCHANGED <<now, started, active, activity>>

(* ... then active_session, if it is this one.                             *)
StopClear(h) ==
  /\ handle[h].state \in {"stopping", "destroying"}
  /\ active' = IF active = handle[h].session THEN NoSession ELSE active
  /\ handle' = [handle EXCEPT ![h] =
       IF @.state = "stopping" THEN [@ EXCEPT !.state = "created", !.running = FALSE]
                               ELSE [NewHandle EXCEPT !.state = "destroyed"]]
  /\ UNCHANGED <<now, started, session, activity>>

(* StopProfile of a handle that never started does nothing.                *)
DestroyUnstarted(h) ==
  /\ handle[h].state = "created" /\ handle[h].session = NoSession
  /\ handle' = [handle EXCEPT ![h] = [NewHandle EXCEPT !.state = "destroyed"]]
  /\ UNCHANGED <<now, started, active, session, activity>>

Bytes(h) ==
  IF handle[h].session = NoSession THEN {} ELSE Serialize(session[handle[h].session])

(* Mutant of Collect: it is allowed while the session runs.                *)
CollectRunning(h) ==
  /\ handle[h].state = "created" /\ ~handle[h].collected
  /\ handle' = [handle EXCEPT ![h].collected = TRUE, ![h].bytes = Bytes(h)]
  /\ UNCHANGED <<now, started, active, session, activity>>

(* Collect: refused while running; serialized once, at the first request.  *)
Collect(h) ==
  /\ handle[h].state = "created" /\ ~handle[h].running
  /\ ~handle[h].collected
  /\ handle' = [handle EXCEPT ![h].collected = TRUE, ![h].bytes = Bytes(h)]
  /\ UNCHANGED <<now, started, active, session, activity>>

----------------------------------------------------------------------------
(* ProfileCall: the active session, or that of the parent activity, is taken,
   and the time ...                                                        *)
Load(a) ==
  /\ activity[a].at = "idle"
  /\ \E s \in {active} \cup {activity[p].session : p \in Activities} :
       /\ s # NoSession
       /\ activity' = [activity EXCEPT ![a] =
            [at |-> "loaded", session |-> s, start |-> now, index |-> 0]]
  /\ UNCHANGED <<now, started, active, session, handle>>

(* ... before Begin takes the session's lock.                              *)
BeginActivity(a) ==
  /\ activity[a].at = "loaded"
  /\ LET s == activity[a].session IN
     /\ session' = [session EXCEPT ![s] = Begin(@, Event(activity[a].start, Unfinished))]
     /\ activity' = [activity EXCEPT ![a].at = "begun",
                                     ![a].index = BeginIndex(session[s])]
  /\ UNCHANGED <<now, started, active, handle>>

(* Interval and Activities: modelled work, which may lie in the future.    *)
Report(a) ==
  /\ activity[a].at = "begun"
  /\ LET s == activity[a].session IN
     \/ \E from, to \in Times :
          /\ now <= from /\ from <= to
          /\ session' = [session EXCEPT ![s] = Begin(@, Event(from, to))]
     \/ \E from \in Times :
          /\ now <= from /\ Batch # <<>>
          /\ session' = [session EXCEPT ![s] = Defer(@, from)]
  /\ activity' = [activity EXCEPT ![a].at = "reported"]
  /\ UNCHANGED <<now, started, active, handle>>

(* ~ProfileCall, or the callback of Ready.                                 *)
FinishActivity(a) ==
  /\ activity[a].at \in {"begun", "reported"}
  /\ session' = [session EXCEPT ![activity[a].session] =
                   Finish(@, activity[a].index, now)]
  /\ activity' = [activity EXCEPT ![a].at = "over"]
  /\ UNCHANGED <<now, started, active, handle>>

Next ==
  \/ Clock
  \/ \E h \in Handles : 
       \/ Start(h) \/ StopEvents(h) \/ StopClear(h)
       \/ DestroyUnstarted(h) \/ Collect(h)
  \/ \E a \in Activities :
       Load(a) \/ BeginActivity(a) \/ Report(a) \/ FinishActivity(a)

Spec == Init /\ [][Next]_vars

----------------------------------------------------------------------------
(* Properties *)

(* Types, with the shape of the serialized trace left open.                *)
TypeOK ==
  /\ now \in Times /\ started \in 0..Sessions /\ active \in 0..started
  /\ DOMAIN session = Names
  /\ \A n \in Names :
       /\ session[n].stopped \in BOOLEAN /\ session[n].stopTime \in {0} \cup Times
       /\ session[n].events \in Seq([start : Nat, end : Nat, incomplete : BOOLEAN]) /\ session[n].deferred \in Seq(Nat)
       /\ Len(session[n].events) + Len(session[n].deferred) <= MaxEvents
  /\ \A h \in Handles :
       /\ handle[h].state \in {"created", "stopping", "destroying", "destroyed"}
       /\ handle[h].session \in 0..started
  /\ \A a \in Activities :
       /\ activity[a].at \in {"idle", "loaded", "begun", "reported", "over"}
       /\ activity[a].session \in 0..started
       /\ activity[a].index # 0 =>
            activity[a].index \in DOMAIN session[activity[a].session].events

(* "A stopped session never accepts late events" (profiler.h): nothing of it
   changes, whatever calls and callbacks report.                           *)
StoppedIsFinal ==
  [][\A n \in Names : session[n].stopped => session'[n] = session[n]]_vars

(* A session that isn't stopped is the active one and belongs to one handle
   that runs: none is leaked, and none is stopped by another's handle.     *)
RunningIsOwned ==
  \A n \in 1..started : ~session[n].stopped =>
    /\ active = n
    /\ \E h \in Handles : /\ handle[h].session = n /\ handle[h].running
                          /\ \A g \in Handles : handle[g].session = n => g = h

(* What was collected is still what the session holds: the bytes a handle
   gives out are the complete trace, however late callbacks finish.        *)
CollectedIsComplete ==
  \A h \in Handles : handle[h].collected =>
    handle[h].bytes = Bytes(h)

(* Intervals of a collected trace lie before the stop and don't run backwards,
   although reported for the future or finished under a clock set back; an
   event nobody finished in time is marked, and the trace is never too long. *)
TraceWithinSession ==
  \A n \in 1..started : session[n].stopped =>
    /\ \A x \in Serialize(session[n]) :
         x[3].start <= x[3].end /\ x[3].end <= session[n].stopTime
    /\ Len(session[n].events) + Len(Expanded(session[n])) <= MaxEvents
===============================================================================

------------------------ MODULE ProfileSessionProofs ------------------------
(***************************************************************************)
(* Profiling sessions for any number of handles, sessions and activities,  *)
(* any clock.  Two invariants carry the rest: Whole, of one session (its   *)
(* events are in order, and those of a stopped one end with it), and Owned,*)
(* of handles and sessions (sessions are started in turn, a handle's own   *)
(* session is nobody else's, and it is stopped once the handle stops).     *)
(***************************************************************************)
EXTENDS ProfileSession, SequenceTheorems, TLAPS

EventSet == [start : Nat, end : Nat, incomplete : BOOLEAN]
SessionSet == [stopped : BOOLEAN, stopTime : {0} \cup Times, events : Seq(EventSet),
               deferred : Seq(Nat), dropped : Nat]
Traces == {{}} \cup {Serialize(s) : s \in SessionSet}
HandleSet == [state : {"created", "stopping", "destroying", "destroyed"},
              session : 0..Sessions, running : BOOLEAN, collected : BOOLEAN, bytes : Traces]
ActivitySet == [at : {"idle", "loaded", "begun", "reported", "over"},
                session : 0..Sessions, start : {0} \cup Times, index : Nat]

(* An event doesn't run backwards; one of a stopped session ends with it,
   unless it starts later.                                                 *)
InOrder(e) == e.end # Unfinished => e.start <= e.end
Within(e, stop) == e.start <= stop => e.end # Unfinished /\ e.end <= stop

Whole(s) ==
  /\ s \in SessionSet
  /\ Len(s.events) + Len(s.deferred) <= MaxEvents
  /\ s.stopped <=> s.stopTime # 0
  /\ \A i \in 1..Len(s.events) : InOrder(s.events[i])
  /\ s.stopped => \A i \in 1..Len(s.events) : Within(s.events[i], s.stopTime)

(* What may become of a session in a step.                                 *)
Grown(s, r) ==
  /\ Whole(r) /\ Len(s.events) <= Len(r.events)
  /\ s.stopped => r = s

----------------------------------------------------------------------------
(* The clock's values are positive: no time is taken for an unset one.     *)
LEMMA TimesNat == Times \subseteq Nat \ {0} /\ 1 \in Times
  BY ProfileAssumption DEF Times

(* ProfileSession::ProfileSession.                                         *)
LEMMA NewIsWhole == Whole(NewSession) /\ ~NewSession.stopped
<1>1. NewSession \in SessionSet
  BY EmptySeq DEF NewSession, SessionSet
<1>2. Len(NewSession.events) = 0 /\ Len(NewSession.deferred) = 0
  BY EmptySeq DEF NewSession
<1> QED BY <1>1, <1>2, ProfileAssumption DEF Whole, NewSession

(* Where the limit isn't reached, there is room for one more.              *)
LEMMA OneMore ==
  ASSUME NEW m \in Nat, NEW a \in Nat, NEW b \in Nat, ~(a + b >= m)
  PROVE  a + 1 + b <= m /\ a + (b + 1) <= m
  OBVIOUS

(* Begin appends an event, counts a dropped one or does nothing.           *)
LEMMA BeginWhole ==
  ASSUME NEW s, Whole(s), NEW e \in EventSet, InOrder(e)
  PROVE  /\ Grown(s, Begin(s, e)) /\ Begin(s, e).stopped = s.stopped
         /\ BeginIndex(s) \in 0..Len(Begin(s, e).events)
<1>1. s \in SessionSet /\ Len(s.events) \in Nat /\ Len(s.deferred) \in Nat
  BY LenProperties DEF Whole, SessionSet
<1>2. CASE s.stopped
  <2>1. Begin(s, e) = s /\ BeginIndex(s) = 0
    BY <1>2 DEF Begin, BeginIndex
  <2> QED BY <1>1, <2>1 DEF Grown
<1>3. CASE ~s.stopped /\ Full(s)
  <2>1. Begin(s, e) = [s EXCEPT !.dropped = @ + 1]
    BY <1>3 DEF Begin
  <2>2. [s EXCEPT !.dropped = @ + 1] \in SessionSet
    BY <1>1 DEF SessionSet
  <2> QED BY <1>1, <1>3, <2>1, <2>2 DEF Grown, BeginIndex, Whole, SessionSet
<1>4. CASE ~s.stopped /\ ~Full(s)
  <2> DEFINE r == [s EXCEPT !.events = Append(@, e)]
  <2>1. Begin(s, e) = r /\ BeginIndex(s) = Len(s.events) + 1
    BY <1>4 DEF Begin, BeginIndex
  <2>2. /\ s.events \in Seq(EventSet) /\ Append(s.events, e) \in Seq(EventSet)
        /\ Len(Append(s.events, e)) = Len(s.events) + 1
        /\ \A i \in 1..Len(s.events) : Append(s.events, e)[i] = s.events[i]
        /\ Append(s.events, e)[Len(s.events) + 1] = e
    BY <1>1, AppendProperties DEF SessionSet
  <2>3. /\ r \in SessionSet /\ r.events = Append(s.events, e) /\ r.stopped = s.stopped
        /\ r.stopTime = s.stopTime /\ r.deferred = s.deferred
    BY <1>1, <2>2 DEF SessionSet
  <2> HIDE DEF r
  <2>4. Len(r.events) + Len(r.deferred) <= MaxEvents
    <3>1. MaxEvents \in Nat /\ ~(Len(s.events) + Len(s.deferred) >= MaxEvents)
      BY <1>4, ProfileAssumption DEF Full
    <3>2. Len(r.events) = Len(s.events) + 1 /\ Len(r.deferred) = Len(s.deferred)
      BY <2>2, <2>3
    <3> QED BY <1>1, <3>1, <3>2, OneMore
  <2>5. \A i \in 1..Len(r.events) : InOrder(r.events[i])
    BY <1>1, <2>2, <2>3 DEF Whole
  <2>6. Whole(r)
    BY <1>4, <2>3, <2>4, <2>5 DEF Whole
  <2> QED BY <1>1, <1>4, <2>1, <2>2, <2>3, <2>6 DEF Grown
<1> QED BY <1>2, <1>3, <1>4

(* DeferActivities takes the room of one event.                            *)
LEMMA DeferWhole ==
  ASSUME NEW s, Whole(s), NEW t \in Nat
  PROVE  Grown(s, Defer(s, t)) /\ Defer(s, t).stopped = s.stopped
<1>1. s \in SessionSet /\ Len(s.events) \in Nat /\ Len(s.deferred) \in Nat
  BY LenProperties DEF Whole, SessionSet
<1>2. CASE s.stopped
  <2>1. Defer(s, t) = s
    BY <1>2 DEF Defer
  <2> QED BY <1>1, <2>1 DEF Grown
<1>3. CASE ~s.stopped /\ Full(s)
  <2>1. Defer(s, t) = [s EXCEPT !.dropped = @ + 1]
    BY <1>3 DEF Defer
  <2>2. [s EXCEPT !.dropped = @ + 1] \in SessionSet
    BY <1>1 DEF SessionSet
  <2> QED BY <1>1, <1>3, <2>1, <2>2 DEF Grown, Whole, SessionSet
<1>4. CASE ~s.stopped /\ ~Full(s)
  <2> DEFINE r == [s EXCEPT !.deferred = Append(@, t)]
  <2>1. Defer(s, t) = r
    BY <1>4 DEF Defer
  <2>2. Append(s.deferred, t) \in Seq(Nat) /\ Len(Append(s.deferred, t)) = Len(s.deferred) + 1
    BY <1>1, AppendProperties DEF SessionSet
  <2>3. /\ r \in SessionSet /\ r.events = s.events /\ r.stopped = s.stopped
        /\ r.stopTime = s.stopTime /\ r.deferred = Append(s.deferred, t)
    BY <1>1, <2>2 DEF SessionSet
  <2> HIDE DEF r
  <2>4. Len(r.events) + Len(r.deferred) <= MaxEvents
    <3>1. MaxEvents \in Nat /\ ~(Len(s.events) + Len(s.deferred) >= MaxEvents)
      BY <1>4, ProfileAssumption DEF Full
    <3>2. Len(r.events) = Len(s.events) /\ Len(r.deferred) = Len(s.deferred) + 1
      BY <2>2, <2>3
    <3> QED BY <1>1, <3>1, <3>2, OneMore
  <2>5. Whole(r)
    BY <1>4, <2>3, <2>4 DEF Whole
  <2> QED BY <1>1, <1>4, <2>1, <2>3, <2>5 DEF Grown
<1> QED BY <1>2, <1>3, <1>4

(* Finish sets an end once, not before the start.                          *)
LEMMA FinishWhole ==
  ASSUME NEW s, Whole(s), NEW i \in 0..Len(s.events), NEW t \in Times
  PROVE  Grown(s, Finish(s, i, t)) /\ Finish(s, i, t).stopped = s.stopped
<1>1. s \in SessionSet /\ s.events \in Seq(EventSet) /\ Len(s.events) \in Nat
  BY LenProperties DEF Whole, SessionSet
<1>2. CASE s.stopped \/ i = 0 \/ s.events[i].end # Unfinished
  BY <1>1, <1>2 DEF Grown, Finish
<1>3. CASE ~(s.stopped \/ i = 0 \/ s.events[i].end # Unfinished)
  <2> DEFINE e == [s.events[i] EXCEPT !.end = Later(t, s.events[i].start)]
             es == [s.events EXCEPT ![i] = e]
             r == [s EXCEPT !.events = es]
  <2>1. i \in 1..Len(s.events)
    BY <1>1, <1>3
  <2>2. s.events[i] \in EventSet
    BY <1>1, <2>1, ElementOfSeq
  <2>3. e \in EventSet /\ InOrder(e)
    BY <2>2, TimesNat DEF EventSet, InOrder, Later
  <2>4. Finish(s, i, t) = r
    BY <1>3, <1>1 DEF Finish, SessionSet
  <2> HIDE DEF e
  <2>5. /\ es \in Seq(EventSet) /\ Len(es) = Len(s.events)
        /\ \A j \in 1..Len(s.events) : es[j] = IF j = i THEN e ELSE s.events[j]
    BY <1>1, <2>1, <2>3, ExceptSeq
  <2> HIDE DEF es
  <2>6. /\ r \in SessionSet /\ r.events = es /\ r.stopped = s.stopped
        /\ r.stopTime = s.stopTime /\ r.deferred = s.deferred
    BY <1>1, <2>5 DEF SessionSet
  <2> HIDE DEF r
  <2>7. \A j \in 1..Len(r.events) : InOrder(r.events[j])
    BY <2>3, <2>5, <2>6 DEF Whole
  <2>8. Whole(r)
    BY <1>3, <2>5, <2>6, <2>7 DEF Whole
  <2> QED BY <1>1, <1>3, <2>4, <2>5, <2>6, <2>8 DEF Grown
<1> QED BY <1>2, <1>3

(* What Stop and Serialize make of an event ends with the session.         *)
LEMMA ClipInOrder ==
  ASSUME NEW e \in EventSet, InOrder(e), NEW t \in Nat \ {0}
  PROVE  Clip(e, t) \in EventSet /\ InOrder(Clip(e, t)) /\ Within(Clip(e, t), t)
         /\ Clip(e, t).start = e.start
<1>1. e.start \in Nat /\ e.end \in Nat
  BY DEF EventSet
<1>2. CASE e.end # Unfinished /\ e.end <= t
  <2>1. Clip(e, t) = e
    BY <1>2 DEF Clip
  <2> QED BY <1>1, <1>2, <2>1 DEF Within
<1>3. CASE ~(e.end # Unfinished /\ e.end <= t)
  <2> DEFINE c == Clip(e, t)
  <2>1. /\ c \in EventSet /\ c.start = e.start
        /\ c.end = (IF t < e.start THEN e.start ELSE t)
    BY <1>1, <1>3 DEF Clip, Later, EventSet
  <2> HIDE DEF c
  <2>2. InOrder(c) /\ Within(c, t)
    BY <1>1, <2>1 DEF InOrder, Within, Unfinished
  <2> QED BY <2>1, <2>2 DEF c
<1> QED BY <1>2, <1>3

(* Stop ends every event, the first time it is called.                     *)
LEMMA StopWhole ==
  ASSUME NEW s, Whole(s), NEW t \in Times
  PROVE  Grown(s, StopSession(s, t)) /\ StopSession(s, t).stopped
<1>1. s \in SessionSet /\ s.events \in Seq(EventSet) /\ Len(s.events) \in Nat
      /\ DOMAIN s.events = 1..Len(s.events)
  BY LenProperties DEF Whole, SessionSet
<1>2. CASE s.stopped
  BY <1>1, <1>2 DEF Grown, StopSession
<1>3. CASE ~s.stopped
  <2> DEFINE n == Len(s.events)
             es == [i \in 1..n |-> Clip(s.events[i], t)]
             r == [s EXCEPT !.stopped = TRUE, !.stopTime = t, !.events = es]
  <2>1. \A i \in 1..n : s.events[i] \in EventSet /\ InOrder(s.events[i])
    BY <1>1, ElementOfSeq DEF Whole
  <2>2. \A i \in 1..n : /\ es[i] \in EventSet /\ InOrder(es[i]) /\ Within(es[i], t)
    BY <2>1, ClipInOrder, TimesNat
  <2>3. StopSession(s, t) = r
    BY <1>1, <1>3 DEF StopSession, SessionSet
  <2>4. es \in [1..n -> EventSet]
    BY <2>2
  <2>5. es \in Seq(EventSet) /\ Len(es) = n
    BY <1>1, <2>4
  <2> HIDE DEF es
  <2>6. /\ r \in SessionSet /\ r.events = es /\ r.stopped
        /\ r.stopTime = t /\ r.deferred = s.deferred
    BY <1>1, <2>5 DEF SessionSet
  <2> HIDE DEF r
  <2>7. Whole(r)
    BY <2>2, <2>5, <2>6, TimesNat DEF Whole
  <2> QED BY <1>1, <1>3, <2>3, <2>5, <2>6, <2>7 DEF Grown
<1> QED BY <1>2, <1>3

----------------------------------------------------------------------------
(* Of the batch and the execution that the k-th expanded activity is of.   *)
LEMMA Quotient ==
  ASSUME NEW d \in Nat, NEW n \in Nat, NEW k \in 1..(d * n)
  PROVE  n # 0 /\ (k - 1) % n \in 0..(n - 1) /\ (k - 1) \div n \in 0..(d - 1)
<1>1. d * n \in Nat /\ k \in Nat /\ 1 <= k /\ k <= d * n
  OBVIOUS
<1>2. n # 0
  BY <1>1
<1> DEFINE q == (k - 1) \div n
           m == (k - 1) % n
<1>3. q \in Nat /\ m \in 0..(n - 1) /\ k - 1 = n * q + m
  BY <1>1, <1>2
<1> HIDE DEF q, m
<1>4. q <= d - 1
  <2>1. SUFFICES ASSUME d <= q PROVE FALSE
    BY <1>3
  <2>2. PICK p \in Nat : q = d + p
    <3>1. q - d \in Nat /\ q = d + (q - d)
      BY <1>3, <2>1
    <3> QED BY <3>1
  <2>3. n * q = d * n + n * p /\ n * p \in Nat
    BY <2>2
  <2> QED BY <1>1, <1>3, <2>3
<1> QED BY <1>2, <1>3, <1>4 DEF q, m

(* Offsets from 0 and indices from 1.                                      *)
LEMMA OneUp ==
  ASSUME NEW i, NEW n \in Nat, i \in 0..(n - 1)
  PROVE  i + 1 \in 1..n
  OBVIOUS

(* Natural numbers, for leaves with products and with sequences.           *)
LEMMA ProductNat == \A d, n \in Nat : d * n \in Nat
  OBVIOUS

(* Room in a trace that is within its limit.                               *)
LEMMA RoomNat ==
  ASSUME NEW m \in Nat, NEW a \in Nat, NEW b \in Nat, a + b <= m
  PROVE  m - a \in Nat
  OBVIOUS

(* Activities expanded when the trace is collected are as the events.      *)
LEMMA ExpandedInOrder ==
  ASSUME NEW s, Whole(s)
  PROVE  /\ Len(s.events) + Len(Expanded(s)) <= MaxEvents
         /\ s.stopped => \A k \in DOMAIN Expanded(s) :
              /\ Expanded(s)[k] \in EventSet /\ InOrder(Expanded(s)[k])
              /\ Within(Expanded(s)[k], s.stopTime)
<1>1. /\ s.events \in Seq(EventSet) /\ Len(s.events) \in Nat
      /\ s.deferred \in Seq(Nat) /\ Len(s.deferred) \in Nat
      /\ Batch \in Seq(Nat \X Nat) /\ Len(Batch) \in Nat
      /\ s.stopTime \in {0} \cup Times /\ s.stopped <=> s.stopTime # 0
      /\ Len(s.events) + Len(s.deferred) <= MaxEvents /\ MaxEvents \in Nat
  BY LenProperties, ProfileAssumption DEF Whole, SessionSet
<1> DEFINE all == Len(s.deferred) * Len(Batch)
           room == MaxEvents - Len(s.events)
           top == IF all < room THEN all ELSE room
           At(k) == Batch[((k - 1) % Len(Batch)) + 1]
           From(k) == s.deferred[((k - 1) \div Len(Batch)) + 1]
           E(k) == Event(From(k) + At(k)[1], From(k) + At(k)[2])
<1>2. Expanded(s) = [k \in 1..top |-> ClipExpanded(s, E(k))]
  BY DEF Expanded
<1>3. all \in Nat /\ room \in Nat /\ top \in Nat /\ top <= all /\ top <= room
  <2>1. all \in Nat
    BY <1>1, ProductNat
  <2>2. room \in Nat
    BY <1>1, RoomNat
  <2> HIDE DEF all, room
  <2> QED BY <2>1, <2>2
<1> HIDE DEF top
<1>4. Len(Expanded(s)) = top /\ DOMAIN Expanded(s) = 1..top
  BY <1>2, <1>3
<1>5. ASSUME NEW k \in 1..top
      PROVE  E(k) \in EventSet /\ InOrder(E(k))
  <2>1. k \in 1..all
    BY <1>3
  <2>2. ((k - 1) % Len(Batch)) + 1 \in 1..Len(Batch) /\ ((k - 1) \div Len(Batch)) + 1 \in 1..Len(s.deferred)
    <3> DEFINE d == Len(s.deferred)
               n == Len(Batch)
    <3>1. d \in Nat /\ n \in Nat /\ k \in 1..(d * n)
      BY <1>1, <2>1
    <3> HIDE DEF d, n
    <3>2. n # 0 /\ (k - 1) % n \in 0..(n - 1) /\ (k - 1) \div n \in 0..(d - 1)
      BY <3>1, Quotient
    <3>3. ((k - 1) % n) + 1 \in 1..n /\ ((k - 1) \div n) + 1 \in 1..d
      BY <3>1, <3>2, OneUp
    <3> QED BY <3>3 DEF d, n
  <2>3. At(k) \in Nat \X Nat /\ At(k)[1] <= At(k)[2] /\ From(k) \in Nat
    BY <1>1, <2>2, ElementOfSeq, ProfileAssumption, LenProperties
  <2> HIDE DEF At, From
  <2>4. /\ From(k) + At(k)[1] \in Nat /\ From(k) + At(k)[2] \in Nat
        /\ From(k) + At(k)[1] <= From(k) + At(k)[2]
    BY <2>3
  <2> QED BY <2>4 DEF Event, EventSet, InOrder
<1>6. ASSUME s.stopped, NEW k \in 1..top
      PROVE  /\ Expanded(s)[k] \in EventSet /\ InOrder(Expanded(s)[k])
             /\ Within(Expanded(s)[k], s.stopTime)
  <2> HIDE DEF E
  <2>1. Expanded(s)[k] = Clip(E(k), s.stopTime)
    BY <1>1, <1>2, <1>6 DEF ClipExpanded
  <2>2. s.stopTime \in Nat \ {0}
    BY <1>1, <1>6, TimesNat
  <2> QED BY <1>5, <2>1, <2>2, ClipInOrder
<1> QED BY <1>1, <1>3, <1>4, <1>6

(* The trace of a stopped session lies within it.                          *)
LEMMA TraceInSession ==
  ASSUME NEW s, Whole(s), s.stopped
  PROVE  /\ \A x \in Serialize(s) : x[3].start <= x[3].end /\ x[3].end <= s.stopTime
         /\ Len(s.events) + Len(Expanded(s)) <= MaxEvents
<1>1. s.events \in Seq(EventSet) /\ DOMAIN s.events = 1..Len(s.events) /\ s.stopTime # 0
  BY LenProperties DEF Whole, SessionSet
<1>2. ASSUME NEW x \in Serialize(s)
      PROVE  x[3].start <= x[3].end /\ x[3].end <= s.stopTime
  <2>1. x \in Events(s) /\ x[3].start <= s.stopTime
    BY <1>1 DEF Serialize
  <2>2. InOrder(x[3]) /\ Within(x[3], s.stopTime)
    <3>1. CASE \E i \in DOMAIN s.events : x = <<"event", i, s.events[i]>>
      BY <1>1, <3>1 DEF Whole
    <3>2. CASE \E k \in DOMAIN Expanded(s) : x = <<"activity", k, Expanded(s)[k]>>
      BY <3>2, ExpandedInOrder
    <3> QED BY <2>1, <3>1, <3>2 DEF Events
  <2> QED BY <2>1, <2>2 DEF InOrder, Within
<1> QED BY <1>2, ExpandedInOrder

----------------------------------------------------------------------------
Typed ==
  /\ now \in Times /\ started \in 0..Sessions /\ active \in 0..started
  /\ session \in [Names -> SessionSet]
  /\ handle \in [Handles -> HandleSet]
  /\ activity \in [Activities -> ActivitySet]

AllWhole == \A n \in Names : Whole(session[n])

(* A handle that stops has a session, which is stopped; one that doesn't run
   has none, or a stopped one, and only such a handle is collected.        *)
HandleOwns(h) ==
  /\ handle[h].session <= started
  /\ handle[h].state \in {"stopping", "destroying"} => handle[h].session # NoSession
  /\ handle[h].session # NoSession
       /\ (handle[h].state \in {"stopping", "destroying"} \/ ~handle[h].running)
     => session[handle[h].session].stopped
  /\ handle[h].collected => ~handle[h].running

(* An activity that began reports to a session that was started, where its
   event still is.                                                         *)
ActivityRefers(a) ==
  /\ activity[a].session <= started
  /\ activity[a].at # "idle" => activity[a].session # NoSession
  /\ activity[a].index # 0 =>
       /\ activity[a].session # NoSession
       /\ activity[a].index <= Len(session[activity[a].session].events)

Owned ==
  /\ RunningIsOwned
  /\ \A h \in Handles : HandleOwns(h)
  /\ \A a \in Activities : ActivityRefers(a)

IInv == Typed /\ AllWhole /\ Owned /\ CollectedIsComplete

(* What every step does to the sessions.                                   *)
Growing == \A n \in Names : Grown(session[n], session'[n])

(* Sessions that were started are within the bound.                        *)
LEMMA NamesStarted ==
  ASSUME Typed, NEW n \in 1..started
  PROVE  n \in Names
  BY ProfileAssumption DEF Typed, Names

(* Nothing was started.                                                    *)
LEMMA InitIInv == Init => IInv
<1> SUFFICES ASSUME Init PROVE IInv
  OBVIOUS
<1>1. Typed
  <2>1. session \in [Names -> SessionSet]
    BY NewIsWhole DEF Init, Whole
  <2>2. handle \in [Handles -> HandleSet]
    <3>1. NewHandle \in HandleSet
      BY ProfileAssumption DEF NewHandle, HandleSet, Traces, NoSession
    <3> QED BY <3>1 DEF Init
  <2>3. activity \in [Activities -> ActivitySet]
    <3>1. Idle \in ActivitySet
      BY ProfileAssumption DEF Idle, ActivitySet, NoSession
    <3> QED BY <3>1 DEF Init
  <2> QED BY <2>1, <2>2, <2>3, TimesNat, ProfileAssumption DEF Init, Typed, NoSession
<1>2. AllWhole
  BY NewIsWhole DEF Init, AllWhole
<1>3. Owned
  <2>1. \A h \in Handles : handle[h] = NewHandle
    BY DEF Init
  <2>2. \A a \in Activities : activity[a] = Idle
    BY DEF Init
  <2> QED BY <2>1, <2>2 DEF Init, Owned, RunningIsOwned, HandleOwns, ActivityRefers,
                           NewHandle, Idle, NoSession
<1>4. CollectedIsComplete
  BY DEF Init, CollectedIsComplete, NewHandle
<1> QED BY <1>1, <1>2, <1>3, <1>4 DEF IInv

(* A step of handles or activities alone.                                  *)
LEMMA SameSessions ==
  ASSUME IInv, UNCHANGED session
  PROVE  Growing /\ AllWhole'
<1>1. \A n \in Names : Whole(session[n])
  BY DEF IInv, AllWhole
<1>2. \A n \in Names : Len(session[n].events) \in Nat
  BY <1>1, LenProperties DEF Whole, SessionSet
<1> QED BY <1>1, <1>2 DEF Growing, Grown, AllWhole

(* A step that changes one session.                                        *)
LEMMA OneGrows ==
  ASSUME IInv, NEW n \in 1..started, NEW r, Grown(session[n], r),
         session' = [session EXCEPT ![n] = r]
  PROVE  /\ Growing /\ AllWhole' /\ session' \in [Names -> SessionSet]
         /\ session'[n] = r /\ \A m \in Names \ {n} : session'[m] = session[m]
<1>1. n \in Names /\ session \in [Names -> SessionSet] /\ \A m \in Names : Whole(session[m])
  BY NamesStarted DEF IInv, AllWhole, Typed
<1>2. r \in SessionSet /\ Whole(r)
  BY DEF Grown, Whole
<1>3. /\ session' \in [Names -> SessionSet] /\ session'[n] = r
      /\ \A m \in Names \ {n} : session'[m] = session[m]
  BY <1>1, <1>2
<1>4. \A m \in Names : Len(session[m].events) \in Nat
  BY <1>1, LenProperties DEF SessionSet
<1>5. \A m \in Names : Grown(session[m], session'[m])
  BY <1>1, <1>3, <1>4 DEF Grown
<1> QED BY <1>3, <1>5 DEF Growing, AllWhole, Grown

(* Transitivity, for leaves with sequences.                                *)
LEMMA AtMost ==
  ASSUME NEW i \in Nat, NEW a \in Nat, NEW b \in Nat, i <= a, a <= b
  PROVE  i <= b
  OBVIOUS

(* The parts about handles and activities that no step but one disturbs.   *)
LEMMA ActivitiesKept ==
  ASSUME IInv, Growing, UNCHANGED activity, started' >= started, started' \in Nat
  PROVE  \A a \in Activities : ActivityRefers(a)'
<1> SUFFICES ASSUME NEW a \in Activities PROVE ActivityRefers(a)'
  OBVIOUS
<1>1. ActivityRefers(a) /\ activity[a] \in ActivitySet /\ started \in Nat
  BY DEF IInv, Owned, Typed
<1>2. activity[a].session \in Nat /\ activity[a].index \in Nat
  BY <1>1, ProfileAssumption DEF ActivitySet
<1>3. activity[a].session <= started'
  BY <1>1, <1>2 DEF ActivityRefers
<1>4. ASSUME activity[a].index # 0
      PROVE  /\ activity[a].session # NoSession
             /\ activity[a].index <= Len(session'[activity[a].session].events)
  <2> DEFINE n == activity[a].session
  <2>1. n # 0 /\ n \in Names /\ activity[a].index <= Len(session[n].events)
    BY <1>1, <1>2, <1>4, NamesStarted DEF ActivityRefers, NoSession, IInv
  <2>2. Whole(session[n]) /\ Whole(session'[n]) /\ Len(session[n].events) <= Len(session'[n].events)
    BY <2>1 DEF Growing, Grown, IInv, AllWhole
  <2>3. Len(session[n].events) \in Nat /\ Len(session'[n].events) \in Nat
    BY <2>2, LenProperties DEF Whole, SessionSet
  <2> HIDE DEF n
  <2>4. activity[a].index <= Len(session'[n].events)
    BY <1>2, <2>1, <2>2, <2>3, AtMost
  <2> QED BY <2>1, <2>4 DEF n, NoSession
<1> QED BY <1>1, <1>3, <1>4 DEF ActivityRefers

(* Only a stopped session is ever collected.                               *)
LEMMA CollectedStopped ==
  ASSUME IInv, NEW h \in Handles, handle[h].collected, handle[h].session # NoSession
  PROVE  handle[h].session \in Names /\ session[handle[h].session].stopped
<1>1. HandleOwns(h) /\ handle[h] \in HandleSet
  BY DEF IInv, Owned, Typed
<1>2. handle[h].session \in 1..started
  BY <1>1, ProfileAssumption DEF HandleOwns, HandleSet, NoSession
<1> QED BY <1>1, <1>2, NamesStarted DEF IInv, HandleOwns

(* What was collected stays the whole trace while sessions only grow.      *)
LEMMA TraceKept ==
  ASSUME IInv, Growing, NEW h \in Handles, handle[h].collected,
         handle'[h].session = handle[h].session, handle'[h].bytes = handle[h].bytes
  PROVE  handle'[h].bytes = Bytes(h)'
<1>1. handle[h].bytes = Bytes(h)
  BY DEF IInv, CollectedIsComplete
<1>2. CASE handle[h].session = NoSession
  BY <1>1, <1>2 DEF Bytes
<1>3. CASE handle[h].session # NoSession
  <2>1. session'[handle[h].session] = session[handle[h].session]
    BY <1>3, CollectedStopped DEF Growing, Grown
  <2>2. Bytes(h)' = Serialize(session'[handle'[h].session])
    BY <1>3 DEF Bytes
  <2> QED BY <1>1, <1>3, <2>1, <2>2 DEF Bytes
<1> QED BY <1>2, <1>3

(* A report to a session leaves it running or stopped, and its handles alone. *)
LEMMA ReportStep ==
  ASSUME IInv, NEW n \in 1..started, NEW r,
         Grown(session[n], r), r.stopped = session[n].stopped,
         session' = [session EXCEPT ![n] = r],
         UNCHANGED <<now, started, active, handle>>
  PROVE  /\ Growing /\ AllWhole' /\ session' \in [Names -> SessionSet]
         /\ session'[n] = r
         /\ RunningIsOwned' /\ (\A h \in Handles : HandleOwns(h))' /\ CollectedIsComplete'
<1>1. /\ Growing /\ AllWhole' /\ session' \in [Names -> SessionSet]
      /\ session'[n] = r /\ \A m \in Names \ {n} : session'[m] = session[m]
  BY OneGrows
<1>2. \A m \in Names : session'[m].stopped = session[m].stopped
  BY <1>1
<1>3. RunningIsOwned'
  BY <1>2, NamesStarted DEF IInv, Owned, RunningIsOwned
<1>4. ASSUME NEW h \in Handles
      PROVE  HandleOwns(h)'
  <2>1. HandleOwns(h) /\ handle[h] \in HandleSet
    BY DEF IInv, Owned, Typed
  <2>2. handle[h].session # NoSession => handle[h].session \in 1..started
    BY <2>1, ProfileAssumption DEF HandleOwns, HandleSet, NoSession
  <2>3. handle[h].session # NoSession =>
          session'[handle[h].session].stopped = session[handle[h].session].stopped
    BY <1>2, <2>2, NamesStarted DEF IInv
  <2> QED BY <2>1, <2>3 DEF HandleOwns
<1>5. CollectedIsComplete'
  BY <1>1, TraceKept DEF CollectedIsComplete
<1> QED BY <1>1, <1>3, <1>4, <1>5

(* Where an activity that began reports to.                                *)
LEMMA ReportsTo ==
  ASSUME IInv, NEW a \in Activities, activity[a].at # "idle"
  PROVE  /\ activity[a].session \in 1..started /\ activity[a].session \in Names
         /\ Whole(session[activity[a].session])
         /\ activity[a] \in ActivitySet
         /\ activity[a].index \in 0..Len(session[activity[a].session].events)
<1>1. ActivityRefers(a) /\ activity[a] \in ActivitySet
  BY DEF IInv, Owned, Typed
<1>2. activity[a].session \in 1..started /\ activity[a].session \in Names
  <2>1. activity[a].session \in 1..started
    BY <1>1, ProfileAssumption DEF ActivityRefers, ActivitySet, NoSession
  <2> QED BY <2>1, NamesStarted DEF IInv
<1>3. Whole(session[activity[a].session])
  BY <1>2 DEF IInv, AllWhole
<1>4. Len(session[activity[a].session].events) \in Nat
  BY <1>3, LenProperties DEF Whole, SessionSet
<1> QED BY <1>1, <1>2, <1>3, <1>4 DEF ActivityRefers, ActivitySet

(* An activity's new record refers to what its session holds.              *)
LEMMA ActivityMoves ==
  ASSUME IInv, Growing, NEW a \in Activities, activity[a].at # "idle",
         NEW b \in ActivitySet, b.session = activity[a].session,
         b.index \in 0..Len(session'[b.session].events),
         activity' = [activity EXCEPT ![a] = b], UNCHANGED started
  PROVE  activity' \in [Activities -> ActivitySet] /\ (\A c \in Activities : ActivityRefers(c))'
<1>1. activity' \in [Activities -> ActivitySet]
  BY DEF IInv, Typed
<1>2. activity'[a] = b /\ \A c \in Activities \ {a} : activity'[c] = activity[c]
  BY DEF IInv, Typed
<1>3. ASSUME NEW c \in Activities
      PROVE  ActivityRefers(c)'
  <2>1. CASE c = a
    <3>1. b.session \in 1..started /\ b.session <= started' /\ started \in Nat
      BY ReportsTo, ProfileAssumption DEF IInv, Typed
    <3>2. Whole(session'[b.session])
      BY ReportsTo DEF Growing, Grown
    <3>3. Len(session'[b.session].events) \in Nat
      BY <3>2, LenProperties DEF Whole, SessionSet
    <3> QED BY <1>2, <2>1, <3>1, <3>3 DEF ActivityRefers, NoSession
  <2>2. CASE c # a
    <3>1. ActivityRefers(c) /\ activity[c] \in ActivitySet /\ started \in Nat
      BY DEF IInv, Owned, Typed
    <3>2. activity'[c] = activity[c]
      BY <1>2, <2>2
    <3>3. ASSUME activity[c].index # 0
          PROVE  /\ activity[c].session # NoSession
                 /\ activity[c].index <= Len(session'[activity[c].session].events)
      <4>1. activity[c].session \in 1..started /\ activity[c].index \in Nat
            /\ activity[c].index <= Len(session[activity[c].session].events)
        BY <3>1, <3>3, ProfileAssumption DEF ActivityRefers, ActivitySet, NoSession
      <4> DEFINE n == activity[c].session
      <4>2. n \in Names
        BY <4>1, NamesStarted DEF IInv
      <4>3. Whole(session[n]) /\ Whole(session'[n]) /\ Len(session[n].events) <= Len(session'[n].events)
        BY <4>2 DEF Growing, Grown, IInv, AllWhole
      <4>4. Len(session[n].events) \in Nat /\ Len(session'[n].events) \in Nat
        BY <4>3, LenProperties DEF Whole, SessionSet
      <4>5. activity[c].index <= Len(session'[n].events)
        BY <4>1, <4>3, <4>4, AtMost
      <4> QED BY <4>1, <4>5 DEF NoSession
    <3> QED BY <3>1, <3>2, <3>3 DEF ActivityRefers
  <2> QED BY <2>1, <2>2
<1> QED BY <1>1, <1>3

(* The steps of ProfileCall and ProfileActivity ...                        *)
LEMMA BeginStep ==
  ASSUME IInv, NEW a \in Activities, BeginActivity(a)
  PROVE  IInv' /\ Growing
<1> DEFINE n == activity[a].session
           e == Event(activity[a].start, Unfinished)
           r == Begin(session[n], e)
           b == [activity[a] EXCEPT !.at = "begun", !.index = BeginIndex(session[n])]
<1>1. /\ activity[a].at = "loaded" /\ session' = [session EXCEPT ![n] = r]
      /\ activity' = [activity EXCEPT ![a] = b]
      /\ UNCHANGED <<now, started, active, handle>>
  BY DEF BeginActivity, IInv, Typed
<1>2. /\ n \in 1..started /\ n \in Names /\ Whole(session[n]) /\ activity[a] \in ActivitySet
  BY <1>1, ReportsTo
<1>3. e \in EventSet /\ InOrder(e)
  <2>1. activity[a].start \in Nat
    <3>1. activity[a].start \in {0} \cup Times
      BY <1>2 DEF ActivitySet
    <3>2. \A t \in Times : t \in Nat
      BY TimesNat
    <3> QED BY <3>1, <3>2
  <2> QED BY <2>1 DEF Event, EventSet, InOrder, Unfinished
<1> HIDE DEF e
<1>4. Grown(session[n], r) /\ r.stopped = session[n].stopped /\ BeginIndex(session[n]) \in 0..Len(r.events)
  BY <1>2, <1>3, BeginWhole
<1> HIDE DEF r
<1>5. /\ Growing /\ AllWhole' /\ session' \in [Names -> SessionSet] /\ session'[n] = r
      /\ RunningIsOwned' /\ (\A h \in Handles : HandleOwns(h))' /\ CollectedIsComplete'
  BY <1>1, <1>2, <1>4, ReportStep
<1>6. /\ b \in ActivitySet /\ b.session = n /\ b.index = BeginIndex(session[n])
  <2>1. BeginIndex(session[n]) \in Nat
    <3>1. Len(r.events) \in Nat
      BY <1>4, LenProperties DEF Grown, Whole, SessionSet
    <3> QED BY <1>4, <3>1
  <2> QED BY <1>2, <2>1 DEF ActivitySet
<1> HIDE DEF b
<1>7. activity' \in [Activities -> ActivitySet] /\ (\A c \in Activities : ActivityRefers(c))'
  BY <1>1, <1>4, <1>5, <1>6, ActivityMoves
<1> QED BY <1>1, <1>5, <1>7 DEF IInv, Typed, Owned

LEMMA ReportActivityStep ==
  ASSUME IInv, NEW a \in Activities, Report(a)
  PROVE  IInv' /\ Growing
<1> DEFINE n == activity[a].session
           b == [activity[a] EXCEPT !.at = "reported"]
<1>1. /\ activity[a].at = "begun" /\ activity' = [activity EXCEPT ![a] = b]
      /\ UNCHANGED <<now, started, active, handle>>
  BY DEF Report, IInv, Typed
<1>2. /\ n \in 1..started /\ n \in Names /\ Whole(session[n]) /\ activity[a] \in ActivitySet
      /\ activity[a].index \in 0..Len(session[n].events)
  BY <1>1, ReportsTo
<1>3. PICK r : /\ Grown(session[n], r) /\ r.stopped = session[n].stopped
               /\ session' = [session EXCEPT ![n] = r]
  <2>1. CASE \E from, to \in Times :
               /\ now <= from /\ from <= to
               /\ session' = [session EXCEPT ![n] = Begin(@, Event(from, to))]
    <3>1. PICK from \in Times, to \in Times :
            from <= to /\ session' = [session EXCEPT ![n] = Begin(@, Event(from, to))]
      BY <2>1
    <3>2. Event(from, to) \in EventSet /\ InOrder(Event(from, to))
      BY <3>1, TimesNat DEF Event, EventSet, InOrder
    <3>3. session' = [session EXCEPT ![n] = Begin(session[n], Event(from, to))]
      BY <3>1
    <3> QED BY <1>2, <3>2, <3>3, BeginWhole
  <2>2. CASE \E from \in Times : /\ now <= from /\ Batch # <<>>
                                 /\ session' = [session EXCEPT ![n] = Defer(@, from)]
    <3>1. PICK from \in Times : session' = [session EXCEPT ![n] = Defer(@, from)]
      BY <2>2
    <3>2. session' = [session EXCEPT ![n] = Defer(session[n], from)] /\ from \in Nat
      BY <3>1, TimesNat
    <3> QED BY <1>2, <3>2, DeferWhole
  <2> QED BY <2>1, <2>2 DEF Report
<1>4. /\ Growing /\ AllWhole' /\ session' \in [Names -> SessionSet] /\ session'[n] = r
      /\ RunningIsOwned' /\ (\A h \in Handles : HandleOwns(h))' /\ CollectedIsComplete'
  BY <1>1, <1>2, <1>3, ReportStep
<1>5. b \in ActivitySet /\ b.session = n /\ b.index = activity[a].index
  BY <1>2 DEF ActivitySet
<1>6. b.index \in 0..Len(session'[n].events)
  <2>1. Len(session[n].events) \in Nat /\ Len(r.events) \in Nat
    BY <1>2, <1>3, LenProperties DEF Grown, Whole, SessionSet
  <2>2. Len(session[n].events) <= Len(r.events)
    BY <1>3 DEF Grown
  <2> QED BY <1>2, <1>4, <1>5, <2>1, <2>2
<1> HIDE DEF b
<1>7. activity' \in [Activities -> ActivitySet] /\ (\A c \in Activities : ActivityRefers(c))'
  BY <1>1, <1>4, <1>5, <1>6, ActivityMoves
<1> QED BY <1>1, <1>4, <1>7 DEF IInv, Typed, Owned

LEMMA FinishStep ==
  ASSUME IInv, NEW a \in Activities, FinishActivity(a)
  PROVE  IInv' /\ Growing
<1> DEFINE n == activity[a].session
           r == Finish(session[n], activity[a].index, now)
           b == [activity[a] EXCEPT !.at = "over"]
<1>1. /\ activity[a].at # "idle" /\ session' = [session EXCEPT ![n] = r]
      /\ activity' = [activity EXCEPT ![a] = b]
      /\ UNCHANGED <<now, started, active, handle>>
  BY DEF FinishActivity, IInv, Typed
<1>2. /\ n \in 1..started /\ n \in Names /\ Whole(session[n]) /\ activity[a] \in ActivitySet
      /\ activity[a].index \in 0..Len(session[n].events)
  BY <1>1, ReportsTo
<1>3. Grown(session[n], r) /\ r.stopped = session[n].stopped
  BY <1>2, FinishWhole DEF IInv, Typed
<1> HIDE DEF r
<1>4. /\ Growing /\ AllWhole' /\ session' \in [Names -> SessionSet] /\ session'[n] = r
      /\ RunningIsOwned' /\ (\A h \in Handles : HandleOwns(h))' /\ CollectedIsComplete'
  BY <1>1, <1>2, <1>3, ReportStep
<1>5. b \in ActivitySet /\ b.session = n /\ b.index = activity[a].index
  BY <1>2 DEF ActivitySet
<1>6. b.index \in 0..Len(session'[n].events)
  <2>1. Len(session[n].events) \in Nat /\ Len(r.events) \in Nat
    BY <1>2, <1>3, LenProperties DEF Grown, Whole, SessionSet
  <2>2. Len(session[n].events) <= Len(r.events)
    BY <1>3 DEF Grown
  <2> QED BY <1>2, <1>4, <1>5, <2>1, <2>2
<1> HIDE DEF b
<1>7. activity' \in [Activities -> ActivitySet] /\ (\A c \in Activities : ActivityRefers(c))'
  BY <1>1, <1>4, <1>5, <1>6, ActivityMoves
<1> QED BY <1>1, <1>4, <1>7 DEF IInv, Typed, Owned

(* ... the clock, set forward or back, and the load of the active session ...*)
LEMMA ClockStep ==
  ASSUME IInv, Clock
  PROVE  IInv' /\ Growing
<1>1. Typed'
  BY DEF Clock, IInv, Typed
<1>2. Growing /\ AllWhole'
  BY SameSessions DEF Clock
<1>3. Owned'
  BY DEF Clock, IInv, Owned, RunningIsOwned, HandleOwns, ActivityRefers
<1>4. CollectedIsComplete'
  BY <1>2, TraceKept DEF Clock, CollectedIsComplete
<1> QED BY <1>1, <1>2, <1>3, <1>4 DEF IInv

LEMMA LoadStep ==
  ASSUME IInv, NEW a \in Activities, Load(a)
  PROVE  IInv' /\ Growing
<1>1. PICK s : /\ s \in {active} \cup {activity[p].session : p \in Activities}
               /\ s # NoSession
               /\ activity' = [activity EXCEPT ![a] =
                    [at |-> "loaded", session |-> s, start |-> now, index |-> 0]]
  BY DEF Load
<1>2. UNCHANGED <<now, started, active, session, handle>>
  BY DEF Load
<1>3. s \in 0..Sessions /\ s <= started
  BY <1>1, ProfileAssumption DEF IInv, Typed, Owned, ActivityRefers, ActivitySet
<1> DEFINE b == [at |-> "loaded", session |-> s, start |-> now, index |-> 0]
<1>4. b \in ActivitySet
  BY <1>3 DEF ActivitySet, IInv, Typed
<1>5. /\ activity' \in [Activities -> ActivitySet] /\ activity'[a] = b
      /\ \A c \in Activities \ {a} : activity'[c] = activity[c]
  BY <1>1, <1>4 DEF IInv, Typed
<1>6. Growing /\ AllWhole'
  BY <1>2, SameSessions
<1>7. ASSUME NEW c \in Activities
      PROVE  ActivityRefers(c)'
  <2>1. CASE c = a
    BY <1>1, <1>2, <1>3, <1>5, <2>1 DEF ActivityRefers
  <2>2. CASE c # a
    BY <1>2, <1>5, <2>2 DEF ActivityRefers, IInv, Owned
  <2> QED BY <2>1, <2>2
<1>8. RunningIsOwned' /\ (\A h \in Handles : HandleOwns(h))'
  BY <1>2 DEF IInv, Owned, RunningIsOwned, HandleOwns
<1>9. CollectedIsComplete'
  BY <1>2, <1>6, TraceKept DEF CollectedIsComplete
<1> QED BY <1>2, <1>5, <1>6, <1>7, <1>8, <1>9 DEF IInv, Typed, Owned

(* A step of one handle: its new record, and what it needs of it.          *)
LEMMA HandleMoves ==
  ASSUME IInv, Growing, NEW h \in Handles, NEW k \in HandleSet,
         handle' = [handle EXCEPT ![h] = k],
         started' \in Nat, started <= started'
  PROVE  /\ handle' \in [Handles -> HandleSet] /\ handle'[h] = k
         /\ \A g \in Handles \ {h} :
              /\ handle'[g] = handle[g] /\ HandleOwns(g)'
              /\ handle'[g].collected => handle'[g].bytes = Bytes(g)'
<1>1. /\ handle' \in [Handles -> HandleSet] /\ handle'[h] = k
      /\ \A g \in Handles \ {h} : handle'[g] = handle[g]
  BY DEF IInv, Typed
<1>2. ASSUME NEW g \in Handles \ {h}
      PROVE  HandleOwns(g)' /\ (handle'[g].collected => handle'[g].bytes = Bytes(g)')
  <2>1. HandleOwns(g) /\ handle[g] \in HandleSet /\ started \in Nat /\ handle'[g] = handle[g]
    BY <1>1 DEF IInv, Owned, Typed
  <2>2. handle[g].session \in Nat /\ handle[g].session <= started'
    BY <2>1, ProfileAssumption DEF HandleOwns, HandleSet
  <2>3. handle[g].session # NoSession => handle[g].session \in Names
    <3>1. handle[g].session # NoSession => handle[g].session \in 1..started
      BY <2>1, <2>2 DEF HandleOwns, NoSession
    <3> QED BY <3>1, NamesStarted DEF IInv
  <2>4. handle[g].session # NoSession /\ session[handle[g].session].stopped
          => session'[handle[g].session].stopped
    BY <2>3 DEF Growing, Grown
  <2> QED BY <2>1, <2>2, <2>4, TraceKept DEF HandleOwns
<1> QED BY <1>1, <1>2

(* Create.                                                                 *)
LEMMA NewHandleTyped ==
  /\ NewHandle \in HandleSet /\ NewHandle.state = "created"
  /\ NewHandle.session = NoSession /\ ~NewHandle.running /\ ~NewHandle.collected
  BY ProfileAssumption DEF NewHandle, HandleSet, Traces, NoSession

(* StartProfile: no session runs, so only the new one has to be owned.     *)
LEMMA StartStep ==
  ASSUME IInv, NEW h \in Handles, Start(h)
  PROVE  IInv' /\ Growing
<1> DEFINE k == [NewHandle EXCEPT !.session = started', !.running = TRUE]
<1>1. /\ active = NoSession /\ started < Sessions /\ started' = started + 1
      /\ active' = started' /\ handle' = [handle EXCEPT ![h] = k]
      /\ UNCHANGED <<now, session, activity>>
  BY DEF Start
<1>2. /\ started \in Nat /\ started' \in 0..Sessions /\ started' \in Nat
      /\ started <= started' /\ started' # 0
  BY <1>1, ProfileAssumption DEF IInv, Typed
<1>3. Growing /\ AllWhole'
  BY <1>1, SameSessions
<1>4. /\ k \in HandleSet /\ k.state = "created" /\ k.session = started'
      /\ k.running /\ ~k.collected
  BY <1>2, NewHandleTyped DEF HandleSet
<1> HIDE DEF k
<1>5. /\ handle' \in [Handles -> HandleSet] /\ handle'[h] = k
      /\ \A g \in Handles \ {h} :
           /\ handle'[g] = handle[g] /\ HandleOwns(g)'
           /\ handle'[g].collected => handle'[g].bytes = Bytes(g)'
  BY <1>1, <1>2, <1>3, <1>4, HandleMoves
<1>6. Typed'
  BY <1>1, <1>2, <1>5 DEF IInv, Typed
<1>7. HandleOwns(h)' /\ ~handle'[h].collected
  BY <1>2, <1>4, <1>5 DEF HandleOwns
<1>8. RunningIsOwned'
  <2>1. \A n \in 1..started : session'[n].stopped
    <3>1. \A n \in 1..started : session[n].stopped
      BY <1>1, <1>2 DEF IInv, Owned, RunningIsOwned, NoSession
    <3> QED BY <1>1, <3>1
  <2>2. \A g \in Handles : handle'[g].session = started' => g = h
    <3>1. \A g \in Handles : handle[g].session <= started /\ handle[g].session \in Nat
      BY ProfileAssumption DEF IInv, Owned, HandleOwns, Typed, HandleSet
    <3> QED BY <1>1, <1>2, <1>5, <3>1
  <2>3. \A n \in 1..started' : n \in 1..started \/ n = started'
    BY <1>1, <1>2
  <2> QED BY <1>1, <1>4, <1>5, <2>1, <2>2, <2>3 DEF RunningIsOwned
<1>9. (\A a \in Activities : ActivityRefers(a))'
  BY <1>1, <1>2, <1>3, ActivitiesKept
<1>10. CollectedIsComplete'
  BY <1>5, <1>7 DEF CollectedIsComplete
<1> QED BY <1>3, <1>5, <1>6, <1>7, <1>8, <1>9, <1>10 DEF IInv, Owned

(* StopProfile: the session is stopped and leaves the claim ...            *)
LEMMA StopEventsStep ==
  ASSUME IInv, NEW h \in Handles, StopEvents(h)
  PROVE  IInv' /\ Growing
<1> DEFINE n == handle[h].session
           r == StopSession(session[n], now)
<1>1. /\ n # NoSession /\ session' = [session EXCEPT ![n] = r]
      /\ UNCHANGED <<now, started, active, activity>>
  BY DEF StopEvents
<1>2. PICK next \in {"stopping", "destroying"} :
        handle' = [handle EXCEPT ![h].state = next]
  BY DEF StopEvents
<1> DEFINE k == [handle[h] EXCEPT !.state = next]
<1>3. /\ HandleOwns(h) /\ handle[h] \in HandleSet
      /\ started \in Nat /\ started' \in Nat /\ started <= started'
  BY <1>1 DEF IInv, Owned, Typed
<1>4. n \in 1..started /\ n \in Names /\ Whole(session[n])
  <2>1. n \in 1..started
    BY <1>1, <1>3, ProfileAssumption DEF HandleOwns, HandleSet, NoSession
  <2> QED BY <2>1, NamesStarted DEF IInv, AllWhole
<1>5. Grown(session[n], r) /\ r.stopped
  BY <1>4, StopWhole DEF IInv, Typed
<1> HIDE DEF r
<1>6. /\ Growing /\ AllWhole' /\ session' \in [Names -> SessionSet]
      /\ session'[n] = r /\ \A m \in Names \ {n} : session'[m] = session[m]
  BY <1>1, <1>4, <1>5, OneGrows
<1>7. /\ k \in HandleSet /\ handle' = [handle EXCEPT ![h] = k]
      /\ k.session = n /\ k.running = handle[h].running
      /\ k.collected = handle[h].collected /\ k.bytes = handle[h].bytes
  BY <1>2, <1>3 DEF HandleSet, IInv, Typed
<1> HIDE DEF k
<1>8. /\ handle' \in [Handles -> HandleSet] /\ handle'[h] = k
      /\ \A g \in Handles \ {h} :
           /\ handle'[g] = handle[g] /\ HandleOwns(g)'
           /\ handle'[g].collected => handle'[g].bytes = Bytes(g)'
  BY <1>1, <1>3, <1>6, <1>7, HandleMoves
<1>9. Typed'
  BY <1>1, <1>6, <1>8 DEF IInv, Typed
<1>10. HandleOwns(h)'
  BY <1>1, <1>3, <1>5, <1>6, <1>7, <1>8 DEF HandleOwns
<1>11. handle'[h].collected => handle'[h].bytes = Bytes(h)'
  BY <1>6, <1>7, <1>8, TraceKept
<1>12. RunningIsOwned'
  <2>1. ASSUME NEW m \in 1..started, ~session'[m].stopped
        PROVE  /\ active = m
               /\ \E f \in Handles : /\ handle'[f].session = m /\ handle'[f].running
                                     /\ \A g \in Handles : handle'[g].session = m => g = f
    <3>1. m \in Names /\ m # n /\ session'[m] = session[m]
      BY <1>5, <1>6, <2>1, NamesStarted DEF IInv
    <3>2. /\ active = m
          /\ \E f \in Handles : /\ handle[f].session = m /\ handle[f].running
                                /\ \A g \in Handles : handle[g].session = m => g = f
      BY <2>1, <3>1 DEF IInv, Owned, RunningIsOwned
    <3>3. \A g \in Handles : /\ handle'[g].session = handle[g].session
                             /\ handle'[g].running = handle[g].running
      BY <1>7, <1>8
    <3> QED BY <3>2, <3>3
  <2> QED BY <1>1, <2>1 DEF RunningIsOwned
<1>13. (\A a \in Activities : ActivityRefers(a))'
  BY <1>1, <1>3, <1>6, ActivitiesKept
<1> QED BY <1>6, <1>8, <1>9, <1>10, <1>11, <1>12, <1>13 DEF IInv, Owned, CollectedIsComplete

(* A handle is left or reset; its session, if it had one, is stopped.      *)
LEMMA HandleLeaves ==
  ASSUME IInv, NEW h \in Handles, NEW k \in HandleSet,
         handle[h].session # NoSession => session[handle[h].session].stopped,
         handle' = [handle EXCEPT ![h] = k],
         UNCHANGED <<now, started, session, activity>>,
         active' \in 0..started,
         \A n \in 1..started : active = n /\ ~session[n].stopped => active' = n,
         k.session \in {NoSession, handle[h].session},
         k.state \notin {"stopping", "destroying"},
         k.collected => ~k.running /\ k.bytes = Bytes(h)'
  PROVE  IInv' /\ Growing
<1>1. Growing /\ AllWhole'
  BY SameSessions
<1>2. /\ HandleOwns(h) /\ handle[h] \in HandleSet
      /\ started \in Nat /\ started' \in Nat /\ started <= started'
  BY DEF IInv, Owned, Typed
<1>3. /\ handle' \in [Handles -> HandleSet] /\ handle'[h] = k
      /\ \A g \in Handles \ {h} :
           /\ handle'[g] = handle[g] /\ HandleOwns(g)'
           /\ handle'[g].collected => handle'[g].bytes = Bytes(g)'
  BY <1>1, <1>2, HandleMoves
<1>4. Typed'
  BY <1>3 DEF IInv, Typed
<1>5. HandleOwns(h)'
  BY <1>2, <1>3 DEF HandleOwns, NoSession
<1>6. RunningIsOwned'
  <2>1. ASSUME NEW m \in 1..started, ~session[m].stopped
        PROVE  /\ active' = m
               /\ \E f \in Handles : /\ handle'[f].session = m /\ handle'[f].running
                                     /\ \A g \in Handles : handle'[g].session = m => g = f
    <3>1. /\ active = m
          /\ \E f \in Handles : /\ handle[f].session = m /\ handle[f].running
                                /\ \A g \in Handles : handle[g].session = m => g = f
      BY <2>1 DEF IInv, Owned, RunningIsOwned
    <3>2. handle[h].session # m /\ k.session # m
      BY <1>2, <2>1 DEF NoSession
    <3> QED BY <1>3, <2>1, <3>1, <3>2
  <2> QED BY <2>1 DEF RunningIsOwned
<1>7. (\A a \in Activities : ActivityRefers(a))'
  BY DEF IInv, Owned, ActivityRefers
<1> QED BY <1>1, <1>3, <1>4, <1>5, <1>6, <1>7 DEF IInv, Owned, CollectedIsComplete

(* ... so clearing active_session concerns a stopped one.                  *)
LEMMA StopClearStep ==
  ASSUME IInv, NEW h \in Handles, StopClear(h)
  PROVE  IInv' /\ Growing
<1>1. HandleOwns(h) /\ handle[h] \in HandleSet /\ handle[h].state \in {"stopping", "destroying"}
  BY DEF IInv, Owned, Typed, StopClear
<1>2. handle[h].session # NoSession /\ session[handle[h].session].stopped
  BY <1>1 DEF HandleOwns
<1> DEFINE k == IF handle[h].state = "stopping"
                THEN [handle[h] EXCEPT !.state = "created", !.running = FALSE]
                ELSE [NewHandle EXCEPT !.state = "destroyed"]
<1>3. handle' = [handle EXCEPT ![h] = k] /\ UNCHANGED <<now, started, session, activity>>
  BY DEF StopClear, IInv, Typed
<1>4. /\ k \in HandleSet /\ k.session \in {NoSession, handle[h].session}
      /\ k.state \notin {"stopping", "destroying"}
      /\ k.collected => ~k.running /\ k.session = handle[h].session
                        /\ handle[h].collected /\ k.bytes = handle[h].bytes
  BY <1>1, NewHandleTyped DEF HandleSet
<1> HIDE DEF k
<1>5. handle'[h] = k
  BY <1>3 DEF IInv, Typed
<1>6. k.collected => k.bytes = Bytes(h)'
  <2>1. Growing
    BY <1>3, SameSessions
  <2> QED BY <1>4, <1>5, <2>1, TraceKept
<1>7. active' \in 0..started
  BY ProfileAssumption DEF StopClear, IInv, Typed, NoSession
<1>8. \A n \in 1..started : active = n /\ ~session[n].stopped => active' = n
  BY <1>2 DEF StopClear
<1> QED BY <1>2, <1>3, <1>4, <1>6, <1>7, <1>8, HandleLeaves

LEMMA DestroyStep ==
  ASSUME IInv, NEW h \in Handles, DestroyUnstarted(h)
  PROVE  IInv' /\ Growing
<1> DEFINE k == [NewHandle EXCEPT !.state = "destroyed"]
<1>1. /\ handle' = [handle EXCEPT ![h] = k] /\ handle[h].session = NoSession
      /\ UNCHANGED <<now, started, active, session, activity>>
  BY DEF DestroyUnstarted
<1>2. /\ k \in HandleSet /\ k.session = NoSession /\ k.state = "destroyed" /\ ~k.collected
  BY NewHandleTyped DEF HandleSet
<1> HIDE DEF k
<1>3. active' \in 0..started
  BY <1>1 DEF IInv, Typed
<1> QED BY <1>1, <1>2, <1>3, HandleLeaves

LEMMA CollectStep ==
  ASSUME IInv, NEW h \in Handles, Collect(h)
  PROVE  IInv' /\ Growing
<1> DEFINE k == [handle[h] EXCEPT !.collected = TRUE, !.bytes = Bytes(h)]
<1>1. /\ handle' = [handle EXCEPT ![h] = k]
      /\ handle[h].state = "created" /\ ~handle[h].running
      /\ UNCHANGED <<now, started, active, session, activity>>
  BY DEF Collect, IInv, Typed
<1>2. HandleOwns(h) /\ handle[h] \in HandleSet
  BY DEF IInv, Owned, Typed
<1>3. handle[h].session # NoSession =>
        handle[h].session \in Names /\ session[handle[h].session].stopped
  <2>1. handle[h].session # NoSession => handle[h].session \in 1..started
    BY <1>2, ProfileAssumption DEF HandleOwns, HandleSet, NoSession
  <2> QED BY <1>1, <1>2, <2>1, NamesStarted DEF IInv, HandleOwns
<1>4. Bytes(h) \in Traces
  BY <1>3 DEF Bytes, Traces, IInv, Typed
<1>5. /\ k \in HandleSet /\ k.session = handle[h].session /\ k.state = "created"
      /\ ~k.running /\ k.bytes = Bytes(h)
  BY <1>1, <1>2, <1>4 DEF HandleSet
<1> HIDE DEF k
<1>6. handle'[h] = k
  BY <1>1 DEF IInv, Typed
<1>7. Bytes(h)' = Bytes(h)
  BY <1>1, <1>5, <1>6 DEF Bytes
<1>8. active' \in 0..started
  BY <1>1 DEF IInv, Typed
<1> QED BY <1>1, <1>3, <1>5, <1>7, <1>8, HandleLeaves

(* Every step keeps the invariant, and lets sessions only grow.            *)
LEMMA NextIInv ==
  ASSUME IInv, [Next]_vars
  PROVE  IInv' /\ Growing
<1>1. CASE UNCHANGED vars
  <2>1. Growing /\ AllWhole'
    BY <1>1, SameSessions DEF vars
  <2>2. CollectedIsComplete'
    BY <1>1, <2>1, TraceKept DEF vars, CollectedIsComplete
  <2> QED BY <1>1, <2>1, <2>2 DEF vars, IInv, Typed, Owned, RunningIsOwned, HandleOwns,
                              ActivityRefers
<1>2. CASE Clock
  BY <1>2, ClockStep
<1>3. ASSUME NEW h \in Handles,
             Start(h) \/ StopEvents(h) \/ StopClear(h) \/ DestroyUnstarted(h) \/ Collect(h)
      PROVE  IInv' /\ Growing
  BY <1>3, StartStep, StopEventsStep, StopClearStep, DestroyStep, CollectStep
<1>4. ASSUME NEW a \in Activities,
             Load(a) \/ BeginActivity(a) \/ Report(a) \/ FinishActivity(a)
      PROVE  IInv' /\ Growing
  BY <1>4, LoadStep, BeginStep, ReportActivityStep, FinishStep
<1> QED BY <1>1, <1>2, <1>3, <1>4 DEF Next

(* The inductive invariant holds in every behaviour.                       *)
THEOREM Invariance == Spec => []IInv
<1>1. IInv /\ [Next]_vars => IInv'
  BY NextIInv
<1> QED BY InitIInv, <1>1, PTL DEF Spec

(* profiler.cc: an activity's index, given out by Begin, is in its session's
   events whenever it reports, and no session has more than it may.        *)
THEOREM TypeCorrect == Spec => []TypeOK
<1>1. IInv => TypeOK
  <2> SUFFICES ASSUME IInv PROVE TypeOK
    OBVIOUS
  <2>1. now \in Times /\ started \in 0..Sessions /\ active \in 0..started /\ DOMAIN session = Names
    BY DEF IInv, Typed
  <2>2. ASSUME NEW n \in Names
        PROVE  /\ session[n].stopped \in BOOLEAN /\ session[n].stopTime \in {0} \cup Times
               /\ session[n].events \in Seq([start : Nat, end : Nat, incomplete : BOOLEAN])
               /\ session[n].deferred \in Seq(Nat)
               /\ Len(session[n].events) + Len(session[n].deferred) <= MaxEvents
    BY DEF IInv, AllWhole, Whole, SessionSet, EventSet
  <2>3. ASSUME NEW h \in Handles
        PROVE  /\ handle[h].state \in {"created", "stopping", "destroying", "destroyed"}
               /\ handle[h].session \in 0..started
    BY ProfileAssumption DEF IInv, Typed, Owned, HandleOwns, HandleSet
  <2>4. ASSUME NEW a \in Activities
        PROVE  /\ activity[a].at \in {"idle", "loaded", "begun", "reported", "over"}
               /\ activity[a].session \in 0..started
               /\ activity[a].index # 0 =>
                    activity[a].index \in DOMAIN session[activity[a].session].events
    <3>1. ActivityRefers(a) /\ activity[a] \in ActivitySet /\ started \in Nat
      BY DEF IInv, Typed, Owned
    <3>2. /\ activity[a].at \in {"idle", "loaded", "begun", "reported", "over"}
          /\ activity[a].session \in 0..started /\ activity[a].index \in Nat
      BY <3>1, ProfileAssumption DEF ActivitySet, ActivityRefers
    <3>3. ASSUME activity[a].index # 0
          PROVE  activity[a].index \in DOMAIN session[activity[a].session].events
      <4> DEFINE n == activity[a].session
      <4>1. n \in 1..started /\ activity[a].index <= Len(session[n].events)
        BY <3>1, <3>2, <3>3 DEF ActivityRefers, NoSession
      <4>2. session[n] \in SessionSet
        BY <4>1, NamesStarted DEF IInv, Typed
      <4>3. Len(session[n].events) \in Nat /\ DOMAIN session[n].events = 1..Len(session[n].events)
        BY <4>2, LenProperties DEF SessionSet
      <4>4. activity[a].index \in 1..Len(session[n].events)
        BY <3>2, <3>3, <4>1, <4>3
      <4> QED BY <4>3, <4>4
    <3> QED BY <3>2, <3>3
  <2> QED BY <2>1, <2>2, <2>3, <2>4 DEF TypeOK
<1> QED BY <1>1, Invariance, PTL

(* profiler_api.cc: a session that isn't stopped is the active one and belongs
   to one handle, that runs, whoever starts, stops and destroys handles.   *)
THEOREM SessionsAreOwned == Spec => []RunningIsOwned
<1>1. IInv => RunningIsOwned
  BY DEF IInv, Owned
<1> QED BY <1>1, Invariance, PTL

(* profiler.h: a stopped session accepts nothing, however late.            *)
THEOREM StoppedSessionsFinal == Spec => StoppedIsFinal
<1>1. IInv /\ [Next]_vars =>
        [\A n \in Names : session[n].stopped => session'[n] = session[n]]_vars
  BY NextIInv DEF Growing, Grown
<1> QED BY <1>1, Invariance, PTL DEF Spec, StoppedIsFinal

(* profiler_api.cc: the bytes of a handle are the whole trace of its session,
   although they are serialized once and callbacks finish later.           *)
THEOREM CollectedTracesComplete == Spec => []CollectedIsComplete
<1>1. IInv => CollectedIsComplete
  BY DEF IInv
<1> QED BY <1>1, Invariance, PTL

(* profiler.cc: the intervals of a stopped session's trace don't run backwards
   and end with it, and there are no more of them than max_events_.        *)
THEOREM TracesWithinSessions == Spec => []TraceWithinSession
<1>1. IInv => TraceWithinSession
  <2> SUFFICES ASSUME IInv, NEW n \in 1..started, session[n].stopped
               PROVE  /\ \A x \in Serialize(session[n]) :
                           x[3].start <= x[3].end /\ x[3].end <= session[n].stopTime
                      /\ Len(session[n].events) + Len(Expanded(session[n])) <= MaxEvents
    BY DEF TraceWithinSession
  <2>1. Whole(session[n])
    BY NamesStarted DEF IInv, AllWhole
  <2> QED BY <2>1, TraceInSession
<1> QED BY <1>1, Invariance, PTL
===============================================================================

--------------------------------- MODULE Replay ---------------------------------
(***************************************************************************)
(* A simulated run that uses a database: the launcher sets the native side's*)
(* environment (cli.py), the observer looks every compilation up and       *)
(* annotates its module (prediction.py, profiling/identity.py), and the    *)
(* native compiler takes the annotated timing or compiles with libtpu      *)
(* (compilation.cc, bundle_timing.cc).  The two sides decide separately,   *)
(* one by its options, the other by environment and annotations.           *)
(***************************************************************************)
EXTENDS Capture, Sequences

CONSTANTS
  None,         \* an absent annotation, option, variable or source
  OtherKey,     \* the key of a module whose text still has annotations
  MaxQueries    \* compilations of a run

Outcomes ==
  {"too_many_devices", "libtpu", "failed", "no_metadata", "invalid_metadata", "replay"}

(* None is no value of what it stands in for.                              *)
ASSUME NoneAssumption ==
  /\ None # TRUE /\ None \notin {"llo", "replay", "unobserved"}
  /\ None \notin [program : Keys, source : {"llo", "replay"},
                  outcome : Outcomes \cup {None}, duration : Int]
  /\ None \notin [valid : BOOLEAN, devices : Nat, count : Nat, duration : Int,
                  activities : SUBSET [track : Tracks, index : Nat, start : Int, end : Int]]

VARIABLES
  session,      \* options and environment of the run
  attributes,   \* the annotations on each program's module
  compiling,    \* the compilation in the native compiler, or None
  queries,      \* the outcome of every lookup
  last          \* how the last compilation ended

replayVars == <<session, attributes, compiling, queries, last>>
vars == <<captureVars, replayVars>>

Unannotated == [key |-> None, timing |-> None, miss |-> None]

ReplayInit ==
  /\ session = None /\ compiling = None /\ last = None /\ queries = <<>>
  /\ attributes = [k \in Keys |-> Unannotated]

----------------------------------------------------------------------------
(* What the predictor reads of the database.                               *)
Measured(record) ==
  [valid |-> record.valid, devices |-> record.devices,
   count |-> Cardinality({i \in record.invocations : i.retained}),
   duration |-> IF record.timeline = {} THEN (record.median + 1) \div 2
                ELSE record.nearest.duration,
   activities |-> {[track |-> a.track, index |-> a.index, start |-> a.start, end |-> a.end] :
                     a \in record.timeline}]

Accessible(predictor, withDatabase) ==
  IF predictor = "replay" THEN withDatabase /\ DOMAIN database # {}
  ELSE withDatabase => DOMAIN database # {}

(* The launcher's options, and the environment it leaves to the workload.
   A database that someone else wrote may hold an invalid measurement.     *)
Run(predictor, replayMiss, withDatabase, report, deviceCount, invalid) ==
  /\ phase = "imported"
  /\ IF Accessible(predictor, withDatabase) /\ (predictor = "llo" => replayMiss = "error")
     THEN /\ phase' = "replay"
          /\ session' =
               [predictor |-> predictor, replayMiss |-> replayMiss,
                observed |-> predictor = "replay" \/ report, deviceCount |-> deviceCount,
                PJRT_SIM_PREDICTOR |-> IF predictor = "replay" THEN "replay" ELSE None,
                PJRT_SIM_REPLAY_MISS |-> IF predictor = "replay" THEN replayMiss ELSE None]
          /\ database' =
               IF predictor = "llo" THEN NoDatabase
               ELSE [k \in DOMAIN database |->
                       Measured([database[k] EXCEPT !.valid = k \notin invalid])]
     ELSE phase' = "refused" /\ database' = NoDatabase /\ UNCHANGED session
  /\ records' = NoDatabase /\ trace' = {} /\ clock' = [d \in Devices |-> 0]
  /\ launches' = 0 /\ missed' = 0 /\ skip' = 0
  /\ UNCHANGED <<attributes, compiling, queries, last>>

----------------------------------------------------------------------------
(* The identity of a module is that of its text, annotations included.     *)
ExecutionKey(k) == IF attributes[k] = Unannotated THEN k ELSE OtherKey

(* CompilationPredictor.predict: the query of a lookup.                    *)
Lookup(key) ==
  IF key \notin DOMAIN database THEN "miss"
  ELSE IF database[key].valid THEN "hit" ELSE "invalid"

QueryFor(key) ==
  IF session.predictor = "llo" THEN [key |-> key, source |-> "llo", lookup |-> None]
  ELSE [key |-> key, lookup |-> Lookup(key),
        source |-> CASE Lookup(key) = "hit" -> "replay"
                     [] Lookup(key) = "miss" /\ session.replayMiss = "llo" -> "llo"
                     [] OTHER -> None]

(* Mutant: the fallback isn't announced to the native compiler.            *)
AnnotatedWithoutMiss(before, query) ==
  [key |-> query.key, miss |-> before.miss,
   timing |-> IF query.source = "replay" THEN database[query.key] ELSE before.timing]

Annotated(before, query) ==
  [key |-> query.key,
   timing |-> IF query.source = "replay" THEN database[query.key] ELSE before.timing,
   miss |-> IF query.source = "llo" /\ query.lookup = "miss" THEN TRUE ELSE before.miss]

Ended(k, source, outcome, duration) ==
  [program |-> k, source |-> source, outcome |-> outcome, duration |-> duration]

(* The observer looks the module up, which may raise, and annotates it.    *)
Observe(k) ==
  LET query == QueryFor(ExecutionKey(k))
  IN  /\ phase = "replay" /\ session.observed /\ compiling = None
      /\ Len(queries) < MaxQueries
      /\ queries' = Append(queries, query)
      /\ IF query.source = None
         THEN /\ last' = Ended(k, None, "raised", 0)
              /\ UNCHANGED <<attributes, compiling>>
         ELSE /\ attributes' = [attributes EXCEPT ![k] = Annotated(@, query)]
              /\ compiling' = [program |-> k, source |-> query.source,
                               outcome |-> None, duration |-> 0]
              /\ UNCHANGED last
      /\ UNCHANGED <<captureVars, session>>

----------------------------------------------------------------------------
(* ReadReplayTiming: one module interval per device, and every activity
   inside the program's own interval.                                      *)
AcceptsTiming(timing) ==
  LET modules(n) == {a \in timing.activities : a.index = n /\ a.track = "XLA_Modules"}
  IN  /\ timing.duration > 0 /\ timing.count >= 1
      /\ \A a \in timing.activities :
           0 <= a.start /\ a.start <= a.end /\ a.end <= timing.duration
      /\ timing.activities # {} =>
           /\ \A a \in timing.activities : a.index < timing.devices
           /\ \A n \in 0..timing.devices - 1 : Cardinality(modules(n)) = 1

ModuleCount(timing) == Cardinality({a \in timing.activities : a.track = "XLA_Modules"})

(* The outcomes CompileProgram may have for an annotated module: libtpu may
   always fail.                                                            *)
CompileProgram(k, annotations) ==
  LET fallback == annotations.miss = TRUE /\ session.PJRT_SIM_REPLAY_MISS = "llo"
      replay == session.PJRT_SIM_PREDICTOR = "replay" /\ ~fallback
      timing == annotations.timing
  IN  IF DevicesOf[k] > session.deviceCount THEN {Ended(k, None, "too_many_devices", 0)}
      ELSE IF ~replay THEN {Ended(k, None, "libtpu", 0), Ended(k, None, "failed", 0)}
      ELSE IF timing = None THEN {Ended(k, None, "no_metadata", 0)}
      ELSE IF ~AcceptsTiming(timing) \/ ModuleCount(timing) \notin {0, DevicesOf[k]}
           THEN {Ended(k, None, "invalid_metadata", 0)}
      ELSE {Ended(k, None, "replay", timing.duration)}

CompileObserved ==
  /\ compiling # None /\ compiling.outcome = None
  /\ \E end \in CompileProgram(compiling.program, attributes[compiling.program]) :
       compiling' = [end EXCEPT !.source = compiling.source]
  /\ UNCHANGED <<captureVars, session, attributes, queries, last>>

(* Whether or not it succeeded, the observer removes its annotations.      *)
RemoveAnnotations ==
  /\ compiling # None /\ compiling.outcome # None
  /\ attributes' = [attributes EXCEPT ![compiling.program] = Unannotated]
  /\ last' = compiling /\ compiling' = None
  /\ UNCHANGED <<captureVars, session, queries>>

(* A process without the observer inherits the environment.                *)
CompileUnobserved(k) ==
  /\ phase = "replay" /\ compiling = None
  /\ last' \in {[end EXCEPT !.source = "unobserved"] : end \in CompileProgram(k, Unannotated)}
  /\ UNCHANGED <<captureVars, session, attributes, compiling, queries>>

----------------------------------------------------------------------------
Init == CaptureInit /\ ReplayInit

Next ==
  \/ CaptureNext /\ UNCHANGED replayVars
  \/ \E predictor \in {"llo", "replay"}, replayMiss \in {"error", "llo"},
        withDatabase \in BOOLEAN, report \in BOOLEAN, deviceCount \in 1..Cardinality(Devices),
        invalid \in {{}} \cup {{k} : k \in DOMAIN database} :
       Run(predictor, replayMiss, withDatabase, report, deviceCount, invalid)
  \/ \E k \in Keys : Observe(k)
  \/ CompileObserved
  \/ RemoveAnnotations
  \/ \E k \in Keys : CompileUnobserved(k)

Spec == Init /\ [][Next]_vars

----------------------------------------------------------------------------
(* Every compilation is timed by what its query says: a hit by the measured
   duration of the module's own key, the fallback after a miss by libtpu,
   and under replay nothing is estimated that nobody asked for.  The native
   compiler never finds the annotations missing, stale or unacceptable.
   (compile_and_record, CompileProgram, ReadReplayTiming)                  *)
TimedAsQueried ==
  last # None =>
    LET fits == DevicesOf[last.program] <= session.deviceCount
    IN  CASE last.source = "unobserved" ->
               fits /\ session.predictor = "replay" => last.outcome = "no_metadata"
          [] last.source = "replay" ->
               fits => /\ last.outcome = "replay"
                       /\ last.duration = database[last.program].duration
          [] last.source = "llo" ->
               /\ fits => last.outcome \in {"libtpu", "failed"}
               /\ session.predictor = "llo"
                  \/ /\ session.replayMiss = "llo"
                     /\ last.program \notin DOMAIN database
          [] OTHER ->
               /\ last.outcome = "raised" /\ session.predictor = "replay"
               /\ last.program \in DOMAIN database => ~database[last.program].valid
================================================================================

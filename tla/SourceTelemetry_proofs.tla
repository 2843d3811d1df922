----------------------- MODULE SourceTelemetry_proofs -----------------------
(***************************************************************************)
(* What a pipeline reports is never about a lease that is over, for every  *)
(* set of viewers, each kind of source and any number of leases.           *)
(***************************************************************************)
EXTENDS SourceTelemetry, FiniteSetTheorems, TLAPS

Phase == {"none", "asked", "running", "answered"}

Sample == [applied : BOOLEAN, lease : Nat]

Flight == [phase : Phase, epoch : Nat, sample : Sample]

\* The types, with those of the flights in full.
Types ==
  /\ kind \in Kinds
  /\ viewer \in [Viewer -> {"out", "acquiring", "pending", "session", "asked"}]
  /\ active \in BOOLEAN /\ uncertain \in BOOLEAN /\ closing \in BOOLEAN
  /\ epoch \in Nat /\ stop \in 0..epoch
  /\ holder \in {"free", "acquire", "deactivate", "recover"}
  /\ landed \in BOOLEAN /\ desired \in BOOLEAN /\ native \in BOOLEAN
  /\ lease \in Nat
  /\ shown \in Sample /\ shown.lease \in 0..lease
  /\ healthy \in BOOLEAN /\ available \in BOOLEAN
  /\ pass \in [phase : {"idle", "answered", "observed"}, sample : BOOLEAN]
  /\ pending \in [Flights -> BOOLEAN]
  /\ flight \in [Flights -> Flight]

\* Each task was asked for under an epoch that has been, and its flag is up.
FlagsExact ==
  \A f \in Flights :
    /\ flight[f].epoch \in 0..epoch
    /\ flight[f].sample.lease \in 0..lease
    /\ pending[f] <=> flight[f].phase # "none"

\* Who calls the controller: an acquisition is its own, and nobody uses a
\* source while it is being stopped.
HolderIsOne ==
  /\ \A v \in Viewer : viewer[v] = "acquiring" => holder = "acquire"
  /\ \A v, w \in Viewer : viewer[v] = "acquiring" /\ viewer[w] = "acquiring" => v = w
  /\ holder = "deactivate" => ~HasConsumers

\* A viewer that was granted the source, and no longer waits for it, holds it
\* active.  (The stop of a camera that fails parks it as well.)
GrantedIsActive ==
  \A v \in Viewer : viewer[v] \in {"pending", "session", "asked"} => active

\* A poll that was sampled under an earlier lease belongs to an earlier epoch,
\* by the time the source may be active again.
FencedByEpoch ==
  Pipeline /\ flight["status"].phase = "answered" /\ flight["status"].sample.lease # lease =>
    /\ flight["status"].epoch = epoch => ~active
    /\ holder = "acquire" => flight["status"].epoch < epoch

\* What is shown of a pipeline without a lease.  That it has no viewers follows
\* from GrantedIsActive.
ParkedIsIdle == Pipeline /\ ~active => ~shown.applied /\ ~available

ReportIsSound == ParkedIsIdle /\ StatusOfThisLease

\* The inductive invariant.
IInv == Types /\ FlagsExact /\ HolderIsOne /\ GrantedIsActive /\ FencedByEpoch /\ ReportIsSound

-----------------------------------------------------------------------------
(* The flights.                                                            *)

\* A source that was started and never leased.
LEMMA InitIInv == Init => IInv
<1> SUFFICES ASSUME Init PROVE IInv
  OBVIOUS
<1>1. NoFlight \in Flight /\ NoFlight.phase = "none" /\ NoFlight.epoch = 0
      /\ NoFlight.sample.lease = 0
  BY DEF NoFlight, Flight, Phase, Sample
<1>2. Types
  <2>1. healthy \in BOOLEAN
    BY DEF Init, Pipeline
  <2>2. pending \in [Flights -> BOOLEAN] /\ flight \in [Flights -> Flight]
    BY <1>1 DEF Init
  <2>3. shown \in Sample /\ shown.lease \in 0..lease
    BY DEF Init, Sample
  <2> QED
    BY <2>1, <2>2, <2>3 DEF Init, Types
<1>3. FlagsExact
  BY <1>1 DEF Init, FlagsExact
<1>4. FencedByEpoch
  BY <1>1 DEF Init, FencedByEpoch, Flights
<1>5. HolderIsOne /\ GrantedIsActive /\ ReportIsSound
  BY DEF Init, HolderIsOne, GrantedIsActive, ReportIsSound, ParkedIsIdle, StatusOfThisLease
<1> QED
  BY <1>2, <1>3, <1>4, <1>5 DEF IInv

\* A step that only moves one flight keeps the invariant, if its flag follows
\* and what a poll has sampled is of this lease.
LEMMA FlightKeeps ==
  ASSUME IInv, NEW f \in Flights, NEW r \in Flight,
         UNCHANGED <<kind, demand, mutex, native, lease, report, closing>>,
         pass' \in [phase : {"idle", "answered", "observed"}, sample : BOOLEAN],
         flight' = [flight EXCEPT ![f] = r],
         pending' = [pending EXCEPT ![f] = r.phase # "none"],
         r.epoch \in 0..epoch, r.sample.lease \in 0..lease,
         r.phase = "answered" => r.sample.lease = lease
  PROVE  IInv'
<1> USE DEF IInv, Types, demand, mutex, report
<1>1. Types'
  OBVIOUS
<1>2. FlagsExact'
  BY DEF FlagsExact
<1>3. FencedByEpoch'
  BY DEF FencedByEpoch, Flights, Pipeline
<1>4. HolderIsOne' /\ GrantedIsActive' /\ ReportIsSound'
  BY DEF HolderIsOne, GrantedIsActive, ReportIsSound, ParkedIsIdle, StatusOfThisLease,
     Sessions, HasConsumers, Pipeline
<1> QED
  BY <1>1, <1>2, <1>3, <1>4

\* A task that is asked for.
LEMMA AskKeeps ==
  ASSUME IInv, NEW f \in Flights, Ask(f),
         UNCHANGED <<kind, demand, mutex, native, lease, report, closing>>,
         pass' \in [phase : {"idle", "answered", "observed"}, sample : BOOLEAN]
  PROVE  IInv'
<1> DEFINE r == [NoFlight EXCEPT !.phase = "asked", !.epoch = epoch]
<1>1. r \in Flight /\ r.phase = "asked" /\ r.epoch = epoch /\ r.sample.lease = 0
  BY DEF NoFlight, Flight, Phase, Sample, IInv, Types
<1>2. flight' = [flight EXCEPT ![f] = r] /\ pending' = [pending EXCEPT ![f] = TRUE]
  BY DEF Ask
<1>3. r.epoch \in 0..epoch /\ r.sample.lease \in 0..lease
  BY <1>1 DEF IInv, Types
<1> HIDE DEF r
<1> QED
  BY <1>1, <1>2, <1>3, FlightKeeps

\* A task that is over, or refused.
LEMMA DoneKeeps ==
  ASSUME IInv, NEW f \in Flights, Done(f),
         UNCHANGED <<kind, demand, mutex, native, lease, report, closing>>,
         pass' \in [phase : {"idle", "answered", "observed"}, sample : BOOLEAN]
  PROVE  IInv'
<1>1. NoFlight \in Flight /\ NoFlight.phase = "none" /\ NoFlight.epoch = 0
      /\ NoFlight.sample.lease = 0
  BY DEF NoFlight, Flight, Phase, Sample
<1>2. flight' = [flight EXCEPT ![f] = NoFlight] /\ pending' = [pending EXCEPT ![f] = FALSE]
  BY DEF Done
<1>3. NoFlight.epoch \in 0..epoch /\ NoFlight.sample.lease \in 0..lease
  BY <1>1 DEF IInv, Types
<1> QED
  BY <1>1, <1>2, <1>3, FlightKeeps

\* The pass of the loop, and a keyframe request that may come of it.
LEMMA PassKeeps ==
  ASSUME IInv, UNCHANGED <<tasks, kind, demand, mutex, native, lease, report, closing>>,
         pass' \in [phase : {"idle", "answered", "observed"}, sample : BOOLEAN]
  PROVE  IInv'
BY DEF IInv, Types, FlagsExact, FencedByEpoch, HolderIsOne, GrantedIsActive, ReportIsSound,
   ParkedIsIdle, StatusOfThisLease, Sessions, HasConsumers, Pipeline,
   demand, mutex, report, tasks

\* The tasks run, and answer.
LEMMA FlightsKeep ==
  ASSUME IInv, \/ StatusFlight \/ KeyframeEnds \/ Spawn("recovery")
  PROVE  IInv'
<1> USE DEF Flights
<1>0. pass \in [phase : {"idle", "answered", "observed"}, sample : BOOLEAN]
  BY DEF IInv, Types
<1>1. ASSUME NEW f \in {"status", "recovery"}, Spawn(f)
      PROVE  IInv'
  <2>1. CASE closing
    BY <1>0, <1>1, <2>1, DoneKeeps DEF Spawn, Refused
  <2>2. CASE ~closing
    <3> DEFINE r == [flight[f] EXCEPT !.phase = "running"]
    <3>1. flight[f] \in Flight /\ flight[f].phase = "asked" /\ pending[f]
      BY <1>1 DEF IInv, Types, FlagsExact, Spawn
    <3>2. r \in Flight /\ r.phase = "running" /\ r.epoch = flight[f].epoch
          /\ r.sample = flight[f].sample
      BY <3>1 DEF Flight, Phase
    <3>3. flight' = [flight EXCEPT ![f] = r] /\ pending' = pending
      BY <1>1, <2>2 DEF Spawn
    <3>4. pending' = [pending EXCEPT ![f] = TRUE]
      BY <3>1, <3>3 DEF IInv, Types
    <3>5. r.epoch \in 0..epoch /\ r.sample.lease \in 0..lease
      BY <3>2 DEF IInv, FlagsExact
    <3>6. UNCHANGED <<kind, demand, mutex, native, lease, report, pass, closing>>
      BY <1>1 DEF Spawn
    <3> HIDE DEF r
    <3> QED
      BY <1>0, <3>2, <3>3, <3>4, <3>5, <3>6, FlightKeeps
  <2> QED
    BY <2>1, <2>2 DEF IInv, Types
<1>2. CASE StatusSampled
  <2> DEFINE r == [flight["status"] EXCEPT !.phase = "answered",
                                           !.sample = [applied |-> native, lease |-> lease]]
  <2>1. flight["status"] \in Flight /\ flight["status"].phase = "running" /\ pending["status"]
    BY <1>2 DEF IInv, Types, FlagsExact, StatusSampled
  <2>2. r \in Flight /\ r.phase = "answered" /\ r.epoch = flight["status"].epoch
        /\ r.sample.lease = lease
    BY <2>1 DEF Flight, Phase, Sample, IInv, Types
  <2>3. flight' = [flight EXCEPT !["status"] = r] /\ pending' = pending
    BY <1>2 DEF StatusSampled
  <2>4. pending' = [pending EXCEPT !["status"] = TRUE]
    BY <2>1, <2>3 DEF IInv, Types
  <2>5. r.epoch \in 0..epoch /\ r.sample.lease \in 0..lease
    BY <2>2 DEF IInv, FlagsExact, Types
  <2>6. UNCHANGED <<kind, demand, mutex, native, lease, report, pass, closing>>
    BY <1>2 DEF StatusSampled
  <2> HIDE DEF r
  <2> QED
    BY <1>0, <2>2, <2>3, <2>4, <2>5, <2>6, FlightKeeps
<1>3. CASE StatusPublished
  <2>1. CASE ~Current(flight["status"].epoch)
    BY <1>0, <1>3, <2>1, DoneKeeps DEF StatusPublished, report
  <2>2. CASE Current(flight["status"].epoch)
    <3>1. Types'
      BY <1>3, <2>2 DEF StatusPublished, Done, IInv, Types, FlagsExact, demand, mutex, Flight, Sample,
         Phase, NoFlight
    <3>2. FlagsExact'
      BY <1>3, <2>2 DEF StatusPublished, Done, IInv, Types, FlagsExact, demand, NoFlight
    <3>3. FencedByEpoch' /\ HolderIsOne' /\ GrantedIsActive'
      BY <1>3, <2>2 DEF StatusPublished, Done, IInv, Types, FencedByEpoch, HolderIsOne, GrantedIsActive,
         HasConsumers, Sessions, Pipeline, demand, mutex, NoFlight
    <3>4. ReportIsSound'
      BY <1>3, <2>2 DEF StatusPublished, IInv, Types, FencedByEpoch, ReportIsSound, ParkedIsIdle,
         StatusOfThisLease, Sessions, HasConsumers, Pipeline, Current, demand
    <3> QED
      BY <3>1, <3>2, <3>3, <3>4 DEF IInv
  <2> QED
    BY <2>1, <2>2
<1>4. CASE StatusFailed
  <2>1. Types'
    BY <1>4 DEF StatusFailed, Done, IInv, Types, demand, mutex, Flight, Sample, Phase, NoFlight
  <2>2. FlagsExact'
    BY <1>4 DEF StatusFailed, Done, IInv, Types, FlagsExact, demand, NoFlight
  <2>3. FencedByEpoch' /\ HolderIsOne' /\ GrantedIsActive' /\ ReportIsSound'
    BY <1>4 DEF StatusFailed, Done, IInv, Types, FencedByEpoch, HolderIsOne, GrantedIsActive,
       ReportIsSound, ParkedIsIdle, StatusOfThisLease, HasConsumers, Sessions,
       Pipeline, demand, mutex, NoFlight
  <2> QED
    BY <2>1, <2>2, <2>3 DEF IInv
<1>5. CASE KeyframeEnds
  BY <1>0, <1>5, DoneKeeps DEF KeyframeEnds
<1> QED
  BY <1>1, <1>2, <1>3, <1>4, <1>5 DEF StatusFlight

-----------------------------------------------------------------------------
(* The pass of the loop.                                                   *)

\* A reconcile pass samples the path and asks for polls and recoveries.
LEMMA ReconcileKeeps ==
  ASSUME IInv, Reconcile
  PROVE  IInv'
<1> USE DEF Flights
<1>1. CASE PassBegins
  <2>1. pass' \in [phase : {"idle", "answered", "observed"}, sample : BOOLEAN]
    BY <1>1 DEF PassBegins
  <2> QED
    BY <1>1, <2>1, AskKeeps, PassKeeps DEF PassBegins, PollStatus
<1>2. CASE ObservePath
  <2>1. pass' \in [phase : {"idle", "answered", "observed"}, sample : BOOLEAN]
        /\ available' \in BOOLEAN /\ (available' => active)
    BY <1>2 DEF ObservePath, Live, IInv, Types
  <2>2. CASE UNCHANGED tasks
    BY <1>2, <2>1, <2>2 DEF ObservePath, IInv, Types, FlagsExact, FencedByEpoch, HolderIsOne, GrantedIsActive,
       ReportIsSound, ParkedIsIdle, StatusOfThisLease, Sessions, HasConsumers, Pipeline, demand,
       mutex, tasks
  <2>3. CASE Ask("recovery")
    <3> DEFINE r == [NoFlight EXCEPT !.phase = "asked", !.epoch = epoch]
    <3>1. r \in Flight /\ r.phase = "asked" /\ r.epoch = epoch /\ r.sample.lease = 0
      BY DEF NoFlight, Flight, Phase, Sample, IInv, Types
    <3>2. flight' = [flight EXCEPT !["recovery"] = r]
          /\ pending' = [pending EXCEPT !["recovery"] = TRUE]
      BY <2>3 DEF Ask
    <3> HIDE DEF r
    <3>3. Types'
      BY <1>2, <2>1, <3>1, <3>2 DEF ObservePath, IInv, Types, demand, mutex
    <3>4. FlagsExact'
      BY <1>2, <3>1, <3>2 DEF ObservePath, IInv, Types, FlagsExact, demand
    <3>5. FencedByEpoch' /\ HolderIsOne' /\ GrantedIsActive' /\ ReportIsSound'
      BY <1>2, <2>1, <3>2 DEF ObservePath, IInv, Types, FencedByEpoch, HolderIsOne, GrantedIsActive,
         ReportIsSound, ParkedIsIdle, StatusOfThisLease, Sessions, HasConsumers, Pipeline, demand, mutex
    <3> QED
      BY <3>3, <3>4, <3>5 DEF IInv
  <2> QED
    BY <1>2, <2>2, <2>3 DEF ObservePath
<1>3. CASE ObserveSessions
  <2>1. PICK established \in SUBSET {v \in Viewer : viewer[v] = "session"} :
          /\ viewer' = [v \in Viewer |-> IF v \in established THEN "asked" ELSE viewer[v]]
          /\ IF established # {} THEN RequestKeyframe ELSE UNCHANGED tasks
    BY <1>3 DEF ObserveSessions
  <2>2. pass' \in [phase : {"idle", "answered", "observed"}, sample : BOOLEAN]
    BY <1>3 DEF ObserveSessions, IInv, Types
  <2>3. /\ viewer' \in [Viewer -> {"out", "acquiring", "pending", "session", "asked"}]
        /\ \A v \in Viewer : viewer'[v] = "acquiring" <=> viewer[v] = "acquiring"
        /\ \A v \in Viewer : viewer'[v] \in {"pending", "session", "asked"}
                         <=> viewer[v] \in {"pending", "session", "asked"}
    BY <2>1 DEF IInv, Types
  <2>4. HasConsumers' <=> HasConsumers
    BY <2>3 DEF HasConsumers, Sessions, IInv, Types
  <2>5. /\ flight' \in [Flights -> Flight] /\ pending' \in [Flights -> BOOLEAN]
        /\ flight'["status"] = flight["status"]
        /\ FlagsExact'
    <3>1. CASE UNCHANGED tasks
      BY <1>3, <3>1 DEF ObserveSessions, IInv, Types, FlagsExact, tasks
    <3>2. CASE /\ pending' = [pending EXCEPT !["keyframe"] = TRUE]
               /\ flight' = [flight EXCEPT !["keyframe"] = Running]
      <4>1. Running \in Flight /\ Running.phase = "running" /\ Running.epoch = 0
            /\ Running.sample.lease = 0
        BY DEF Running, NoFlight, Flight, Phase, Sample
      <4> QED
        BY <1>3, <3>2, <4>1 DEF ObserveSessions, IInv, Types, FlagsExact
    <3> QED
      BY <2>1, <3>1, <3>2 DEF RequestKeyframe
  <2>6. Types'
    BY <1>3, <2>2, <2>3, <2>5 DEF ObserveSessions, IInv, Types, mutex, report
  <2>7. FencedByEpoch' /\ HolderIsOne' /\ GrantedIsActive' /\ ReportIsSound'
    BY <1>3, <2>3, <2>4, <2>5 DEF ObserveSessions, IInv, FencedByEpoch, HolderIsOne, GrantedIsActive,
       ReportIsSound, ParkedIsIdle, StatusOfThisLease, Pipeline, mutex, report
  <2> QED
    BY <2>5, <2>6, <2>7 DEF IInv
<1> QED
  BY <1>1, <1>2, <1>3 DEF Reconcile

-----------------------------------------------------------------------------
(* The lease.                                                              *)

\* The viewers come and go.
LEMMA DemandKeeps ==
  ASSUME IInv, Demand
  PROVE  IInv'
<1> USE DEF IInv, Types, report, tasks
<1>1. ASSUME NEW v \in Viewer, Acquire(v)
      PROVE  IInv'
  <2>1. holder' \in {"free", "acquire", "deactivate", "recover"} /\ landed' \in BOOLEAN /\ desired' \in BOOLEAN
    BY <1>1 DEF Acquire, Dispatch, mutex
  <2>2. viewer' \in [Viewer -> {"out", "acquiring", "pending", "session", "asked"}]
    BY <1>1 DEF Acquire
  <2>3. epoch' \in Nat /\ stop' \in 0..epoch'
    BY <1>1 DEF Acquire
  <2>4. Types'
    BY <1>1, <2>1, <2>2, <2>3 DEF Acquire
  <2>5. FlagsExact'
    BY <1>1 DEF Acquire, Dispatch, mutex, FlagsExact
  <2>6. FencedByEpoch' /\ GrantedIsActive' /\ ReportIsSound'
    BY <1>1 DEF Acquire, Dispatch, mutex, FencedByEpoch, GrantedIsActive, ReportIsSound, ParkedIsIdle,
       StatusOfThisLease, Pipeline, FlagsExact, Flights
  <2>7. HolderIsOne'
    BY <1>1 DEF Acquire, Dispatch, mutex, HolderIsOne
  <2> QED
    BY <2>4, <2>5, <2>6, <2>7
<1>2. ASSUME NEW v \in Viewer, Register(v)
      PROVE  IInv'
  BY <1>2 DEF Register, mutex, FlagsExact, FencedByEpoch, GrantedIsActive, ReportIsSound, ParkedIsIdle,
     StatusOfThisLease, Pipeline, HolderIsOne, HasConsumers, Sessions
<1>3. ASSUME NEW v \in Viewer, Leave(v)
      PROVE  IInv'
  <2>1. Types' /\ FlagsExact'
    BY <1>3 DEF Leave, ScheduleStop, mutex, FlagsExact
  <2>2. FencedByEpoch' /\ GrantedIsActive' /\ ReportIsSound'
    BY <1>3 DEF Leave, ScheduleStop, mutex, FencedByEpoch, GrantedIsActive, ReportIsSound, ParkedIsIdle,
       StatusOfThisLease, Pipeline, FlagsExact, Flights
  <2>3. HolderIsOne'
    BY <1>3 DEF Leave, mutex, HolderIsOne, HasConsumers, Sessions
  <2> QED
    BY <2>1, <2>2, <2>3
<1> QED
  BY <1>1, <1>2, <1>3 DEF Demand

\* The calls of the controller, and their answers.
LEMMA CallsKeep ==
  ASSUME IInv, Calls
  PROVE  IInv'
<1> USE DEF IInv, Types, report, tasks, HangUp, Dispatch
<1>1. CASE CallLands
  <2>1. landed' \in BOOLEAN /\ native' \in BOOLEAN
    BY <1>1 DEF CallLands
  <2> QED
    BY <1>1, <2>1 DEF CallLands, demand, FlagsExact, FencedByEpoch, GrantedIsActive, ReportIsSound,
       ParkedIsIdle, StatusOfThisLease, Pipeline, HolderIsOne, HasConsumers, Sessions
<1>2. CASE StopBegins
  <2>1. holder' \in {"free", "acquire", "deactivate", "recover"} /\ landed' \in BOOLEAN /\ desired' \in BOOLEAN
    BY <1>2 DEF StopBegins, mutex
  <2>2. Types'
    BY <1>2, <2>1 DEF StopBegins
  <2>3. FlagsExact'
    BY <1>2 DEF StopBegins, mutex, FlagsExact
  <2>4. FencedByEpoch' /\ GrantedIsActive' /\ ReportIsSound' /\ HolderIsOne'
    BY <1>2 DEF StopBegins, mutex, FencedByEpoch, GrantedIsActive, ReportIsSound, ParkedIsIdle,
       StatusOfThisLease, Pipeline, HolderIsOne, HasConsumers, Sessions
  <2> QED
    BY <2>2, <2>3, <2>4
<1>3. CASE StopConfirmed
  <2>1. /\ landed' \in BOOLEAN /\ active' \in BOOLEAN /\ uncertain' \in BOOLEAN
        /\ available' \in BOOLEAN
    BY <1>3 DEF StopConfirmed, Darken
  <2>2. lease' \in Nat /\ shown' \in Sample /\ shown'.lease \in 0..lease' /\ lease' >= lease
    BY <1>3 DEF StopConfirmed, Darken, Sample
  <2>3. Types'
    BY <1>3, <2>1, <2>2 DEF StopConfirmed
  <2>4. FlagsExact'
    BY <1>3 DEF StopConfirmed, Darken, FlagsExact
  <2>5. FencedByEpoch' /\ GrantedIsActive' /\ ReportIsSound' /\ HolderIsOne'
    BY <1>3 DEF StopConfirmed, Darken, FencedByEpoch, GrantedIsActive, ReportIsSound, ParkedIsIdle,
       StatusOfThisLease, Pipeline, HolderIsOne, HasConsumers, Sessions
  <2> QED
    BY <2>3, <2>4, <2>5
<1>4. CASE StopFailed
  BY <1>4 DEF StopFailed, FlagsExact, FencedByEpoch, GrantedIsActive, ReportIsSound, ParkedIsIdle,
     StatusOfThisLease, Pipeline, HolderIsOne, HasConsumers, Sessions
<1>5. CASE RecoveryEnds
  <2>1. PICK asks \in BOOLEAN :
          /\ pending' = [pending EXCEPT !["recovery"] = FALSE,
                                        !["keyframe"] = asks \/ pending["keyframe"]]
          /\ flight' = [flight EXCEPT !["recovery"] = NoFlight,
                                      !["keyframe"] = IF asks THEN Running ELSE flight["keyframe"]]
    BY <1>5 DEF RecoveryEnds
  <2>2. /\ NoFlight \in Flight /\ NoFlight.phase = "none" /\ NoFlight.epoch = 0
        /\ NoFlight.sample.lease = 0
        /\ Running \in Flight /\ Running.phase = "running" /\ Running.epoch = 0
        /\ Running.sample.lease = 0
    BY DEF Running, NoFlight, Flight, Phase, Sample
  <2>3. Types' /\ FlagsExact' /\ flight'["status"] = flight["status"]
    <3>1. flight' \in [Flights -> Flight] /\ pending' \in [Flights -> BOOLEAN]
      BY <2>1, <2>2 DEF Flights
    <3>2. FlagsExact' /\ flight'["status"] = flight["status"]
      BY <1>5, <2>1, <2>2 DEF RecoveryEnds, demand, FlagsExact, Flights
    <3> QED
      BY <1>5, <3>1, <3>2 DEF RecoveryEnds, demand
  <2>4. FencedByEpoch' /\ GrantedIsActive' /\ ReportIsSound' /\ HolderIsOne'
    BY <1>5, <2>3 DEF RecoveryEnds, demand, FencedByEpoch, GrantedIsActive, ReportIsSound, ParkedIsIdle,
       StatusOfThisLease, Pipeline, HolderIsOne, HasConsumers, Sessions
  <2> QED
    BY <2>3, <2>4
<1>6. ASSUME NEW v \in Viewer, AcquireConfirmed(v)
      PROVE  IInv'
  <2>1. landed' \in BOOLEAN /\ active' \in BOOLEAN /\ uncertain' \in BOOLEAN
    BY <1>6 DEF AcquireConfirmed
  <2>2. shown' \in Sample /\ shown'.lease \in 0..lease
    BY <1>6 DEF AcquireConfirmed, Sample
  <2>3. Types'
    BY <1>6, <2>1, <2>2 DEF AcquireConfirmed
  <2>4. FlagsExact'
    BY <1>6 DEF AcquireConfirmed, FlagsExact
  <2>5. FencedByEpoch' /\ GrantedIsActive' /\ ReportIsSound'
    BY <1>6 DEF AcquireConfirmed, FencedByEpoch, GrantedIsActive, ReportIsSound, ParkedIsIdle,
       StatusOfThisLease, Pipeline, HolderIsOne
  <2>6. HolderIsOne'
    BY <1>6 DEF AcquireConfirmed, HolderIsOne
  <2> QED
    BY <2>3, <2>4, <2>5, <2>6
<1>7. ASSUME NEW v \in Viewer, AcquireFailed(v)
      PROVE  IInv'
  <2>1. landed' \in BOOLEAN /\ active' \in BOOLEAN /\ uncertain' \in BOOLEAN
    BY <1>7 DEF AcquireFailed
  <2>2. Types'
    BY <1>7, <2>1 DEF AcquireFailed, ScheduleStop
  <2>3. FlagsExact'
    BY <1>7 DEF AcquireFailed, ScheduleStop, FlagsExact
  <2>4. FencedByEpoch' /\ GrantedIsActive' /\ ReportIsSound'
    BY <1>7 DEF AcquireFailed, ScheduleStop, FencedByEpoch, GrantedIsActive, ReportIsSound, ParkedIsIdle,
       StatusOfThisLease, Pipeline, HolderIsOne, FlagsExact, Flights
  <2>5. HolderIsOne'
    BY <1>7 DEF AcquireFailed, HolderIsOne
  <2> QED
    BY <2>2, <2>3, <2>4, <2>5
<1> QED
  BY <1>1, <1>2, <1>3, <1>4, <1>5, <1>6, <1>7 DEF Calls

\* The worker of a camera, a producer that exits, a recovery that begins, Close.
LEMMA OthersKeep ==
  ASSUME IInv, PeerObserves \/ PeerLost \/ NativeEnds \/ CloseBegins \/ RecoveryBegins
  PROVE  IInv'
<1>1. CASE RecoveryBegins
  <2>1. CASE Done("recovery") /\ UNCHANGED mutex
    <3>1. pass' \in [phase : {"idle", "answered", "observed"}, sample : BOOLEAN]
      BY <1>1 DEF RecoveryBegins, IInv, Types
    <3> QED
      BY <1>1, <2>1, <3>1, DoneKeeps DEF RecoveryBegins, Flights
  <2>2. CASE Dispatch("recover", TRUE) /\ UNCHANGED tasks
    <3>1. landed' \in BOOLEAN /\ desired' \in BOOLEAN
      BY <2>2 DEF Dispatch
    <3> QED
      BY <1>1, <2>2, <3>1 DEF RecoveryBegins, Dispatch, IInv, Types, FlagsExact, FencedByEpoch,
         HolderIsOne, GrantedIsActive, ReportIsSound, ParkedIsIdle, StatusOfThisLease, Sessions,
         HasConsumers, Pipeline, demand, report, tasks
  <2> QED
    BY <1>1, <2>1, <2>2 DEF RecoveryBegins
<1>2. CASE PeerObserves
  BY <1>2 DEF PeerObserves, Sample, IInv, Types, FlagsExact, FencedByEpoch, HolderIsOne,
     GrantedIsActive, ReportIsSound, ParkedIsIdle, StatusOfThisLease, Sessions, HasConsumers,
     Pipeline, mutex, tasks
<1>3. CASE PeerLost \/ NativeEnds \/ CloseBegins
  <2>1. healthy' \in BOOLEAN /\ available' \in BOOLEAN /\ native' \in BOOLEAN /\ closing' \in BOOLEAN
    BY <1>3 DEF PeerLost, NativeEnds, CloseBegins, IInv, Types, report
  <2>2. available' => available
    BY <1>3 DEF PeerLost, NativeEnds, CloseBegins, report
  <2> QED
    BY <1>3, <2>1, <2>2 DEF PeerLost, NativeEnds, CloseBegins, IInv, Types, FlagsExact, FencedByEpoch,
       HolderIsOne, GrantedIsActive, ReportIsSound, ParkedIsIdle, StatusOfThisLease, Sessions,
       HasConsumers, Pipeline, demand, mutex, report, tasks
<1> QED
  BY <1>1, <1>2, <1>3

-----------------------------------------------------------------------------
(* The theorems.                                                           *)

\* Every step of telemetry keeps the invariant.
LEMMA Inductive == Spec => []IInv
<1>1. Init => IInv
  BY InitIInv
<1>2. IInv /\ [Next]_vars => IInv'
  <2> SUFFICES ASSUME IInv, [Next]_vars PROVE IInv'
    OBVIOUS
  <2>1. CASE UNCHANGED vars
    <3>1. pass' \in [phase : {"idle", "answered", "observed"}, sample : BOOLEAN]
      BY <2>1 DEF vars, IInv, Types
    <3> QED
      BY <2>1, <3>1, PassKeeps DEF vars
  <2>2. CASE Next
    BY <2>2, CallsKeep, FlightsKeep, ReconcileKeeps, DemandKeeps, OthersKeep DEF Next, RecoveryFlight
  <2> QED
    BY <2>1, <2>2
<1> QED
  BY <1>1, <1>2, PTL DEF Spec

\* Every variable has its type, and a pending flag is up exactly while its task
\* exists (pollStatusAsync, requestKeyframeAsync, recover).
THEOREM FlagsAreTasks == Spec => []TelemetryInv
<1>1. IInv => TelemetryInv
  BY DEF IInv, Types, FlagsExact, TelemetryInv, Flight, Phase, Sample
<1> QED
  BY <1>1, Inductive, PTL

\* A pipeline is never reported by a poll or a path listing of a lease that is
\* over, and a parked one is reported idle and without viewers (SourceStatuses).
THEOREM ReportsAreCurrent == Spec => []ReportIsCurrent
<1>1. IInv => ReportIsCurrent
  <2> SUFFICES ASSUME IInv PROVE ReportIsCurrent
    OBVIOUS
  <2>1. Pipeline /\ ~active => Sessions = {}
    BY DEF IInv, GrantedIsActive, Sessions
  <2>2. Sessions = {} => Cardinality(Sessions) = 0
    BY FS_EmptySet
  <2> QED
    BY <2>1, <2>2 DEF IInv, ReportIsCurrent, ParkedIsDark, SourceStatus, ReportIsSound, ParkedIsIdle,
       StatusOfThisLease
<1> QED
  BY <1>1, Inductive, PTL
=============================================================================

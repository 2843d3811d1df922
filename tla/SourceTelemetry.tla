--------------------------- MODULE SourceTelemetry ---------------------------
(***************************************************************************)
(* What a source is reported to do (internal/mediaedge, mediaMTXSource):   *)
(* the status polls of a pipeline, the observations of a camera's worker,  *)
(* the path samples of MediaMTX, and the keyframe requests and recoveries  *)
(* that they set off.                                                      *)
(*                                                                         *)
(* Each of the three background flights has a pending flag under           *)
(* source.mu, is handed to startBackground, which refuses it once Close    *)
(* began, and answers long after the state it was asked about has changed. *)
(* The lease appears as far as telemetry needs it: SourceLease has the     *)
(* timers, the retries and the two locks in full, CameraPeer the worker.   *)
(***************************************************************************)
EXTENDS Integers, FiniteSets

CONSTANTS
  Viewer,     \* client operations that may hold the source active
  Kinds,      \* kinds of source, "pipeline" and "camera"
  MaxEpoch    \* bound: acquisitions and deactivations

ASSUME ConstantsAssumption ==
  /\ IsFiniteSet(Viewer)
  /\ Kinds \subseteq {"pipeline", "camera"}
  /\ MaxEpoch \in Nat

VARIABLES
  kind,             \* source.config.Kind
  viewer,           \* the demand of each viewer: pending, a session, a session
                    \* whose keyframeAfterICE is set
  active,           \* source.active
  uncertain,        \* source.deactivateUncertain
  epoch,            \* source.deactivateEpoch
  stop,             \* epoch of the last deactivation that waits for lifecycleMu,
                    \* or 0; the ones before it find themselves outdated
  holder,           \* which code holds lifecycleMu and calls the controller
  landed,           \* that call took effect
  desired,          \* the last state asked of the controller
  native,           \* external: the producer runs
  lease,            \* history: confirmed stops, which number a pipeline's leases
  shown,            \* source.nativeStatus, with the lease it was sampled under
  healthy,          \* source.controlHealthy
  available,        \* source.available, and source.online, written with it
  pass,             \* progress of reconcile, and the path sample it received
  pending,          \* statusPending, keyframePending, recoveryPending
  flight,           \* the background task behind each flag
  closing           \* server.closing

demand == <<viewer, active, uncertain, epoch, stop>>
mutex  == <<holder, landed, desired>>
report == <<shown, healthy, available>>
tasks  == <<pending, flight>>
vars   == <<kind, demand, mutex, native, lease, report, pass, tasks, closing>>

Flights == {"status", "keyframe", "recovery"}
NoFlight == [phase |-> "none", epoch |-> 0, sample |-> [applied |-> FALSE, lease |-> 0]]

Pipeline == kind = "pipeline"

Sessions == {v \in Viewer : viewer[v] \in {"session", "asked"}}

HasConsumers == Sessions # {} \/ \E v \in Viewer : viewer[v] \in {"acquiring", "pending"}

Init ==
  /\ kind \in Kinds
  /\ viewer = [v \in Viewer |-> "out"]
  /\ active = FALSE /\ uncertain = FALSE /\ epoch = 0 /\ stop = 0
  /\ holder = "free" /\ landed = FALSE /\ desired = FALSE
  /\ native = FALSE /\ lease = 0
  \* Start seeds the idle status of a pipeline; a camera was not requested yet.
  /\ shown = [applied |-> FALSE, lease |-> 0]
  /\ healthy = Pipeline
  /\ available = FALSE
  /\ pass = [phase |-> "idle", sample |-> FALSE]
  /\ pending = [f \in Flights |-> FALSE]
  /\ flight = [f \in Flights |-> NoFlight]
  /\ closing = FALSE

-----------------------------------------------------------------------------
(* The background flights.                                                 *)

\* The flag is set under source.mu, which is released before startBackground.
Ask(f) ==
  /\ pending' = [pending EXCEPT ![f] = TRUE]
  /\ flight' = [flight EXCEPT ![f] = [NoFlight EXCEPT !.phase = "asked", !.epoch = epoch]]

Done(f) ==
  /\ pending' = [pending EXCEPT ![f] = FALSE]
  /\ flight' = [flight EXCEPT ![f] = NoFlight]

Mutant_Forgets(f) ==
  /\ UNCHANGED pending
  /\ flight' = [flight EXCEPT ![f] = NoFlight]

\* startBackground said no: the flag is withdrawn.
Refused(f) == Done(f)

Spawn(f) ==
  /\ flight[f].phase = "asked"
  /\ IF closing THEN Refused(f)
     ELSE flight' = [flight EXCEPT ![f].phase = "running"] /\ UNCHANGED pending
  /\ UNCHANGED <<kind, demand, mutex, native, lease, report, pass, closing>>

\* requestKeyframeAsync(TRUE): one call at a time, and only for a live lease.
\* Its flag is up and withdrawn in one step if Close refuses the task.
KeyframeWanted == active /\ ~pending["keyframe"] /\ ~closing
Running == [NoFlight EXCEPT !.phase = "running"]

RequestKeyframe ==
  IF KeyframeWanted
  THEN /\ pending' = [pending EXCEPT !["keyframe"] = TRUE]
       /\ flight' = [flight EXCEPT !["keyframe"] = Running]
  ELSE UNCHANGED tasks

KeyframeEnds ==
  /\ flight["keyframe"].phase = "running"
  /\ Done("keyframe")
  /\ UNCHANGED <<kind, demand, mutex, native, lease, report, pass, closing>>

Mutant_ClearedEarly ==
  /\ flight["status"].phase = "running"
  /\ flight' = [flight EXCEPT !["status"].phase = "answered",
                              !["status"].sample = [applied |-> native, lease |-> lease]]
  /\ pending' = [pending EXCEPT !["status"] = FALSE]
  /\ UNCHANGED <<kind, demand, mutex, native, lease, report, pass, closing>>

\* The controller answers a poll with what is true now ...
StatusSampled ==
  /\ flight["status"].phase = "running"
  /\ flight' = [flight EXCEPT !["status"].phase = "answered",
                              !["status"].sample = [applied |-> native, lease |-> lease]]
  /\ UNCHANGED <<kind, demand, mutex, native, lease, report, pass, pending, closing>>

Mutant_AnyDemand(e) == active /\ HasConsumers
\* ... and the answer counts if the demand that asked is the current one.
Current(e) == e = epoch /\ active /\ HasConsumers

Mutant_EarlyReturn ==
  /\ flight["status"].phase = "answered"
  /\ flight' = [flight EXCEPT !["status"] = NoFlight]
  /\ IF Current(flight["status"].epoch)
     THEN /\ pending' = [pending EXCEPT !["status"] = FALSE]
          /\ healthy' = TRUE /\ shown' = flight["status"].sample
     ELSE UNCHANGED <<pending, healthy, shown>>
  /\ UNCHANGED <<kind, demand, mutex, native, lease, available, pass, closing>>

StatusPublished ==
  /\ flight["status"].phase = "answered"
  /\ Done("status")
  /\ IF Current(flight["status"].epoch)
     THEN healthy' = TRUE /\ shown' = flight["status"].sample
     ELSE UNCHANGED <<healthy, shown>>
  /\ UNCHANGED <<kind, demand, mutex, native, lease, available, pass, closing>>

\* Only the cancelled lifecycle makes the local status of a pipeline fail.
StatusFailed ==
  /\ flight["status"].phase = "running"
  /\ closing
  /\ Done("status")
  /\ healthy' = (healthy /\ ~Current(flight["status"].epoch))
  /\ UNCHANGED <<kind, demand, mutex, native, lease, shown, available, pass, closing>>

-----------------------------------------------------------------------------
(* The pass of the reconcile loop over this source.  It also runs for the  *)
(* sessions of other sources.                                              *)

\* pollStatusAsync
PollStatus ==
  IF Pipeline /\ ~pending["status"] /\ active /\ HasConsumers
  THEN Ask("status") ELSE UNCHANGED tasks

\* external: MediaMTX may list the path of a source that publishes.
PassBegins ==
  /\ pass.phase = "idle"
  /\ ~closing
  /\ PollStatus
  /\ \E listed \in BOOLEAN :
       /\ listed => native
       /\ pass' = [phase |-> "answered", sample |-> listed]
  /\ UNCHANGED <<kind, demand, mutex, native, lease, report, closing>>

\* A sample must not resurrect the availability of a lease that has ended.
Live(sample) == active /\ sample /\ (Pipeline \/ healthy)

\* observePath; an absent path, or a failed listing, only clears the flags.
\* Whether the bytes have stood still for sourceStallTimeout, and the backoff
\* has run out, is left open.
ObservePath ==
  /\ pass.phase = "answered"
  /\ available' = Live(pass.sample)
  /\ pass' = [phase |-> IF Pipeline THEN "idle" ELSE "observed", sample |-> FALSE]
  /\ \/ UNCHANGED tasks
     \/ /\ Pipeline /\ ~pending["recovery"] /\ active /\ Sessions # {}
        /\ Ask("recovery")
  /\ UNCHANGED <<kind, demand, mutex, native, lease, shown, healthy, closing>>

\* The rest of the pass: a viewer whose peer connection is found established
\* asks a camera for one keyframe.  (A pipeline is not asked.)
ObserveSessions ==
  /\ pass.phase = "observed"
  /\ \E established \in SUBSET {v \in Viewer : viewer[v] = "session"} :
       /\ viewer' = [v \in Viewer |-> IF v \in established THEN "asked" ELSE viewer[v]]
       /\ IF established # {} THEN RequestKeyframe ELSE UNCHANGED tasks
  /\ pass' = [pass EXCEPT !.phase = "idle"]
  /\ UNCHANGED <<kind, active, uncertain, epoch, stop, mutex, native, lease, report, closing>>

Reconcile == PassBegins \/ ObservePath \/ ObserveSessions

-----------------------------------------------------------------------------
(* The lease.                                                              *)

Dispatch(who, state) == holder' = who /\ landed' = FALSE /\ desired' = state

HangUp == holder' = "free" /\ landed' = FALSE /\ UNCHANGED desired

\* deactivateUnusedNow and scheduleDeactivate, as the demand will be.
Unused == active' /\ ~HasConsumers' /\ ~closing
ScheduleStop ==
  IF Unused THEN epoch' = epoch + 1 /\ stop' = epoch + 1
  ELSE UNCHANGED <<epoch, stop>>

Acquire(v) ==
  /\ viewer[v] = "out"
  /\ holder = "free"
  /\ ~closing
  /\ epoch < MaxEpoch
  /\ epoch' = epoch + 1
  /\ IF active /\ ~uncertain /\ Pipeline
     THEN viewer' = [viewer EXCEPT ![v] = "pending"] /\ UNCHANGED mutex
     ELSE viewer' = [viewer EXCEPT ![v] = "acquiring"] /\ Dispatch("acquire", TRUE)
  /\ UNCHANGED <<kind, active, uncertain, stop, native, lease, report, pass, tasks, closing>>

\* The call of the holder takes effect; a camera's worker may deliver it after
\* the caller gave up.
CallLands ==
  /\ \/ holder # "free" /\ ~landed /\ landed' = TRUE
     \/ ~Pipeline /\ holder = "free" /\ native # desired /\ UNCHANGED landed
  /\ native' = desired
  /\ UNCHANGED <<kind, demand, holder, desired, lease, report, pass, tasks, closing>>

\* A pipeline answers the call itself, which becomes its status.
AcquireConfirmed(v) ==
  /\ viewer[v] = "acquiring"
  /\ landed
  /\ viewer' = [viewer EXCEPT ![v] = "pending"]
  /\ active' = TRUE /\ uncertain' = FALSE
  /\ shown' = IF Pipeline THEN [applied |-> TRUE, lease |-> lease] ELSE shown
  /\ HangUp
  /\ UNCHANGED <<kind, epoch, stop, native, lease, healthy, available, pass, tasks, closing>>

\* A pipeline's start fails with its run dead, a camera's at any time.
AcquireFailed(v) ==
  /\ viewer[v] = "acquiring"
  /\ Pipeline => ~native
  /\ viewer' = [viewer EXCEPT ![v] = "out"]
  /\ active' = TRUE /\ uncertain' = TRUE
  /\ ScheduleStop
  /\ HangUp
  /\ UNCHANGED <<kind, native, lease, report, pass, tasks, closing>>

Register(v) ==
  /\ viewer[v] = "pending"
  /\ viewer' = [viewer EXCEPT ![v] = "session"]
  /\ UNCHANGED <<kind, active, uncertain, epoch, stop, mutex, native, lease, report,
                 pass, tasks, closing>>

\* releasePending("") or removeSession.
Leave(v) ==
  /\ viewer[v] \in {"pending", "session", "asked"}
  /\ viewer' = [viewer EXCEPT ![v] = "out"]
  /\ UNCHANGED <<kind, active, uncertain, mutex, native, lease, report, pass, tasks, closing>>
  /\ ScheduleStop

StopBegins ==
  /\ holder = "free"
  /\ stop # 0
  /\ stop' = 0
  /\ IF ~closing /\ stop = epoch /\ active /\ ~HasConsumers
     THEN Dispatch("deactivate", FALSE) ELSE UNCHANGED mutex
  /\ UNCHANGED <<kind, viewer, active, uncertain, epoch, native, lease, report, pass,
                 tasks, closing>>

\* The path seen before is not the live status of the released lease, and the
\* answer of a pipeline is its new status.
Darken ==
  /\ available' = FALSE
  /\ shown' = IF Pipeline THEN [applied |-> FALSE, lease |-> lease + 1] ELSE shown

StopConfirmed ==
  /\ holder = "deactivate"
  /\ landed
  /\ active' = FALSE /\ uncertain' = FALSE
  /\ lease' = IF Pipeline THEN lease + 1 ELSE lease
  /\ Darken
  /\ HangUp
  /\ UNCHANGED <<kind, viewer, epoch, stop, native, healthy, pass, tasks, closing>>

\* A camera's worker owns the stop from here on.
StopFailed ==
  /\ holder = "deactivate"
  /\ ~Pipeline
  /\ active' = FALSE /\ uncertain' = TRUE
  /\ HangUp
  /\ UNCHANGED <<kind, viewer, epoch, stop, native, lease, report, pass, tasks, closing>>

\* cameraPeer.observe, after a connection or a lease that was applied.  What
\* was true when the source answered need not be true any more.
PeerObserves ==
  /\ ~Pipeline
  /\ ~closing
  /\ healthy' = TRUE
  /\ shown' = [applied |-> native, lease |-> lease]
  /\ uncertain' = (uncertain /\ native # desired)
  /\ UNCHANGED <<kind, viewer, active, epoch, stop, mutex, native, lease, available, pass,
                 tasks, closing>>

PeerLost ==
  /\ ~Pipeline
  /\ healthy' = FALSE
  /\ available' = FALSE
  /\ UNCHANGED <<kind, demand, mutex, native, lease, shown, pass, tasks, closing>>

\* external: the producer of a pipeline exits by itself.
NativeEnds ==
  /\ Pipeline
  /\ native
  /\ native' = FALSE
  /\ UNCHANGED <<kind, demand, mutex, lease, report, pass, tasks, closing>>

-----------------------------------------------------------------------------
(* Recovery.                                                               *)

\* recover, once it has lifecycleMu.
RecoveryBegins ==
  /\ flight["recovery"].phase = "running"
  /\ holder = "free"
  /\ IF ~closing /\ Current(flight["recovery"].epoch) /\ ~native
     THEN Dispatch("recover", TRUE) /\ UNCHANGED tasks
     ELSE Done("recovery") /\ UNCHANGED mutex
  /\ UNCHANGED <<kind, demand, native, lease, report, pass, closing>>

\* The start may fail; only one that succeeded asks for a keyframe.
RecoveryEnds ==
  /\ holder = "recover"
  /\ \E asks \in BOOLEAN :
       /\ asks => landed /\ KeyframeWanted
       /\ pending' = [pending EXCEPT !["recovery"] = FALSE,
                                     !["keyframe"] = asks \/ pending["keyframe"]]
       /\ flight' = [flight EXCEPT !["recovery"] = NoFlight,
                                   !["keyframe"] = IF asks THEN Running ELSE flight["keyframe"]]
  /\ HangUp
  /\ UNCHANGED <<kind, demand, native, lease, report, pass, closing>>

CloseBegins ==
  /\ ~closing
  /\ closing' = TRUE
  /\ UNCHANGED <<kind, demand, mutex, native, lease, report, pass, tasks>>

-----------------------------------------------------------------------------
Calls ==
  \/ CallLands \/ StopBegins \/ StopConfirmed \/ StopFailed \/ RecoveryEnds
  \/ \E v \in Viewer : AcquireConfirmed(v) \/ AcquireFailed(v)

StatusFlight == Spawn("status") \/ StatusSampled \/ StatusPublished \/ StatusFailed
RecoveryFlight == Spawn("recovery") \/ RecoveryBegins

Demand == \E v \in Viewer : Acquire(v) \/ Register(v) \/ Leave(v)

Next ==
  \/ Calls \/ StatusFlight \/ KeyframeEnds \/ RecoveryFlight \/ Reconcile \/ Demand
  \/ PeerObserves \/ PeerLost \/ NativeEnds \/ CloseBegins

Spec == Init /\ [][Next]_vars

\* Every call has a deadline and tasks run; a Go mutex does not starve the one
\* recovery that waits for it; the loop passes once a second.
Fairness ==
  /\ WF_vars(StatusFlight)
  /\ WF_vars(KeyframeEnds)
  /\ SF_vars(RecoveryFlight)
  /\ WF_vars(CallLands \/ StopConfirmed \/ RecoveryEnds
             \/ \E v \in Viewer : AcquireConfirmed(v))
  /\ WF_vars(Reconcile)

FairSpec == Spec /\ Fairness

-----------------------------------------------------------------------------
(* Properties.                                                             *)

\* Every variable has its type, and each pending flag is up exactly while its
\* task exists: there is one status poll, one keyframe call and one recovery.
TelemetryInv ==
  /\ kind \in Kinds
  /\ viewer \in [Viewer -> {"out", "acquiring", "pending", "session", "asked"}]
  /\ active \in BOOLEAN /\ uncertain \in BOOLEAN
  /\ epoch \in Nat /\ stop \in 0..epoch
  /\ holder \in {"free", "acquire", "deactivate", "recover"}
  /\ landed \in BOOLEAN /\ desired \in BOOLEAN /\ native \in BOOLEAN
  /\ lease \in Nat
  /\ shown \in [applied : BOOLEAN, lease : 0..lease]
  /\ healthy \in BOOLEAN /\ available \in BOOLEAN /\ closing \in BOOLEAN
  /\ pass \in [phase : {"idle", "answered", "observed"}, sample : BOOLEAN]
  /\ \A f \in Flights :
       /\ flight[f].phase \in {"none", "asked", "running", "answered"}
       /\ flight[f].epoch \in 0..epoch
       /\ pending[f] <=> flight[f].phase # "none"

\* SourceStatuses: what a client is told.
SourceStatus ==
  [active |-> active, stateUncertain |-> uncertain, available |-> available,
   nativeAppliedActive |-> shown.applied, viewers |-> Cardinality(Sessions)]

\* A parked pipeline is reported idle, without a live path and without viewers:
\* neither a poll nor a path listing that was asked for under its last lease
\* brings it back.
ParkedIsDark ==
  Pipeline /\ ~SourceStatus.active =>
    /\ ~SourceStatus.nativeAppliedActive
    /\ ~SourceStatus.available
    /\ SourceStatus.viewers = 0

\* The status that is shown for a pipeline was sampled under the lease it has
\* now: a poll of an earlier lease that answers late is dropped.
StatusOfThisLease == Pipeline => shown.lease = lease

\* Both: what a client reads of a pipeline is never about a lease that is over,
\* whichever polls and listings answer late.
ReportIsCurrent == ParkedIsDark /\ StatusOfThisLease

\* No flag stays up: whatever Close refuses or a lease outruns, the next poll,
\* keyframe request or recovery is possible again.
FlightsEnd == \A f \in Flights : pending[f] ~> ~pending[f]

\* While a pipeline keeps its viewers, what it reports catches up with what its
\* producer does.  A poll that is overtaken by a start publishes an older
\* state, until the next pass.
ShownCatchesUp ==
  <>[](Pipeline /\ ~closing /\ active /\ Sessions # {})
    => []<>(shown.applied = native)

\* A camera whose stop is confirmed is not reported to be live.  It fails: a
\* stop that its caller gave up on is confirmed by the worker, whose
\* observation does not take the path's flags back.
ConfirmedStopIsDark == ~active /\ ~uncertain => ~available
=============================================================================

----------------------------- MODULE SourceLease -----------------------------
(***************************************************************************)
(* The demand lease of one media source (internal/mediaedge,               *)
(* mediaMTXSource).  Viewers, snapshots and recordings acquire the source, *)
(* which starts its native producer; the last one to leave stops it.       *)
(*                                                                         *)
(* lifecycleMu serialises everything that calls the source's controller.   *)
(* source.mu guards the bookkeeping and is released during a call, so      *)
(* sessions and recordings end, timers fire and Close begins while a call  *)
(* is in flight.  deactivateEpoch tells a deactivation or a recovery that  *)
(* waited for lifecycleMu whether the demand that created it is current.   *)
(*                                                                         *)
(* The controller is a "pipeline" (pipelineControl: the call itself starts *)
(* or reaps the producer, and a stop cannot fail), a "peer" (cameraPeer:   *)
(* the call records a desired revision, which one worker applies, possibly *)
(* long after the caller gave up) or "direct" (a bare cameraControl, which *)
(* the repository's tests install: any reply can be lost).                 *)
(***************************************************************************)
EXTENDS Integers, FiniteSets

CONSTANTS
  Op,               \* client operations; each is one acquire and its outcome
  NoOp,             \* "no recording", the empty recordingID
  Controllers,      \* what source.controller() may return
  MaxCloseAttempts  \* bound: calls of Close that reach the source

ASSUME ConstantsAssumption ==
  /\ IsFiniteSet(Op)
  /\ NoOp \notin Op
  /\ Controllers \subseteq {"pipeline", "peer", "direct"}
  /\ MaxCloseAttempts \in Nat

VARIABLES
  op,               \* progress of each client operation
  pending,          \* source.pending
  sessions,         \* source.sessions
  recordingID,      \* source.recordingID
  active,           \* source.active
  uncertain,        \* source.deactivateUncertain
  epoch,            \* source.deactivateEpoch
  timer,            \* epoch of the armed deactivateTimer, or NoEpoch
  timerTasks,       \* epochs of fired timer callbacks that wait for lifecycleMu
  bgTasks,          \* epochs of background deactivations, likewise
  recovery,         \* epoch of the pending recovery, or NoEpoch
  holder,           \* which code holds lifecycleMu
  call,             \* the controller call of the holder
  landed,           \* that call took effect on the native source
  native,           \* external: the producer captures and encodes
  controller,       \* what source.controller() returns, fixed by its Kind
  desiredActive, desiredRevision, appliedRevision,  \* cameraPeer
  flight,           \* the request of the cameraPeer's worker
  closeState, closeAttempts, shutdownStopped        \* MediaMTXServer.Close

demand == <<pending, sessions, recordingID>>
fence  == <<epoch, timer>>
tasks  == <<timerTasks, bgTasks, recovery>>
mutex  == <<holder, call, landed>>
peer   == <<controller, desiredActive, desiredRevision, appliedRevision, flight>>
shut   == <<closeState, closeAttempts, shutdownStopped>>
vars   == <<op, demand, active, uncertain, fence, tasks, mutex, native, peer, shut>>

Managed == controller = "peer"

NoEpoch  == 0
NoFlight == [phase |-> "none", revision |-> 0, active |-> FALSE]

closing == closeState # "open"

HasConsumers == pending # 0 \/ sessions # {} \/ recordingID # NoOp

\* observePath wants a viewer or a recording, not an operation in progress.
HasViewers == sessions # {} \/ recordingID # NoOp

\* The lease, its counters and the calls in flight have their types; pending is
\* never negative.
TypeOK ==
  /\ op \in [Op -> {"idle", "waiting", "acquiring", "pending", "releasing",
                    "served", "removing", "done"}]
  /\ pending \in Nat
  /\ sessions \in SUBSET Op
  /\ recordingID \in Op \cup {NoOp}
  /\ active \in BOOLEAN /\ uncertain \in BOOLEAN
  /\ epoch \in Nat /\ timer \in Nat
  /\ timerTasks \in SUBSET Nat /\ bgTasks \in SUBSET Nat /\ recovery \in Nat
  /\ holder \in {"free", "acquire", "deactivate", "recover", "close"}
  /\ call \in {"none", "status", "start", "stop"}
  /\ landed \in BOOLEAN /\ native \in BOOLEAN
  /\ controller \in Controllers
  /\ desiredActive \in BOOLEAN
  /\ desiredRevision \in Nat /\ appliedRevision \in Nat
  /\ flight \in [phase : {"none", "sent", "landed", "received"},
                 revision : Nat, active : BOOLEAN]
  /\ closeState \in {"open", "closing", "complete"}
  /\ closeAttempts \in Nat
  /\ shutdownStopped \in BOOLEAN

Init ==
  /\ op = [o \in Op |-> "idle"]
  /\ pending = 0 /\ sessions = {} /\ recordingID = NoOp
  /\ active = FALSE /\ uncertain = FALSE
  /\ epoch = 0 /\ timer = NoEpoch
  /\ timerTasks = {} /\ bgTasks = {} /\ recovery = NoEpoch
  /\ holder = "free" /\ call = "none" /\ landed = FALSE
  /\ native = FALSE
  /\ controller \in Controllers
  /\ desiredActive = FALSE /\ desiredRevision = 0 /\ appliedRevision = 0
  /\ flight = NoFlight
  /\ closeState = "open" /\ closeAttempts = 0 /\ shutdownStopped = FALSE

-----------------------------------------------------------------------------
(* The controller call of the holder of lifecycleMu.                       *)

\* Close's call finds the lifecycle cancelled and bypasses the peer's worker.
Direct == ~Managed \/ holder = "close"

Mutant_SameRevision(operation) ==
  IF Managed /\ desiredRevision = 0
  THEN /\ desiredRevision' = desiredRevision + 1
       /\ desiredActive' = (operation = "start")
       /\ UNCHANGED <<controller, appliedRevision, flight>>
  ELSE UNCHANGED peer

\* beginDemand: a start or stop that changes the desired state is a revision.
Demand(operation) ==
  IF Managed /\ (desiredRevision = 0 \/ desiredActive # (operation = "start"))
  THEN /\ desiredRevision' = desiredRevision + 1
       /\ desiredActive' = (operation = "start")
       /\ UNCHANGED <<controller, appliedRevision, flight>>
  ELSE UNCHANGED peer

Dispatch(who, operation) ==
  /\ holder' = who
  /\ call' = operation
  /\ landed' = FALSE

HangUp == holder' = "free" /\ call' = "none" /\ landed' = FALSE

CallLands ==
  /\ Direct
  /\ call \in {"start", "stop"}
  /\ ~landed
  /\ native' = (call = "start")
  /\ landed' = TRUE
  /\ UNCHANGED <<op, demand, active, uncertain, fence, tasks, holder, call, peer, shut>>

Mutant_AnyReceipt == IF Direct THEN landed ELSE appliedRevision # 0

\* A managed caller returns once the worker applied its revision.
Confirmed == IF Direct THEN landed ELSE appliedRevision >= desiredRevision

\* A pipeline's start fails only with its run dead, and its stop not at all.
MayFail == controller = "pipeline" => call = "start" /\ ~native

\* Closing a pipelineControl reaps its run; closing a peer drops its client.
CloseController == native' = (native /\ controller # "pipeline")

\* external: an encoder pipeline exits by itself.
NativeEnds ==
  /\ controller = "pipeline"
  /\ native
  /\ native' = FALSE
  /\ UNCHANGED <<op, demand, active, uncertain, fence, tasks, mutex, peer, shut>>

-----------------------------------------------------------------------------
(* The worker of the cameraPeer: apply, and observe after it.              *)

\* The worker has a revision to apply, whether or not a caller still waits.
Owes == appliedRevision # desiredRevision

PeerSends ==
  /\ Managed
  /\ ~closing
  /\ flight = NoFlight
  /\ Owes
  /\ flight' = [phase |-> "sent", revision |-> desiredRevision, active |-> desiredActive]
  /\ UNCHANGED <<op, demand, active, uncertain, fence, tasks, mutex, native,
                 controller, desiredActive, desiredRevision, appliedRevision, shut>>

PeerLands ==
  /\ flight.phase = "sent"
  /\ native' = flight.active
  /\ flight' = [flight EXCEPT !.phase = "landed"]
  /\ UNCHANGED <<op, demand, active, uncertain, fence, tasks, mutex,
                 controller, desiredActive, desiredRevision, appliedRevision, shut>>

\* The receipt is recorded under peer.mu and wakes the caller ...
PeerReceives ==
  /\ flight.phase = "landed"
  /\ appliedRevision' = flight.revision
  /\ flight' = [flight EXCEPT !.phase = "received"]
  /\ UNCHANGED <<op, demand, active, uncertain, fence, tasks, mutex, native,
                 controller, desiredActive, desiredRevision, shut>>

\* ... and only then published to the source under source.mu.
PeerObserves ==
  /\ flight.phase = "received"
  /\ uncertain' = FALSE
  /\ flight' = NoFlight
  /\ UNCHANGED <<op, demand, active, fence, tasks, mutex, native,
                 controller, desiredActive, desiredRevision, appliedRevision, shut>>

\* Timeout, disconnection or cancellation: the request or its reply is lost.
PeerFails ==
  /\ flight.phase \in {"sent", "landed"}
  /\ flight' = NoFlight
  /\ UNCHANGED <<op, demand, active, uncertain, fence, tasks, mutex, native,
                 controller, desiredActive, desiredRevision, appliedRevision, shut>>

Peer == PeerSends \/ PeerLands \/ PeerReceives \/ PeerObserves \/ PeerFails

-----------------------------------------------------------------------------
(* Acquire and release.                                                    *)

RaisePending == pending' = pending + 1

ReleasePending == pending' = pending - 1

BeginOperation(o) ==
  /\ op[o] = "idle"
  /\ ~closing
  /\ op' = [op EXCEPT ![o] = "waiting"]
  /\ UNCHANGED <<demand, active, uncertain, fence, tasks, mutex, native, peer, shut>>

AcquireRefused(o) ==
  /\ op[o] = "waiting"
  /\ holder = "free"
  /\ closing
  /\ op' = [op EXCEPT ![o] = "done"]
  /\ UNCHANGED <<demand, active, uncertain, fence, tasks, mutex, native, peer, shut>>

\* An unmanaged source that is known to run needs no second start.
Joins == active /\ ~uncertain /\ ~Managed

Acquire(o) ==
  /\ op[o] = "waiting"
  /\ holder = "free"
  /\ ~closing
  /\ RaisePending
  /\ epoch' = epoch + 1
  /\ timer' = NoEpoch
  /\ IF Joins
     THEN op' = [op EXCEPT ![o] = "pending"] /\ UNCHANGED <<mutex, peer>>
     ELSE /\ op' = [op EXCEPT ![o] = "acquiring"]
          /\ Dispatch("acquire", "start")
          /\ Demand("start")
  /\ UNCHANGED <<sessions, recordingID, active, uncertain, tasks, native, shut>>

AcquireConfirmed(o) ==
  /\ op[o] = "acquiring"
  /\ Confirmed
  /\ op' = [op EXCEPT ![o] = "pending"]
  /\ active' = TRUE
  /\ uncertain' = FALSE
  /\ HangUp
  /\ UNCHANGED <<demand, fence, tasks, native, peer, shut>>

KeepLease == active' = TRUE /\ uncertain' = TRUE

\* A lost reply can follow an applied activation: the lease is kept, and
\* scheduleDeactivate stops it after the grace period if nobody else uses it.
AcquireFailed(o) ==
  /\ op[o] = "acquiring"
  /\ MayFail
  /\ op' = [op EXCEPT ![o] = "done"]
  /\ ReleasePending
  /\ KeepLease
  /\ HangUp
  /\ IF closing \/ pending # 1 \/ HasViewers
     THEN UNCHANGED fence
     ELSE epoch' = epoch + 1 /\ timer' = epoch + 1
  /\ UNCHANGED <<sessions, recordingID, tasks, native, peer, shut>>

\* releasePending(sessionID), once the session is registered.
ReleaseToSession(o) ==
  /\ op[o] = "pending"
  /\ ~closing
  /\ op' = [op EXCEPT ![o] = "served"]
  /\ ReleasePending
  /\ sessions' = sessions \cup {o}
  /\ UNCHANGED <<recordingID, active, uncertain, fence, tasks, mutex, native, peer, shut>>

\* The end of StartRecording: the pending demand becomes the recording's.
ReleaseToRecording(o) ==
  /\ op[o] = "pending"
  /\ ~closing
  /\ recordingID = NoOp
  /\ op' = [op EXCEPT ![o] = "served"]
  /\ ReleasePending
  /\ recordingID' = o
  /\ UNCHANGED <<sessions, active, uncertain, fence, tasks, mutex, native, peer, shut>>

\* releasePending(""): a snapshot is done, or the operation failed.
Release(o) ==
  /\ op[o] = "pending"
  /\ ReleasePending
  /\ UNCHANGED <<sessions, recordingID, active, uncertain, fence, tasks, mutex, native, peer, shut>>
  /\ op' = [op EXCEPT ![o] = IF active /\ ~HasConsumers' THEN "releasing" ELSE "done"]

RemoveSession(o) ==
  /\ o \in sessions
  /\ sessions' = sessions \ {o}
  /\ UNCHANGED <<pending, recordingID, active, uncertain, fence, tasks, mutex, native, peer, shut>>
  /\ op' = [op EXCEPT ![o] = IF HasConsumers' THEN "done" ELSE "removing"]

\* finalize releases the demand of the recording.
FinalizeRecording(o) ==
  /\ recordingID = o
  /\ recordingID' = NoOp
  /\ UNCHANGED <<pending, sessions, active, uncertain, fence, tasks, mutex, native, peer, shut>>
  /\ op' = [op EXCEPT ![o] = IF HasConsumers' THEN "done" ELSE "removing"]

\* source.mu was released since the caller saw the source unused.
DeactivateUnusedNow(o) ==
  /\ op[o] \in {"releasing", "removing"}
  /\ op' = [op EXCEPT ![o] = "done"]
  /\ IF closing \/ ~active \/ HasConsumers
     THEN UNCHANGED <<fence, bgTasks>>
     ELSE /\ epoch' = epoch + 1
          /\ timer' = NoEpoch
          /\ bgTasks' = bgTasks \cup {epoch + 1}
  /\ UNCHANGED <<demand, active, uncertain, timerTasks, recovery, mutex, native, peer, shut>>

-----------------------------------------------------------------------------
(* Deactivation.                                                           *)

TimerFires ==
  /\ timer # NoEpoch
  /\ timerTasks' = timerTasks \cup {timer}
  /\ timer' = NoEpoch
  /\ UNCHANGED <<op, demand, active, uncertain, epoch, bgTasks, recovery, mutex, native, peer, shut>>

Mutant_Unfenced(e) == ~closing /\ active

\* A deactivation of epoch e may stop the source: nothing happened since.
MayDeactivate(e) == ~closing /\ e = epoch /\ active /\ ~HasConsumers

Unqueue(e) ==
  \/ e \in timerTasks /\ timerTasks' = timerTasks \ {e} /\ UNCHANGED bgTasks
  \/ e \in bgTasks /\ bgTasks' = bgTasks \ {e} /\ UNCHANGED timerTasks

DeactivateStale(e) ==
  /\ holder = "free"
  /\ ~MayDeactivate(e)
  /\ Unqueue(e)
  /\ UNCHANGED <<op, demand, active, uncertain, fence, recovery, mutex, native, peer, shut>>

Deactivate(e) ==
  /\ holder = "free"
  /\ MayDeactivate(e)
  /\ Unqueue(e)
  /\ timer' = NoEpoch
  /\ Dispatch("deactivate", "stop")
  /\ Demand("stop")
  /\ UNCHANGED <<op, demand, active, uncertain, epoch, recovery, native, shut>>

DeactivateConfirmed ==
  /\ holder = "deactivate"
  /\ Confirmed
  /\ active' = FALSE
  /\ uncertain' = FALSE
  /\ HangUp
  /\ UNCHANGED <<op, demand, fence, tasks, native, peer, shut>>

Mutant_NoRetry == UNCHANGED timer
\* The epoch is still the one of this deactivation unless a later one was queued
\* meanwhile: nothing else advances it during the call.
RetryStop == timer' = IF closing \/ HasConsumers \/ epoch \in bgTasks THEN timer ELSE epoch

\* The peer's worker owns the stop from here on; an unmanaged lease stays
\* active and the stop is retried under the same epoch.
DeactivateFailed ==
  /\ holder = "deactivate"
  /\ MayFail
  /\ uncertain' = TRUE
  /\ IF Managed
     THEN active' = FALSE /\ UNCHANGED timer
     ELSE UNCHANGED active /\ RetryStop
  /\ HangUp
  /\ UNCHANGED <<op, demand, epoch, tasks, native, peer, shut>>

-----------------------------------------------------------------------------
(* Recovery of a watched pipeline whose packets stopped.                   *)

ScheduleRecovery ==
  /\ controller = "pipeline"
  /\ ~closing
  /\ recovery = NoEpoch
  /\ active
  /\ HasViewers
  /\ recovery' = epoch
  /\ UNCHANGED <<op, demand, active, uncertain, fence, timerTasks, bgTasks, mutex, native, peer, shut>>

MayRecover == ~closing /\ recovery = epoch /\ active /\ HasConsumers

RecoverStale ==
  /\ recovery # NoEpoch
  /\ holder = "free"
  /\ ~MayRecover
  /\ recovery' = NoEpoch
  /\ UNCHANGED <<op, demand, active, uncertain, fence, timerTasks, bgTasks, mutex, native, peer, shut>>

Recover ==
  /\ recovery # NoEpoch
  /\ holder = "free"
  /\ MayRecover
  /\ Dispatch("recover", "status")
  /\ UNCHANGED <<op, demand, active, uncertain, fence, tasks, native, peer, shut>>

\* A producer that is applied active is not restarted for want of packets.
RecoverNeedsStart ==
  /\ holder = "recover"
  /\ call = "status"
  /\ ~native
  /\ Dispatch("recover", "start")
  /\ UNCHANGED <<op, demand, active, uncertain, fence, tasks, native, peer, shut>>

\* Still active, or started, or the start failed: recovery ends either way.
RecoverEnds ==
  /\ holder = "recover"
  /\ call = "start" \/ native
  /\ recovery' = NoEpoch
  /\ HangUp
  /\ UNCHANGED <<op, demand, active, uncertain, fence, timerTasks, bgTasks, native, peer, shut>>

-----------------------------------------------------------------------------
(* MediaMTXServer.Close, as far as this source is concerned.               *)

CloseBegins ==
  /\ closeState = "open"
  /\ MaxCloseAttempts > 0
  /\ closeState' = "closing"
  /\ UNCHANGED <<op, demand, active, uncertain, fence, tasks, mutex, native, peer, closeAttempts, shutdownStopped>>

Mutant_DrainedOfSessions ==
  /\ sessions = {}
  /\ \A o \in Op : op[o] \notin {"waiting", "acquiring", "pending", "releasing"}

\* operations and background have drained, the peer's worker among them.
Drained ==
  /\ \A o \in Op : op[o] \notin {"waiting", "acquiring", "pending", "releasing"}
  /\ bgTasks = {}
  /\ recovery = NoEpoch
  /\ flight = NoFlight

Mutant_Unused == ~HasConsumers

\* Nothing was ever started, or its stop was confirmed.
KnownStopped == ~active /\ ~uncertain /\ ~HasConsumers

CloseSource ==
  /\ closeState = "closing"
  /\ ~shutdownStopped
  /\ closeAttempts < MaxCloseAttempts
  /\ Drained
  /\ holder = "free"
  /\ closeAttempts' = closeAttempts + 1
  /\ epoch' = epoch + 1
  /\ timer' = NoEpoch
  /\ IF KnownStopped
     THEN shutdownStopped' = TRUE /\ CloseController /\ UNCHANGED mutex
     ELSE Dispatch("close", "stop") /\ UNCHANGED <<native, shutdownStopped>>
  /\ UNCHANGED <<op, demand, active, uncertain, tasks, peer, closeState>>

CloseConfirmed ==
  /\ holder = "close"
  /\ Confirmed
  /\ shutdownStopped' = TRUE
  /\ active' = FALSE
  /\ uncertain' = FALSE
  /\ CloseController
  /\ HangUp
  /\ UNCHANGED <<op, demand, fence, tasks, peer, closeState, closeAttempts>>

CloseFailed ==
  /\ holder = "close"
  /\ MayFail
  /\ uncertain' = TRUE
  /\ HangUp
  /\ UNCHANGED <<op, demand, active, fence, tasks, native, peer, shut>>

\* The confirmed exit of the MediaMTX child ends the sessions that are left.
CloseCompletes ==
  /\ closeState = "closing"
  /\ shutdownStopped
  /\ holder = "free"
  /\ recordingID = NoOp
  /\ closeState' = "complete"
  /\ op' = [o \in Op |-> IF o \in sessions THEN "done" ELSE op[o]]
  /\ sessions' = {}
  /\ UNCHANGED <<pending, recordingID, active, uncertain, fence, tasks, mutex,
                 native, peer, closeAttempts, shutdownStopped>>

Close == CloseBegins \/ CloseSource \/ CloseConfirmed \/ CloseFailed \/ CloseCompletes

-----------------------------------------------------------------------------

Client(o) ==
  \/ BeginOperation(o) \/ AcquireRefused(o) \/ Acquire(o)
  \/ AcquireConfirmed(o) \/ AcquireFailed(o)
  \/ ReleaseToSession(o) \/ ReleaseToRecording(o) \/ Release(o)
  \/ RemoveSession(o) \/ FinalizeRecording(o) \/ DeactivateUnusedNow(o)

Recovery == ScheduleRecovery \/ RecoverStale \/ Recover \/ RecoverNeedsStart \/ RecoverEnds

Next ==
  \/ \E o \in Op : Client(o)
  \/ TimerFires
  \/ \E e \in timerTasks \cup bgTasks : DeactivateStale(e) \/ Deactivate(e)
  \/ DeactivateConfirmed
  \/ DeactivateFailed
  \/ Recovery
  \/ CallLands
  \/ NativeEnds
  \/ Peer
  \/ Close

Spec == Init /\ [][Next]_vars

(* The scheduler runs what is runnable: callbacks, background tasks, the    *)
(* peer's worker, the continuation of a call.  Clients owe nothing but the *)
(* end of an operation, and no call is delivered forever to no avail: a    *)
(* stop that is retried again and again is confirmed at some time.         *)
Fairness ==
  /\ \A o \in Op :
       /\ WF_vars(AcquireRefused(o) \/ AcquireConfirmed(o) \/ AcquireFailed(o))
       /\ SF_vars(Acquire(o))
       /\ WF_vars(Release(o))
       /\ WF_vars(DeactivateUnusedNow(o))
       /\ WF_vars(closing /\ FinalizeRecording(o))
  /\ WF_vars(TimerFires)
  /\ SF_vars(\E e \in timerTasks \cup bgTasks : DeactivateStale(e) \/ Deactivate(e))
  /\ WF_vars(DeactivateFailed)
  /\ SF_vars(DeactivateConfirmed)
  /\ SF_vars(RecoverStale \/ Recover)
  /\ WF_vars(RecoverNeedsStart \/ RecoverEnds)
  /\ SF_vars(CallLands)
  /\ WF_vars(PeerSends) /\ SF_vars(PeerLands)
  /\ SF_vars(PeerReceives) /\ WF_vars(PeerObserves)
  /\ WF_vars(CloseSource) /\ WF_vars(CloseConfirmed) /\ WF_vars(CloseCompletes)

FairSpec == Spec /\ Fairness

-----------------------------------------------------------------------------
(* What the lease promises.                                                *)

Users == {o \in Op : op[o] = "pending"} \cup sessions \cup ({recordingID} \ {NoOp})

Lease == INSTANCE DemandLease WITH User <- Op, users <- Users, leased <- active, shut <- closing

\* The bookkeeping under two mutexes, with its counters, epochs, timers and
\* calls of unknown outcome, implements the abstract lease.
ImplementsDemandLease == Lease!Spec

\* The counter that keeps a source alive during a negotiation is exactly the
\* number of operations between a granted and a released acquire.
Granted == {o \in Op : op[o] \in {"acquiring", "pending"}}

PendingExact == pending = Cardinality(Granted)

\* While a deactivation's stop is in flight nobody uses the source, although
\* source.mu is free during the call (the lifecycleMu and epoch fence).
StopWithoutConsumers ==
  holder = "deactivate" => active /\ ~HasConsumers

\* Whoever was granted the source holds an active lease until Close: neither
\* a late deactivation nor a failed acquire of somebody else takes it away.
ConsumersHoldLease ==
  /\ \A o \in Op : op[o] = "pending" => active
  /\ HasViewers => active \/ shutdownStopped

\* The bookkeeping of demand: pending counts the operations in progress, a
\* stop is called only while there is no consumer and consumers keep the lease.
\* What follows the three makes them inductive: who holds lifecycleMu, which
\* operation a session belongs to, and that nothing is granted once Close has
\* reached the source.
LeaseInv ==
  /\ PendingExact
  /\ StopWithoutConsumers
  /\ ConsumersHoldLease
  /\ \A o \in Op : op[o] = "acquiring" => holder = "acquire"
  /\ \A o, p \in Op : op[o] = "acquiring" /\ op[p] = "acquiring" => o = p
  /\ \A o \in sessions : op[o] = "served" /\ o # recordingID
  /\ recordingID # NoOp => op[recordingID] = "served"
  /\ holder = "close" \/ shutdownStopped => closing /\ Granted = {}

\* The types and the bookkeeping; neither speaks of the native source.
DemandInv == TypeOK /\ LeaseInv

\* A running producer is always somebody's to stop: the lease is active or
\* uncertain, a call is in flight, or the peer's worker owes it a revision.
NativeOwned ==
  native => \/ active \/ uncertain
            \/ holder # "free"
            \/ flight # NoFlight \/ appliedRevision # desiredRevision

\* Close reports success only once the producer is stopped.
ClosedMeansStopped ==
  closeState = "complete" => ~native

\* The same of a source without a worker, where no reply comes late.
UnmanagedCloseStops == ~Managed => ClosedMeansStopped

\* A stop never lands on a source that a viewer or a recording holds.
StopSparesViewers ==
  [][native /\ ~native' => NativeEnds \/ ~HasViewers \/ closing]_vars

\* The holder of lifecycleMu and its call: a stop that landed stopped the
\* source, a recovery is that of an active pipeline, and Close, which drained
\* everything else, is the last holder.
CallInv ==
  /\ holder = "free" => call = "none"
  /\ holder = "acquire" => call = "start"
  /\ holder \in {"deactivate", "close"} => call = "stop"
  /\ holder = "recover" => call # "stop" /\ active /\ recovery # NoEpoch
  /\ recovery # NoEpoch => controller = "pipeline"
  /\ landed => Direct
  /\ landed /\ call = "stop" => ~native
  /\ shutdownStopped => holder = "free"
  /\ holder = "close" \/ shutdownStopped => flight = NoFlight
  /\ closeState = "complete" => shutdownStopped

\* The revisions of a managed source: the worker's request carries a desired
\* state that is not applied yet, and the last one unless another followed;
\* a source whose last revision is applied runs only if that was a start.
RevisionInv ==
  /\ ~Managed => flight = NoFlight /\ appliedRevision = desiredRevision
  /\ appliedRevision <= desiredRevision
  /\ flight.phase = "none" => flight = NoFlight
  /\ flight.phase \in {"sent", "landed"} =>
       appliedRevision < flight.revision /\ flight.revision <= desiredRevision
  /\ flight.phase = "received" => flight.revision = appliedRevision
  /\ flight.phase # "none" /\ flight.revision = desiredRevision => flight.active = desiredActive
  /\ flight.phase = "landed" => native = flight.active
  /\ Managed /\ ~Owes /\ native => desiredActive

\* Somebody was granted the source.
Held == HasViewers \/ \E o \in Op : op[o] = "pending"

\* Who wants the source to run: a desired start is that of an active lease or
\* of the acquire in progress, and whoever was granted the source has no stop
\* of the past under way to it.
OwnerInv ==
  /\ NativeOwned
  /\ Managed /\ desiredActive /\ ~shutdownStopped => active \/ holder = "acquire"
  /\ Managed => /\ holder = "acquire" => desiredActive
                /\ holder = "deactivate" => ~desiredActive
  /\ shutdownStopped /\ ~Owes => ~native
  /\ Managed /\ ~closing /\ Held => desiredActive /\ (flight.phase = "sent" => flight.active)

NativeInv == CallInv /\ RevisionInv /\ OwnerInv

\* What every step keeps: the types, the bookkeeping of demand, and what the
\* native source does for it.
IInv == DemandInv /\ NativeInv

\* Once all demand is gone, the source is stopped and the lease released,
\* however many stops fail: by the retries of an unmanaged source, by the
\* worker of a managed one.  After that it is the business of Close.
EventuallyParked ==
  (\A o \in Op : op[o] = "done") ~> (~native /\ ~active) \/ closing

\* Close is not kept waiting for ever by operations, callbacks or recovery: it
\* completes unless each of its attempts to stop the source failed.
CloseTerminates ==
  closing ~> closeState = "complete" \/ (closeAttempts = MaxCloseAttempts /\ uncertain)
=============================================================================

------------------------- MODULE SourceLease_proofs -------------------------
(***************************************************************************)
(* Safety of the source lease, for every set of operations and every kind  *)
(* of controller.                                                          *)
(***************************************************************************)
EXTENDS SourceLease, FiniteSetTheorems, TLAPS

-----------------------------------------------------------------------------
(* The operations that hold a pending reference, as op changes.            *)

\* The granted operations are finitely many, so the counter is a number that
\* is zero exactly when there is none.
LEMMA GrantedFinite ==
  /\ IsFiniteSet(Granted)
  /\ Cardinality(Granted) \in Nat
  /\ Cardinality(Granted) = 0 <=> Granted = {}
<1>1. Granted \in SUBSET Op
  BY DEF Granted
<1>2. IsFiniteSet(Granted)
  BY <1>1, FS_Subset, ConstantsAssumption DEF ConstantsAssumption
<1> QED
  BY <1>2, FS_CardinalityType, FS_EmptySet

\* An operation that gains a reference raises the counter by one.
LEMMA GrantedGrows ==
  ASSUME TypeOK, PendingExact, NEW o \in Op, NEW s \in {"acquiring", "pending"},
         op[o] \notin {"acquiring", "pending"},
         op' = [op EXCEPT ![o] = s], pending' = pending + 1
  PROVE  PendingExact'
<1>1. Granted' = Granted \cup {o} /\ o \notin Granted
  BY DEF Granted, TypeOK
<1>2. Cardinality(Granted \cup {o}) = Cardinality(Granted) + 1
  BY <1>1, GrantedFinite, FS_AddElement
<1> QED
  BY <1>1, <1>2 DEF PendingExact

\* An operation that drops its reference lowers it by one, from at least one.
LEMMA GrantedShrinks ==
  ASSUME TypeOK, PendingExact, NEW o \in Op, NEW s,
         s \notin {"acquiring", "pending"},
         op[o] \in {"acquiring", "pending"},
         op' = [op EXCEPT ![o] = s], pending' = pending - 1
  PROVE  PendingExact' /\ pending' \in Nat
<1>1. Granted' = Granted \ {o} /\ o \in Granted
  BY DEF Granted, TypeOK
<1>2. Cardinality(Granted \ {o}) = Cardinality(Granted) - 1
  BY <1>1, GrantedFinite, FS_RemoveElement
<1>3. Cardinality(Granted) # 0
  BY <1>1, GrantedFinite
<1> QED
  BY <1>1, <1>2, <1>3, GrantedFinite DEF PendingExact

\* Any other progress of an operation leaves the granted ones alone.
LEMMA GrantedKept ==
  ASSUME TypeOK, NEW o \in Op, NEW s,
         s \in {"acquiring", "pending"} <=> op[o] \in {"acquiring", "pending"},
         op' = [op EXCEPT ![o] = s]
  PROVE  Granted' = Granted
BY DEF Granted, TypeOK

\* A granted operation is a consumer.
LEMMA GrantedConsumes ==
  ASSUME TypeOK, PendingExact, NEW o \in Op, op[o] \in {"acquiring", "pending"}
  PROVE  HasConsumers /\ pending # 0
<1>1. o \in Granted
  BY DEF Granted
<1> QED
  BY <1>1, GrantedFinite DEF PendingExact, HasConsumers

-----------------------------------------------------------------------------
(* The inductive invariant.                                                *)

\* A source nobody has asked for.
LEMMA InitDemandInv == Init => DemandInv
<1> SUFFICES ASSUME Init PROVE DemandInv
  OBVIOUS
<1>1. TypeOK
  BY DEF Init, TypeOK, NoEpoch, NoFlight
<1>2. Granted = {}
  BY DEF Init, Granted
<1>3. PendingExact
  BY <1>2, FS_EmptySet DEF Init, PendingExact
<1> QED
  BY <1>1, <1>2, <1>3, ConstantsAssumption
     DEF Init, DemandInv, LeaseInv, StopWithoutConsumers, ConsumersHoldLease, HasViewers, ConstantsAssumption

\* A new revision is a number.
DemandTyped ==
  /\ controller' \in Controllers
  /\ desiredActive' \in BOOLEAN
  /\ desiredRevision' \in Nat /\ appliedRevision' \in Nat
  /\ flight' \in [phase : {"none", "sent", "landed", "received"},
                  revision : Nat, active : BOOLEAN]

\* The parts of the demand have their types.
LEMMA DemandType ==
  ASSUME TypeOK, NEW operation, Demand(operation)
  PROVE  DemandTyped
<1>1. /\ desiredActive' = desiredActive \/ desiredActive' = (operation = "start")
      /\ desiredRevision' = desiredRevision \/ desiredRevision' = desiredRevision + 1
      /\ appliedRevision' = appliedRevision /\ flight' = flight /\ controller' = controller
  BY DEF Demand, peer
<1>2. desiredActive' \in BOOLEAN
  BY <1>1 DEF TypeOK
<1> QED
  BY <1>1, <1>2 DEF TypeOK, DemandTyped

\* Steps of the peer, of timers and of the native source leave everything the
\* invariant speaks of alone.
LEMMA LeaseInvKept ==
  ASSUME LeaseInv, UNCHANGED <<op, demand, active, holder, closeState, shutdownStopped>>
  PROVE  LeaseInv'
BY DEF LeaseInv, PendingExact, Granted, StopWithoutConsumers, ConsumersHoldLease,
       HasConsumers, HasViewers, demand, closing

\* The client operations.
LEMMA ClientStep ==
  ASSUME DemandInv, NEW o \in Op, Client(o)
  PROVE  DemandInv'
<1> USE DEF DemandInv
<1>1. CASE BeginOperation(o)
  <2>1. Granted' = Granted
    BY <1>1, GrantedKept DEF BeginOperation
  <2> QED
    BY <1>1, <2>1 DEF BeginOperation, TypeOK, LeaseInv, PendingExact, StopWithoutConsumers,
       ConsumersHoldLease, HasConsumers, HasViewers, closing, demand, fence, tasks, mutex, peer, shut
<1>2. CASE AcquireRefused(o)
  <2>1. Granted' = Granted
    BY <1>2, GrantedKept DEF AcquireRefused
  <2> QED
    BY <1>2, <2>1 DEF AcquireRefused, TypeOK, LeaseInv, PendingExact, StopWithoutConsumers,
       ConsumersHoldLease, HasConsumers, HasViewers, closing, demand, fence, tasks, mutex, peer, shut
<1>3. CASE Acquire(o)
  <2>1. PendingExact'
    <3>1. PICK s \in {"acquiring", "pending"} : op' = [op EXCEPT ![o] = s]
      BY <1>3 DEF Acquire
    <3> QED
      BY <1>3, <3>1, GrantedGrows DEF Acquire, LeaseInv, RaisePending
  <2>2. TypeOK'
    <3>1. /\ op' \in [Op -> {"idle", "waiting", "acquiring", "pending", "releasing",
                            "served", "removing", "done"}]
          /\ holder' \in {"free", "acquire", "deactivate", "recover", "close"}
          /\ call' \in {"none", "status", "start", "stop"}
          /\ landed' \in BOOLEAN
      BY <1>3 DEF Acquire, Dispatch, TypeOK, mutex
    <3>2. DemandTyped
      BY <1>3, DemandType DEF Acquire, DemandTyped, TypeOK, peer
    <3> QED
      BY <1>3, <3>1, <3>2 DEF Acquire, RaisePending, DemandTyped, TypeOK, tasks, shut, NoEpoch
  <2>3. CASE Joins
    BY <1>3, <2>1, <2>2, <2>3 DEF Acquire, Joins, TypeOK, LeaseInv, StopWithoutConsumers,
       ConsumersHoldLease, HasConsumers, HasViewers, closing, Granted, tasks, mutex, peer, shut
  <2>4. CASE ~Joins
    BY <1>3, <2>1, <2>2, <2>4 DEF Acquire, Dispatch, TypeOK, LeaseInv, StopWithoutConsumers,
       ConsumersHoldLease, HasConsumers, HasViewers, closing, Granted, tasks, shut
  <2> QED
    BY <2>3, <2>4
<1>4. CASE AcquireConfirmed(o)
  <2>1. Granted' = Granted
    BY <1>4, GrantedKept DEF AcquireConfirmed
  <2> QED
    BY <1>4, <2>1 DEF AcquireConfirmed, HangUp, TypeOK, LeaseInv, PendingExact, StopWithoutConsumers,
       ConsumersHoldLease, HasConsumers, HasViewers, closing, demand, fence, tasks, peer, shut
<1>5. CASE AcquireFailed(o)
  <2>1. PendingExact' /\ pending' \in Nat
    BY <1>5, GrantedShrinks DEF AcquireFailed, ReleasePending, LeaseInv
  <2>2. epoch' \in Nat /\ timer' \in Nat
    BY <1>5 DEF AcquireFailed, TypeOK, fence
  <2>3. op' \in [Op -> {"idle", "waiting", "acquiring", "pending", "releasing",
                       "served", "removing", "done"}]
    BY <1>5 DEF AcquireFailed, TypeOK
  <2>4. TypeOK'
    BY <1>5, <2>1, <2>2, <2>3 DEF AcquireFailed, KeepLease, HangUp, TypeOK, tasks, peer, shut
  <2> QED
    BY <1>5, <2>1, <2>4 DEF AcquireFailed, KeepLease, HangUp, TypeOK, LeaseInv, StopWithoutConsumers,
       ConsumersHoldLease, HasConsumers, HasViewers, closing, Granted, tasks, peer, shut
<1>6. CASE ReleaseToSession(o)
  <2>1. PendingExact' /\ pending' \in Nat
    BY <1>6, GrantedShrinks DEF ReleaseToSession, ReleasePending, LeaseInv
  <2>2. TypeOK'
    BY <1>6, <2>1 DEF ReleaseToSession, TypeOK, fence, tasks, mutex, peer, shut
  <2>3. HasConsumers
    BY <1>6, GrantedConsumes DEF ReleaseToSession, LeaseInv
  <2> QED
    BY <1>6, <2>1, <2>2, <2>3, ConstantsAssumption DEF ReleaseToSession, TypeOK, LeaseInv, StopWithoutConsumers,
       ConsumersHoldLease, HasViewers, closing, Granted, tasks, mutex, peer, shut, ConstantsAssumption
<1>7. CASE ReleaseToRecording(o)
  <2>1. PendingExact' /\ pending' \in Nat
    BY <1>7, GrantedShrinks DEF ReleaseToRecording, ReleasePending, LeaseInv
  <2>2. TypeOK'
    BY <1>7, <2>1 DEF ReleaseToRecording, TypeOK, fence, tasks, mutex, peer, shut
  <2>3. HasConsumers
    BY <1>7, GrantedConsumes DEF ReleaseToRecording, LeaseInv
  <2> QED
    BY <1>7, <2>1, <2>2, <2>3 DEF ReleaseToRecording, TypeOK, LeaseInv, StopWithoutConsumers,
       ConsumersHoldLease, HasViewers, closing, Granted, tasks, mutex, peer, shut
<1>8. CASE Release(o)
  <2>1. PICK s \in {"releasing", "done"} : op' = [op EXCEPT ![o] = s]
    BY <1>8 DEF Release
  <2>2. PendingExact' /\ pending' \in Nat
    BY <1>8, <2>1, GrantedShrinks DEF Release, ReleasePending, LeaseInv
  <2>3. HasConsumers
    BY <1>8, GrantedConsumes DEF Release, LeaseInv
  <2> QED
    BY <1>8, <2>1, <2>2, <2>3 DEF Release, TypeOK, LeaseInv, StopWithoutConsumers,
       ConsumersHoldLease, HasViewers, closing, Granted, fence, tasks, mutex, peer, shut
<1>9. CASE RemoveSession(o)
  <2>1. PICK s \in {"removing", "done"} : op' = [op EXCEPT ![o] = s]
    BY <1>9 DEF RemoveSession
  <2>2. op[o] = "served" /\ o \in sessions
    BY <1>9 DEF RemoveSession, LeaseInv
  <2>3. Granted' = Granted
    BY <2>1, <2>2, GrantedKept
  <2> QED
    BY <1>9, <2>1, <2>2, <2>3 DEF RemoveSession, TypeOK, LeaseInv, PendingExact, StopWithoutConsumers,
       ConsumersHoldLease, HasConsumers, HasViewers, closing, fence, tasks, mutex, peer, shut
<1>10. CASE FinalizeRecording(o)
  <2>1. PICK s \in {"removing", "done"} : op' = [op EXCEPT ![o] = s]
    BY <1>10 DEF FinalizeRecording
  <2>2. op[o] = "served"
    BY <1>10, ConstantsAssumption DEF FinalizeRecording, LeaseInv, ConstantsAssumption
  <2>3. Granted' = Granted
    BY <2>1, <2>2, GrantedKept
  <2> QED
    BY <1>10, <2>1, <2>2, <2>3, ConstantsAssumption DEF FinalizeRecording, TypeOK, LeaseInv, PendingExact,
       StopWithoutConsumers, ConsumersHoldLease, HasConsumers, HasViewers, closing, fence, tasks, mutex,
       peer, shut, ConstantsAssumption
<1>11. CASE DeactivateUnusedNow(o)
  <2>1. Granted' = Granted
    BY <1>11, GrantedKept DEF DeactivateUnusedNow
  <2>2. epoch' \in Nat /\ timer' \in Nat /\ bgTasks' \in SUBSET Nat
    <3>1. epoch \in Nat /\ timer \in Nat /\ bgTasks \in SUBSET Nat
      BY DEF TypeOK
    <3>2. \/ epoch' = epoch /\ timer' = timer /\ bgTasks' = bgTasks
          \/ epoch' = epoch + 1 /\ timer' = 0 /\ bgTasks' = bgTasks \cup {epoch + 1}
      BY <1>11 DEF DeactivateUnusedNow, NoEpoch, fence
    <3>3. bgTasks \cup {epoch + 1} \in SUBSET Nat
      BY <3>1
    <3>4. epoch' \in Nat /\ timer' \in Nat
      BY <3>1, <3>2
    <3>5. bgTasks' \in SUBSET Nat
      BY <3>1, <3>2, <3>3
    <3> QED
      BY <3>4, <3>5
  <2>3. TypeOK'
    BY <1>11, <2>2 DEF DeactivateUnusedNow, TypeOK, demand, mutex, peer, shut
  <2> QED
    BY <1>11, <2>1, <2>3 DEF DeactivateUnusedNow, LeaseInv, TypeOK, PendingExact, StopWithoutConsumers,
       ConsumersHoldLease, HasConsumers, HasViewers, closing, demand, mutex, shut
<1> QED
  BY <1>1, <1>2, <1>3, <1>4, <1>5, <1>6, <1>7, <1>8, <1>9, <1>10, <1>11 DEF Client

\* The deactivations that timers and background tasks run.
LEMMA DeactivationStep ==
  ASSUME DemandInv,
         \/ TimerFires
         \/ \E e \in timerTasks \cup bgTasks : DeactivateStale(e) \/ Deactivate(e)
         \/ DeactivateConfirmed
         \/ DeactivateFailed
  PROVE  DemandInv'
<1> USE DEF DemandInv
<1>1. CASE TimerFires
  <2>1. TypeOK'
    BY <1>1 DEF TimerFires, TypeOK, demand, mutex, peer, shut, NoEpoch
  <2> QED
    BY <1>1, <2>1, LeaseInvKept DEF TimerFires, mutex, shut
<1>2. ASSUME NEW e \in timerTasks \cup bgTasks, DeactivateStale(e)
      PROVE  DemandInv'
  <2>1. timerTasks' \in SUBSET Nat /\ bgTasks' \in SUBSET Nat
    BY <1>2 DEF DeactivateStale, Unqueue, TypeOK
  <2>2. UNCHANGED <<op, demand, active, uncertain, fence, recovery, mutex, native, peer, shut>>
    BY <1>2 DEF DeactivateStale
  <2>3. TypeOK'
    BY <2>1, <2>2 DEF TypeOK, demand, fence, mutex, peer, shut
  <2> QED
    BY <2>2, <2>3, LeaseInvKept DEF mutex, shut
<1>3. ASSUME NEW e \in timerTasks \cup bgTasks, Deactivate(e)
      PROVE  DemandInv'
  <2>1. DemandTyped
    BY <1>3, DemandType DEF Deactivate
  <2>2. timerTasks' \in SUBSET Nat /\ bgTasks' \in SUBSET Nat
    BY <1>3 DEF Deactivate, Unqueue, TypeOK
  <2>3. TypeOK'
    <3>1. /\ timer' = 0 /\ holder' = "deactivate" /\ call' = "stop" /\ landed' = FALSE
          /\ UNCHANGED <<op, demand, active, uncertain, epoch, recovery, native, shut>>
      BY <1>3 DEF Deactivate, Dispatch, NoEpoch
    <3> QED
      BY <2>1, <2>2, <3>1 DEF DemandTyped, TypeOK, demand, shut
  <2>4. Granted' = Granted /\ closing' = closing
    BY <1>3 DEF Deactivate, Granted, closing, shut
  <2>5. \A o \in Op : op[o] # "acquiring"
    BY <1>3 DEF Deactivate, LeaseInv
  <2> QED
    BY <1>3, <2>3, <2>4, <2>5 DEF Deactivate, Dispatch, MayDeactivate, LeaseInv, PendingExact,
       StopWithoutConsumers, ConsumersHoldLease, HasConsumers, HasViewers, demand, shut
<1>4. ASSUME DeactivateConfirmed \/ DeactivateFailed
      PROVE  DemandInv'
  <2>1. ~HasConsumers /\ holder = "deactivate"
    BY <1>4 DEF DeactivateConfirmed, DeactivateFailed, LeaseInv, StopWithoutConsumers
  <2>2. Granted = {}
    BY <2>1, GrantedConsumes DEF Granted, LeaseInv
  <2>3. timer' \in Nat
    BY <1>4 DEF DeactivateConfirmed, DeactivateFailed, RetryStop, TypeOK, fence
  <2>4. active' \in BOOLEAN
    BY <1>4 DEF DeactivateConfirmed, DeactivateFailed, TypeOK
  <2>5. TypeOK'
    BY <1>4, <2>3, <2>4 DEF DeactivateConfirmed, DeactivateFailed, HangUp, TypeOK,
       demand, fence, tasks, peer, shut
  <2>6. Granted' = Granted /\ closing' = closing
    BY <1>4 DEF DeactivateConfirmed, DeactivateFailed, Granted, closing, shut
  <2>7. /\ holder' = "free"
        /\ UNCHANGED <<op, pending, sessions, recordingID, closeState, closeAttempts, shutdownStopped>>
    BY <1>4 DEF DeactivateConfirmed, DeactivateFailed, HangUp, demand, shut
  <2>8. (\A o \in Op : op[o] \notin {"acquiring", "pending"}) /\ ~HasViewers
    BY <2>1, <2>2 DEF Granted, HasConsumers, HasViewers
  <2> QED
    BY <2>1, <2>2, <2>5, <2>6, <2>7, <2>8 DEF LeaseInv,
       PendingExact, StopWithoutConsumers, ConsumersHoldLease, HasConsumers, HasViewers
<1> QED
  BY <1>1, <1>2, <1>3, <1>4

\* Recovery takes lifecycleMu only while it is free and changes no demand.
LEMMA RecoveryStep ==
  ASSUME DemandInv, Recovery
  PROVE  DemandInv'
<1> USE DEF DemandInv
<1>1. CASE ScheduleRecovery \/ RecoverStale
  <2>1. TypeOK'
    <3>1. recovery' \in Nat
      BY <1>1 DEF ScheduleRecovery, RecoverStale, TypeOK, NoEpoch
    <3>2. UNCHANGED <<op, demand, active, uncertain, fence, timerTasks, bgTasks, mutex, native, peer, shut>>
      BY <1>1 DEF ScheduleRecovery, RecoverStale
    <3> QED
      BY <3>1, <3>2 DEF TypeOK, demand, fence, mutex, peer, shut
  <2> QED
    BY <1>1, <2>1, LeaseInvKept DEF ScheduleRecovery, RecoverStale, mutex, shut
<1>2. CASE Recover \/ RecoverNeedsStart \/ RecoverEnds
  <2>1. TypeOK'
    <3>1. recovery' \in Nat
      BY <1>2 DEF Recover, RecoverNeedsStart, RecoverEnds, tasks, TypeOK, NoEpoch
    <3>2. /\ holder' \in {"free", "acquire", "deactivate", "recover", "close"}
          /\ call' \in {"none", "status", "start", "stop"}
          /\ landed' \in BOOLEAN
      BY <1>2 DEF Recover, RecoverNeedsStart, RecoverEnds, Dispatch, HangUp
    <3>3. UNCHANGED <<op, demand, active, uncertain, fence, timerTasks, bgTasks, native, peer, shut>>
      BY <1>2 DEF Recover, RecoverNeedsStart, RecoverEnds, tasks
    <3> QED
      BY <3>1, <3>2, <3>3 DEF TypeOK, demand, fence, peer, shut
  <2>2. holder \in {"free", "recover"} /\ holder' \in {"free", "recover"}
    BY <1>2 DEF Recover, RecoverNeedsStart, RecoverEnds, Dispatch, HangUp
  <2>3. Granted' = Granted /\ UNCHANGED <<op, demand, active, closeState, shutdownStopped>>
    BY <1>2 DEF Recover, RecoverNeedsStart, RecoverEnds, Granted, shut
  <2> QED
    BY <2>1, <2>2, <2>3 DEF LeaseInv, PendingExact, StopWithoutConsumers,
       ConsumersHoldLease, HasConsumers, HasViewers, closing, demand
<1> QED
  BY <1>1, <1>2 DEF Recovery

\* The native source and the peer's worker.
LEMMA NativeStep ==
  ASSUME DemandInv, CallLands \/ NativeEnds \/ Peer
  PROVE  DemandInv'
<1> USE DEF DemandInv
<1>1. UNCHANGED <<op, demand, active, fence, tasks, holder, call, shut>>
  BY DEF CallLands, NativeEnds, Peer, PeerSends, PeerLands, PeerReceives, PeerObserves, PeerFails, mutex
<1>2. uncertain' \in BOOLEAN /\ landed' \in BOOLEAN /\ native' \in BOOLEAN
  BY DEF CallLands, NativeEnds, Peer, PeerSends, PeerLands, PeerReceives, PeerObserves, PeerFails, mutex, TypeOK
<1>3. DemandTyped
  <2>1. CASE CallLands \/ NativeEnds
    BY <2>1 DEF CallLands, NativeEnds, peer, TypeOK, DemandTyped
  <2>2. CASE PeerSends
    BY <2>2 DEF PeerSends, TypeOK, DemandTyped
  <2>3. CASE PeerLands
    <3>1. flight' \in [phase : {"none", "sent", "landed", "received"}, revision : Nat, active : BOOLEAN]
      BY <2>3 DEF PeerLands, TypeOK
    <3> QED
      BY <2>3, <3>1 DEF PeerLands, TypeOK, DemandTyped
  <2>4. CASE PeerReceives
    BY <2>4 DEF PeerReceives, TypeOK, DemandTyped
  <2>5. CASE PeerObserves \/ PeerFails
    <3>1. flight' = [phase |-> "none", revision |-> 0, active |-> FALSE]
      BY <2>5 DEF PeerObserves, PeerFails, NoFlight
    <3>2. flight' \in [phase : {"none", "sent", "landed", "received"}, revision : Nat, active : BOOLEAN]
      BY <3>1
    <3> QED
      BY <2>5, <3>2 DEF PeerObserves, PeerFails, TypeOK, DemandTyped
  <2> QED
    BY <2>1, <2>2, <2>3, <2>4, <2>5 DEF Peer
<1>4. TypeOK'
  BY <1>1, <1>2, <1>3 DEF TypeOK, DemandTyped, demand, fence, tasks, shut
<1> QED
  BY <1>1, <1>4, LeaseInvKept DEF shut

\* Close reaches the source with no operation left, and ends what is left.
LEMMA CloseStep ==
  ASSUME DemandInv, Close
  PROVE  DemandInv'
<1> USE DEF DemandInv
<1>1. CASE CloseBegins
  <2>1. TypeOK'
    BY <1>1 DEF CloseBegins, TypeOK, demand, fence, tasks, mutex, peer
  <2> QED
    BY <1>1, <2>1 DEF CloseBegins, LeaseInv, PendingExact, Granted, StopWithoutConsumers,
       ConsumersHoldLease, HasConsumers, HasViewers, closing, demand, mutex
<1>2. CASE CloseSource
  <2>1. TypeOK'
    <3>1. /\ holder' \in {"free", "acquire", "deactivate", "recover", "close"}
          /\ call' \in {"none", "status", "start", "stop"}
          /\ landed' \in BOOLEAN /\ native' \in BOOLEAN /\ shutdownStopped' \in BOOLEAN
      BY <1>2 DEF CloseSource, Dispatch, CloseController, TypeOK, mutex
    <3>2. /\ epoch' \in Nat /\ timer' \in Nat /\ closeAttempts' \in Nat
          /\ UNCHANGED <<op, demand, active, uncertain, tasks, peer, closeState>>
      BY <1>2 DEF CloseSource, TypeOK, NoEpoch
    <3> QED
      BY <3>1, <3>2 DEF TypeOK, demand, tasks, peer
  <2>2. Granted = {}
    BY <1>2 DEF CloseSource, Drained, Granted
  <2>3. Granted' = Granted
    BY <1>2 DEF CloseSource, Granted
  <2>4. holder' \in {"free", "close"}
    BY <1>2 DEF CloseSource, Dispatch, mutex
  <2> QED
    BY <1>2, <2>1, <2>2, <2>3, <2>4 DEF CloseSource, LeaseInv, PendingExact, Granted, StopWithoutConsumers,
       ConsumersHoldLease, HasConsumers, HasViewers, closing, demand, tasks, peer
<1>3. CASE CloseConfirmed \/ CloseFailed
  <2>1. TypeOK'
    BY <1>3 DEF CloseConfirmed, CloseFailed, HangUp, CloseController, TypeOK, demand, fence, tasks, peer, shut
  <2>2. Granted = {} /\ closing
    BY <1>3 DEF CloseConfirmed, CloseFailed, LeaseInv
  <2>3. Granted' = Granted /\ closing' = closing
    BY <1>3 DEF CloseConfirmed, CloseFailed, Granted, closing, shut
  <2> QED
    BY <1>3, <2>1, <2>2, <2>3 DEF CloseConfirmed, CloseFailed, HangUp, LeaseInv, PendingExact, Granted,
       StopWithoutConsumers, ConsumersHoldLease, HasConsumers, HasViewers, demand, shut
<1>4. CASE CloseCompletes
  <2>1. Granted' = Granted
    BY <1>4 DEF CloseCompletes, LeaseInv, TypeOK, Granted
  <2>2. op' \in [Op -> {"idle", "waiting", "acquiring", "pending", "releasing",
                       "served", "removing", "done"}]
    BY <1>4 DEF CloseCompletes, TypeOK
  <2>3. TypeOK'
    BY <1>4, <2>2 DEF CloseCompletes, TypeOK, fence, tasks, mutex, peer
  <2>4. Granted = {} /\ Granted' = {}
    BY <1>4, <2>1 DEF CloseCompletes, LeaseInv
  <2> QED
    BY <1>4, <2>1, <2>3, <2>4 DEF CloseCompletes, LeaseInv, PendingExact, Granted, StopWithoutConsumers,
       ConsumersHoldLease, HasConsumers, HasViewers, closing, mutex
<1> QED
  BY <1>1, <1>2, <1>3, <1>4 DEF Close

\* A stuttering step changes nothing.
LEMMA StutterStep ==
  ASSUME DemandInv, UNCHANGED vars
  PROVE  DemandInv'
<1> UNCHANGED <<op, demand, active, uncertain, fence, tasks, mutex, native, peer, shut>>
  BY DEF vars
<1>1. TypeOK'
  BY DEF DemandInv, TypeOK, demand, fence, tasks, mutex, peer, shut
<1> QED
  BY <1>1, LeaseInvKept DEF DemandInv, mutex, shut

\* Every step preserves the invariant.
LEMMA StepDemandInv == DemandInv /\ [Next]_vars => DemandInv'
BY ClientStep, DeactivationStep, RecoveryStep, NativeStep, CloseStep, StutterStep DEF Next

-----------------------------------------------------------------------------
(* The native source.                                                      *)

\* Steps that leave the source, its controller and the holder of lifecycleMu
\* alone, and give the source to nobody.
LEMMA NativeInvKept ==
  ASSUME NativeInv, Held' => Held, closing => closing', closeState' = "complete" => shutdownStopped,
         UNCHANGED <<active, uncertain, recovery, mutex, native, peer, shutdownStopped>>
  PROVE  NativeInv'
<1>1. UNCHANGED <<active, uncertain, recovery, holder, call, landed, native, shutdownStopped>>
  BY DEF mutex
<1>2. UNCHANGED <<controller, desiredActive, desiredRevision, appliedRevision, flight>>
  BY DEF peer
<1>3. CallInv'
  BY <1>1, <1>2 DEF NativeInv, CallInv, Direct, Managed
<1>4. RevisionInv'
  BY <1>1, <1>2 DEF NativeInv, RevisionInv, Managed, Owes
<1>5. OwnerInv'
  BY <1>1, <1>2 DEF NativeInv, OwnerInv, NativeOwned, Managed, Owes
<1> QED
  BY <1>3, <1>4, <1>5 DEF NativeInv

\* beginDemand: a new revision is later than the applied one and the one in
\* flight, so the source may run whatever it desires.
LEMMA RevisionRaised ==
  ASSUME TypeOK, RevisionInv, Managed, desiredRevision' = desiredRevision + 1,
         UNCHANGED <<controller, native, appliedRevision, flight>>
  PROVE  RevisionInv'
<1>1. /\ desiredRevision \in Nat /\ appliedRevision \in Nat
      /\ flight \in [phase : {"none", "sent", "landed", "received"}, revision : Nat, active : BOOLEAN]
  BY DEF TypeOK
<1>2. flight.phase # "none" => flight.revision <= desiredRevision
  BY <1>1 DEF RevisionInv
<1>3. flight.phase \in {"sent", "landed"} => flight.revision <= desiredRevision'
  BY <1>1, <1>2
<1>4. flight.phase # "none" => flight.revision # desiredRevision'
  BY <1>1, <1>2
<1>5. appliedRevision <= desiredRevision' /\ appliedRevision # desiredRevision'
  BY <1>1 DEF RevisionInv
<1> QED
  BY <1>3, <1>4, <1>5 DEF RevisionInv, Managed, Owes

\* Only a confirmed acquire grants the source; a pending operation that
\* becomes a session or a recording held it before.
LEMMA ClientNative ==
  ASSUME DemandInv, NativeInv, NEW o \in Op, Client(o)
  PROVE  NativeInv'
<1> USE DEF DemandInv
<1>0. UNCHANGED <<closeState, shutdownStopped>> /\ closing' = closing
  BY DEF Client, BeginOperation, AcquireRefused, Acquire, AcquireConfirmed, AcquireFailed,
     ReleaseToSession, ReleaseToRecording, Release, RemoveSession, FinalizeRecording,
     DeactivateUnusedNow, shut, closing
<1>c. closeState = "complete" => shutdownStopped
  BY DEF NativeInv, CallInv
<1>1. CASE BeginOperation(o) \/ AcquireRefused(o) \/ DeactivateUnusedNow(o)
  <2>1. PICK s \in {"waiting", "done"} : op' = [op EXCEPT ![o] = s]
    BY <1>1 DEF BeginOperation, AcquireRefused, DeactivateUnusedNow
  <2>2. UNCHANGED <<demand, active, uncertain, recovery, mutex, native, peer>>
    BY <1>1 DEF BeginOperation, AcquireRefused, DeactivateUnusedNow, tasks
  <2>3. Held' => Held
    BY <2>1, <2>2 DEF Held, HasViewers, TypeOK, demand
  <2> QED
    BY <1>0, <1>c, <2>2, <2>3, NativeInvKept
<1>2. CASE ReleaseToSession(o) \/ ReleaseToRecording(o) \/ Release(o) \/ RemoveSession(o) \/ FinalizeRecording(o)
  <2>1. UNCHANGED <<active, uncertain, recovery, mutex, native, peer>>
    BY <1>2 DEF ReleaseToSession, ReleaseToRecording, Release, RemoveSession, FinalizeRecording, tasks
  <2>2. Held' => Held
    <3>1. CASE op[o] = "pending"
      BY <3>1 DEF Held
    <3>2. CASE RemoveSession(o) \/ FinalizeRecording(o)
      <4>1. PICK s \in {"removing", "done"} : op' = [op EXCEPT ![o] = s]
        BY <3>2 DEF RemoveSession, FinalizeRecording
      <4>2. HasViewers' => HasViewers
        BY <3>2 DEF RemoveSession, FinalizeRecording, HasViewers
      <4> QED
        BY <4>1, <4>2 DEF Held, TypeOK
    <3> QED
      BY <1>2, <3>1, <3>2 DEF ReleaseToSession, ReleaseToRecording, Release
  <2> QED
    BY <1>0, <1>c, <2>1, <2>2, NativeInvKept
<1>3. CASE Acquire(o)
  <2>1. CASE Joins
    <3>1. ~Managed /\ UNCHANGED <<active, uncertain, recovery, mutex, native, peer>>
      BY <1>3, <2>1 DEF Acquire, Joins, tasks
    <3>2. UNCHANGED <<holder, call, landed, controller, desiredActive, desiredRevision, appliedRevision, flight>>
      BY <3>1 DEF mutex, peer
    <3>3. CallInv' /\ RevisionInv'
      BY <1>0, <3>1, <3>2 DEF NativeInv, CallInv, Direct, RevisionInv, Managed, Owes
    <3>4. OwnerInv'
      BY <1>0, <3>1, <3>2 DEF NativeInv, OwnerInv, NativeOwned, Managed, Owes
    <3> QED
      BY <3>3, <3>4 DEF NativeInv
  <2>2. CASE ~Joins
    <3>1. /\ holder = "free" /\ ~closing /\ holder' = "acquire" /\ call' = "start" /\ landed' = FALSE
          /\ UNCHANGED <<active, uncertain, recovery, native>>
      BY <1>3, <2>2 DEF Acquire, Dispatch, tasks
    <3>2. ~shutdownStopped /\ closeState # "complete"
      BY <3>1 DEF LeaseInv, closing
    <3>3. /\ UNCHANGED <<controller, appliedRevision, flight>>
          /\ ~Managed => UNCHANGED <<desiredRevision, desiredActive>>
          /\ Managed => \/ desiredRevision' = desiredRevision + 1 /\ desiredActive' = TRUE
                        \/ desiredRevision' = desiredRevision /\ desiredActive = TRUE /\ desiredActive' = TRUE
      BY <1>3, <2>2 DEF Acquire, Demand, peer, TypeOK
    <3>4. CallInv'
      BY <1>0, <3>1, <3>2, <3>3 DEF NativeInv, CallInv, Direct, Managed
    <3>5. RevisionInv'
      <4>1. CASE UNCHANGED <<desiredRevision, desiredActive>>
        BY <3>1, <3>3, <4>1 DEF NativeInv, RevisionInv, Managed, Owes
      <4>2. CASE desiredRevision' = desiredRevision + 1 /\ Managed
        BY <3>1, <3>3, <4>2, RevisionRaised DEF NativeInv
      <4>3. desiredActive' = desiredActive \/ desiredRevision' = desiredRevision + 1
        BY <3>3
      <4> QED
        BY <3>3, <4>1, <4>2, <4>3
    <3>6. Held' => Held
      <4>1. op' = [op EXCEPT ![o] = "acquiring"] /\ UNCHANGED <<sessions, recordingID>>
        BY <1>3, <2>2 DEF Acquire
      <4> QED
        BY <4>1 DEF Held, HasViewers, TypeOK
    <3>7. OwnerInv'
      BY <1>0, <3>1, <3>2, <3>3, <3>6 DEF NativeInv, OwnerInv, NativeOwned, Managed, Owes
    <3> QED
      BY <3>4, <3>5, <3>7 DEF NativeInv
  <2> QED
    BY <2>1, <2>2
<1>4. CASE AcquireConfirmed(o) \/ AcquireFailed(o)
  <2>1. /\ holder = "acquire" /\ ~shutdownStopped /\ active' = TRUE
        /\ holder' = "free" /\ call' = "none" /\ landed' = FALSE
        /\ UNCHANGED <<recovery, native, controller, desiredActive, desiredRevision, appliedRevision, flight>>
    BY <1>4 DEF AcquireConfirmed, AcquireFailed, KeepLease, HangUp, LeaseInv, Granted, tasks, peer
  <2>2. CallInv'
    BY <1>0, <2>1 DEF NativeInv, CallInv
  <2>3. RevisionInv'
    BY <2>1 DEF NativeInv, RevisionInv, Managed, Owes
  <2>4. Managed /\ ~closing /\ Held' => desiredActive /\ (flight.phase = "sent" => flight.active)
    <3>1. CASE AcquireConfirmed(o)
      <4>1. Managed => appliedRevision >= desiredRevision
        BY <2>1, <3>1 DEF AcquireConfirmed, Confirmed, Direct
      <4>2. /\ desiredRevision \in Nat /\ appliedRevision \in Nat
            /\ flight \in [phase : {"none", "sent", "landed", "received"}, revision : Nat, active : BOOLEAN]
        BY DEF TypeOK
      <4>3. Managed => flight.phase # "sent"
        BY <4>1, <4>2 DEF NativeInv, RevisionInv
      <4> QED
        BY <2>1, <4>3 DEF NativeInv, OwnerInv
    <3>2. CASE AcquireFailed(o)
      <4>1. Held' => Held
        BY <3>2 DEF AcquireFailed, Held, HasViewers, TypeOK
      <4> QED
        BY <4>1 DEF NativeInv, OwnerInv
    <3> QED
      BY <1>4, <3>1, <3>2
  <2>5. OwnerInv'
    BY <1>0, <2>1, <2>4 DEF NativeInv, OwnerInv, NativeOwned, Managed, Owes
  <2> QED
    BY <2>2, <2>3, <2>5 DEF NativeInv
<1> QED
  BY <1>1, <1>2, <1>3, <1>4 DEF Client

\* The deactivations call only a stop, after which nothing is desired.
LEMMA DeactivationNative ==
  ASSUME DemandInv, NativeInv,
         \/ TimerFires
         \/ \E e \in timerTasks \cup bgTasks : DeactivateStale(e) \/ Deactivate(e)
         \/ DeactivateConfirmed
         \/ DeactivateFailed
  PROVE  NativeInv'
<1> USE DEF DemandInv
<1>0. UNCHANGED <<op, demand, closeState, shutdownStopped>> /\ closing' = closing /\ Held' = Held
  BY DEF TimerFires, DeactivateStale, Deactivate, DeactivateConfirmed, DeactivateFailed,
     shut, closing, Held, HasViewers, demand
<1>1. CASE TimerFires \/ \E e \in timerTasks \cup bgTasks : DeactivateStale(e)
  <2>1. UNCHANGED <<active, uncertain, recovery, mutex, native, peer>>
    BY <1>1 DEF TimerFires, DeactivateStale
  <2> QED
    BY <1>0, <2>1, NativeInvKept DEF NativeInv, CallInv
<1>2. ASSUME NEW e \in timerTasks \cup bgTasks, Deactivate(e)
      PROVE  NativeInv'
  <2>1. /\ holder = "free" /\ ~closing /\ active /\ ~HasConsumers
        /\ holder' = "deactivate" /\ call' = "stop" /\ landed' = FALSE
        /\ UNCHANGED <<active, uncertain, recovery, native>>
    BY <1>2 DEF Deactivate, MayDeactivate, Dispatch
  <2>2. /\ UNCHANGED <<controller, appliedRevision, flight>>
        /\ ~Managed => UNCHANGED <<desiredRevision, desiredActive>>
        /\ Managed => \/ desiredRevision' = desiredRevision + 1 /\ desiredActive' = FALSE
                      \/ UNCHANGED <<desiredRevision, desiredActive>> /\ desiredActive' = FALSE
    BY <1>2 DEF Deactivate, Demand, peer, TypeOK
  <2>3. ~Held
    BY <2>1, GrantedConsumes DEF Held, HasConsumers, HasViewers, LeaseInv
  <2>4. CallInv'
    BY <1>0, <2>1, <2>2 DEF NativeInv, CallInv, Direct, Managed, LeaseInv
  <2>5. RevisionInv'
    <3>1. CASE UNCHANGED <<desiredRevision, desiredActive>>
      BY <2>1, <2>2, <3>1 DEF NativeInv, RevisionInv, Managed, Owes
    <3>2. CASE desiredRevision' = desiredRevision + 1 /\ Managed
      BY <2>1, <2>2, <3>2, RevisionRaised DEF NativeInv
    <3> QED
      BY <2>2, <3>1, <3>2
  <2>6. OwnerInv'
    BY <1>0, <2>1, <2>2, <2>3 DEF NativeInv, OwnerInv, NativeOwned, Managed, Owes, LeaseInv
  <2> QED
    BY <2>4, <2>5, <2>6 DEF NativeInv
<1>3. CASE DeactivateConfirmed
  <2>1. /\ holder = "deactivate" /\ Confirmed
        /\ active' = FALSE /\ uncertain' = FALSE /\ holder' = "free" /\ call' = "none" /\ landed' = FALSE
        /\ UNCHANGED <<recovery, native, controller, desiredActive, desiredRevision, appliedRevision, flight>>
    BY <1>3 DEF DeactivateConfirmed, HangUp, tasks, peer
  <2>2. ~Held
    <3>1. ~HasConsumers
      BY <2>1 DEF LeaseInv, StopWithoutConsumers
    <3> QED
      BY <3>1, GrantedConsumes DEF Held, HasConsumers, HasViewers, LeaseInv
  <2>3. ~native
    <3>1. CASE ~Managed
      BY <2>1, <3>1 DEF Confirmed, Direct, NativeInv, CallInv
    <3>2. CASE Managed
      <4>1. appliedRevision >= desiredRevision
        BY <2>1, <3>2 DEF Confirmed, Direct
      <4>2. ~Owes
        BY <4>1 DEF Owes, NativeInv, RevisionInv, TypeOK
      <4> QED
        BY <2>1, <3>2, <4>2 DEF NativeInv, RevisionInv, OwnerInv
    <3> QED
      BY <3>1, <3>2
  <2>4. CallInv'
    BY <1>0, <2>1 DEF NativeInv, CallInv
  <2>5. RevisionInv'
    BY <2>1 DEF NativeInv, RevisionInv, Managed, Owes
  <2>6. OwnerInv'
    BY <1>0, <2>1, <2>2, <2>3 DEF NativeInv, OwnerInv, NativeOwned, Managed, Owes
  <2> QED
    BY <2>4, <2>5, <2>6 DEF NativeInv
<1>4. CASE DeactivateFailed
  <2>1. /\ holder = "deactivate" /\ uncertain' = TRUE /\ active' \in {active, FALSE}
        /\ holder' = "free" /\ call' = "none" /\ landed' = FALSE
        /\ UNCHANGED <<recovery, native, controller, desiredActive, desiredRevision, appliedRevision, flight>>
    BY <1>4 DEF DeactivateFailed, HangUp, tasks, peer
  <2>2. CallInv'
    BY <1>0, <2>1 DEF NativeInv, CallInv
  <2>3. RevisionInv'
    BY <2>1 DEF NativeInv, RevisionInv, Managed, Owes
  <2>4. OwnerInv'
    BY <1>0, <2>1 DEF NativeInv, OwnerInv, NativeOwned, Managed, Owes
  <2> QED
    BY <2>2, <2>3, <2>4 DEF NativeInv
<1> QED
  BY <1>1, <1>2, <1>3, <1>4

\* A recovery restarts an active pipeline only.
LEMMA RecoveryNative ==
  ASSUME DemandInv, NativeInv, Recovery
  PROVE  NativeInv'
<1> USE DEF DemandInv
<1>1. /\ UNCHANGED <<active, uncertain, native, controller, desiredActive, desiredRevision,
                     appliedRevision, flight, closeState, shutdownStopped>>
      /\ closing' = closing /\ Held' = Held
  BY DEF Recovery, ScheduleRecovery, RecoverStale, Recover, RecoverNeedsStart, RecoverEnds, demand,
     peer, shut, closing, Held, HasViewers
<1>3. CallInv'
  <2>1. CASE ScheduleRecovery
    BY <1>1, <2>1 DEF ScheduleRecovery, NativeInv, CallInv, Direct, Managed, mutex
  <2>2. CASE RecoverStale
    BY <1>1, <2>2 DEF RecoverStale, NativeInv, CallInv, Direct, Managed, mutex, NoEpoch
  <2>3. CASE Recover
    BY <1>1, <2>3 DEF Recover, MayRecover, Dispatch, NativeInv, CallInv, LeaseInv, tasks
  <2>4. CASE RecoverNeedsStart
    BY <1>1, <2>4 DEF RecoverNeedsStart, Dispatch, NativeInv, CallInv, tasks
  <2>5. CASE RecoverEnds
    BY <1>1, <2>5 DEF RecoverEnds, HangUp, NativeInv, CallInv, NoEpoch
  <2> QED
    BY <2>1, <2>2, <2>3, <2>4, <2>5 DEF Recovery
<1>4. RevisionInv'
  BY <1>1 DEF NativeInv, RevisionInv, Managed, Owes
<1>5. OwnerInv'
  <2>2. CASE holder = "recover"
    BY <1>1, <2>2 DEF NativeInv, CallInv, OwnerInv, NativeOwned, Managed, Owes
  <2>3. CASE holder # "recover"
    <3>1. holder' = holder \/ (holder = "free" /\ holder' = "recover")
      <4>1. CASE ScheduleRecovery \/ RecoverStale
        BY <4>1 DEF ScheduleRecovery, RecoverStale, mutex
      <4>2. CASE Recover
        BY <4>2 DEF Recover, Dispatch
      <4> QED
        BY <2>3, <4>1, <4>2 DEF Recovery, RecoverNeedsStart, RecoverEnds
    <3> QED
      BY <1>1, <3>1 DEF NativeInv, CallInv, OwnerInv, NativeOwned, Managed, Owes
  <2> QED
    BY <2>2, <2>3
<1> QED
  BY <1>3, <1>4, <1>5 DEF NativeInv

\* What the worker of the peer does, and the exit of a pipeline.
LEMMA PeerNative ==
  ASSUME DemandInv, NativeInv, CallLands \/ NativeEnds \/ Peer
  PROVE  NativeInv'
<1> USE DEF DemandInv
<1>1. UNCHANGED <<op, demand, active, recovery, holder, call, controller, desiredActive, desiredRevision,
                  closeState, shutdownStopped>>
  BY DEF CallLands, NativeEnds, Peer, PeerSends, PeerLands, PeerReceives, PeerObserves, PeerFails,
     tasks, mutex, peer, shut
<1>2. closing' = closing /\ Held' = Held /\ Managed' = Managed
  BY <1>1 DEF closing, Held, HasViewers, demand, Managed
<1>3. /\ desiredRevision \in Nat /\ appliedRevision \in Nat /\ desiredActive \in BOOLEAN
      /\ flight \in [phase : {"none", "sent", "landed", "received"}, revision : Nat, active : BOOLEAN]
  BY DEF TypeOK
<1>4. CASE CallLands
  <2>1. UNCHANGED <<uncertain, appliedRevision, flight>> /\ landed' = TRUE /\ native' = (call = "start")
    BY <1>4 DEF CallLands, peer
  <2>2. /\ Direct /\ holder # "free" /\ ~shutdownStopped
        /\ Managed => holder = "close" /\ call = "stop" /\ flight = NoFlight
    BY <1>4 DEF CallLands, Direct, NativeInv, CallInv
  <2>3. CallInv'
    BY <1>1, <2>1, <2>2 DEF NativeInv, CallInv, Direct, Managed
  <2>4. RevisionInv'
    <3>1. flight = NoFlight /\ flight.phase = "none"
      BY <2>2 DEF NativeInv, RevisionInv, NoFlight
    <3> QED
      BY <1>1, <1>2, <2>1, <2>2, <3>1 DEF NativeInv, RevisionInv, Owes
  <2>5. OwnerInv'
    BY <1>1, <1>2, <2>1, <2>2 DEF NativeInv, OwnerInv, NativeOwned, Owes
  <2> QED
    BY <2>3, <2>4, <2>5 DEF NativeInv
<1>5. CASE NativeEnds
  <2>1. UNCHANGED <<uncertain, appliedRevision, flight, landed>> /\ native' = FALSE /\ ~Managed
    BY <1>5 DEF NativeEnds, peer, mutex, Managed
  <2>2. CallInv'
    BY <1>1, <2>1 DEF NativeInv, CallInv, Direct, Managed
  <2>3. RevisionInv'
    BY <1>1, <1>2, <2>1 DEF NativeInv, RevisionInv, Owes, NoFlight
  <2>4. OwnerInv'
    BY <1>1, <1>2, <2>1 DEF NativeInv, OwnerInv, NativeOwned, Owes
  <2> QED
    BY <2>2, <2>3, <2>4 DEF NativeInv
<1>6. CASE PeerSends
  <2>1. /\ Managed /\ ~closing /\ flight = NoFlight /\ Owes
        /\ flight' = [phase |-> "sent", revision |-> desiredRevision, active |-> desiredActive]
        /\ UNCHANGED <<uncertain, appliedRevision, landed, native>>
    BY <1>6 DEF PeerSends, mutex
  <2>2. flight'.phase = "sent" /\ flight'.revision = desiredRevision /\ flight'.active = desiredActive
    BY <2>1
  <2>3. holder # "close" /\ ~shutdownStopped
    BY <2>1 DEF LeaseInv
  <2>4. CallInv'
    BY <1>1, <2>1, <2>3 DEF NativeInv, CallInv, Direct, Managed
  <2>5. RevisionInv'
    <3>1. appliedRevision < desiredRevision
      BY <1>3, <2>1 DEF NativeInv, RevisionInv, Owes
    <3> QED
      BY <1>1, <1>2, <1>3, <2>1, <2>2, <3>1 DEF NativeInv, RevisionInv, Owes
  <2>6. OwnerInv'
    BY <1>1, <1>2, <2>1, <2>2 DEF NativeInv, OwnerInv, NativeOwned, Owes
  <2> QED
    BY <2>4, <2>5, <2>6 DEF NativeInv
<1>7. CASE PeerLands
  <2>1. /\ flight.phase = "sent" /\ native' = flight.active
        /\ flight' = [flight EXCEPT !.phase = "landed"]
        /\ UNCHANGED <<uncertain, appliedRevision, landed>>
    BY <1>7 DEF PeerLands, mutex
  <2>2. flight'.phase = "landed" /\ flight'.revision = flight.revision /\ flight'.active = flight.active
    BY <1>3, <2>1
  <2>3. Managed /\ Owes /\ holder # "close" /\ ~shutdownStopped /\ ~landed
    BY <1>3, <2>1 DEF NativeInv, CallInv, RevisionInv, Owes, NoFlight, Direct
  <2>4. flight' # NoFlight
    BY <2>2 DEF NoFlight
  <2>5. CallInv'
    BY <1>1, <2>1, <2>3 DEF NativeInv, CallInv, Direct, Managed
  <2>6. RevisionInv'
    BY <1>1, <1>2, <2>1, <2>2, <2>3 DEF NativeInv, RevisionInv, Owes
  <2>7. OwnerInv'
    BY <1>1, <1>2, <2>1, <2>2, <2>3, <2>4 DEF NativeInv, OwnerInv, NativeOwned, Owes
  <2> QED
    BY <2>5, <2>6, <2>7 DEF NativeInv
<1>8. CASE PeerReceives
  <2>1. /\ flight.phase = "landed" /\ appliedRevision' = flight.revision
        /\ flight' = [flight EXCEPT !.phase = "received"]
        /\ UNCHANGED <<uncertain, landed, native>>
    BY <1>8 DEF PeerReceives, mutex
  <2>2. flight'.phase = "received" /\ flight'.revision = flight.revision /\ flight'.active = flight.active
    BY <1>3, <2>1
  <2>3. Managed /\ holder # "close" /\ ~shutdownStopped
    BY <1>3, <2>1 DEF NativeInv, CallInv, RevisionInv, NoFlight
  <2>4. flight' # NoFlight
    BY <2>2 DEF NoFlight
  <2>5. CallInv'
    BY <1>1, <2>1, <2>3 DEF NativeInv, CallInv, Direct, Managed
  <2>6. RevisionInv'
    BY <1>1, <1>2, <2>1, <2>2, <2>3 DEF NativeInv, RevisionInv, Owes
  <2>7. OwnerInv'
    BY <1>1, <1>2, <2>1, <2>2, <2>3, <2>4 DEF NativeInv, OwnerInv, NativeOwned, Owes
  <2> QED
    BY <2>5, <2>6, <2>7 DEF NativeInv
<1>9. CASE PeerObserves \/ PeerFails
  <2>1. /\ flight.phase # "none" /\ flight' = NoFlight
        /\ UNCHANGED <<appliedRevision, landed, native>>
        /\ flight.phase = "received" \/ uncertain' = uncertain
    BY <1>9 DEF PeerObserves, PeerFails, mutex
  <2>2. flight'.phase = "none"
    BY <2>1 DEF NoFlight
  <2>3. Managed /\ holder # "close" /\ ~shutdownStopped
    BY <1>3, <2>1 DEF NativeInv, CallInv, RevisionInv, NoFlight
  <2>4. CallInv'
    BY <1>1, <2>1, <2>3 DEF NativeInv, CallInv, Direct, Managed
  <2>5. RevisionInv'
    BY <1>1, <1>2, <2>1, <2>2, <2>3 DEF NativeInv, RevisionInv, Owes
  <2>6. holder = "acquire" => holder # "free"
    OBVIOUS
  <2>7. OwnerInv'
    BY <1>1, <1>2, <2>1, <2>2, <2>3 DEF NativeInv, RevisionInv, OwnerInv, NativeOwned, Owes
  <2> QED
    BY <2>4, <2>5, <2>7 DEF NativeInv
<1> QED
  BY <1>4, <1>5, <1>6, <1>7, <1>8, <1>9 DEF Peer

\* Close stops what it cannot tell to be stopped, and is the last to call.
LEMMA CloseNative ==
  ASSUME DemandInv, NativeInv, Close
  PROVE  NativeInv'
<1> USE DEF DemandInv
<1>1. CASE CloseBegins \/ CloseCompletes
  <2>1. /\ UNCHANGED <<active, uncertain, recovery, mutex, native, peer, shutdownStopped>>
        /\ closing'
        /\ closeState' = "complete" => shutdownStopped
    BY <1>1 DEF CloseBegins, CloseCompletes, tasks, closing
  <2>2. Held' => Held
    BY <1>1 DEF CloseBegins, CloseCompletes, Held, HasViewers, demand, TypeOK
  <2> QED
    BY <2>1, <2>2, NativeInvKept
<1>2. CASE CloseSource
  <2>1. /\ closeState = "closing" /\ ~shutdownStopped /\ flight = NoFlight /\ recovery = NoEpoch
        /\ holder = "free"
        /\ UNCHANGED <<op, demand, active, uncertain, recovery, controller, desiredActive, desiredRevision,
                       appliedRevision, flight, closeState>>
    BY <1>2 DEF CloseSource, Drained, tasks, peer
  <2>2. call = "none" /\ flight.phase = "none"
    BY <2>1 DEF NativeInv, CallInv, NoFlight
  <2>3. CASE KnownStopped
    <3>1. shutdownStopped' = TRUE /\ native' = (native /\ controller # "pipeline") /\ UNCHANGED <<holder, call, landed>>
      BY <1>2, <2>3 DEF CloseSource, CloseController, mutex
    <3>2. ~Owes => ~native
      BY <2>1, <2>3 DEF KnownStopped, NativeInv, OwnerInv, NativeOwned, Owes
    <3>3. CallInv'
      BY <2>1, <2>2, <3>1 DEF NativeInv, CallInv, Direct, Managed
    <3>4. RevisionInv'
      BY <2>1, <2>2, <3>1 DEF NativeInv, RevisionInv, Managed, Owes
    <3>5. OwnerInv'
      BY <2>1, <3>1, <3>2 DEF NativeInv, OwnerInv, NativeOwned, Managed, Owes, closing
    <3> QED
      BY <3>3, <3>4, <3>5 DEF NativeInv
  <2>4. CASE ~KnownStopped
    <3>1. /\ holder' = "close" /\ call' = "stop" /\ landed' = FALSE
          /\ UNCHANGED <<native, shutdownStopped>>
      BY <1>2, <2>4 DEF CloseSource, Dispatch
    <3>2. CallInv'
      BY <2>1, <2>2, <3>1 DEF NativeInv, CallInv, Direct, Managed
    <3>3. RevisionInv'
      BY <2>1, <3>1 DEF NativeInv, RevisionInv, Managed, Owes
    <3>4. OwnerInv'
      BY <2>1, <3>1 DEF NativeInv, OwnerInv, NativeOwned, Managed, Owes, closing
    <3> QED
      BY <3>2, <3>3, <3>4 DEF NativeInv
  <2> QED
    BY <2>3, <2>4
<1>3. CASE CloseConfirmed
  <2>1. /\ holder = "close" /\ landed /\ closing /\ holder' = "free" /\ call' = "none" /\ landed' = FALSE
        /\ native' = (native /\ controller # "pipeline") /\ shutdownStopped' = TRUE
        /\ UNCHANGED <<op, demand, recovery, controller, desiredActive, desiredRevision,
                       appliedRevision, flight, closeState>>
    BY <1>3 DEF CloseConfirmed, Confirmed, Direct, HangUp, CloseController, tasks, peer, LeaseInv
  <2>2. call = "stop" /\ ~native /\ flight = NoFlight
    BY <2>1 DEF NativeInv, CallInv
  <2>3. CallInv'
    BY <2>1, <2>2 DEF NativeInv, CallInv
  <2>4. RevisionInv'
    BY <2>1, <2>2 DEF NativeInv, RevisionInv, Managed, Owes, NoFlight
  <2>5. OwnerInv'
    BY <2>1, <2>2 DEF NativeInv, OwnerInv, NativeOwned, Managed, Owes, closing
  <2> QED
    BY <2>3, <2>4, <2>5 DEF NativeInv
<1>4. CASE CloseFailed
  <2>1. /\ holder = "close" /\ closing /\ holder' = "free" /\ call' = "none" /\ landed' = FALSE
        /\ uncertain' = TRUE
        /\ UNCHANGED <<op, demand, active, recovery, native, controller, desiredActive, desiredRevision,
                       appliedRevision, flight, closeState, shutdownStopped>>
    BY <1>4 DEF CloseFailed, HangUp, tasks, peer, LeaseInv, shut
  <2>2. CallInv'
    BY <2>1 DEF NativeInv, CallInv
  <2>3. RevisionInv'
    BY <2>1 DEF NativeInv, RevisionInv, Managed, Owes
  <2>4. OwnerInv'
    BY <2>1 DEF NativeInv, OwnerInv, NativeOwned, Managed, Owes, closing
  <2> QED
    BY <2>2, <2>3, <2>4 DEF NativeInv
<1> QED
  BY <1>1, <1>2, <1>3, <1>4 DEF Close

\* A stuttering step changes nothing of it either.
LEMMA StutterNative ==
  ASSUME DemandInv, NativeInv, UNCHANGED vars
  PROVE  NativeInv'
<1>1. UNCHANGED <<op, demand, active, uncertain, tasks, mutex, native, peer, shut>>
  BY DEF vars
<1>2. UNCHANGED <<active, uncertain, recovery, mutex, native, peer, closeState, shutdownStopped>>
  BY <1>1 DEF tasks, shut
<1>3. Held' = Held /\ closing' = closing
  BY <1>1, <1>2 DEF Held, HasViewers, closing, demand
<1> QED
  BY <1>2, <1>3, NativeInvKept DEF NativeInv, CallInv

\* Nothing runs, and nothing is desired, before the first acquire.
LEMMA InitIInv == Init => IInv
<1> SUFFICES ASSUME Init PROVE IInv
  OBVIOUS
<1>1. DemandInv
  BY InitDemandInv
<1>2. CallInv /\ RevisionInv
  BY DEF Init, CallInv, RevisionInv, Direct, Managed, Owes, NoEpoch, NoFlight
<1>3. OwnerInv
  BY DEF Init, OwnerInv, NativeOwned, Managed, Owes, Held, HasViewers
<1> QED
  BY <1>1, <1>2, <1>3 DEF IInv, NativeInv

\* Every step preserves both parts.
LEMMA StepIInv == IInv /\ [Next]_vars => IInv'
BY StepDemandInv, ClientNative, DeactivationNative, RecoveryNative, PeerNative, CloseNative, StutterNative
   DEF IInv, Next

\* The inductive invariant of acquire, release, deactivation and Close holds
\* throughout: types, exact counting, stops only without consumers, and a
\* native source that runs for somebody.
THEOREM Invariance == Spec => []IInv
BY InitIInv, StepIInv, PTL DEF Spec

-----------------------------------------------------------------------------
(* The results.                                                            *)

\* The pending counter of the source is exact: acquire's failure path and the
\* three ways of releasePending are balanced in every interleaving.
THEOREM PendingIsExact == Spec => []PendingExact
<1>1. IInv => PendingExact
  BY DEF IInv, DemandInv, LeaseInv
<1> QED
  BY <1>1, Invariance, PTL

\* deactivateIfUnused never has a stop in flight while a consumer exists:
\* lifecycleMu keeps new ones waiting and the epoch fence the old stop away.
THEOREM StopsAreSafe == Spec => []StopWithoutConsumers
<1>1. IInv => StopWithoutConsumers
  BY DEF IInv, DemandInv, LeaseInv
<1> QED
  BY <1>1, Invariance, PTL

\* A viewer, recording or negotiation in progress holds an active lease until
\* Close stops the source.
THEOREM LeaseHeld == Spec => []ConsumersHoldLease
<1>1. IInv => ConsumersHoldLease
  BY DEF IInv, DemandInv, LeaseInv
<1> QED
  BY <1>1, Invariance, PTL

\* A producer that runs is never forgotten: some party will stop it.
THEOREM RunningIsOwned == Spec => []NativeOwned
<1>1. IInv => NativeOwned
  BY DEF IInv, NativeInv, OwnerInv
<1> QED
  BY <1>1, Invariance, PTL

\* Close of a source without a worker reports success only once the producer
\* is stopped, however many of its calls lost their reply.
THEOREM CloseStops == Spec => []UnmanagedCloseStops
<1>1. IInv => UnmanagedCloseStops
  BY DEF IInv, NativeInv, CallInv, RevisionInv, OwnerInv, Owes, UnmanagedCloseStops, ClosedMeansStopped
<1> QED
  BY <1>1, Invariance, PTL

\* The producer goes away under a viewer only by itself or by Close: neither a
\* call of deactivateIfUnused nor a delayed request of the peer's worker lands
\* on a source that has been granted again.
THEOREM ViewersAreSpared == Spec => StopSparesViewers
<1> DEFINE Spared == native /\ ~native' => NativeEnds \/ ~HasViewers \/ closing
<1>1. ASSUME IInv, Next PROVE Spared
  <2> SUFFICES ASSUME native, ~native', ~NativeEnds, HasViewers, ~closing
               PROVE  FALSE
    OBVIOUS
  <2>1. CallLands \/ PeerLands
    BY <1>1 DEF Next, Client, BeginOperation, AcquireRefused, Acquire, AcquireConfirmed, AcquireFailed,
       ReleaseToSession, ReleaseToRecording, Release, RemoveSession, FinalizeRecording,
       DeactivateUnusedNow, TimerFires, DeactivateStale, Deactivate, DeactivateConfirmed, DeactivateFailed,
       Recovery, ScheduleRecovery, RecoverStale, Recover, RecoverNeedsStart, RecoverEnds,
       Peer, PeerSends, PeerReceives, PeerObserves, PeerFails,
       Close, CloseBegins, CloseSource, CloseConfirmed, CloseFailed, CloseCompletes,
       closing, IInv, DemandInv, LeaseInv
  <2>2. CASE CallLands
    <3>1. call = "stop"
      BY <2>2 DEF CallLands
    <3>2. holder \in {"deactivate", "close"}
      BY <1>1, <3>1 DEF IInv, DemandInv, TypeOK, NativeInv, CallInv
    <3> QED
      BY <1>1, <3>2 DEF IInv, DemandInv, LeaseInv, StopWithoutConsumers, HasConsumers, HasViewers
  <2>3. CASE PeerLands
    <3>1. flight.phase = "sent" /\ ~flight.active
      BY <2>3 DEF PeerLands
    <3>2. Managed
      BY <1>1, <3>1 DEF IInv, NativeInv, RevisionInv, NoFlight
    <3> QED
      BY <1>1, <3>1, <3>2 DEF IInv, NativeInv, OwnerInv, Held
  <2> QED
    BY <2>1, <2>2, <2>3
<1>2. IInv /\ [Next]_vars => [Spared]_vars
  BY <1>1
<1> QED
  BY <1>2, Invariance, PTL DEF Spec, StopSparesViewers

-----------------------------------------------------------------------------
(* The lease implements its promise.                                       *)

\* The users follow from who is pending, viewing and recording.
LEMMA UsersKept ==
  ASSUME NEW o \in Op, TypeOK, NEW s,
         op' = [op EXCEPT ![o] = s], s = "pending" <=> op[o] = "pending",
         UNCHANGED <<sessions, recordingID>>
  PROVE  Users' = Users
BY DEF Users, TypeOK

\* A client's step grants, claims, leaves or changes nothing for the lease.
LEMMA ClientImplements ==
  ASSUME DemandInv, NEW o \in Op, Client(o)
  PROVE  [Lease!Next]_(Lease!vars)
<1> USE DEF DemandInv
<1>0. UNCHANGED <<closeState, shutdownStopped>>
  BY DEF Client, BeginOperation, AcquireRefused, Acquire, AcquireConfirmed, AcquireFailed,
     ReleaseToSession, ReleaseToRecording, Release, RemoveSession, FinalizeRecording,
     DeactivateUnusedNow, shut
<1>c. closing' = closing
  BY <1>0 DEF closing
<1>1. CASE \/ BeginOperation(o) \/ AcquireRefused(o) \/ DeactivateUnusedNow(o)
  <2>1. Users' = Users /\ active' = active
    BY <1>1, UsersKept DEF BeginOperation, AcquireRefused, DeactivateUnusedNow, demand
  <2> QED
    BY <2>1, <1>c DEF Lease!vars
<1>2. CASE Acquire(o)
  <2>1. CASE Joins
    <3>1. Users' = Users \cup {o} /\ o \notin Users /\ active' = TRUE
      BY <1>2, <2>1, ConstantsAssumption
         DEF Acquire, Joins, Users, LeaseInv, TypeOK, ConstantsAssumption
    <3> QED
      BY <3>1, <1>c DEF Lease!Next, Lease!Grant
  <2>2. CASE ~Joins
    <3>1. Users' = Users /\ active' = active
      BY <1>2, <2>2, UsersKept DEF Acquire
    <3> QED
      BY <3>1, <1>c DEF Lease!vars
  <2> QED
    BY <2>1, <2>2
<1>3. CASE AcquireConfirmed(o)
  <2>1. Users' = Users \cup {o} /\ o \notin Users /\ active' = TRUE
    BY <1>3 DEF AcquireConfirmed, Users, LeaseInv, TypeOK, demand
  <2> QED
    BY <2>1, <1>c DEF Lease!Next, Lease!Grant
<1>4. CASE AcquireFailed(o)
  <2>1. Users' = Users /\ active' = TRUE
    BY <1>4, UsersKept DEF AcquireFailed, KeepLease
  <2> QED
    BY <2>1, <1>c DEF Lease!Next, Lease!Claim
<1>5. CASE ReleaseToSession(o) \/ ReleaseToRecording(o)
  <2>1. Users' = Users /\ active' = active
    BY <1>5, ConstantsAssumption
       DEF ReleaseToSession, ReleaseToRecording, Users, TypeOK, ConstantsAssumption
  <2> QED
    BY <2>1, <1>c DEF Lease!vars
<1>6. CASE Release(o)
  <2>1. PICK s \in {"releasing", "done"} : op' = [op EXCEPT ![o] = s]
    BY <1>6 DEF Release
  <2>2. op[o] = "pending" /\ o \notin sessions /\ o # recordingID
    BY <1>6, ConstantsAssumption DEF Release, LeaseInv, ConstantsAssumption
  <2>3. Users' = Users \ {o} /\ o \in Users /\ active' = active
    BY <1>6, <2>1, <2>2 DEF Release, Users, TypeOK
  <2> QED
    BY <2>3, <1>c DEF Lease!Next, Lease!Leave
<1>7. CASE RemoveSession(o)
  <2>1. PICK s \in {"removing", "done"} : op' = [op EXCEPT ![o] = s]
    BY <1>7 DEF RemoveSession
  <2>2. op[o] = "served" /\ o \in sessions /\ o # recordingID
    BY <1>7 DEF RemoveSession, LeaseInv
  <2>3. Users' = Users \ {o} /\ o \in Users /\ active' = active
    BY <1>7, <2>1, <2>2 DEF RemoveSession, Users, TypeOK
  <2> QED
    BY <2>3, <1>c DEF Lease!Next, Lease!Leave
<1>8. CASE FinalizeRecording(o)
  <2>1. PICK s \in {"removing", "done"} : op' = [op EXCEPT ![o] = s]
    BY <1>8 DEF FinalizeRecording
  <2>2. op[o] = "served" /\ o \notin sessions /\ recordingID = o /\ o # NoOp /\ recordingID' = NoOp
    BY <1>8, ConstantsAssumption DEF FinalizeRecording, LeaseInv, ConstantsAssumption
  <2>3. Users' = Users \ {o} /\ o \in Users /\ active' = active
    BY <1>8, <2>1, <2>2 DEF FinalizeRecording, Users, TypeOK
  <2> QED
    BY <2>3, <1>c DEF Lease!Next, Lease!Leave
<1> QED
  BY <1>1, <1>2, <1>3, <1>4, <1>5, <1>6, <1>7, <1>8 DEF Client

\* A deactivation parks the lease, and only while it has no users.
LEMMA DeactivationImplements ==
  ASSUME DemandInv, DeactivateConfirmed \/ DeactivateFailed
  PROVE  [Lease!Next]_(Lease!vars)
<1>1. ~HasConsumers
  BY DEF IInv, DemandInv, LeaseInv, StopWithoutConsumers, DeactivateConfirmed, DeactivateFailed
<1>2. Granted = {}
  BY <1>1, GrantedConsumes DEF DemandInv, Granted, LeaseInv
<1>3. Users = {} /\ Users' = Users /\ closing' = closing
  BY <1>1, <1>2 DEF Users, Granted, HasConsumers, DeactivateConfirmed, DeactivateFailed,
     demand, shut, closing
<1>4. active' = FALSE \/ active' = active
  BY DEF DeactivateConfirmed, DeactivateFailed
<1> QED
  BY <1>3, <1>4 DEF Lease!Next, Lease!Park, Lease!vars

\* Close shuts down, seizes the lease and evicts whoever is left.
LEMMA CloseImplements ==
  ASSUME DemandInv, Close
  PROVE  [Lease!Next]_(Lease!vars)
<1>1. CASE CloseBegins
  <2>1. Users' = Users /\ active' = active /\ closing' = TRUE
    BY <1>1 DEF CloseBegins, Users, closing, demand
  <2> QED
    BY <2>1 DEF Lease!Next, Lease!BeginShutdown
<1>2. CASE CloseSource \/ CloseFailed
  <2>1. Users' = Users /\ active' = active /\ closing' = closing
    BY <1>2 DEF CloseSource, CloseFailed, Users, closing, demand, shut
  <2> QED
    BY <2>1 DEF Lease!vars
<1>3. CASE CloseConfirmed
  <2>1. Users' = Users /\ active' = FALSE /\ closing' = closing /\ closing
    BY <1>3 DEF CloseConfirmed, DemandInv, LeaseInv, Users, closing, demand
  <2> QED
    BY <2>1 DEF Lease!Next, Lease!Seize
<1>4. CASE CloseCompletes
  <2>1. active' = active /\ closing' = closing /\ closing
    BY <1>4 DEF CloseCompletes, closing
  <2>2. Granted = {}
    BY <1>4 DEF CloseCompletes, DemandInv, LeaseInv
  <2>3. Users' = {}
    BY <1>4, <2>2 DEF CloseCompletes, Users, Granted, DemandInv, TypeOK
  <2> QED
    BY <2>1, <2>3 DEF Lease!Next, Lease!Evict
<1> QED
  BY <1>1, <1>2, <1>3, <1>4 DEF Close

\* All other steps are invisible to the users of the lease.
LEMMA OthersImplement ==
  ASSUME \/ TimerFires
         \/ \E e \in timerTasks \cup bgTasks : DeactivateStale(e) \/ Deactivate(e)
         \/ Recovery \/ CallLands \/ NativeEnds \/ Peer
         \/ UNCHANGED vars
  PROVE  [Lease!Next]_(Lease!vars)
<1>1. UNCHANGED <<op, demand, active, shut>>
  BY DEF TimerFires, DeactivateStale, Deactivate, Recovery, ScheduleRecovery, RecoverStale, Recover,
     RecoverNeedsStart, RecoverEnds, CallLands, NativeEnds, Peer, PeerSends, PeerLands, PeerReceives,
     PeerObserves, PeerFails, vars
<1>2. Users' = Users /\ closing' = closing
  BY <1>1 DEF Users, closing, demand, shut
<1> QED
  BY <1>1, <1>2 DEF Lease!vars

\* The detailed lease refines the abstract one: whatever the interleaving of
\* viewers, timers, recoveries, lost replies and Close, a lease is given up
\* only when nobody uses the source or the edge shuts down.
THEOREM Refinement == Spec => ImplementsDemandLease
<1>1. Init => Lease!Init
  BY DEF Init, Lease!Init, Users, closing
<1>2. IInv /\ [Next]_vars => [Lease!Next]_(Lease!vars)
  BY ClientImplements, DeactivationImplements, CloseImplements, OthersImplement DEF Next, IInv
<1> QED
  BY <1>1, <1>2, Invariance, PTL DEF Spec, ImplementsDemandLease, Lease!Spec

=============================================================================

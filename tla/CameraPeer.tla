------------------------------ MODULE CameraPeer ------------------------------
(***************************************************************************)
(* The reconnecting peer of one managed camera (internal/mediaedge,        *)
(* cameraPeer): one worker that discovers the camera process, binds its    *)
(* instance, and applies the latest desired lease to it.                   *)
(*                                                                         *)
(* Callers record what they want under peer.mu and wait for the worker.    *)
(* Camera processes come and go; inotify tells of their sockets.  Every    *)
(* request is fenced by the bound instance, any request or reply can be    *)
(* lost, and a read that fails retires the transport for everybody.        *)
(***************************************************************************)
EXTENDS Integers

CONSTANTS
  Caller,           \* concurrent callers of the peer
  MaxRevision,      \* bound: changes of the desired lease
  MaxIncarnation,   \* bound: camera processes, one after the other
  MaxShutdown       \* bound: shutdowns of the server, 0 or 1

ASSUME ConstantsAssumption ==
  /\ MaxRevision \in Nat
  /\ MaxIncarnation \in Nat
  /\ MaxShutdown \in {0, 1}

VARIABLES
  up, incarnation,  \* external: the camera process that owns the socket
  native,           \* external: it captures and encodes
  served,           \* history: the last revision it was made to apply
  events,           \* socket events that the watcher has not delivered
  bound,            \* control.instance, None without a transport
  connected, invalidated, socketChanged,
  desiredActive, desiredRevision,
  appliedInstance, appliedRevision, receipt,
  sentInstance, sentRevision,
  attempting,       \* cancelAttempt # nil
  cancelled,        \* the context of the attempt is cancelled
  idle, validatingStop,
  first,            \* peer.first is closed
  wake,             \* a token in the wake channel
  pc,               \* progress of the worker
  conn,             \* local "connected" of the worker's round
  revalidate,       \* its local "revalidateStop"
  failed,           \* its local "err # nil"
  landed,           \* the camera carried out the worker's request
  healthy,          \* source.controlHealthy
  caller,           \* progress of the callers
  closing           \* the server's lifecycleContext is cancelled

camera  == <<up, incarnation, native, served>>
flags   == <<connected, invalidated, socketChanged>>
desired == <<desiredActive, desiredRevision>>
applied == <<appliedInstance, appliedRevision, receipt>>
sent    == <<sentInstance, sentRevision>>
attempt == <<attempting, cancelled, validatingStop>>
round   == <<conn, revalidate, failed, landed>>
vars    == <<camera, events, bound, flags, desired, applied, sent, attempt, idle,
             first, wake, pc, round, healthy, caller, closing>>

None == 0

NoCall == [phase |-> "none", op |-> "status", idle |-> FALSE, due |-> FALSE, revision |-> 0]

NumbersOK ==
  /\ incarnation \in Nat /\ served \in Nat /\ events \in Nat
  /\ bound \in 0..incarnation
  /\ desiredRevision \in Nat
  /\ appliedInstance \in 0..incarnation /\ appliedRevision \in 0..desiredRevision
  /\ sentInstance \in 0..incarnation /\ sentRevision \in 0..desiredRevision

FlagsOK ==
  /\ up \in BOOLEAN /\ native \in BOOLEAN
  /\ connected \in BOOLEAN /\ invalidated \in BOOLEAN /\ socketChanged \in BOOLEAN
  /\ desiredActive \in BOOLEAN /\ receipt \in BOOLEAN
  /\ attempting \in BOOLEAN /\ cancelled \in BOOLEAN /\ validatingStop \in BOOLEAN
  /\ idle \in BOOLEAN /\ first \in BOOLEAN /\ wake \in BOOLEAN
  /\ conn \in BOOLEAN /\ revalidate \in BOOLEAN /\ failed \in BOOLEAN /\ landed \in BOOLEAN
  /\ healthy \in BOOLEAN /\ closing \in BOOLEAN

CallersOK ==
  caller \in [Caller -> [phase : {"none", "await", "call", "read"},
                         op : {"start", "stop", "status"},
                         idle : BOOLEAN, due : BOOLEAN, revision : Nat]]

PhaseOK ==
  pc \in {"off", "loop", "decide", "parked", "discover", "status", "apply", "request",
         "finish", "waiting", "failed", "backoff", "ended"}

\* Every variable of the peer, of its callers and of the camera has its type.
TypeOK == NumbersOK /\ FlagsOK /\ CallersOK /\ PhaseOK

Init ==
  /\ up = FALSE /\ incarnation = 0 /\ native = FALSE /\ served = 0 /\ events = 0
  /\ bound = None
  /\ connected = FALSE /\ invalidated = FALSE /\ socketChanged = FALSE
  /\ desiredActive = FALSE /\ desiredRevision = 0
  /\ appliedInstance = None /\ appliedRevision = 0 /\ receipt = FALSE
  /\ sentInstance = None /\ sentRevision = 0
  /\ attempting = FALSE /\ cancelled = FALSE /\ validatingStop = FALSE
  /\ idle = FALSE /\ first = FALSE /\ wake = FALSE
  /\ pc = "off"
  /\ conn = FALSE /\ revalidate = FALSE /\ failed = FALSE /\ landed = FALSE
  /\ healthy = FALSE
  /\ caller = [c \in Caller |-> NoCall]
  /\ closing = FALSE

-----------------------------------------------------------------------------
(* The camera processes and their socket.                                  *)

CameraStarts ==
  /\ ~up
  /\ incarnation < MaxIncarnation
  /\ up' = TRUE
  /\ incarnation' = incarnation + 1
  /\ native' \in BOOLEAN          \* it may capture of its own accord
  /\ events' = events + 1
  /\ UNCHANGED <<served, bound, flags, desired, applied, sent, attempt, idle, first, wake,
                 pc, round, healthy, caller, closing>>

CameraStops ==
  /\ up
  /\ up' = FALSE
  /\ native' = FALSE
  /\ served' = 0
  /\ events' = events + 1
  /\ UNCHANGED <<incarnation, bound, flags, desired, applied, sent, attempt, idle,
                 first, wake, pc, round, healthy, caller, closing>>

\* The instance fence: only the bound process answers.
Answers == up /\ bound = incarnation

\* invalidate(change): the transport is retired, the attempt cancelled.
Invalidate(change) ==
  /\ connected' = FALSE
  /\ invalidated' = TRUE
  /\ socketChanged' = (socketChanged \/ change)
  /\ cancelled' = (cancelled \/ attempting)
  /\ healthy' = FALSE
  /\ wake' = TRUE

\* The worker registers with the watcher when it starts.
SocketEvent ==
  /\ events > 0
  /\ events' = events - 1
  /\ IF pc \in {"off", "ended"}
     THEN UNCHANGED <<flags, cancelled, healthy, wake>>
     ELSE Invalidate(TRUE)
  /\ UNCHANGED <<camera, bound, desired, applied, sent, attempting, validatingStop, idle,
                 first, pc, round, caller, closing>>

-----------------------------------------------------------------------------
(* Callers.                                                                *)

Calls == {c \in Caller : caller[c].phase # "none"}

Quiescent == idle \/ (~connected /\ ~desiredActive /\ Calls = {} /\ desiredRevision = appliedRevision)

NextRevision == desiredRevision + 1

\* A change of the desired lease is a new revision.
Changes(o) == o # "status" /\ (desiredRevision = 0 \/ desiredActive # (o = "start"))

\* beginDemand.  source.lifecycleMu admits one start or stop at a time, and
\* stops nothing that was never started.  The target attempt of the code is
\* "due" once that attempt has begun.
BeginDemand(c, o) ==
  /\ ~closing
  /\ caller[c].phase = "none"
  /\ o # "status" => \A d \in Calls : caller[d].op = "status"
  /\ o = "stop" => desiredRevision # 0
  /\ IF Changes(o)
     THEN /\ desiredRevision < MaxRevision
          /\ desiredRevision' = NextRevision
          /\ desiredActive' = (o = "start")
     ELSE UNCHANGED desired
  /\ caller' = [caller EXCEPT ![c] =
       [phase |-> "await", op |-> o, idle |-> Quiescent,
        due |-> Quiescent /\ attempting /\ ~invalidated,
        revision |-> IF o = "status" THEN 0 ELSE desiredRevision']]
  /\ pc' = IF pc = "off" THEN "loop" ELSE pc
  /\ wake' = TRUE
  /\ UNCHANGED <<camera, events, bound, flags, applied, sent, attempt, idle, first, round,
                 healthy, closing>>

\* endDemand: the last caller cancels an attempt that nobody owes.
Unneeded(c) ==
  /\ Calls = {c}
  /\ ~desiredActive
  /\ desiredRevision = appliedRevision
  /\ ~validatingStop
  /\ sentInstance = None \/ sentInstance = appliedInstance \/ sentRevision # desiredRevision

EndDemand(c) ==
  /\ caller' = [caller EXCEPT ![c] = NoCall]
  /\ wake' = TRUE
  /\ cancelled' = (cancelled \/ (attempting /\ Unneeded(c)))

\* awaitConnection: who found the peer idle waits for its discovery attempt,
\* later callers are told at once.
Hopeless(c) == ~caller[c].idle \/ (caller[c].due /\ ~attempting /\ ~invalidated)

CallerRefused(c) ==
  /\ \/ caller[c].phase = "await" /\ first /\ ~connected /\ Hopeless(c)
     \/ caller[c].phase = "call" /\ ~connected
  /\ EndDemand(c)
  /\ UNCHANGED <<camera, events, bound, flags, desired, applied, sent, attempting, validatingStop,
                 idle, first, pc, round, healthy, closing>>

CallerTimesOut(c) ==
  /\ caller[c].phase \in {"await", "call"}
  /\ EndDemand(c)
  /\ UNCHANGED <<camera, events, bound, flags, desired, applied, sent, attempting, validatingStop,
                 idle, first, pc, round, healthy, closing>>

AwaitConnected(c) ==
  /\ caller[c].phase = "await"
  /\ first
  /\ connected
  /\ caller' = [caller EXCEPT ![c] = [@ EXCEPT !.phase = "call", !.idle = FALSE, !.due = FALSE]]
  /\ UNCHANGED <<camera, events, bound, flags, desired, applied, sent, attempt, idle, first, wake,
                 pc, round, healthy, closing>>

Mutant_AnyReceipt(c) == connected /\ appliedRevision > 0
Applied(c) == connected /\ appliedRevision >= caller[c].revision

LeaseReturns(c) ==
  /\ caller[c].phase = "call"
  /\ caller[c].op # "status"
  /\ Applied(c)
  /\ EndDemand(c)
  /\ UNCHANGED <<camera, events, bound, flags, desired, applied, sent, attempting, validatingStop,
                 idle, first, pc, round, healthy, closing>>

\* A read goes out on the transport that is bound now, and may fail on it
\* long after the worker has bound another one.
ReadBegins(c) ==
  /\ caller[c].phase = "call"
  /\ caller[c].op = "status"
  /\ connected
  /\ caller' = [caller EXCEPT ![c].phase = "read"]
  /\ UNCHANGED <<camera, events, bound, flags, desired, applied, sent, attempt, idle, first, wake,
                 pc, round, healthy, closing>>

ReadReturns(c) ==
  /\ caller[c].phase = "read"
  /\ EndDemand(c)
  /\ UNCHANGED <<camera, events, bound, flags, desired, applied, sent, attempting, validatingStop,
                 idle, first, pc, round, healthy, closing>>

ReadFails(c) ==
  /\ caller[c].phase = "read"
  /\ Invalidate(FALSE)
  /\ caller' = [caller EXCEPT ![c] = NoCall]
  /\ UNCHANGED <<camera, events, bound, desired, applied, sent, attempting, validatingStop, idle,
                 first, pc, round, closing>>

Callers == \E c \in Caller :
  \/ \E o \in {"start", "stop", "status"} : BeginDemand(c, o)
  \/ CallerRefused(c) \/ CallerTimesOut(c) \/ AwaitConnected(c) \/ LeaseReturns(c)
  \/ ReadBegins(c) \/ ReadReturns(c) \/ ReadFails(c)

-----------------------------------------------------------------------------
(* The worker.                                                             *)

\* A lease that the bound process has not confirmed, or a caller to serve.
Owed ==
  \/ desiredRevision # appliedRevision
  \/ sentRevision = desiredRevision /\ sentInstance \notin {None, appliedInstance}

Mutant_OwesCallers == desiredActive \/ Calls # {}
Mutant_EverLeased == desiredActive \/ Calls # {} \/ desiredRevision # 0
Needed == desiredActive \/ Calls # {} \/ Owed

\* A round consumes the invalidations since the last one.  A replacement must
\* receive the last acknowledged stop although nobody asks for it.
Consume ==
  /\ pc = "loop"
  /\ ~closing
  /\ invalidated' = FALSE
  /\ socketChanged' = FALSE
  /\ IF invalidated
     THEN /\ bound' = None
          /\ conn' = FALSE
          /\ revalidate' = (socketChanged /\ up /\ desiredRevision # 0 /\ ~desiredActive)
     ELSE UNCHANGED bound /\ conn' = connected /\ revalidate' = FALSE
  /\ pc' = "decide"
  /\ UNCHANGED <<camera, events, connected, desired, applied, sent, attempt, idle, first, wake,
                 failed, landed, healthy, caller, closing>>

Decide ==
  /\ pc = "decide"
  /\ IF conn \/ revalidate \/ Needed
     THEN /\ idle' = FALSE
          /\ attempting' = TRUE
          /\ cancelled' = closing
          /\ validatingStop' = revalidate
          /\ caller' = IF conn THEN caller
                       ELSE [c \in Caller |-> [caller[c] EXCEPT !.due = caller[c].idle]]
          /\ pc' = IF conn THEN "apply" ELSE "discover"
     ELSE idle' = TRUE /\ pc' = "parked" /\ UNCHANGED <<attempt, caller>>
  /\ conn' = FALSE /\ revalidate' = FALSE
  /\ UNCHANGED <<camera, events, bound, flags, desired, applied, sent, first, wake,
                 failed, landed, healthy, closing>>

\* transport: unfenced discovery binds whatever process answers.
Discover ==
  /\ pc = "discover"
  /\ ~cancelled
  /\ up
  /\ bound' = incarnation
  /\ pc' = "status"
  /\ UNCHANGED <<camera, events, flags, desired, applied, sent, attempt, idle, first, wake,
                 round, healthy, caller, closing>>

Mutant_Unresolved == FALSE

\* The native state shows that a request whose receipt was lost took effect.
Resolves ==
  /\ sentInstance = bound
  /\ sentRevision = desiredRevision
  /\ desiredRevision # 0
  /\ native = desiredActive

\* describe and status.
Status ==
  /\ pc = "status"
  /\ ~cancelled
  /\ Answers
  /\ IF Resolves
     THEN /\ appliedInstance' = sentInstance
          /\ appliedRevision' = sentRevision
          /\ receipt' = native
     ELSE UNCHANGED applied
  /\ healthy' = TRUE
  /\ pc' = "apply"
  /\ UNCHANGED <<camera, events, bound, flags, desired, sent, attempt, idle, first, wake,
                 round, caller, closing>>

Mutant_AnyInstance == desiredRevision = 0 \/ appliedRevision = desiredRevision
AlreadyApplied == desiredRevision = 0 \/ (appliedInstance = bound /\ appliedRevision = desiredRevision)

\* apply: the revision is marked as sent before the request goes out.
Apply ==
  /\ pc = "apply"
  /\ IF AlreadyApplied
     THEN pc' = "finish" /\ UNCHANGED <<sent, failed>>
     ELSE /\ sentInstance' = bound
          /\ sentRevision' = desiredRevision
          /\ failed' = cancelled
          /\ pc' = IF cancelled THEN "finish" ELSE "request"
  /\ UNCHANGED <<camera, events, bound, flags, desired, applied, attempt, idle, first, wake,
                 conn, revalidate, landed, healthy, caller, closing>>

\* What the worker asked for.  The desired state may have moved on since, and
\* every revision reverses the one before.
SentActive == desiredActive <=> (desiredRevision - sentRevision) % 2 = 0

RequestLands ==
  /\ pc = "request"
  /\ ~landed
  /\ Answers
  /\ landed' = TRUE
  /\ native' = SentActive
  /\ served' = sentRevision
  /\ UNCHANGED <<up, incarnation, events, bound, flags, desired, applied, sent, attempt, idle,
                 first, wake, pc, conn, revalidate, failed, healthy, caller, closing>>

RequestReturns ==
  /\ pc = "request"
  /\ landed
  /\ appliedInstance' = bound
  /\ appliedRevision' = sentRevision
  /\ receipt' = SentActive
  /\ healthy' = TRUE
  /\ landed' = FALSE
  /\ pc' = "finish"
  /\ UNCHANGED <<camera, events, bound, flags, desired, sent, attempt, idle, first, wake,
                 conn, revalidate, failed, caller, closing>>

\* Refused, timed out, disconnected, superseded or cancelled.
AttemptFails ==
  /\ pc \in {"discover", "status", "request"}
  /\ failed' = TRUE
  /\ landed' = FALSE
  /\ pc' = "finish"
  /\ UNCHANGED <<camera, events, bound, flags, desired, applied, sent, attempt, idle, first, wake,
                 conn, revalidate, healthy, caller, closing>>

Finish ==
  /\ pc = "finish"
  /\ attempting' = FALSE /\ cancelled' = FALSE /\ validatingStop' = FALSE
  /\ connected' = (~failed /\ ~invalidated)
  /\ first' = TRUE
  /\ pc' = CASE ~connected' -> "failed"
            [] connected' /\ desiredRevision # appliedRevision -> "loop"
            [] OTHER -> "waiting"
  /\ UNCHANGED <<camera, events, bound, invalidated, socketChanged, desired, applied, sent, idle,
                 wake, round, healthy, caller, closing>>

\* The round's own error is published, which is nil if it was invalidated.
Failed ==
  /\ pc = "failed"
  /\ bound' = None
  /\ healthy' = ~failed
  /\ failed' = FALSE
  /\ pc' = IF Needed THEN "backoff" ELSE "loop"
  /\ UNCHANGED <<camera, events, flags, desired, applied, sent, attempt, idle, first, wake,
                 conn, revalidate, landed, caller, closing>>

Woken ==
  /\ pc \in {"waiting", "parked"}
  /\ wake
  /\ wake' = FALSE
  /\ pc' = "loop"
  /\ UNCHANGED <<camera, events, bound, flags, desired, applied, sent, attempt, idle, first,
                 round, healthy, caller, closing>>

\* Viewer traffic cannot bypass the backoff.
BackoffWoken ==
  /\ pc = "backoff"
  /\ wake
  /\ wake' = FALSE
  /\ pc' = IF invalidated THEN "loop" ELSE "backoff"
  /\ UNCHANGED <<camera, events, bound, flags, desired, applied, sent, attempt, idle, first,
                 round, healthy, caller, closing>>

BackoffOver ==
  /\ pc = "backoff"
  /\ pc' = "loop"
  /\ UNCHANGED <<camera, events, bound, flags, desired, applied, sent, attempt, idle, first, wake,
                 round, healthy, caller, closing>>

Worker ==
  \/ Consume \/ Decide \/ Discover \/ Status \/ Apply
  \/ RequestLands \/ RequestReturns \/ AttemptFails \/ Finish \/ Failed
  \/ Woken \/ BackoffWoken \/ BackoffOver

-----------------------------------------------------------------------------
(* The server shuts down.                                                  *)

Shutdown ==
  /\ ~closing
  /\ MaxShutdown > 0
  /\ closing' = TRUE
  /\ cancelled' = (cancelled \/ attempting)
  /\ UNCHANGED <<camera, events, bound, flags, desired, applied, sent, attempting, validatingStop,
                 idle, first, wake, pc, round, healthy, caller>>

Mutant_WokenOnly == {"loop", "waiting", "backoff"}

\* Where the worker looks at its context.
Interruptible == {"loop", "parked", "waiting", "backoff"}

WorkerEnds ==
  /\ closing
  /\ pc \in Interruptible
  /\ pc' = "ended"
  /\ UNCHANGED <<camera, events, bound, flags, desired, applied, sent, attempt, idle, first, wake,
                 round, healthy, caller, closing>>

\* The worker and the callers have drained: Close itself stops a lease that is
\* active or uncertain, through a transport that discovers if there is none.
Drained == closing /\ pc \in {"off", "ended"} /\ Calls = {}

CloseOwes == desiredActive \/ desiredRevision # appliedRevision

CloseDiscovers ==
  /\ Drained
  /\ CloseOwes
  /\ bound = None
  /\ up
  /\ bound' = incarnation
  /\ UNCHANGED <<camera, events, flags, desired, applied, sent, attempt, idle, first, wake,
                 pc, round, healthy, caller, closing>>

CloseStops ==
  /\ Drained
  /\ CloseOwes
  /\ Answers
  /\ native' = FALSE
  /\ UNCHANGED <<up, incarnation, served, events, bound, flags, desired, applied, sent, attempt,
                 idle, first, wake, pc, round, healthy, caller, closing>>

Closing == Shutdown \/ WorkerEnds \/ CloseDiscovers \/ CloseStops

-----------------------------------------------------------------------------

Next ==
  \/ CameraStarts \/ CameraStops \/ SocketEvent
  \/ Callers
  \/ Worker
  \/ Closing

Spec == Init /\ [][Next]_vars

(* The worker and the watcher are scheduled, a backoff ends and a call has *)
(* a deadline.  A camera that stays up does not lose every single request. *)
Fairness ==
  /\ WF_vars(SocketEvent)
  /\ \A c \in Caller : WF_vars(CallerTimesOut(c)) /\ WF_vars(ReadReturns(c) \/ ReadFails(c))
  /\ WF_vars(Consume) /\ WF_vars(Decide) /\ WF_vars(Apply) /\ WF_vars(Finish) /\ WF_vars(Failed)
  /\ WF_vars(AttemptFails)
  /\ SF_vars(Discover) /\ SF_vars(Status) /\ SF_vars(RequestLands) /\ SF_vars(RequestReturns)
  /\ WF_vars(Woken) /\ WF_vars(BackoffOver)
  /\ WF_vars(WorkerEnds)

FairSpec == Spec /\ Fairness

-----------------------------------------------------------------------------
(* What the peer promises.                                                 *)

\* A connected peer that owes no revision has made the bound process do what
\* was asked last, although that process may be another one than before.
AppliedIsNative ==
  ~closing /\ connected /\ Answers /\ pc # "request" /\ desiredRevision # 0 /\ ~Owed
    => native = desiredActive

(* The parts of the inductive invariant.                                   *)

Odd(n) == n % 2 = 1

\* Revisions alternate between start and stop, a receipt is that of the applied
\* revision, and a start or stop that waits is the desired lease.
DesiredInv ==
  /\ desiredActive <=> Odd(desiredRevision)
  /\ appliedRevision # 0 => (receipt <=> Odd(appliedRevision))
  /\ \A c \in Caller : caller[c].op # "status" =>
       /\ caller[c].phase # "none" /\ caller[c].revision = desiredRevision
       /\ desiredRevision # 0 /\ desiredActive = (caller[c].op = "start")

\* The worker talks to a bound process, and a peer is connected only between a
\* round that succeeded and the next invalidation.
ConnectionInv ==
  /\ invalidated => ~connected
  /\ pc \in {"off", "parked", "discover", "status", "failed", "backoff"} => ~connected
  /\ pc = "decide" /\ ~conn => ~connected
  /\ connected \/ pc \in {"status", "apply", "request"} => bound # None
  /\ pc = "decide" /\ conn => bound # None
  /\ pc = "finish" /\ ~failed => bound # None
  /\ landed => pc = "request"

\* Whom the applied revision was applied to, and what that process does since.
AppliedInv ==
  /\ ~closing /\ connected /\ appliedRevision # 0 => appliedInstance = bound
  /\ pc = "finish" /\ ~failed /\ appliedRevision # 0 => appliedInstance = bound
  /\ pc = "request" =>
       sentInstance = bound /\ (appliedInstance = bound => appliedRevision < sentRevision)
  /\ landed /\ Answers => (native <=> Odd(sentRevision))
  /\ ~closing /\ up /\ appliedInstance = incarnation /\ appliedRevision # 0 =>
       (native <=> Odd(appliedRevision)) \/ sentRevision > appliedRevision

\* The desired revision is not served by the bound process, or it is known to be.
ServedIsKnown ==
  Answers /\ served # 0 /\ served = desiredRevision =>
    appliedInstance = bound /\ appliedRevision = desiredRevision

\* What the running process was made to apply, and when the worker knows of it.
ServedInv ==
  /\ up => incarnation # 0
  /\ ~up \/ pc = "off" => served = 0
  /\ served <= sentRevision
  /\ served # 0 /\ pc # "ended" => (native <=> Odd(served))
  /\ served # 0 => bound \in {None, incarnation}
  /\ served # 0 /\ served = sentRevision => sentInstance = incarnation
  /\ pc = "request" /\ ~landed /\ Answers => served # sentRevision
  /\ pc = "apply" => ServedIsKnown
  /\ pc = "decide" /\ conn => ServedIsKnown
  /\ pc = "finish" /\ ~failed => ServedIsKnown
  /\ pc \in {"loop", "decide", "waiting"} /\ connected => ServedIsKnown

\* Types, the postcondition of a peer that owes nothing, and what it rests on.
PeerInv ==
  TypeOK /\ AppliedIsNative /\ DesiredInv /\ ConnectionInv /\ AppliedInv /\ ServedInv

\* A lost receipt is resolved from the native state before another write of
\* the same revision: no process is made to apply a revision twice.
NoSecondWrite ==
  [][RequestLands => served # sentRevision]_vars

\* The receipt handed to a caller answers its own start or stop, never an
\* older or a newer one that the worker coalesced with it.
ReceiptAnswersCall ==
  [][\A c \in Caller : LeaseReturns(c) => receipt = (caller[c].op = "start")]_vars

\* A lease that is owed to a camera that stays up is applied: no wake-up is
\* lost and no cancelled attempt is forgotten.
OwedLeaseApplied ==
  Owed /\ up ~> ~Owed \/ ~up \/ closing

\* A replacement receives the latest start, without any caller asking.
StartReachesReplacement ==
  desiredActive /\ up ~> native \/ ~desiredActive \/ ~up \/ closing

\* A replacement receives the last acknowledged stop, even without a viewer.
StopReachesReplacement ==
  up /\ ~desiredActive /\ desiredRevision # 0
    ~> appliedInstance = incarnation \/ desiredActive \/ ~up \/ closing

\* Without demand the worker comes to rest: no polling of a camera that
\* nobody wants.
RestsWithoutDemand ==
  <>[](~desiredActive /\ Calls = {} /\ ~Owed) => <>[](pc \in {"off", "parked", "waiting", "ended"})

\* Once the watcher has told of a camera that went away, and the worker has
\* come to rest, the control channel is not reported healthy.
HealthFollowsCamera ==
  pc = "parked" /\ ~up /\ events = 0 => ~healthy

\* A caller that found the peer idle waits for one fresh discovery attempt, so
\* it does not join one that was cancelled for want of callers.
JoinedAttemptLives ==
  \A c \in Calls : caller[c].due /\ attempting /\ cancelled => invalidated \/ closing

\* Shutdown drains the worker, wherever it is.
WorkerDrains ==
  closing ~> pc \in {"off", "ended"}

\* The cleanup of Close is no replay to a replacement process: a transport
\* that it opens is not to another process than the one that was sent a lease.
CleanupStaysFenced ==
  [][CloseDiscovers => sentInstance \in {None, bound'}]_vars
=============================================================================

------------------------ MODULE ServerLifecycle_proofs ------------------------
(***************************************************************************)
(* Safety of the edge process, for any operations, tasks and restarts:     *)
(* cleanup runs alone, and a Close that reports success left nothing.      *)
(***************************************************************************)
EXTENDS ServerLifecycle, TLAPS

\* Whoever holds closeMu is at one of these steps, the later ones past the
\* hosts, past the join, and past the stop of the source.
Holding == {"hosts", "drain", "cleanup", "stop", "await"}

At(c, steps) == closer[c].at \in steps

\* Close runs only between StartHTTP and the exit of the process.
Quiet ==
  /\ main \notin {"waiting", "closing"} =>
       closer = [c \in Closer |-> Idle] /\ closeMu = Nobody /\ server.join = "off" /\ ~server.complete
  /\ main = "waiting" => closer["main"].at = "idle"
  /\ start # "over" => main = "starting"

\* What Start knows of its child: a child that is not ready is closed, or has
\* exited, before Start gives up, and one that is ready by the deferred function.
ChildKnown ==
  /\ start \in {"sources", "listen", "spawn"} \/ main \in Exits => child = "none"
  /\ start \in {"rpc", "http"} => process.ready
  /\ start = "undo" => child \in {"none", "gone"} \/ process.ready
  /\ start = "exit" => child \in {"none", "gone"}

\* Start closes nothing before it fails, and the end forgets everything.
Begun ==
  /\ server.closing => start \in {"ending", "awaiting", "exit", "over"}
  /\ process.closed => start \in Undoing \cup {"over"}
  /\ main \in Exits => server = Fresh /\ process = Unused

\* Nothing that was joined comes back.
Joins ==
  /\ server.join # "off" => server.closing
  /\ server.join \in {"background", "drained"} => InFlight = {}
  /\ server.join = "drained" => tasks = 0

\* What a caller of Close knows at each of its steps.
Held ==
  \A c \in Closer :
    /\ At(c, Holding) => closeMu = c /\ server.closing /\ ~server.complete
    /\ At(c, Holding \ {"hosts"}) => hosts = {}
    /\ At(c, {"cleanup", "stop", "await"}) => server.join = "drained"
    /\ At(c, {"stop", "await"}) /\ ~closer[c].failed => ~source.active /\ ~source.uncertain

\* Process.Close has waited for the child, or somebody is waiting.
ChildAwaited ==
  process.closed => child = "gone" \/ start = "awaiting" \/ \E c \in Closer : At(c, {"await"})

\* Success is final.
Completed ==
  /\ CompleteMeansReleased
  /\ server.complete => server.join = "drained"

\* The inductive invariant.
IInv == TypeOK /\ Quiet /\ ChildKnown /\ Begun /\ Joins /\ Held /\ ChildAwaited /\ Completed

-----------------------------------------------------------------------------
(* The records, as they change.                                            *)

Point == {"idle", "over"} \cup Closing

Caller == [at : Point, failed : BOOLEAN]

\* A step of one caller of Close.
Moves(c, to, f) == closer' = [closer EXCEPT ![c].at = to, ![c].failed = @ \/ f]

\* What the update of one caller's record makes of all of them.
LEMMA CallerMoves ==
  ASSUME TypeOK, NEW c \in Closer, NEW to \in Point, NEW f \in BOOLEAN, Moves(c, to, f)
  PROVE  /\ closer' \in [Closer -> Caller]
         /\ closer'[c].at = to /\ (closer'[c].failed <=> closer[c].failed \/ f)
         /\ \A d \in Closer \ {c} : closer'[d] = closer[d]
<1> DEFINE r == [closer[c] EXCEPT !.at = to, !.failed = @ \/ f]
<1>1. closer[c] \in Caller
  BY DEF TypeOK, Caller, Point
<1>2. r \in Caller /\ r.at = to /\ (r.failed <=> closer[c].failed \/ f)
  BY <1>1 DEF Caller
<1>3. closer' = [closer EXCEPT ![c] = r]
  BY DEF Moves
<1> HIDE DEF r
<1> QED
  BY <1>2, <1>3 DEF TypeOK, Caller, Point

\* A caller that begins, or finds nothing to do.
LEMMA CallerBegins ==
  ASSUME TypeOK, NEW c \in Closer, NEW to \in Point, Calls(c, to)
  PROVE  /\ closer' \in [Closer -> Caller]
         /\ closer'[c].at = to
         /\ \A d \in Closer \ {c} : closer'[d] = closer[d]
<1> DEFINE r == [at |-> to, failed |-> FALSE]
<1>1. r \in Caller /\ r.at = to
  BY DEF Caller
<1>2. closer' = [closer EXCEPT ![c] = r]
  BY DEF Calls
<1> HIDE DEF r
<1> QED
  BY <1>1, <1>2 DEF TypeOK, Caller, Point

\* The records of an edge that has not started have their types.
LEMMA FreshIsTyped ==
  /\ Idle \in Caller /\ Idle.at = "idle"
  /\ Fresh \in [closing : BOOLEAN, complete : BOOLEAN, join : {"off", "operations", "background", "drained"}]
  /\ ~Fresh.closing /\ ~Fresh.complete /\ Fresh.join = "off"
  /\ Unused \in [closed : BOOLEAN, signalled : BOOLEAN, ready : BOOLEAN] /\ ~Unused.closed
  /\ Parked \in [active : BOOLEAN, uncertain : BOOLEAN, stopped : BOOLEAN]
<1>1. Idle \in Caller /\ Idle.at = "idle"
  BY DEF Idle, Caller, Point
<1>2. Fresh \in [closing : BOOLEAN, complete : BOOLEAN, join : {"off", "operations", "background", "drained"}]
  BY DEF Fresh
<1>3. Fresh.closing = FALSE /\ Fresh.complete = FALSE /\ Fresh.join = "off"
  BY DEF Fresh
<1>4. Unused \in [closed : BOOLEAN, signalled : BOOLEAN, ready : BOOLEAN]
  BY DEF Unused
<1>5. Unused.closed = FALSE
  BY DEF Unused
<1>6. Parked \in [active : BOOLEAN, uncertain : BOOLEAN, stopped : BOOLEAN]
  BY DEF Parked
<1> QED
  BY <1>1, <1>2, <1>3, <1>4, <1>5, <1>6

\* Before Start has returned, and after the end, nobody closes the server.
LEMMA NobodyCloses ==
  ASSUME closer = [c \in Closer |-> Idle], closeMu = Nobody, server.join = "off", ~server.complete,
         main # "waiting", start # "over" => main = "starting"
  PROVE  Quiet /\ Joins /\ Held /\ Completed
BY FreshIsTyped DEF Quiet, Joins, Held, Completed, CompleteMeansReleased, At, Holding

\* A machine on which the edge was never started.
LEMMA InitIInv == Init => IInv
<1> SUFFICES ASSUME Init PROVE IInv
  OBVIOUS
<1>1. TypeOK
  <2>1. tasks \in 0..MaxTasks /\ restarts \in 0..MaxRestart
    BY ConstantsAssumption DEF ConstantsAssumption, Init
  <2>2. orphan \in BOOLEAN
    BY DEF Init
  <2>3. closer \in [Closer -> Caller] /\ source \in [active : BOOLEAN, uncertain : BOOLEAN, stopped : BOOLEAN]
    BY FreshIsTyped DEF Init
  <2>4. /\ server \in [closing : BOOLEAN, complete : BOOLEAN,
                       join : {"off", "operations", "background", "drained"}]
        /\ process \in [closed : BOOLEAN, signalled : BOOLEAN, ready : BOOLEAN]
    BY FreshIsTyped DEF Init
  <2> QED
    BY <2>1, <2>2, <2>3, <2>4 DEF Init, TypeOK, Caller, Point
<1>2. Quiet /\ Joins /\ Held /\ Completed
  BY NobodyCloses, FreshIsTyped DEF Init
<1>3. ChildKnown /\ Begun /\ ChildAwaited
  BY FreshIsTyped DEF Init, ChildKnown, Begun, ChildAwaited, Exits
<1> QED
  BY <1>1, <1>2, <1>3 DEF IInv

-----------------------------------------------------------------------------
(* Start, and the end of the process.                                      *)

\* The process ends, whatever becomes of its child.
LEMMA ExitKeeps ==
  ASSUME IInv, NEW how \in Exits, Exit(how), child' = "none", orphan' \in BOOLEAN
  PROVE  IInv'
<1>1. TypeOK'
  BY FreshIsTyped, ConstantsAssumption
     DEF ConstantsAssumption, Exit, Exits, Undoing, IInv, TypeOK, Caller, Point
<1>2. (Quiet /\ Joins /\ Held /\ ChildAwaited /\ Completed)'
  BY FreshIsTyped DEF Exit, Exits, Quiet, Joins, Held, ChildAwaited, Completed, CompleteMeansReleased, At, Holding
<1>3. (ChildKnown /\ Begun)'
  BY FreshIsTyped DEF Exit, ChildKnown, Begun
<1> QED
  BY <1>1, <1>2, <1>3 DEF IInv

\* A step before Start has returned leaves the callers of Close alone.
LEMMA StartingKeeps ==
  ASSUME IInv, main = "starting", UNCHANGED <<main, callers>>, server'.join = "off", ~server'.complete,
         (TypeOK /\ ChildKnown /\ Begun /\ ChildAwaited)'
  PROVE  IInv'
<1>1. closer' = [c \in Closer |-> Idle] /\ closeMu' = Nobody /\ main' = "starting"
  BY DEF IInv, Quiet, callers
<1>2. (Quiet /\ Joins /\ Held /\ Completed)'
  BY <1>1, FreshIsTyped DEF Quiet, Joins, Held, Completed, CompleteMeansReleased, At, Holding
<1> QED
  BY <1>2 DEF IInv

\* Start goes from step to step.
LEMMA StartsKeep ==
  ASSUME IInv, Starts \/ Restart
  PROVE  IInv'
<1> USE DEF IInv, callers, work, media, Starting, Undoing
<1>0. start # "over" => main = "starting" /\ server.join = "off" /\ ~server.complete
  BY DEF Quiet
<1>1. CASE Prepare \/ Listen \/ StartRPC
  <2>1. /\ start' \in {"listen", "spawn", "http"} /\ hosts' \in SUBSET {"listener", "rpc", "http"}
        /\ UNCHANGED <<main, callers, server, work, loop, media, restarts>> /\ main = "starting"
    BY <1>0, <1>1 DEF Prepare, Listen, StartRPC, TypeOK
  <2>2. (TypeOK /\ Begun /\ ChildAwaited)'
    BY <1>1, <2>1 DEF Prepare, Listen, StartRPC, TypeOK, Begun, ChildAwaited, Exits
  <2>3. ChildKnown'
    BY <1>1, <2>1 DEF Prepare, Listen, StartRPC, ChildKnown, Exits
  <2> QED
    BY <1>0, <1>1, <2>1, <2>2, <2>3, StartingKeeps DEF Prepare, Listen, StartRPC
<1>2. CASE Spawn
  <2>1. (TypeOK /\ Begun /\ ChildKnown /\ ChildAwaited)'
    BY <1>0, <1>2 DEF Spawn, TypeOK, Begun, ChildKnown, ChildAwaited, Exits
  <2> QED
    BY <1>0, <1>2, <2>1, StartingKeeps DEF Spawn
<1>3. CASE Probe
  <2>1. /\ process' \in [closed : BOOLEAN, signalled : BOOLEAN, ready : BOOLEAN]
        /\ process'.ready /\ process'.closed = process.closed
    BY <1>3 DEF Probe, TypeOK
  <2>2. (TypeOK /\ Begun /\ ChildKnown /\ ChildAwaited)'
    BY <1>0, <1>3, <2>1 DEF Probe, TypeOK, Begun, ChildKnown, ChildAwaited, Exits
  <2> QED
    BY <1>0, <1>3, <2>2, StartingKeeps DEF Probe
<1>4. CASE StartHTTP
  <2>1. closer = [c \in Closer |-> Idle] /\ closeMu = Nobody /\ ~process.closed /\ ~server.closing
    BY <1>4 DEF StartHTTP, Quiet, Begun
  <2>2. TypeOK'
    BY <1>4 DEF StartHTTP, TypeOK
  <2>3. (ChildKnown /\ Begun /\ ChildAwaited)'
    BY <1>4, <2>1 DEF StartHTTP, ChildKnown, Begun, ChildAwaited, Exits
  <2> QED
    BY <1>0, <1>4, <2>1, <2>2, <2>3, FreshIsTyped DEF StartHTTP, Quiet, Joins, Held, Completed,
       CompleteMeansReleased, At, Holding, Closer
<1>5. CASE Restart
  <2>1. TypeOK'
    BY <1>5, ConstantsAssumption DEF ConstantsAssumption, Restart, TypeOK
  <2>2. /\ closer = [c \in Closer |-> Idle] /\ closeMu = Nobody /\ server = Fresh /\ process = Unused
        /\ child = "none"
    BY <1>5 DEF Restart, Quiet, Begun, ChildKnown, Alive, Exits
  <2>3. (ChildKnown /\ Begun /\ ChildAwaited)'
    BY <1>5, <2>2, FreshIsTyped DEF Restart, ChildKnown, Begun, ChildAwaited, Exits
  <2> QED
    BY <1>5, <2>1, <2>2, <2>3, FreshIsTyped DEF Restart, Quiet, Joins, Held, Completed,
       CompleteMeansReleased, At, Holding
<1> QED
  BY <1>1, <1>2, <1>3, <1>4, <1>5 DEF Starts

\* Start fails, and undoes what it did.
LEMMA UndoesKeep ==
  ASSUME IInv, StartFails \/ RPCFails \/ Undoes
  PROVE  IInv'
<1> USE DEF IInv, callers, work, media, Starting, Undoing
<1>0. start # "over" => main = "starting" /\ server.join = "off" /\ ~server.complete
  BY DEF Quiet
<1>1. ASSUME NEW from \in {"sources", "listen", "spawn", "probe", "rpc", "http", "awaiting"},
             NEW to \in {"undo", "ending", "exit"}, Fails(from, to), (ChildKnown /\ Begun)',
             child = "gone" \/ from # "awaiting"
      PROVE  IInv'
  <2>1. (TypeOK /\ ChildAwaited)'
    BY <1>1 DEF Fails, TypeOK, ChildAwaited, At
  <2> QED
    BY <1>0, <1>1, <2>1, StartingKeeps DEF Fails
<1>2. CASE StartFails
  <2>1. PICK from \in {"sources", "listen", "spawn", "http"} : Fails(from, "undo")
    BY <1>2 DEF StartFails
  <2>2. (ChildKnown /\ Begun)'
    BY <1>0, <2>1 DEF Fails, ChildKnown, Begun, Exits
  <2> QED
    BY <1>1, <2>1, <2>2
<1>3. CASE RPCFails \/ ProbeTimesOut
  <2>1. PICK from \in {"rpc", "probe"} : Fails(from, "ending")
    BY <1>3 DEF RPCFails, ProbeTimesOut
  <2>2. (ChildKnown /\ Begun)'
    BY <1>0, <2>1 DEF Fails, ChildKnown, Begun, Exits
  <2> QED
    BY <1>1, <2>1, <2>2
<1>4. CASE ChildExitsEarly
  <2>1. child = "gone" /\ Fails("probe", "undo")
    BY <1>4 DEF ChildExitsEarly
  <2>2. (ChildKnown /\ Begun)'
    BY <1>0, <2>1 DEF Fails, ChildKnown, Begun, Exits
  <2> QED
    BY <1>1, <2>1, <2>2
<1>5. CASE ChildEnded
  <2>1. PICK to \in {"undo", "exit"} :
          child = "gone" /\ Fails("awaiting", to) /\ (to = "exit" <=> server.closing)
    BY <1>5 DEF ChildEnded, Returns
  <2>2. (ChildKnown /\ Begun)'
    BY <1>0, <2>1 DEF Fails, ChildKnown, Begun, Exits
  <2> QED
    BY <1>1, <2>1, <2>2
<1>6. CASE Undo
  <2>1. /\ server' \in [closing : BOOLEAN, complete : BOOLEAN,
                        join : {"off", "operations", "background", "drained"}]
        /\ server'.join = server.join /\ server'.complete = server.complete
    BY <1>6 DEF Undo, TypeOK
  <2>2. start' \in {"ending", "exit"} /\ (start' = "exit" => ~process.ready)
        /\ start = "undo" /\ hosts' = {} /\ UNCHANGED <<main, callers, work, loop, media, restarts>>
    BY <1>6 DEF Undo
  <2>3. TypeOK'
    BY <2>1, <2>2 DEF TypeOK
  <2>4. (ChildKnown /\ Begun /\ ChildAwaited)'
    BY <1>0, <2>2 DEF ChildKnown, Begun, ChildAwaited, At, Exits
  <2> QED
    BY <1>0, <2>1, <2>2, <2>3, <2>4, StartingKeeps
<1>7. CASE EndChild
  <2>1. /\ process' \in [closed : BOOLEAN, signalled : BOOLEAN, ready : BOOLEAN]
        /\ process'.closed /\ process'.ready = process.ready
    BY <1>7 DEF EndChild, TypeOK
  <2>2. /\ start = "ending" /\ start' \in {"awaiting", "undo", "exit"}
        /\ start' # "awaiting" => process.closed /\ (start' = "exit" <=> server.closing)
        /\ UNCHANGED <<main, callers, server, hosts, work, loop, child, orphan, restarts>>
    BY <1>7 DEF EndChild, Returns
  <2>3. start' # "awaiting" => child = "gone"
    BY <1>0, <2>2, FreshIsTyped DEF ChildAwaited, At, Quiet
  <2>4. TypeOK'
    BY <2>1, <2>2 DEF TypeOK
  <2>5. (ChildKnown /\ Begun /\ ChildAwaited)'
    BY <1>0, <2>1, <2>2, <2>3 DEF ChildKnown, Begun, ChildAwaited, At, Exits
  <2> QED
    BY <1>0, <2>2, <2>4, <2>5, StartingKeeps
<1>8. CASE GivesUp
  <2>1. child' = "none" /\ orphan' \in BOOLEAN /\ Exit("unstarted")
    BY <1>8 DEF GivesUp, Orphans, TypeOK
  <2> QED
    BY <2>1, ExitKeeps DEF Exits
<1> QED
  BY <1>2, <1>3, <1>4, <1>5, <1>6, <1>7, <1>8 DEF Undoes

\* Work that ends leaves less to join.
LEMMA EndsKeep ==
  ASSUME IInv, Killed \/ MainExits
  PROVE  IInv'
<1>1. child' = "none" /\ orphan' \in BOOLEAN
  BY DEF Killed, MainExits, Orphans, IInv, TypeOK
<1> QED
  BY <1>1, ExitKeeps DEF Killed, MainExits, Exits

-----------------------------------------------------------------------------
(* The work.                                                               *)

\* Work that leaves Close alone keeps the invariant, if it only begins, and
\* only touches sources and sessions, while the edge is not closing.
LEMMA WorkKeeps ==
  ASSUME IInv, TypeOK', UNCHANGED <<main, start, callers, server, hosts, media, restarts>>,
         InFlight' \subseteq InFlight \/ ~server.closing,
         tasks' <= tasks \/ ~server.closing,
         \/ ~server.closing \/ InFlight # {}
         \/ (UNCHANGED source /\ sessions' \subseteq sessions)
  PROVE  IInv'
<1> USE DEF IInv, callers, media
<1>1. (Quiet /\ ChildKnown /\ Begun /\ ChildAwaited)'
  BY DEF Quiet, ChildKnown, Begun, ChildAwaited, At
<1>2. Joins'
  BY DEF Joins, TypeOK
<1>3. Held'
  BY DEF Held, At, Holding, Joins
<1>4. Completed'
  BY DEF Completed, CompleteMeansReleased, Joins
<1> QED
  BY <1>1, <1>2, <1>3, <1>4

\* Requests: admission, what they do to sessions and to the source, their end.
LEMMA OperationsKeep ==
  ASSUME IInv, NEW o \in Op, Arrive(o) \/ Operates(o)
  PROVE  IInv'
<1>1. UNCHANGED <<main, start, callers, server, hosts, tasks, media, restarts>>
  BY DEF Arrive, Operates, Op1, BeginOperation, Refuse, Acquire, Acquired, AcquireFails, Register,
     NotRegistered, EndOperation
<1>2. PICK to \in {"none", "arrived", "admitted", "calling", "acquired", "leaving"} :
        ops' = [ops EXCEPT ![o] = to]
  BY DEF Arrive, Operates, Op1, BeginOperation, Refuse, Acquire, Acquired, AcquireFails, Register,
     NotRegistered, EndOperation
<1>3. sessions' \in SUBSET Op /\ loop' \in {"none", "top", "parked", "pass", "rest", "over"}
  BY DEF Arrive, Operates, BeginOperation, Refuse, Acquire, Acquired, AcquireFails, Register,
     NotRegistered, EndOperation, Announce, Wake, IInv, TypeOK
<1>4. source' \in [active : BOOLEAN, uncertain : BOOLEAN, stopped : BOOLEAN]
  <2>1. source \in [active : BOOLEAN, uncertain : BOOLEAN, stopped : BOOLEAN]
    BY DEF IInv, TypeOK
  <2>2. \/ UNCHANGED source
        \/ \E u \in BOOLEAN : source' = [source EXCEPT !.active = TRUE, !.uncertain = u]
    BY DEF Arrive, Operates, BeginOperation, Refuse, Acquire, Acquired, AcquireFails, Register,
       NotRegistered, EndOperation
  <2> QED
    BY <2>1, <2>2
<1>5. TypeOK'
  BY <1>1, <1>2, <1>3, <1>4 DEF IInv, TypeOK, callers, media
<1>6. InFlight' \subseteq InFlight \/ ~server.closing
  BY <1>2 DEF Arrive, Operates, Op1, BeginOperation, Refuse, Acquire, Acquired, AcquireFails, Register,
     NotRegistered, EndOperation, InFlight, MayBegin, IInv, TypeOK
<1>7. (UNCHANGED source /\ sessions' \subseteq sessions) \/ ~server.closing \/ InFlight # {}
  BY DEF Arrive, Operates, Op1, BeginOperation, Refuse, Acquire, Acquired, AcquireFails, Register,
     NotRegistered, EndOperation, InFlight
<1>8. tasks' <= tasks
  BY <1>1 DEF IInv, TypeOK
<1> QED
  BY <1>1, <1>5, <1>6, <1>7, <1>8, WorkKeeps

\* Background tasks: startBackground and their end.
LEMMA TasksKeep ==
  ASSUME IInv, StartBackground \/ EndBackground
  PROVE  IInv'
<1>1. tasks' \in 0..MaxTasks
  BY ConstantsAssumption DEF ConstantsAssumption, StartBackground, EndBackground, IInv, TypeOK
<1>2. TypeOK'
  <2>1. UNCHANGED <<main, start, callers, server, hosts, ops, sessions, source, loop, media, restarts>>
    BY DEF StartBackground, EndBackground
  <2> QED
    BY <1>1, <2>1 DEF IInv, TypeOK, callers, media
<1>3. InFlight' = InFlight /\ (tasks' <= tasks \/ ~server.closing)
  BY DEF StartBackground, EndBackground, MayStart, InFlight, IInv, TypeOK
<1> QED
  BY <1>2, <1>3, WorkKeeps DEF StartBackground, EndBackground

\* The reconcile loop sleeps, wakes and passes.
LEMMA LoopKeeps ==
  ASSUME IInv, Reconciles
  PROVE  IInv'
<1>1. UNCHANGED <<main, start, callers, server, hosts, ops, tasks, media, restarts>>
  BY DEF Reconciles, LoopTop, Pass, Rested, Loops
<1>2. loop' \in {"none", "top", "parked", "pass", "rest", "over"} /\ sessions' \subseteq sessions
  BY DEF Reconciles, LoopTop, Pass, Rested, Loops
<1>3. source' \in [active : BOOLEAN, uncertain : BOOLEAN, stopped : BOOLEAN]
      /\ (UNCHANGED source \/ ~server.closing)
  <2>1. source \in [active : BOOLEAN, uncertain : BOOLEAN, stopped : BOOLEAN]
    BY DEF IInv, TypeOK
  <2>2. \/ UNCHANGED source
        \/ ~server.closing /\ \E p \in BOOLEAN : source' = [source EXCEPT !.active = ~p, !.uncertain = ~p]
    BY DEF Reconciles, LoopTop, Pass, Rested
  <2> QED
    BY <2>1, <2>2
<1>4. TypeOK'
  BY <1>1, <1>2, <1>3 DEF IInv, TypeOK, callers, media
<1>5. InFlight' = InFlight /\ tasks' <= tasks
  BY <1>1 DEF InFlight, IInv, TypeOK
<1> QED
  BY <1>1, <1>2, <1>3, <1>4, <1>5, WorkKeeps

-----------------------------------------------------------------------------
(* The callers of Close.                                                   *)

\* A signal and the watchers of the child and of the HTTP host begin to close.
LEMMA WatchersKeep ==
  ASSUME IInv, Signal \/ ChildWatched \/ HTTPWatched
  PROVE  IInv'
<1> USE DEF IInv, work, media
<1>1. PICK c \in Closer, to \in {"lock", "over"} : Calls(c, to) /\ closer[c].at = "idle"
  BY DEF Signal, ChildWatched, HTTPWatched, Closer, Quiet
<1>2. /\ closer' \in [Closer -> Caller] /\ closer'[c].at = to
      /\ \A d \in Closer \ {c} : closer'[d] = closer[d]
  BY <1>1, CallerBegins DEF Point, Closing
<1>3. /\ {main, main'} \subseteq {"waiting", "closing"} /\ (main' = "waiting" => main = "waiting" /\ c # "main")
      /\ hosts' \subseteq hosts
      /\ UNCHANGED <<start, closeMu, server, work, loop, media, restarts>>
  BY <1>1, <1>2 DEF Signal, ChildWatched, HTTPWatched, Calls, Closer, Caller
<1>4. TypeOK'
  BY <1>2, <1>3 DEF TypeOK, Caller, Point
<1>5. Quiet'
  BY <1>2, <1>3 DEF Quiet, Closer
<1>6. Joins' /\ Completed'
  BY <1>3 DEF Joins, Completed, CompleteMeansReleased, InFlight
<1>7. Held'
  BY <1>2, <1>3 DEF Held, At, Holding, TypeOK
<1>8. (ChildAwaited /\ ChildKnown /\ Begun)'
  BY <1>1, <1>2, <1>3 DEF ChildAwaited, ChildKnown, Begun, At, Exits
<1> QED
  BY <1>4, <1>5, <1>6, <1>7, <1>8

\* The two joins of Close complete, one after the other.
LEMMA JoinsKeep ==
  ASSUME IInv, JoinOperations \/ JoinBackground
  PROVE  IInv'
<1> USE DEF IInv, callers, work, media
<1>1. PICK j \in {"background", "drained"} :
        /\ server' = [server EXCEPT !.join = j] /\ server.join \notin {"off", "drained"}
        /\ InFlight = {} /\ (j = "drained" => tasks = 0)
  BY DEF JoinOperations, JoinBackground, Joins
<1>2. /\ server' \in [closing : BOOLEAN, complete : BOOLEAN,
                      join : {"off", "operations", "background", "drained"}]
      /\ server'.closing = server.closing /\ server'.complete = server.complete /\ server'.join = j
  BY <1>1 DEF TypeOK
<1>3. UNCHANGED <<main, start, callers, hosts, work, loop, media, restarts>>
  BY DEF JoinOperations, JoinBackground
<1>4. TypeOK'
  BY <1>2, <1>3 DEF TypeOK
<1>5. (Quiet /\ ChildKnown /\ Begun)'
  BY <1>1, <1>2, <1>3, FreshIsTyped DEF Quiet, ChildKnown, Begun, Fresh
<1>6. Joins'
  BY <1>1, <1>2, <1>3 DEF Joins, InFlight
<1>7. Held' /\ ChildAwaited'
  BY <1>1, <1>2, <1>3 DEF Held, ChildAwaited, At, Holding
<1>8. Completed'
  BY <1>1, <1>2, <1>3 DEF Completed, CompleteMeansReleased
<1> QED
  BY <1>4, <1>5, <1>6, <1>7, <1>8

\* The child exits or is waited for.
LEMMA ChildKeeps ==
  ASSUME IInv, ChildExits \/ OrphanExits
  PROVE  IInv'
<1> USE DEF IInv, callers, work
<1>1. /\ child' \in {child, "gone"} /\ (child = "gone" => child' = "gone") /\ orphan' \in BOOLEAN
      /\ (child = "none" => child' = "none")
      /\ UNCHANGED <<main, start, callers, server, hosts, work, loop, process, restarts>>
  BY DEF ChildExits, OrphanExits, TypeOK
<1>2. TypeOK'
  BY <1>1 DEF TypeOK
<1>3. (Quiet /\ ChildKnown /\ Begun /\ Joins /\ Held /\ ChildAwaited /\ Completed)'
  BY <1>1 DEF Quiet, ChildKnown, Begun, Joins, Held, ChildAwaited, Completed, CompleteMeansReleased, At,
     Holding, InFlight
<1> QED
  BY <1>2, <1>3

\* A step of the caller who holds closeMu.
LEMMA HolderKeeps ==
  ASSUME IInv, NEW c \in Closer, NEW from \in Holding, NEW to \in Holding \cup {"over"}, NEW fails \in BOOLEAN,
         closer[c].at = from, Moves(c, to, fails),
         UNCHANGED <<main, start, ops, tasks, child, orphan, restarts>>,
         TypeOK', server'.closing, server'.join = server.join,
         closeMu' = IF to = "over" THEN Nobody ELSE c,
         from # "hosts" \/ hosts' = {}, hosts' \subseteq hosts,
         to # "over" => ~server'.complete,
         to = "hosts" => from = "hosts",
         to \in {"cleanup", "stop", "await"} => server.join = "drained",
         to \in {"stop", "await"} /\ ~closer'[c].failed => ~source'.active /\ ~source'.uncertain,
         process'.closed => child = "gone" \/ to = "await",
         Completed'
  PROVE  IInv'
<1>1. /\ closer' \in [Closer -> Caller]
      /\ closer'[c].at = to /\ (closer'[c].failed <=> closer[c].failed \/ fails)
      /\ \A d \in Closer \ {c} : closer'[d] = closer[d]
  BY CallerMoves DEF IInv, Point, Closing, Holding
<1>2. closeMu = c /\ server.closing /\ ~server.complete
  BY DEF IInv, Held, At
<1>3. \A d \in Closer \ {c} : ~At(d, Holding) /\ ~At(d, Holding)'
  BY <1>1, <1>2 DEF IInv, Held, At
<1>4. main \in {"waiting", "closing"} /\ (main = "waiting" => c # "main")
  BY <1>2, FreshIsTyped DEF IInv, Quiet, Holding
<1>5. Quiet' /\ ChildKnown' /\ Begun'
  <2>1. start = "over" /\ main \notin Exits
    BY <1>4 DEF IInv, Quiet, Exits
  <2> QED
    BY <1>1, <1>4, <2>1 DEF IInv, Quiet, ChildKnown, Begun, Closer
<1>6. Joins'
  BY <1>2 DEF IInv, Joins, InFlight
<1>7. Held'
  BY <1>1, <1>2, <1>3 DEF IInv, Held, At, Holding
<1>8. ChildAwaited'
  BY <1>1 DEF ChildAwaited, At
<1> QED
  BY <1>5, <1>6, <1>7, <1>8 DEF IInv

\* What the holder of closeMu knows: nobody else waits for the child.
LEMMA HolderKnows ==
  ASSUME IInv, NEW c \in Closer, closer[c].at \in Holding
  PROVE  /\ closeMu = c /\ server.closing /\ ~server.complete
         /\ process.closed => child = "gone" \/ closer[c].at = "await"
<1>1. closeMu = c /\ server.closing /\ ~server.complete
  BY DEF IInv, Held, At
<1>2. \A d \in Closer : At(d, {"await"}) => d = c
  BY <1>1 DEF IInv, Held, At, Holding
<1>3. start = "over"
  BY FreshIsTyped DEF IInv, Quiet, Holding
<1> QED
  BY <1>1, <1>2, <1>3 DEF IInv, ChildAwaited, At

\* Each step of a caller of Close.
LEMMA CloseKeeps ==
  ASSUME IInv, NEW c \in Closer, Close(c)
  PROVE  IInv'
<1> USE DEF Holding, work, callers, media
<1>1. CASE CloseBegins(c)
  <2>1. CASE server.complete
    <3>1. /\ Moves(c, "over", FALSE) /\ closer[c].at = "lock"
          /\ UNCHANGED <<main, start, closeMu, server, hosts, work, loop, media, restarts>>
      BY <1>1, <2>1 DEF CloseBegins, Closes, Moves
    <3>2. /\ closer' \in [Closer -> Caller] /\ closer'[c].at = "over"
          /\ \A d \in Closer \ {c} : closer'[d] = closer[d]
      BY <3>1, CallerMoves DEF IInv, Point
    <3>3. main # "waiting" \/ c # "main"
      BY <3>1 DEF IInv, Quiet
    <3>4. main \in {"waiting", "closing"}
      BY <2>1, FreshIsTyped DEF IInv, Quiet
    <3>5. TypeOK'
      BY <3>1, <3>2 DEF IInv, TypeOK, Caller, Point
    <3>6. Quiet' /\ ChildKnown' /\ Begun' /\ Joins' /\ Completed'
      BY <3>1, <3>2, <3>3, <3>4 DEF IInv, Quiet, ChildKnown, Begun, Joins, Completed, CompleteMeansReleased,
         InFlight, Closer
    <3>7. Held' /\ ChildAwaited'
      BY <3>1, <3>2 DEF IInv, Held, ChildAwaited, At
    <3> QED
      BY <3>5, <3>6, <3>7 DEF IInv
  <2>2. CASE ~server.complete
    <3>1. /\ Moves(c, "hosts", FALSE) /\ closer[c].at = "lock" /\ closeMu = Nobody /\ closeMu' = c
          /\ UNCHANGED <<main, start, hosts, work, process, child, orphan, restarts>>
          /\ loop' \in {loop, "top"}
      BY <1>1, <2>2 DEF CloseBegins, Closes, Moves, Broadcast, Wake
    <3>2. /\ closer' \in [Closer -> Caller] /\ closer'[c].at = "hosts"
          /\ \A d \in Closer \ {c} : closer'[d] = closer[d]
      BY <3>1, CallerMoves DEF IInv, Point, Closing
    <3>3. /\ server' \in [closing : BOOLEAN, complete : BOOLEAN,
                          join : {"off", "operations", "background", "drained"}]
          /\ server'.closing /\ ~server'.complete
          /\ \/ server'.join = server.join /\ server.join # "off"
             \/ server'.join = "operations" /\ server.join = "off"
      <4>1. CASE server.join = "off"
        <5>1. server' = [server EXCEPT !.closing = TRUE, !.join = "operations"]
          BY <1>1, <2>2, <4>1 DEF CloseBegins
        <5>2. server \in [closing : BOOLEAN, complete : BOOLEAN,
                          join : {"off", "operations", "background", "drained"}]
          BY DEF IInv, TypeOK
        <5> QED
          BY <2>2, <4>1, <5>1, <5>2
      <4>2. CASE server.join # "off"
        BY <1>1, <2>2, <4>2 DEF CloseBegins, IInv, TypeOK, Joins
      <4> QED
        BY <4>1, <4>2
    <3>4. \A d \in Closer : ~At(d, Holding)
      <4>1. Nobody \notin Closer
        BY DEF Nobody, Closer
      <4> QED
        BY <3>1, <4>1 DEF IInv, Held
    <3>5. main \in {"waiting", "closing"} /\ (main = "waiting" => c # "main")
      BY <3>1, FreshIsTyped DEF IInv, Quiet
    <3>6. TypeOK'
      BY <3>1, <3>2, <3>3 DEF IInv, TypeOK, Caller, Point
    <3>7. Quiet' /\ ChildKnown' /\ Begun' /\ Joins' /\ Completed'
      <4>1. start = "over" /\ main \notin Exits
        BY <3>5 DEF IInv, Quiet, Exits
      <4> QED
        BY <3>1, <3>2, <3>3, <3>5, <4>1 DEF IInv, Quiet, ChildKnown, Begun, Joins, Completed,
           CompleteMeansReleased, InFlight, Closer
    <3>8. Held' /\ ChildAwaited'
      BY <3>1, <3>2, <3>3, <3>4 DEF IInv, Held, ChildAwaited, At
    <3> QED
      BY <3>6, <3>7, <3>8 DEF IInv
  <2> QED
    BY <2>1, <2>2
<1>2. CASE CloseHosts(c)
  <2>1. \E f \in BOOLEAN : Moves(c, "drain", f)
    BY <1>2 DEF CloseHosts, Moves
  <2>2. closer' \in [Closer -> Caller]
    BY <2>1, CallerMoves DEF IInv, Point, Closing
  <2>3. TypeOK'
    BY <1>2, <2>2 DEF CloseHosts, IInv, TypeOK, Caller, Point
  <2>4. /\ server.closing /\ ~server.complete /\ closeMu = c
        /\ process'.closed => child = "gone"
    BY <1>2, HolderKnows DEF CloseHosts
  <2>5. Completed'
    BY <1>2, <2>4 DEF CloseHosts, IInv, Completed, CompleteMeansReleased
  <2> QED
    BY <1>2, <2>1, <2>3, <2>4, <2>5, HolderKeeps DEF CloseHosts
<1>3. ASSUME NEW from \in Holding \ {"hosts"}, NEW to \in Holding \cup {"over"}, NEW f \in BOOLEAN,
             Closes(c, from, to, f), TypeOK', closeMu' = IF to = "over" THEN Nobody ELSE c,
             to # "hosts", server'.closing, server'.join = server.join, to # "over" => ~server'.complete,
             to \in {"cleanup", "stop", "await"} => server.join = "drained",
             to \in {"stop", "await"} /\ ~closer'[c].failed => ~source'.active /\ ~source'.uncertain,
             process'.closed => child = "gone" \/ to = "await",
             Completed'
      PROVE  IInv'
  BY <1>3, HolderKeeps DEF Closes, Moves
<1>4. ASSUME NEW from \in Holding, NEW to \in Holding \cup {"over"}, NEW f \in BOOLEAN,
             Closes(c, from, to, f)
      PROVE  /\ UNCHANGED <<main, start, hosts, ops, tasks, child, orphan, restarts>>
             /\ closer' \in [Closer -> Caller] /\ closer'[c].at = to
             /\ closer'[c].failed <=> closer[c].failed \/ f
             /\ closeMu = c /\ server.closing /\ ~server.complete
             /\ process.closed => child = "gone" \/ from = "await"
             /\ from # "hosts" => hosts = {}
             /\ from \in {"cleanup", "stop", "await"} => server.join = "drained"
             /\ from \in {"stop", "await"} /\ ~closer[c].failed => ~source.active /\ ~source.uncertain
  <2>1. /\ closer[c].at = from /\ Moves(c, to, f)
        /\ UNCHANGED <<main, start, hosts, ops, tasks, child, orphan, restarts>>
    BY <1>4 DEF Closes, Moves
  <2> QED
    BY <2>1, CallerMoves, HolderKnows DEF IInv, Point, Closing, Held, At
<1>5. CASE CloseDrained(c)
  <2>1. Closes(c, "drain", "cleanup", FALSE) /\ UNCHANGED <<closeMu, server, sessions, source, loop, process>>
        /\ server.join = "drained"
    BY <1>5 DEF CloseDrained
  <2>2. closer' \in [Closer -> Caller]
        /\ UNCHANGED <<main, start, hosts, ops, tasks, child, orphan, restarts>>
    BY <1>4, <2>1
  <2>3. TypeOK'
    BY <2>1, <2>2 DEF IInv, TypeOK, Caller, Point
  <2>4. Completed'
    BY <1>4, <2>1 DEF Completed, CompleteMeansReleased
  <2> QED
    BY <1>3, <1>4, <2>1, <2>3, <2>4
<1>6. CASE CloseTimesOut(c)
  <2>1. Closes(c, "drain", "over", TRUE) /\ closeMu' = Nobody
        /\ UNCHANGED <<server, sessions, source, loop, process>>
    BY <1>6 DEF CloseTimesOut
  <2>2. closer' \in [Closer -> Caller]
        /\ UNCHANGED <<main, start, hosts, ops, tasks, child, orphan, restarts>>
    BY <1>4, <2>1
  <2>3. TypeOK'
    BY <2>1, <2>2 DEF IInv, TypeOK, Caller, Point
  <2>4. Completed'
    BY <1>4, <2>1 DEF Completed, CompleteMeansReleased
  <2> QED
    BY <1>3, <1>4, <2>1, <2>3, <2>4
<1>7. CASE CloseCleanup(c)
  <2>1. PICK kept \in SUBSET sessions, late \in BOOLEAN, lost \in BOOLEAN :
          /\ Closes(c, "cleanup", "stop", late \/ lost)
          /\ sessions' = kept
          /\ source' = IF lost THEN [source EXCEPT !.uncertain = TRUE]
                               ELSE [active |-> FALSE, uncertain |-> FALSE, stopped |-> TRUE]
          /\ UNCHANGED <<closeMu, server, loop, process>>
    BY <1>7 DEF CloseCleanup
  <2>2. source' \in [active : BOOLEAN, uncertain : BOOLEAN, stopped : BOOLEAN]
        /\ (~lost => ~source'.active /\ ~source'.uncertain)
    <3>1. CASE lost
      <4>1. source \in [active : BOOLEAN, uncertain : BOOLEAN, stopped : BOOLEAN]
        BY DEF IInv, TypeOK
      <4> QED
        BY <2>1, <3>1, <4>1
    <3>2. CASE ~lost
      <4>1. source' = [active |-> FALSE, uncertain |-> FALSE, stopped |-> TRUE]
        BY <2>1, <3>2
      <4>2. source'.active = FALSE /\ source'.uncertain = FALSE
        BY <4>1
      <4> QED
        BY <4>1, <4>2
    <3> QED
      BY <3>1, <3>2
  <2>3. TypeOK'
    BY <1>4, <2>1, <2>2 DEF IInv, TypeOK, Caller, Point
  <2>4. Completed'
    BY <1>4, <2>1 DEF Completed, CompleteMeansReleased
  <2> QED
    BY <1>3, <1>4, <2>1, <2>2, <2>3, <2>4
<1>8. CASE CloseStopsChild(c)
  <2>1. Closes(c, "stop", "await", FALSE) /\ UNCHANGED <<closeMu, server, sessions, source, loop>>
        /\ process' = [process EXCEPT !.closed = TRUE, !.signalled = TRUE]
    BY <1>8 DEF CloseStopsChild
  <2>2. process' \in [closed : BOOLEAN, signalled : BOOLEAN, ready : BOOLEAN]
    BY <2>1 DEF IInv, TypeOK
  <2>3. closer' \in [Closer -> Caller]
        /\ UNCHANGED <<main, start, hosts, ops, tasks, child, orphan, restarts>>
    BY <1>4, <2>1
  <2>4. TypeOK'
    BY <2>1, <2>2, <2>3 DEF IInv, TypeOK, Caller, Point
  <2>5. Completed'
    BY <1>4, <2>1 DEF Completed, CompleteMeansReleased
  <2> QED
    BY <1>3, <1>4, <2>1, <2>4, <2>5
<1>9. ASSUME NEW from \in {"stop", "await"}, NEW fails \in BOOLEAN, CloseEnds(c, from, fails),
             child = "gone"
      PROVE  IInv'
  <2>1. /\ Closes(c, from, "over", fails) /\ closeMu' = Nobody
        /\ UNCHANGED <<source, loop, process>>
        /\ sessions' = IF fails THEN sessions ELSE {}
        /\ server' = [server EXCEPT !.complete = Completes(c, fails)]
    BY <1>9 DEF CloseEnds
  <2>2. Completes(c, fails) \in BOOLEAN /\ (Completes(c, fails) <=> ~closer[c].failed /\ ~fails)
    BY DEF Completes
  <2>3. /\ server' \in [closing : BOOLEAN, complete : BOOLEAN,
                        join : {"off", "operations", "background", "drained"}]
        /\ server'.closing = server.closing /\ server'.join = server.join
        /\ server'.complete <=> ~closer[c].failed /\ ~fails
    BY <2>1, <2>2 DEF IInv, TypeOK
  <2>4. TypeOK'
    BY <1>4, <2>1, <2>3 DEF IInv, TypeOK, Caller, Point
  <2>5. Completed'
    BY <1>4, <1>9, <2>1, <2>3 DEF Completed, CompleteMeansReleased
  <2> QED
    BY <1>3, <1>4, <1>9, <2>1, <2>3, <2>4, <2>5
<1>10. CASE CloseFindsStopped(c)
  <2>1. process.closed /\ CloseEnds(c, "stop", FALSE) /\ Closes(c, "stop", "over", FALSE)
    BY <1>10 DEF CloseFindsStopped, CloseEnds
  <2>2. child = "gone"
    BY <1>4, <2>1
  <2> QED
    BY <1>9, <2>1, <2>2
<1>11. CASE CloseAwaited(c)
  BY <1>9, <1>11 DEF CloseAwaited
<1> QED
  BY <1>1, <1>2, <1>5, <1>6, <1>7, <1>8, <1>10, <1>11 DEF Close

-----------------------------------------------------------------------------
(* The theorems.                                                           *)

\* Every step of the edge keeps the invariant.
LEMMA Inductive == Spec => []IInv
<1>1. Init => IInv
  BY InitIInv
<1>2. IInv /\ [Next]_vars => IInv'
  <2> SUFFICES ASSUME IInv, [Next]_vars PROVE IInv'
    OBVIOUS
  <2>1. CASE UNCHANGED vars
    BY <2>1 DEF vars, callers, work, media, IInv, TypeOK, Quiet, ChildKnown, Begun, Joins, Held, ChildAwaited, Completed,
       CompleteMeansReleased, At, InFlight
  <2>2. CASE Next
    BY <2>2, StartsKeep, UndoesKeep, EndsKeep, OperationsKeep, TasksKeep, LoopKeeps, WatchersKeep, CloseKeeps,
       JoinsKeep, ChildKeeps DEF Next
  <2> QED
    BY <2>1, <2>2
<1> QED
  BY <1>1, <1>2, PTL DEF Spec

\* Cleanup runs alone and a complete Close has left nothing, whoever calls
\* Close, whichever of its steps failed before, and with any work in flight.
THEOREM LifecycleIsSound == Spec => []LifecycleInv
<1>1. IInv => LifecycleInv
  BY DEF IInv, LifecycleInv, CleanupRunsAlone, Held, Joins, Completed, At
<1> QED
  BY <1>1, Inductive, PTL

\* A Start that fails, at whatever step and for whatever reason, leaves no
\* MediaMTX behind: where the deferred function does not end the child, it was
\* never spawned, has exited or was ended on the spot.
THEOREM FailedStartsLeaveNothing == Spec => FailedStartLeavesNothing
<1> DEFINE Ends == main' = "unstarted" /\ main # "unstarted"
<1>1. ASSUME Next, Ends
      PROVE  start = "exit"
  <2>1. ~ (Killed \/ Restart \/ MainExits)
    BY <1>1 DEF Killed, Restart, MainExits, Exit
  <2>2. ~ (Starts \/ StartFails \/ RPCFails)
    BY <1>1 DEF Starts, Prepare, Listen, Spawn, Probe, StartRPC, StartHTTP, StartFails, RPCFails, Fails
  <2>3. \A o \in Op : ~ (Arrive(o) \/ Operates(o))
    BY <1>1 DEF Arrive, Operates, BeginOperation, Refuse, Acquire, Acquired, AcquireFails, Register,
       NotRegistered, EndOperation, Op1
  <2>4. ~ (StartBackground \/ EndBackground \/ Reconciles)
    BY <1>1 DEF StartBackground, EndBackground, Reconciles, LoopTop, Pass, Rested, Loops
  <2>5. ~ (Signal \/ ChildWatched \/ HTTPWatched \/ JoinOperations \/ JoinBackground)
    BY <1>1 DEF Signal, ChildWatched, HTTPWatched, JoinOperations, JoinBackground
  <2>6. \A c \in Closer : ~ Close(c)
    BY <1>1 DEF Close, CloseBegins, CloseHosts, CloseDrained, CloseTimesOut, CloseCleanup, CloseStopsChild,
       CloseFindsStopped, CloseAwaited, CloseEnds, Closes
  <2>7. ~ (ChildExits \/ OrphanExits)
    BY <1>1 DEF ChildExits, OrphanExits
  <2>8. Undoes
    BY <1>1, <2>1, <2>2, <2>3, <2>4, <2>5, <2>6, <2>7 DEF Next
  <2> QED
    BY <1>1, <2>8 DEF Undoes, ChildExitsEarly, ProbeTimesOut, Fails, Undo, EndChild, ChildEnded, GivesUp
<1>2. IInv /\ start = "exit" => child \in {"none", "gone"}
  BY DEF IInv, ChildKnown
<1>3. IInv /\ [Next]_vars => [Ends => child \in {"none", "gone"}]_vars
  BY <1>1, <1>2
<1> QED
  BY <1>3, Inductive, PTL DEF Spec, FailedStartLeavesNothing
=============================================================================

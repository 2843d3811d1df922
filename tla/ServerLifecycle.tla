--------------------------- MODULE ServerLifecycle ---------------------------
(***************************************************************************)
(* The life of the edge process: Start, admission of work, the reconcile   *)
(* loop, Close, and the MediaMTX child (internal/mediaedge: MediaMTXServer *)
(* Start, beginOperation, startBackground, reconcileLoop, Close;           *)
(* internal/mediamtx: Process; cmd/xgc-media-edge: main).                  *)
(*                                                                         *)
(* main starts the server, waits for a signal and calls Close once.  The   *)
(* exit of the child and an error of the HTTP host call Close as well, so  *)
(* three callers may meet at closeMu, and a Close that gives up leaves     *)
(* work for the next one.  Operations and background tasks are counted in  *)
(* wait groups, from which nothing may be missing once they are joined.    *)
(*                                                                         *)
(* The edge may be killed at any step and started again; its child is not  *)
(* tied to it and lives on, with its ports.                                *)
(***************************************************************************)
EXTENDS Integers, FiniteSets

CONSTANTS
  Op,             \* requests that the hosts may carry at once
  MaxOperations,  \* config.MaxOperations
  MaxTasks,       \* bound: background tasks at once
  MaxRestart      \* bound: restarts of an edge that has exited

ASSUME ConstantsAssumption ==
  /\ MaxOperations \in Nat \ {0} /\ MaxTasks \in Nat /\ MaxRestart \in Nat

\* Who calls Close: main, and the watchers of the child and of the HTTP host.
Closer == {"main", "child", "http"}
Nobody == "nobody"

VARIABLES
  main,      \* where main is, and the exit of the process
  start,     \* progress of Start
  closer,    \* progress of each caller of Close
  closeMu,   \* who holds closeMu, after Start
  server,    \* closing, closeComplete and the goroutine that joins the work
  hosts,     \* listeners that are open: "listener", "rpc", "http"
  ops,       \* operations in flight
  tasks,     \* background tasks in flight
  sessions,  \* server.sessions, named by the operation that opened them
  source,    \* the one source: active, deactivateUncertain, shutdownStopped
  loop,      \* the reconcile loop
  process,   \* Process: closeOnce is done, the child was signalled; childStarted of Start
  child,     \* external: the MediaMTX child
  orphan,    \* external: a MediaMTX of an earlier edge lives and has the ports
  restarts

callers == <<closer, closeMu>>
work    == <<ops, tasks, sessions, source>>
media   == <<process, child, orphan>>
vars    == <<main, start, callers, server, hosts, work, loop, media, restarts>>

Undoing == {"undo", "ending", "awaiting", "exit"}
Closing == {"lock", "hosts", "drain", "cleanup", "stop", "await"}

\* The variables have their types.
TypeOK ==
  /\ main \in {"starting", "waiting", "closing", "ok", "failed", "unstarted", "killed"}
  /\ start \in {"sources", "listen", "spawn", "probe", "rpc", "http", "over"} \cup Undoing
  /\ closer \in [Closer -> [at : {"idle", "over"} \cup Closing, failed : BOOLEAN]]
  /\ closeMu \in Closer \cup {Nobody}
  /\ server \in [closing : BOOLEAN, complete : BOOLEAN,
                 join : {"off", "operations", "background", "drained"}]
  /\ hosts \in SUBSET {"listener", "rpc", "http"}
  /\ ops \in [Op -> {"none", "arrived", "admitted", "calling", "acquired", "leaving"}]
  /\ tasks \in 0..MaxTasks
  /\ sessions \in SUBSET Op
  /\ source \in [active : BOOLEAN, uncertain : BOOLEAN, stopped : BOOLEAN]
  /\ loop \in {"none", "top", "parked", "pass", "rest", "over"}
  /\ process \in [closed : BOOLEAN, signalled : BOOLEAN, ready : BOOLEAN]
  /\ child \in {"none", "running", "refused", "gone"}
  /\ orphan \in BOOLEAN
  /\ restarts \in 0..MaxRestart

Idle == [at |-> "idle", failed |-> FALSE]
Fresh == [closing |-> FALSE, complete |-> FALSE, join |-> "off"]
Parked == [active |-> FALSE, uncertain |-> FALSE, stopped |-> FALSE]
Unused == [closed |-> FALSE, signalled |-> FALSE, ready |-> FALSE]

Init ==
  /\ main = "starting" /\ start = "sources"
  /\ closer = [c \in Closer |-> Idle] /\ closeMu = Nobody
  /\ server = Fresh /\ hosts = {}
  /\ ops = [o \in Op |-> "none"] /\ tasks = 0 /\ sessions = {} /\ source = Parked
  /\ loop = "none" /\ process = Unused /\ child = "none"
  /\ orphan = FALSE /\ restarts = 0

Exits == {"ok", "failed", "unstarted", "killed"}
Alive == main \notin Exits

\* The edge ends.  The kernel takes its sockets and its memory; a MediaMTX
\* that listens keeps its ports.
Exit(how) ==
  /\ main' = how /\ start' = "over"
  /\ closer' = [c \in Closer |-> Idle] /\ closeMu' = Nobody
  /\ server' = Fresh /\ hosts' = {}
  /\ ops' = [o \in Op |-> "none"] /\ tasks' = 0 /\ sessions' = {} /\ source' = Parked
  /\ loop' = "none" /\ process' = Unused
  /\ UNCHANGED restarts

Orphans == child' = "none" /\ orphan' = (orphan \/ child = "running")

Killed == Alive /\ Exit("killed") /\ Orphans

\* The process is started again; nothing of the earlier one is remembered.
Restart ==
  /\ ~Alive /\ restarts < MaxRestart
  /\ main' = "starting" /\ start' = "sources" /\ restarts' = restarts + 1
  /\ UNCHANGED <<callers, server, hosts, work, loop, media>>

-----------------------------------------------------------------------------
(* Start, under closeMu.  No one else runs yet, except what the private    *)
(* host carries once it is up.                                             *)

Starting(from, to) == start = from /\ start' = to

\* Recording root and pipeline descriptions are checked, the address is bound.
Prepare ==
  /\ Starting("sources", "listen")
  /\ UNCHANGED <<main, callers, server, hosts, work, loop, media, restarts>>

Listen ==
  /\ Starting("listen", "spawn")
  /\ hosts' = {"listener"}
  /\ UNCHANGED <<main, callers, server, work, loop, media, restarts>>

\* The child is spawned; where an orphan has the ports it will exit.
Spawn ==
  /\ Starting("spawn", "probe")
  /\ child' = IF orphan THEN "refused" ELSE "running"
  /\ UNCHANGED <<main, callers, server, hosts, work, loop, process, orphan, restarts>>

\* The probe asks the configured API address for the configured paths.
Answers == child = "running" \/ orphan

Probe ==
  /\ Starting("probe", "rpc")
  /\ Answers
  /\ process' = [process EXCEPT !.ready = TRUE]
  /\ UNCHANGED <<main, callers, server, hosts, work, loop, child, orphan, restarts>>

StartRPC ==
  /\ Starting("rpc", "http")
  /\ hosts' = hosts \cup {"rpc"}
  /\ UNCHANGED <<main, callers, server, work, loop, media, restarts>>

\* The HTTP host takes the listener; the watchers and the loop start.
StartHTTP ==
  /\ Starting("http", "over")
  /\ main' = "waiting"
  /\ hosts' = {"rpc", "http"}
  /\ loop' = "top"
  /\ UNCHANGED <<callers, server, work, media, restarts>>

-----------------------------------------------------------------------------
(* A Start that fails.  process.Close is called where a child may be left, *)
(* and by the deferred function if Process.Start had succeeded.            *)

Fails(from, to) ==
  /\ Starting(from, to)
  /\ UNCHANGED <<main, callers, server, hosts, work, loop, media, restarts>>

\* Bad configuration, an address in use, a version that is not the pinned one,
\* an HTTP host that does not start: nothing is ended on the spot.
StartFails == \E step \in {"sources", "listen", "spawn", "http"} : Fails(step, "undo")

ChildExitsEarly == child = "gone" /\ Fails("probe", "undo")

\* Process.Start closes a child that is not ready in time.
Mutant_LeavesChild == Fails("probe", "undo")
ProbeTimesOut == Fails("probe", "ending")

RPCFails == Fails("rpc", "ending")

\* The deferred function: nothing is admitted any more, what listens is closed.
Undo ==
  /\ Starting("undo", IF process.ready THEN "ending" ELSE "exit")
  /\ server' = [server EXCEPT !.closing = TRUE]
  /\ hosts' = {}
  /\ UNCHANGED <<main, callers, work, loop, media, restarts>>

\* Process.Close, before the deferred function or in it.
Returns == IF server.closing THEN "exit" ELSE "undo"

EndChild ==
  /\ Starting("ending", IF process.closed THEN Returns ELSE "awaiting")
  /\ process' = [process EXCEPT !.closed = TRUE, !.signalled = TRUE]
  /\ UNCHANGED <<main, callers, server, hosts, work, loop, child, orphan, restarts>>

ChildEnded == child = "gone" /\ Fails("awaiting", Returns)

\* main exits, whatever is left of the child.
GivesUp == start = "exit" /\ Exit("unstarted") /\ Orphans

Undoes == ChildExitsEarly \/ ProbeTimesOut \/ Undo \/ EndChild \/ ChildEnded \/ GivesUp

-----------------------------------------------------------------------------
(* Admission: closing and the counters are read and written in one region  *)
(* of server.mu.                                                           *)

Arrive(o) ==
  /\ Alive /\ hosts \cap {"rpc", "http"} # {}
  /\ ops[o] = "none" /\ o \notin sessions
  /\ ops' = [ops EXCEPT ![o] = "arrived"]
  /\ UNCHANGED <<main, start, callers, server, hosts, tasks, sessions, source, loop, media, restarts>>

\* What server.operations counts.
InFlight == {o \in Op : ops[o] \notin {"none", "arrived"}}

Mutant_Unfenced == Cardinality(InFlight) < MaxOperations
MayBegin == ~server.closing /\ Cardinality(InFlight) < MaxOperations

Op1(o, from, to) ==
  /\ ops[o] = from
  /\ ops' = [ops EXCEPT ![o] = to]
  /\ UNCHANGED <<main, start, callers, server, hosts, tasks, media, restarts>>

\* beginOperation: a handler that arrived may get here long after.
BeginOperation(o) == MayBegin /\ Op1(o, "arrived", "admitted") /\ UNCHANGED <<sessions, source, loop>>

Refuse(o) == ~MayBegin /\ Op1(o, "arrived", "none") /\ UNCHANGED <<sessions, source, loop>>

\* The operation acquires its source, unless the edge is closing.
Acquire(o) ==
  /\ Op1(o, "admitted", IF server.closing THEN "leaving" ELSE "calling")
  /\ UNCHANGED <<sessions, source, loop>>

\* The native start is confirmed, or fails with an effect nobody knows.
Acquired(o) ==
  /\ Op1(o, "calling", "acquired")
  /\ source' = [source EXCEPT !.active = TRUE, !.uncertain = FALSE]
  /\ UNCHANGED <<sessions, loop>>

AcquireFails(o) ==
  /\ Op1(o, "calling", "leaving")
  /\ source' = [source EXCEPT !.active = TRUE, !.uncertain = TRUE]
  /\ UNCHANGED <<sessions, loop>>

\* reconcileCond.Signal and Broadcast: the loop is the only one who waits.
Wake == loop' = IF loop = "parked" THEN "top" ELSE loop

Mutant_Silently == UNCHANGED loop
Announce == Wake

\* A session enters server.sessions, unless the edge is closing.
Register(o) ==
  /\ ~server.closing
  /\ Op1(o, "acquired", "leaving")
  /\ sessions' = sessions \cup {o}
  /\ Announce
  /\ UNCHANGED source

NotRegistered(o) ==
  /\ Op1(o, "acquired", "leaving")
  /\ UNCHANGED <<sessions, source, loop>>

EndOperation(o) ==
  /\ Op1(o, "leaving", "none")
  /\ UNCHANGED <<sessions, source, loop>>

Operates(o) ==
  BeginOperation(o) \/ Refuse(o) \/ Acquire(o) \/ Acquired(o) \/ AcquireFails(o) \/ Register(o) \/ NotRegistered(o) \/ EndOperation(o)

\* startBackground: keyframe requests, status polls, recoveries and deferred
\* deactivations, for operations, timers and the loop.
MayStart == ~server.closing

StartBackground ==
  /\ main \in {"waiting", "closing"} /\ tasks < MaxTasks
  /\ MayStart
  /\ tasks' = tasks + 1
  /\ UNCHANGED <<main, start, callers, server, hosts, ops, sessions, source, loop, media, restarts>>

EndBackground ==
  /\ tasks > 0
  /\ tasks' = tasks - 1
  /\ UNCHANGED <<main, start, callers, server, hosts, ops, sessions, source, loop, media, restarts>>

-----------------------------------------------------------------------------
(* The reconcile loop sleeps on reconcileCond while there is nothing to    *)
(* own, and is not counted among the background tasks.                     *)

Loops(from, to) ==
  /\ loop = from /\ loop' = to
  /\ UNCHANGED <<main, start, callers, server, hosts, ops, tasks, media, restarts>>

LoopTop ==
  /\ Loops("top", IF server.closing THEN "over" ELSE IF sessions = {} THEN "parked" ELSE "pass")
  /\ UNCHANGED <<sessions, source>>

\* A pass leaves the sessions alone, or finds one gone; the last one to go
\* parks the source, or tries to.
Pass ==
  /\ Loops("pass", "rest")
  /\ \/ UNCHANGED <<sessions, source>>
     \/ \E o \in sessions :
          /\ sessions' = sessions \ {o}
          /\ IF sessions = {o} /\ InFlight = {} /\ ~server.closing
               THEN \E parks \in BOOLEAN :
                      source' = [source EXCEPT !.active = ~parks, !.uncertain = ~parks]
               ELSE UNCHANGED source

\* The interval is over, or closed is.
Rested ==
  /\ Loops("rest", IF server.closing THEN "over" ELSE "top")
  /\ UNCHANGED <<sessions, source>>

Reconciles == LoopTop \/ Pass \/ Rested

-----------------------------------------------------------------------------
(* The callers of Close.                                                   *)

Calls(c, to) == closer' = [closer EXCEPT ![c] = [at |-> to, failed |-> FALSE]]

\* SIGINT or SIGTERM, once main listens for them.
Signal ==
  /\ main = "waiting" /\ main' = "closing"
  /\ Calls("main", "lock")
  /\ UNCHANGED <<start, closeMu, server, hosts, work, loop, media, restarts>>

\* The watcher of the child waits for process.Done or for closed.
Mutant_OnlyClosed == FALSE
Done == child = "gone"

ChildWatched ==
  /\ main \in {"waiting", "closing"} /\ closer["child"].at = "idle"
  /\ \/ Done /\ Calls("child", "lock")
     \/ server.closing /\ Calls("child", "over")
  /\ UNCHANGED <<main, start, closeMu, server, hosts, work, loop, media, restarts>>

\* The HTTP host fails; after a shutdown its Wait returns without an error.
HTTPWatched ==
  /\ main \in {"waiting", "closing"} /\ closer["http"].at = "idle"
  /\ Calls("http", IF "http" \in hosts THEN "lock" ELSE "over")
  /\ hosts' = hosts \ {"http"}
  /\ UNCHANGED <<main, start, closeMu, server, work, loop, media, restarts>>

-----------------------------------------------------------------------------
(* Close, under closeMu.                                                   *)

Closes(c, from, to, fails) ==
  /\ closer[c].at = from
  /\ closer' = [closer EXCEPT ![c].at = to, ![c].failed = @ \/ fails]
  /\ UNCHANGED <<main, start, hosts, ops, tasks, child, orphan, restarts>>

Broadcast == Wake

\* The first Close sets closing and starts to join the work; a Close after
\* one that completed has nothing to do.
CloseBegins(c) ==
  /\ closeMu = Nobody
  /\ IF server.complete
       THEN /\ Closes(c, "lock", "over", FALSE)
            /\ UNCHANGED <<closeMu, server, loop>>
       ELSE /\ Closes(c, "lock", "hosts", FALSE)
            /\ closeMu' = c
            /\ server' = IF server.join = "off"
                           THEN [server EXCEPT !.closing = TRUE, !.join = "operations"] ELSE server
            /\ IF server.join = "off" THEN Broadcast ELSE UNCHANGED loop
  /\ UNCHANGED <<sessions, source, process>>

\* The hosts stop listening and wait for their requests as long as they may.
CloseHosts(c) ==
  /\ closer[c].at = "hosts"
  /\ closer' = [closer EXCEPT ![c].at = "drain", ![c].failed = @ \/ \E o \in Op : ops[o] # "none"]
  /\ hosts' = {}
  /\ UNCHANGED <<main, start, closeMu, server, work, loop, media, restarts>>

\* One goroutine joins the operations first and the background tasks then.
JoinOperations ==
  /\ server.join = "operations" /\ InFlight = {}
  /\ server' = [server EXCEPT !.join = "background"]
  /\ UNCHANGED <<main, start, callers, hosts, work, loop, media, restarts>>

JoinBackground ==
  /\ server.join = "background" /\ tasks = 0
  /\ server' = [server EXCEPT !.join = "drained"]
  /\ UNCHANGED <<main, start, callers, hosts, work, loop, media, restarts>>

CloseDrained(c) ==
  /\ server.join = "drained"
  /\ Closes(c, "drain", "cleanup", FALSE)
  /\ UNCHANGED <<closeMu, server, sessions, source, loop, process>>

\* ShutdownTimeout is over with work in flight: Close returns an error and
\* leaves the rest.
CloseTimesOut(c) ==
  /\ InFlight # {} \/ tasks > 0
  /\ Closes(c, "drain", "over", TRUE)
  /\ closeMu' = Nobody
  /\ UNCHANGED <<server, sessions, source, loop, process>>

\* A source that may be active, or has consumers, is owed a stop, until one
\* is confirmed.
Owed == ~source.stopped /\ (source.active \/ source.uncertain \/ sessions # {})

\* Sessions are deleted as far as that works, recordings are finalized in
\* time or not, and the source is stopped unless the call fails.
CloseCleanup(c) ==
  \E kept \in SUBSET sessions, late \in BOOLEAN, lost \in (IF Owed THEN BOOLEAN ELSE {FALSE}) :
    /\ Closes(c, "cleanup", "stop", late \/ lost)
    /\ sessions' = kept
    /\ source' = IF lost THEN [source EXCEPT !.uncertain = TRUE]
                         ELSE [active |-> FALSE, uncertain |-> FALSE, stopped |-> TRUE]
    /\ UNCHANGED <<closeMu, server, loop, process>>

\* Process.Close: only the first call interrupts the child and waits for it.
CloseStopsChild(c) ==
  /\ ~process.closed
  /\ Closes(c, "stop", "await", FALSE)
  /\ process' = [process EXCEPT !.closed = TRUE, !.signalled = TRUE]
  /\ UNCHANGED <<closeMu, server, sessions, source, loop>>

\* The rest of Close, given what Process.Close returned: without an error
\* every session is over, and Close is complete if nothing failed.
Completes(c, fails) == ~(closer[c].failed \/ fails)

CloseEnds(c, from, fails) ==
  /\ Closes(c, from, "over", fails)
  /\ closeMu' = Nobody
  /\ sessions' = IF fails THEN sessions ELSE {}
  /\ server' = [server EXCEPT !.complete = Completes(c, fails)]
  /\ UNCHANGED <<source, loop, process>>

CloseFindsStopped(c) == process.closed /\ CloseEnds(c, "stop", FALSE)

\* The child has exited; removing its configuration may fail.
CloseAwaited(c) == child = "gone" /\ \E fails \in BOOLEAN : CloseEnds(c, "await", fails)

Close(c) ==
  \/ CloseBegins(c) \/ CloseHosts(c) \/ CloseDrained(c) \/ CloseTimesOut(c)
  \/ CloseCleanup(c) \/ CloseStopsChild(c) \/ CloseFindsStopped(c) \/ CloseAwaited(c)

\* main returns from its one Close and the process exits.
MainExits ==
  /\ main = "closing" /\ closer["main"].at = "over"
  /\ Exit(IF closer["main"].failed THEN "failed" ELSE "ok")
  /\ Orphans

-----------------------------------------------------------------------------
(* MediaMTX.                                                               *)

\* The child exits: by itself, for want of its ports, or interrupted and, at
\* the latest, killed.
ChildExits ==
  /\ child \in {"running", "refused"}
  /\ child' = "gone"
  /\ UNCHANGED <<main, start, callers, server, hosts, work, loop, process, orphan, restarts>>

\* Somebody ends the orphan.
OrphanExits ==
  /\ orphan /\ orphan' = FALSE
  /\ UNCHANGED <<main, start, callers, server, hosts, work, loop, process, child, restarts>>

-----------------------------------------------------------------------------
Starts == Prepare \/ Listen \/ Spawn \/ Probe \/ StartRPC \/ StartHTTP

Next ==
  \/ Starts \/ StartFails \/ RPCFails \/ Undoes \/ Killed \/ Restart
  \/ \E o \in Op : Arrive(o) \/ Operates(o)
  \/ StartBackground \/ EndBackground
  \/ Reconciles
  \/ Signal \/ ChildWatched \/ HTTPWatched
  \/ \E c \in Closer : Close(c)
  \/ JoinOperations \/ JoinBackground \/ MainExits
  \/ ChildExits \/ OrphanExits

Spec == Init /\ [][Next]_vars

(* Goroutines run, calls to sources and to MediaMTX have deadlines, and a  *)
(* child that was interrupted is killed in the end.                        *)
Fairness ==
  /\ WF_vars(Starts \/ Undoes) /\ WF_vars(MainExits)
  /\ \A o \in Op : WF_vars(Operates(o))
  /\ WF_vars(EndBackground) /\ WF_vars(Reconciles)
  /\ WF_vars(ChildWatched) /\ WF_vars(JoinOperations) /\ WF_vars(JoinBackground)
  /\ \A c \in Closer : WF_vars(Close(c))
  /\ WF_vars(process.signalled /\ ChildExits)

FairSpec == Spec /\ Fairness

-----------------------------------------------------------------------------
(* What is promised of the edge process.                                   *)

\* What Close cleans up nobody uses any more: once it is past the join, no
\* operation and no background task is in flight, whoever arrived late and
\* whichever Close set closing.
CleanupRunsAlone ==
  (\E c \in Closer : closer[c].at \in {"cleanup", "stop", "await"}) => InFlight = {} /\ tasks = 0

\* A Close that reports success has left nothing, whatever earlier Closes
\* failed to do: the child has exited, no listener is open, the source is
\* known to be stopped and no session is owned.
CompleteMeansReleased ==
  server.complete =>
    child = "gone" /\ hosts = {} /\ sessions = {} /\ ~source.active /\ ~source.uncertain

\* The counts of tasks and closers are sound, cleanup runs alone, and success
\* means that nothing is left.
LifecycleInv == TypeOK /\ CleanupRunsAlone /\ CompleteMeansReleased

\* An edge that could not start leaves no MediaMTX behind: whichever step of
\* Start failed, a child that was spawned has exited before the edge does, though
\* the deferred function ends it only if it was ready.
FailedStartLeavesNothing ==
  [][main' = "unstarted" /\ main # "unstarted" => child \in {"none", "gone"}]_vars

\* An owned session is reconciled: the loop does not sleep through it.
SessionsAreReconciled == sessions # {} ~> loop = "pass" \/ server.closing \/ ~Alive

\* An edge whose child is gone stops serving.
ChildExitShutsDown == child = "gone" /\ main = "waiting" ~> hosts = {}

\* An edge is served by the one child that it supervises: what answers the
\* readiness probe is that child.
ReadinessIsOurs == [][Probe => child # "refused"]_vars

\* The supervisor learns that the child has gone: the edge exits too.
ChildExitEndsEdge == child = "gone" /\ main = "waiting" ~> ~Alive
=============================================================================

--------------------------- MODULE PipelineControl ---------------------------
(***************************************************************************)
(* The pipelines that the edge runs itself (internal/mediaedge,            *)
(* pipelineControl and pipelineRun): an encoder process, possibly fed by a *)
(* producer process, spawned by a start, interrupted by a stop, restarted  *)
(* by a keyframe request, and a scratch directory of JPEG files that       *)
(* captures read.                                                          *)
(*                                                                         *)
(* opMu serialises start, stop, restart and close.  mu guards the fields   *)
(* one at a time, so a run may end, a watcher may record its end and a     *)
(* capture may read files and fields between any two steps of an           *)
(* operation.  Every run has a supervisor that reaps its processes.        *)
(***************************************************************************)
EXTENDS Integers, FiniteSets, FiniteSetsExt

CONSTANTS
  Caller,      \* concurrent callers of pipelineControl.call
  NoCaller,    \* nobody holds opMu
  Process,     \* the processes of a run: encoder, producer
  MaxRuns,     \* bound: runs, one after the other
  MaxFrames    \* bound: JPEG files of one run

ASSUME ConstantsAssumption ==
  /\ NoCaller \notin Caller
  /\ IsFiniteSet(Process) /\ Process # {}
  /\ MaxRuns \in Nat /\ MaxFrames \in Nat

VARIABLES
  pc,            \* progress of each caller
  want,          \* the operation it asked for
  opMu,          \* who holds control.opMu
  state,         \* control.state
  desiredActive, \* control.desiredActive
  run,           \* control.run, NoRun for nil
  generation,    \* control.generation; runs are numbered by it
  closed,        \* control.closed
  victim,        \* the run that the holder of opMu terminates
  alive,         \* processes of each run that have not been reaped
  supervisor,    \* its supervisor
  stopping,      \* runs whose stopping flag is set
  signalled,     \* runs whose processes have been signalled
  watchers,      \* runs whose end has not been recorded by their goroutine
  scratch,       \* the scratch directory: file number to the run that wrote it
  names,         \* the file numbers that a capture listed and has not tried
  got,           \* the frame that a capture has read
  admitted       \* history: control.run when a capture was admitted

control == <<state, desiredActive, run, generation, closed>>
runs    == <<alive, supervisor, stopping, signalled>>
captures == <<names, got, admitted>>
vars    == <<pc, want, opMu, control, victim, runs, watchers, scratch, captures>>

Run == 1..MaxRuns
NoRun == 0
Frame == 1..MaxFrames
NoFile == 0
Empty == [i \in Frame |-> NoFile]
NoFrame == [run |-> NoRun, index |-> 0]

Lifecycle == {"start", "stop", "close"}
Operation == Lifecycle \cup {"keyframe", "capture", "keyframe-capture"}

CallsOK ==
  /\ pc \in [Caller -> {"idle", "queued", "prepare", "spawn", "record", "settle", "reap",
                        "clear", "receipt", "poll", "read", "respond"}]
  /\ want \in [Caller -> Operation]
  /\ opMu \in Caller \cup {NoCaller}

RunsOK ==
  /\ state \in {"idle", "starting", "active", "stopping", "faulted"}
  /\ desiredActive \in BOOLEAN /\ closed \in BOOLEAN
  /\ run \in 0..generation /\ victim \in 0..generation /\ generation \in 0..MaxRuns
  /\ alive \in [Run -> SUBSET Process]
  /\ supervisor \in [Run -> {"none", "waiting", "draining", "done"}]
  /\ stopping \in SUBSET Run /\ signalled \in SUBSET Run /\ watchers \in SUBSET Run

FramesOK ==
  /\ scratch \in [Frame -> {NoFile} \cup Run]
  /\ names \in [Caller -> SUBSET Frame]
  /\ got \in [Caller -> [run : {NoRun} \cup Run, index : 0..MaxFrames]]
  /\ admitted \in [Caller -> {NoRun} \cup Run]

\* The variables have their types.
TypeOK == CallsOK /\ RunsOK /\ FramesOK

Init ==
  /\ pc = [c \in Caller |-> "idle"] /\ want = [c \in Caller |-> "start"]
  /\ opMu = NoCaller
  /\ state = "idle" /\ desiredActive = FALSE /\ run = NoRun /\ generation = 0 /\ closed = FALSE
  /\ victim = NoRun
  /\ alive = [r \in Run |-> {}] /\ supervisor = [r \in Run |-> "none"]
  /\ stopping = {} /\ signalled = {} /\ watchers = {}
  /\ scratch = Empty
  /\ names = [c \in Caller |-> {}] /\ got = [c \in Caller |-> NoFrame]
  /\ admitted = [c \in Caller |-> NoRun]

-----------------------------------------------------------------------------
(* pipelineRun and its supervisor.                                         *)

\* A process exits by itself or because it was interrupted or killed.
ProcessExits(r, p) ==
  /\ p \in alive[r]
  /\ alive' = [alive EXCEPT ![r] = @ \ {p}]
  /\ UNCHANGED <<pc, want, opMu, control, victim, supervisor, stopping, signalled, watchers,
                 scratch, captures>>

Mutant_NobodyElse(r) == UNCHANGED signalled
Interrupt(r) == signalled' = signalled \cup {r}

\* Either end ends the pipeline.
SupervisorInterrupts(r) ==
  /\ supervisor[r] = "waiting"
  /\ alive[r] # Process
  /\ supervisor' = [supervisor EXCEPT ![r] = "draining"]
  /\ Interrupt(r)
  /\ UNCHANGED <<pc, want, opMu, control, victim, alive, stopping, watchers, scratch, captures>>

\* run.done is closed after every process was reaped.
SupervisorEnds(r) ==
  /\ supervisor[r] = "draining"
  /\ alive[r] = {}
  /\ supervisor' = [supervisor EXCEPT ![r] = "done"]
  /\ UNCHANGED <<pc, want, opMu, control, victim, alive, stopping, signalled, watchers,
                 scratch, captures>>

Done(r) == supervisor[r] = "done"

\* external: the snapshot branch completes another file.
FrameWritten(r) ==
  /\ "encoder" \in alive[r]
  /\ \E i \in Frame :
       /\ \A j \in Frame : scratch[j] = r <=> j < i
       /\ scratch' = [scratch EXCEPT ![i] = r]
  /\ UNCHANGED <<pc, want, opMu, control, victim, runs, watchers, captures>>

\* runEnded records the end of the current run only.
RunEnded(r) ==
  IF run = r
  THEN run' = NoRun /\ state' = IF r \in stopping THEN "idle" ELSE "faulted"
  ELSE UNCHANGED <<run, state>>

Watch(r) ==
  /\ r \in watchers
  /\ Done(r)
  /\ watchers' = watchers \ {r}
  /\ RunEnded(r)
  /\ UNCHANGED <<pc, want, opMu, desiredActive, generation, closed, victim, runs, scratch, captures>>

-----------------------------------------------------------------------------
(* Operations.                                                             *)

Goes(c, from, to) == pc[c] = from /\ pc' = [pc EXCEPT ![c] = to]

\* The source admits one lifecycle call at a time and closes the control once
\* its operations have drained.
Begin(c, o) ==
  /\ pc[c] = "idle"
  /\ ~closed
  /\ \A d \in Caller : pc[d] # "idle" => want[d] # "close" /\ ({o, want[d]} \cap Lifecycle # {o, want[d]})
  /\ o = "close" => \A d \in Caller : pc[d] = "idle"
  /\ want' = [want EXCEPT ![c] = o]
  /\ pc' = [pc EXCEPT ![c] = IF o = "capture" THEN "poll" ELSE "queued"]
  /\ admitted' = [admitted EXCEPT ![c] = IF o = "capture" THEN run ELSE NoRun]
  /\ UNCHANGED <<opMu, control, victim, runs, watchers, scratch, names, got>>

Mutant_Unserialised(c, to) == opMu' = c /\ Goes(c, "queued", to)
Takes(c, to) ==
  /\ opMu = NoCaller
  /\ opMu' = c
  /\ Goes(c, "queued", to)

\* opMu is released before the receipt is read, and a capture is admitted.
Returns(c) ==
  /\ opMu' = NoCaller
  /\ pc' = [pc EXCEPT ![c] = IF want[c] = "keyframe-capture" THEN "poll" ELSE "receipt"]
  /\ admitted' = [admitted EXCEPT ![c] = IF want[c] = "keyframe-capture" THEN run' ELSE @]

Errors(c) ==
  /\ opMu' = NoCaller
  /\ pc' = [pc EXCEPT ![c] = "idle"]
  /\ UNCHANGED admitted

StartBegins(c) ==
  /\ want[c] = "start"
  /\ Takes(c, "prepare")
  /\ ~(run # NoRun /\ state = "active")
  /\ desiredActive' = TRUE
  /\ state' = "starting"
  /\ UNCHANGED <<want, run, generation, closed, victim, runs, watchers, scratch, captures>>

\* Starting a running pipeline changes nothing.
StartJoins(c) ==
  /\ want[c] = "start"
  /\ pc[c] = "queued" /\ opMu = NoCaller
  /\ run # NoRun /\ state = "active"
  /\ desiredActive' = TRUE
  /\ Returns(c)
  /\ UNCHANGED <<want, state, run, generation, closed, victim, runs, watchers, scratch, names, got>>

Mutant_KeepScratch == UNCHANGED scratch
\* The files of earlier runs are removed one by one before anything is spawned:
\* one step here, in which no removal fails (the code ignores those that do).
ClearScratch == scratch' = Empty

Prepare(c) ==
  /\ Goes(c, "prepare", "spawn")
  /\ ClearScratch
  /\ UNCHANGED <<want, opMu, control, victim, runs, watchers, captures>>

Spawn(c) ==
  /\ Goes(c, "spawn", "record")
  /\ generation < MaxRuns
  /\ alive' = [alive EXCEPT ![generation + 1] = Process]
  /\ supervisor' = [supervisor EXCEPT ![generation + 1] = "waiting"]
  /\ UNCHANGED <<want, opMu, control, victim, stopping, signalled, watchers, scratch, captures>>

\* The scratch directory or one of the processes is refused.
StartFails(c) ==
  /\ pc[c] \in {"prepare", "spawn"}
  /\ state' = "faulted"
  /\ Errors(c)
  /\ UNCHANGED <<want, desiredActive, run, generation, closed, victim, runs, watchers, scratch, names, got>>

NextGeneration == generation' = generation + 1

Record(c) ==
  /\ Goes(c, "record", "settle")
  /\ NextGeneration
  /\ run' = generation + 1
  /\ watchers' = watchers \cup {generation + 1}
  /\ UNCHANGED <<want, opMu, state, desiredActive, closed, victim, runs, scratch, captures>>

DoesNotComeUp(c) ==
  /\ pc[c] = "settle"
  /\ Done(generation)
  /\ RunEnded(generation)
  /\ Errors(c)
  /\ UNCHANGED <<want, desiredActive, generation, closed, victim, runs, watchers, scratch, names, got>>

\* The run may have ended, and its end be recorded, when the timer fires.
SettleState == state' = IF run = generation /\ state = "starting" THEN "active" ELSE state

Settles(c) ==
  /\ pc[c] = "settle"
  /\ SettleState
  /\ UNCHANGED run
  /\ Returns(c)
  /\ UNCHANGED <<want, desiredActive, generation, closed, victim, runs, watchers, scratch, names, got>>

Mutant_NoSignal(r) == victim' = r /\ stopping' = stopping \cup {r} /\ UNCHANGED signalled
\* terminate: the stopping flag, then SIGINT, and SIGKILL after the grace.
Terminate(r) ==
  /\ victim' = r
  /\ stopping' = stopping \cup {r}
  /\ signalled' = signalled \cup {r}

StopBegins(c) ==
  /\ want[c] = "stop"
  /\ desiredActive' = FALSE
  /\ IF run = NoRun
     THEN Takes(c, "clear") /\ state' = "idle" /\ UNCHANGED <<victim, stopping, signalled>>
     ELSE Takes(c, "reap") /\ state' = "stopping" /\ Terminate(run)
  /\ UNCHANGED <<want, run, generation, closed, alive, supervisor, watchers, scratch, captures>>

KeyframeBegins(c) ==
  /\ want[c] \in {"keyframe", "keyframe-capture"}
  /\ run # NoRun /\ state = "active"
  /\ Takes(c, "reap")
  /\ state' = "stopping"
  /\ Terminate(run)
  /\ UNCHANGED <<want, desiredActive, run, generation, closed, alive, supervisor, watchers,
                 scratch, captures>>

\* A pipeline younger than a few seconds began with the IDR that is asked for.
KeyframeCoalesces(c) ==
  /\ want[c] \in {"keyframe", "keyframe-capture"}
  /\ pc[c] = "queued" /\ opMu = NoCaller
  /\ run # NoRun /\ state = "active"
  /\ UNCHANGED <<state, run>>
  /\ Returns(c)
  /\ UNCHANGED <<want, desiredActive, generation, closed, victim, runs, watchers, scratch, names, got>>

KeyframeRefused(c) ==
  /\ want[c] \in {"keyframe", "keyframe-capture"}
  /\ pc[c] = "queued" /\ opMu = NoCaller
  /\ run = NoRun \/ state # "active"
  /\ Errors(c)
  /\ UNCHANGED <<want, control, victim, runs, watchers, scratch, names, got>>

CloseBegins(c) ==
  /\ want[c] = "close"
  /\ closed' = TRUE /\ desiredActive' = FALSE /\ run' = NoRun /\ state' = "idle"
  /\ IF run = NoRun
     THEN Takes(c, "clear") /\ UNCHANGED <<victim, stopping, signalled>>
     ELSE Takes(c, "reap") /\ Terminate(run)
  /\ UNCHANGED <<want, generation, alive, supervisor, watchers, scratch, captures>>

Reaped(r) == Done(r)

StopReaped(c) ==
  /\ want[c] \in {"stop", "close"}
  /\ Goes(c, "reap", "clear")
  /\ Reaped(victim)
  /\ run' = IF run = victim THEN NoRun ELSE run
  /\ state' = "idle"
  /\ UNCHANGED <<want, opMu, desiredActive, generation, closed, victim, runs, watchers, scratch, captures>>

\* The restart goes through startLocked under the same opMu.
KeyframeReaped(c) ==
  /\ want[c] \in {"keyframe", "keyframe-capture"}
  /\ Goes(c, "reap", "prepare")
  /\ Reaped(victim)
  /\ run' = NoRun
  /\ desiredActive' = TRUE
  /\ state' = "starting"
  /\ UNCHANGED <<want, opMu, generation, closed, victim, runs, watchers, scratch, captures>>

Clear(c) ==
  /\ pc[c] = "clear"
  /\ ClearScratch
  /\ UNCHANGED run
  /\ Returns(c)
  /\ UNCHANGED <<want, state, desiredActive, generation, closed, victim, runs, watchers, names, got>>

\* lifecycleReceipt reads the state under mu.
Receipt(c) ==
  /\ Goes(c, "receipt", "idle")
  /\ UNCHANGED <<want, opMu, control, victim, runs, watchers, scratch, captures>>

Lifecycles(c) ==
  \/ StartBegins(c) \/ StartJoins(c) \/ Prepare(c) \/ Spawn(c) \/ StartFails(c) \/ Record(c)
  \/ DoesNotComeUp(c) \/ Settles(c)
  \/ StopBegins(c) \/ KeyframeBegins(c) \/ KeyframeCoalesces(c) \/ KeyframeRefused(c) \/ CloseBegins(c)
  \/ StopReaped(c) \/ KeyframeReaped(c) \/ Clear(c) \/ Receipt(c)

-----------------------------------------------------------------------------
(* capture polls the directory without opMu.                               *)

Files == {i \in Frame : scratch[i] # NoFile}

CaptureLists(c) ==
  /\ Goes(c, "poll", "read")
  /\ Files # {}
  /\ names' = [names EXCEPT ![c] = Files]
  /\ UNCHANGED <<want, opMu, control, victim, runs, watchers, scratch, got, admitted>>

\* Nothing to wait for, or waited for too long.
CaptureFails(c) ==
  /\ Goes(c, "poll", "idle")
  /\ UNCHANGED <<want, opMu, control, victim, runs, watchers, scratch, captures>>

\* From the newest to the oldest name, whatever is still there.
Newest(c) == Max(names[c])

CaptureReads(c) ==
  /\ pc[c] = "read"
  /\ LET i == Newest(c) IN
       IF scratch[i] # NoFile
       THEN /\ got' = [got EXCEPT ![c] = [run |-> scratch[i], index |-> i]]
            /\ names' = [names EXCEPT ![c] = {}]
            /\ pc' = [pc EXCEPT ![c] = "respond"]
       ELSE /\ names' = [names EXCEPT ![c] = @ \ {i}]
            /\ pc' = [pc EXCEPT ![c] = IF names[c] = {i} THEN "poll" ELSE "read"]
            /\ UNCHANGED got
  /\ UNCHANGED <<want, opMu, control, victim, runs, watchers, scratch, admitted>>

\* The response numbers the frame with the generation that is current now.
Respond(c) ==
  /\ Goes(c, "respond", "idle")
  /\ got' = [got EXCEPT ![c] = NoFrame]
  /\ admitted' = [admitted EXCEPT ![c] = NoRun]
  /\ UNCHANGED <<want, opMu, control, victim, runs, watchers, scratch, names>>

Captures(c) == CaptureLists(c) \/ CaptureFails(c) \/ CaptureReads(c) \/ Respond(c)

-----------------------------------------------------------------------------

Supervision(r) == SupervisorInterrupts(r) \/ SupervisorEnds(r) \/ Watch(r)

Next ==
  \/ \E c \in Caller : (\E o \in Operation : Begin(c, o)) \/ Lifecycles(c) \/ Captures(c)
  \/ \E r \in Run : Supervision(r) \/ FrameWritten(r) \/ \E p \in Process : ProcessExits(r, p)

Spec == Init /\ [][Next]_vars

(* Goroutines run, timers fire, and a process that was signalled exits: it *)
(* is killed after the grace.  opMu is handed to whoever waits for long.   *)
Fairness ==
  /\ \A c \in Caller : SF_vars(Lifecycles(c)) /\ WF_vars(CaptureReads(c) \/ Respond(c))
  /\ \A r \in Run :
       /\ WF_vars(Supervision(r))
       /\ \A p \in Process : WF_vars(r \in signalled /\ ProcessExits(r, p))

FairSpec == Spec /\ Fairness

-----------------------------------------------------------------------------
(* What a pipeline source promises.                                        *)

\* The device is never held by two runs: the old one is reaped before a new
\* one is spawned, also by a keyframe restart that follows a crash.
OneRunAtATime == \A r, q \in Run : alive[r] # {} /\ alive[q] # {} => r = q

\* Outside an operation every process belongs to the recorded run, which is
\* therefore what the next stop or close reaps; a late watcher of an earlier
\* run does not disown it.
RunIsOwned == opMu = NoCaller => \A r \in Run : alive[r] # {} => r = run

\* Status never reports applied activity of a pipeline that is not recorded.
ActiveIsRecorded == state = "active" => run # NoRun

\* The receipt of a stop or close is true: nothing runs, although keyframe
\* requests of others restart pipelines, until somebody starts it again.
StopReceiptIsTrue ==
  \A c \in Caller : pc[c] = "receipt" /\ want[c] \in {"stop", "close"}
    => \A r \in Run : alive[r] = {}

(* What they rest on. *)

Locked == {"prepare", "spawn", "record", "settle", "reap", "clear"}

\* opMu is held exactly between its two ends, and the source admits no two
\* lifecycle calls, and nothing beside a close.
LockInv ==
  /\ \A c \in Caller :
       /\ pc[c] \in Locked <=> opMu = c
       /\ pc[c] \in {"prepare", "spawn", "record", "settle"} => want[c] \notin {"stop", "close", "capture"}
       /\ pc[c] = "clear" => want[c] \in {"stop", "close"}
       /\ pc[c] = "reap" => want[c] \notin {"start", "capture"}
  /\ \A c, d \in Caller : c # d /\ pc[c] # "idle" /\ pc[d] # "idle" =>
       want[c] # "close" /\ ~(want[c] \in Lifecycle /\ want[d] \in Lifecycle)

\* A run has a supervisor from its spawn on and processes no longer than that;
\* processes are those of the last run or of the one that is being recorded.
SupervisionInv ==
  /\ \A r \in Run :
       /\ r <= generation => supervisor[r] # "none"
       /\ r > generation /\ supervisor[r] # "none" =>
            r = generation + 1 /\ \E c \in Caller : pc[c] = "record"
       /\ supervisor[r] \in {"none", "done"} => alive[r] = {}
       /\ alive[r] # {} => r >= generation
  /\ \A c \in Caller : pc[c] = "record" => generation < MaxRuns /\ supervisor[generation + 1] # "none"
  /\ watchers \subseteq 1..generation

\* Whatever has processes is the recorded run or the victim of whom holds opMu,
\* and the state that is reported fits the progress of the operation.
OwnerInv ==
  /\ run \in {NoRun, generation}
  /\ \A r \in Run : alive[r] # {} /\ r <= generation =>
       run = r \/ \E c \in Caller : pc[c] = "reap" /\ victim = r
  /\ \A c \in Caller :
       /\ pc[c] \in {"prepare", "spawn", "record"} => run = NoRun /\ state = "starting"
       /\ pc[c] = "settle" => generation # 0 /\ (run # NoRun => state = "starting")
       /\ pc[c] = "reap" => victim = generation /\ victim # NoRun /\ state # "active"
       /\ pc[c] = "clear" => run = NoRun /\ state # "active"
       /\ pc[c] = "receipt" /\ want[c] \in {"stop", "close"} => opMu = NoCaller /\ run = NoRun
  /\ opMu = NoCaller /\ run # NoRun => state = "active"
  /\ state = "active" => run # NoRun

\* No file of an earlier run than the last is in the directory once that has
\* been recorded, and a capture is admitted under no later one.
FramesInv ==
  /\ \A i \in Frame : scratch[i] # NoFile =>
       /\ scratch[i] >= generation
       /\ \A c \in Caller : pc[c] # "spawn" /\ (pc[c] = "record" => scratch[i] > generation)
  /\ \A c \in Caller :
       /\ admitted[c] <= generation
       /\ pc[c] = "read" => names[c] # {}
       /\ pc[c] = "respond" => got[c].run >= admitted[c]

\* At most one run has processes, they are those of the recorded run whenever
\* no operation holds opMu, and status reports nothing else, whichever watcher
\* of which run is late; and receipts of stops are true.
RunInv ==
  /\ TypeOK /\ OneRunAtATime /\ RunIsOwned /\ ActiveIsRecorded /\ StopReceiptIsTrue
  /\ LockInv /\ SupervisionInv /\ OwnerInv /\ FramesInv

\* No frame of an earlier run than the one a capture was admitted under.
NoStaleFrame ==
  [][\A c \in Caller : Respond(c) => got[c].run >= admitted[c]]_vars

\* Whichever process exits first ends the other, and the run.
EitherEndEndsPipeline ==
  \A r \in Run : supervisor[r] # "none" /\ alive[r] # Process ~> Done(r)

\* Start, stop, restart and close come to an end, whatever the processes do.
OperationsEnd ==
  \A c \in Caller : pc[c] = "queued" ~> pc[c] \in {"idle", "poll"}

\* Only final active and idle postconditions return lifecycle receipts.
ReceiptsAreFinal ==
  [][\A c \in Caller : Receipt(c) =>
       /\ want[c] = "start" => state = "active"
       /\ want[c] = "stop" => state = "idle"]_vars

\* The sequence of a captured frame carries the run that produced it.
SequenceNamesRun ==
  [][\A c \in Caller : Respond(c) => generation = got[c].run]_vars
=============================================================================

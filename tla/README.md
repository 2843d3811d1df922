# xgc2-media-edge in TLA+

`xgc-media-edge` is the process that turns the camera sources of a robot into
WebRTC sessions, snapshots and recordings. It owns the life of its sources and
leaves the media plane to a MediaMTX child. This directory holds TLA+ modules
that model its concurrent parts, the TLC runs that check them on small
instances, and proofs that TLAPS checks for every instance.

Paths are relative to the repository; `server` is
`internal/mediaedge/mediamtx_server.go`.

Checking it:

    tlc -workers 2 -config Lease.cfg SourceLease.tla     # one run
    tlapm SourceLease_proofs.tla                         # one module of proofs

`PROJECT.json` lists the runs, the source lines behind each definition, and for
every checked property a mutated definition (`Mutant_*` in the modules) under
which TLC finds the property violated.

## 1. Inventory of the system

| Component | Source | State it keeps | Operations |
|---|---|---|---|
| Source lease | `server` (`mediaMTXSource`) | `pending`, `sessions`, `recordingID`, `active`, `deactivateUncertain`, `deactivateEpoch`, timers | `acquire`, `releasePending`, `removeSession`, `scheduleDeactivate`, `deactivateIfUnused`, `recover`, part of `Close` |
| Camera peer | `source_peer.go`, `source_control.go`, `source_socket_watcher.go` | desired and applied revision, bound instance, attempt, transport | `call`, `connect`, `apply`, `run`, `observe`, `invalidate` |
| Pipeline control | `pipeline_source.go` | current run, generation, settled state, scratch files | `start`, `stop`, `capture`, `requestKeyframe`, `close`, the supervisor |
| WHEP sessions | `server`, `internal/mediamtx/client.go` | `sessions`, `pendingSessions`, per session what is known of its native one | `OpenSession`, `CloseSession`, `closeUnknownSession`, `reconcile` |
| Recording | `mediamtx_recording.go`, `recording_contract.go` | items, `recordingID`, manifests on disk, history | `StartRecording`, `StopRecording`, `finalize`, history load |
| Snapshot retention | `server` | `snapshots`, `snapshotOrder`, admitted captures | `CaptureSnapshot`, `storeSnapshot`, `Snapshot`, `DeleteSnapshot` |
| Server lifecycle | `server`, `cmd/xgc-media-edge/main.go` | `closing`, wait groups, `closeComplete`, hosts | `Start`, `beginOperation`, `startBackground`, `reconcileLoop`, `Close` |
| MediaMTX process | `internal/mediamtx/process.go` | command, `done`, `closeOnce` | `Start`, readiness probe, `Close` |
| Browser player | `web/src/main.tsx` | flight, retry timer, session, chain of retirements | `connect`, `closeSession`, `retireRemote`, page handlers |
| Telemetry | `server` | status cache, path flags, `statusPending`, `keyframePending`, `recoveryPending` | `pollStatusAsync`, `requestKeyframeAsync`, `observePath`, `recover`, `SourceStatuses` |
| Configuration | `config.go`, `source_control.go`, `internal/mediamtx/config.go` | none at run time | `normalized`, `Render`, validation of a description |
| Pipeline templates | `pipeline_template.go` | none at run time | `parsePipelineTemplate`, `resolve`, `expand` |
| Recording capacity | `recording_contract.go` | none | `ensureRecordingCapacity`, `saturatingAdd`, `saturatingMultiply` |
| HTTP and RPC hosts | `http.go`, `rpc.go` | listeners | routing |
| Capture commands, example client, web build, packaging | `cmd`, `examples`, `web/scripts`, `.xgc2` | none | sequential tools |

How they interact. A request enters through a host and is admitted by
`beginOperation`. It takes the **lease** of a source (`acquire`), which calls
the source's **controller**: a pipeline that the edge supervises, or the peer
of an external camera, whose single worker applies the demand. A **WHEP
session** or **recording** then takes over the reservation and gives it back
when it ends; the last one to leave stops the source. The **reconcile loop**
compares MediaMTX's inventory with the sessions. `Close` joins all of it, stops
the sources and then MediaMTX. The **player** talks to the edge by POST and
DELETE of sessions.

What is hard here, and what the properties are for (`hazards` in
`PROJECT.json` gives lines):

- locks that are released during calls: lifecycle calls with a timer, an epoch
  fence and a counter on the other side; the worker of a peer and its callers;
- replies that are lost or late: a call that failed may have taken effect, for
  camera leases, WHEP creations and native recordings alike;
- another process behind the same address: cameras that are replaced, and a
  MediaMTX that outlives the edge;
- crash and restart with manifests on disk, some of which the next start passes
  over; a Start that fails half way;
- joining: operations, background tasks, a loop asleep on a condition
  variable, and three callers of `Close`;
- awaits in the browser during which the page is hidden or left.

What makes each part correct, in a sentence: a source is stopped only when
nobody uses it, and always in the end (lease); the process that is bound
does what was asked last, nothing is applied twice (peer); one run holds the
device and receipts are true (pipeline); native sessions and slots are
accounted for (WHEP); whoever was told of a recording finds it, unless a
start passed over its manifest, and complete means complete (recording); the
byte budget holds and nothing is dropped in vain (snapshots); after a
successful `Close` nothing is left (server); no offer overlaps an older
session the page was told of, and the player comes back (player); what is
reported of a source is not about a lease that is over, and no poll is
blocked for good (telemetry); what is accepted can be rendered and served,
and what is admitted fits (configuration, templates, capacity).

## 2. Modules

Each module models one component over the code named in its head comment, with
one action per critical section, call, reply or event. `MC<module>.tla` extends
it with the definitions of its runs, where a run needs more than a cfg says.
Actions carry the names of the functions they model; `map` gives the lines.

**DemandLease** is the abstract promise of a source: `users`, a lease, and
`Park` only without users, until shutdown.

**SourceLease** is `mediaMTXSource` over the three kinds of controller (the
variable `controller` never changes; a run takes all kinds as initial states).
`holder` and `call` are `lifecycleMu` and the controller call made under it;
`source.mu` regions are single actions. An operation goes
`idle → waiting → acquiring → pending → released to a session or recording, or
done`. `timerTasks` and `bgTasks` are callbacks that have fired and wait for
`lifecycleMu` with their epoch. A managed call only raises `desiredRevision`;
`flight` is the worker's request, and `PeerObserves` is the late publication of
its receipt. "direct" is a bare `cameraControl`, which the repository's tests
install. Left out here: the incarnations of the camera (next module), keyframe
restarts, and an acquire that passed `isClosing` just before the lifecycle is
cancelled, which calls the camera directly.

**CameraPeer** is `cameraPeer` with the process behind it: `up`,
`incarnation` and `served` are the camera, `pc` walks the worker's loop
(`Consume, Decide, Discover, Status, Apply, Request…, Finish, Failed`, its
waits and its backoff), `caller` the concurrent `call`s with their deadlines.
A camera is replaced while requests and replies are on the way. The attempts
counter is a flag per caller; requests to one incarnation are served in order;
backoff durations, describe updates and a watcher that cannot start are left
out; a camera may capture on its own when it starts.

**ViewerSlots** is the abstract promise to viewers: a bounded number of slots,
one native session at most in each, and a viewer who was asked to leave gives
its slot back only when its native session has ended for good. A viewer who is
missed before anybody asked it to leave may be forgotten, which is what an
inventory without it leads to; whoever is asked between the two is forgotten
too (section 5).

**WhepSession** has a token per session: `op` is `OpenSession`, `item` what the
edge knows, `native` what MediaMTX has, `mutex` and `step` who holds `item.mu`
and which call is on the way, `pass` one reconcile pass with its older
inventory and its cursor. Every creation and deletion may be answered, refused
or lost. `maxSessions` is a variable that never changes, so that one run takes
each limit. `SlotOf` and `NativeOf` are the refinement mapping to ViewerSlots:
an open or opening token is a slot that is held, one whose `closeRequested` is
set a slot that is asked for, and a native session may exist from its POST on.
Admission by `beginOperation` and the reservation of the slot are two steps, as
are the pass's judgement of a session and its forgetting, because the code takes
a lock for each; only the two records that `closeSessionContext` deletes go
together.

**SourceTelemetry** is what a source is reported to do: the three background
flights with their pending flags, the reconcile pass that samples the path, the
observations of a camera's worker, and the report. The lease appears as far as
telemetry needs it, with both `lifecycleMu` (`holder`) and the epoch. `lease`
is a history variable that numbers the leases of a pipeline, so that a sample
can be told from one of an earlier lease. Byte counts, backoff times and the
thresholds that start a recovery are left open: it may be asked for whenever
the code could.

**RecordingCapacity** has the saturating arithmetic over words of the model's
own size and the admission of a recording, **PipelineTemplate** what a template
document must be and what `resolve` and `expand` make of it. Neither has state.
**EdgeConfig** extends both: a configuration is normalized or refused, rendered
for MediaMTX or refused, its pipelines describe themselves and Start accepts or
refuses them, and recordings are then admitted against a disk. Texts are members
of small sets; the constants say which of them have spaces around them, which
are stable names, paths or device files, and which address a host parses to.
Ports are numbers, where the code compares the text of an address, and the limit
of 256 bytes on a frame ID is left out. The estimate of a recording is exact;
the code's float differs by a few bytes at most within the accepted limits.

**PipelineControl** has runs with their processes: `opMu`, the current run, the
generation, the settle timer, scratch frames by run, captures that read a frame
and answer later, crashes, and terminate with grace (interrupt and kill are one
signal). Text of diagnostics, partial JPEGs and `requireFresh` are left out. The
removal of old frames before a run is one step that succeeds, where the code
removes them one by one and ignores what fails (`pipeline_source.go` 370-376).

**RecordingLedger** is the abstract promise of recordings: they have the source
one after the other, a client that was told of one finds it ever after, one is
settled only after its client was told and the source is free, and what is
settled as complete has segments and keeps them. A start of the edge may hide
entries, and the next one show them again. At a crash an entry may settle,
and a failed one may turn out complete: the write of its last manifest was
reported as failed and took effect, which TLC showed to happen.

**Recording** has `StartRecording` step by step, native segments, `requestStop`
by three callers, `finalize` with failing stop, scan and write, `Close`, a
crash and the load of the history, which passes over a manifest that has grown
too large (`MaxListed` segments stand for 1 MiB, a limit that only the reader
has), or that cannot be read that once. `passed` names what the last start passed
over. `EntryOf` is the mapping to the ledger: what is listed is open, what is in
the history or passed over is settled. A restart takes it that MediaMTX does not
outlive the edge (section 5 says when it does).

**SnapshotRetention** has captures with a size and expiry, the per-source list
and order, and `storeSnapshot`'s recount, caps and eviction. It is written for
its proofs: bytes are the cardinality of a set of pairs, one for each byte, and
`Keep` filters a list by saying which place the nth entry that stays had, so that
neither a sum nor a filter is recursive. Its specification is `RetentionSpec`,
because its theorems stand beside those of Recording.

**ServerLifecycle** has `Start` step by step and each way it fails: nothing
to end yet, a child that exits early, one that is not ready in time and is
closed on the spot, one that the deferred function closes; every
`Process.Close` signals and waits, and the first alone does. It has
admission, a background counter, the reconcile loop on its condition
variable, `Close` as called by main, the child's watcher and the HTTP
watcher, the child, an orphan of an earlier edge, crash and restart. One
source stands for all and its details are in SourceLease. The reconcile pass
is not counted in the wait group, as in the code, and the counter has tasks
only, not the callbacks of timers (`AfterFunc`), which no wait group counts.
The drain timeout may fire only with work in flight; `control.Close` cannot
fail; a child that was killed exits.

**Player** walks the async function of `connect` from await to await. The
generation is a flag on the only flight; unmounting equals `pagehide`; a
connection does not drop while an answer is being applied. `live` has the
sessions whose name the page was told, `untold` those of POSTs that timed out or
whose answer could not be read, which the edge ends in its own time.

The theorems (section 4) are in `SourceLease_proofs`, `CameraPeer_proofs`,
`SourceTelemetry_proofs`, `PipelineControl_proofs`, `ServerLifecycle_proofs`,
`EdgeConfig_proofs` (with the arithmetic of the capacity), `Storage_proofs`
(Recording and SnapshotRetention) and `Viewers_proofs`, which has both ends of a
viewer's session: WhepSession and Player. To stand beside the former, the latter's specification
is named `PageSpec`, its steps `PageNext`, its sessions `PageSession`.

## 3. Runs

Eleven runs must pass and one shows a disagreement.

| Run | States | What it shows |
|---|---|---|
| `Lease` | 8 347 | two operations on a source of each kind, every call lost or late, two Closes |
| `PeerSafe` | 446 647 | a start and a stop, one replacement of the camera, shutdown |
| `PeerLive` | 78 867 | a lease is applied, the worker comes to rest and drains |
| `Telemetry` | 248 922 | polls, listings, keyframes and recoveries across two leases of a pipeline and of a camera, with Close |
| `Whep` | 231 014 | two tokens for one slot with every reply lost and Close; two for two slots with one cleanup per pass |
| `Pipeline` | 117 081 | two calls, two runs of a pair of processes, crashes |
| `Recording` | 278 176 | two recordings of a source, failures, Close, a crash and manifests that are passed over |
| `SnapshotStore` | 936 918 | two sources, two captures at once, four snapshots |
| `Lifecycle` | 124 582 | starts that fail at each step, a request and a task against three closers, a crash |
| `Player` | 2 010 | three sessions, lost answers, a failed DELETE and a session that ended |
| `Config` | 22 247 | configurations around every limit, from the document to admitted recordings |
| `PeerStopLost` | violation | a stop that one failed revalidation loses |

The properties, by the hazard they are aimed at. The `...Inv` ones are
conjunctions of named parts, with the type invariant of the module:

- *Lease.* `IInv`, the invariant of the proof: the counter is the number of
  reservations through every early return (`PendingExact`), the epoch fence is
  enough, so that no stop is called while there is a consumer
  (`StopWithoutConsumers`), and consumers keep the lease
  (`ConsumersHoldLease`). `NativeOwned`: a producer that runs is always
  somebody's to stop. `StopSparesViewers`, `UnmanagedCloseStops`,
  `ImplementsDemandLease`; `EventuallyParked`, `CloseTerminates`.
- *Peer.* `PeerInv` (with `AppliedIsNative`), `NoSecondWrite`,
  `ReceiptAnswersCall` against replacement and lost replies;
  `OwedLeaseApplied`, `RestsWithoutDemand`, `WorkerDrains` against lost
  wake-ups and endless polling.
- *Telemetry.* `TelemetryInv`: a flag is up exactly while its task exists, so
  no two polls run at once. `ReportIsCurrent`: neither a poll nor a listing
  that was asked for under an earlier lease is published (`ParkedIsDark`,
  `StatusOfThisLease`). `FlightsEnd`: whatever Close refuses or a lease
  outruns, the next poll is possible again. `ShownCatchesUp`: a poll that a
  start has overtaken is corrected.
- *WHEP.* `SessionInv`: the slots are never oversubscribed (`SlotBound`) and
  demand follows the sessions (`SessionHoldsDemand`). `ImplementsViewerSlots`:
  no slot of a viewer who was asked to leave is given back while the native
  session may exist or be created, except when a pass had judged it before.
  `CreatedSessionsEnd`.
- *Pipeline.* `RunInv`: `OneRunAtATime`, `RunIsOwned`, `ActiveIsRecorded`,
  `StopReceiptIsTrue`. `NoStaleFrame`, `EitherEndEndsPipeline`, `OperationsEnd`.
- *Recording.* `RecordingInv`: `OneRecordingPerSource`, `RecordingIDIsLive`,
  `DemandHeldOnce`, `CompleteIsStopped`. `AcknowledgedIsFound`.
  `ImplementsRecordingLedger`: whatever fails, list, history and manifests agree,
  and what was settled as complete stays, on disk at least (also stated by
  itself, as `CompleteIsDurable`). `RecordingEnds`.
- *Snapshots.* `RetentionInv`: `BudgetHeld`, `RetainedIsListed`,
  `OldestLeavesFirst`, which holds because of `CapturesInOrder`.
  `NothingDroppedInVain`: a live snapshot gives way to as many newer ones of its
  own source, or when those that expire no earlier leave no room for the new one.
- *Lifecycle.* `LifecycleInv`: `CleanupRunsAlone`, `CompleteMeansReleased`.
  `FailedStartLeavesNothing`: whoever notices a failed start, the child has been
  ended and awaited when the process exits. `SessionsAreReconciled`,
  `ChildExitShutsDown`.
- *Player.* `PageInv`: `UnwatchedIsQuiet`, `SessionsAccounted`.
  `OffersDoNotOverlap`, `RecoversOnceConfirmed`. The first two are about the
  sessions that the page was told of; section 5 has those it was not.
- *Configuration.* `AcceptedIsSound`: normal form is a fixed point, sources do
  not get in each other's way, and MediaMTX accepts what the edge accepted.
  `PipelinesAreServable`: the checks of template, source and description agree.
  `AdmittedFits`: the wrapping sums admit nothing that does not fit.

Bounds. Two operations are enough for the lease's races (one leaves, one
arrives, with any number of stale tasks); the proofs cover more. Two revisions
and two incarnations give a start, a stop and a replacement between any two
steps. `MaxEpoch = 3` gives telemetry a lease, its end and the next lease, which
is what a late poll can confuse. Two sessions for one slot show the admission
race and two for two slots with one cleanup per pass the starvation
(`SessionLimits`); Close is called under the first limit only (`ClosingLimits`),
which keeps the run small: that safety does not depend on it is proved. Two runs show a
stale and a current one. One restart and one Close give every crash point; with
two segments where a manifest holds one (`MaxListed`), and one that cannot be
read (`MaxUnread`), each way of being passed over occurs, alone and together.
Two answers may be lost one after the other (`MaxUntold`). Four
snapshots of sizes 1, 2 and 5 for a budget of 4 fill it, overflow it and make
one that can never fit. `Config` takes each limit at, below and above its value,
documents with one fault each, and pairs of sources; its words go up to 500
(`MaxUint64`) and the disks are such that products, sums and the comparison
meet the largest word. `PeerLive` keeps the camera at one incarnation:
`PeerStartMoves.cfg` checks that a start reaches a replacement. Symmetry is used
for safety only (`SnapshotStore`), over jobs that differ in nothing but their
name.

`CHECK_DEADLOCK FALSE` stands where operations happen once, so that the system
really stops. A page never stops and keeps the check.

### Fairness

Weak fairness is given to goroutines that can run, timers, deadlines and the
exit of a signalled process: all are promised by the Go scheduler, by contexts
with deadlines or by a kill after a grace. Strong fairness is given to a lock
that is waited for (Go's mutex hands over to whoever starves) and to a call
that is repeated again and again (a camera or MediaMTX that stays up answers
at some time). In telemetry the tasks and the calls are weakly fair, and so is the
reconcile loop, which passes once a second; strong fairness is given to the
recovery alone, which waits for `lifecycleMu`. Nothing is assumed of clients,
of crashes or of the supervisor.

## 4. Proofs

Each theorem holds for every value of the constants of its module. What is
assumed of them is named in each module and evaluated by TLC in its runs:
`ConstantsAssumption` of the state machines (`PageAssumption` of the player,
`RetentionAssumption` of the snapshots),
`WordAssumption` (there is a largest word), and three of EdgeConfig:
`TextAssumption` (trimming a text gives one with nothing to trim),
`InputsAssumption` (what the decoder makes of a document, whatever it says) and
`RecordingAssumption` (statfs counts in words, no length is negative).

| Module | Theorem | Statement |
|---|---|---|
| `SourceLease_proofs` | `Invariance` | `Spec => []IInv` |
| | `PendingIsExact` | `Spec => []PendingExact` |
| | `StopsAreSafe` | `Spec => []StopWithoutConsumers` |
| | `LeaseHeld` | `Spec => []ConsumersHoldLease` |
| | `RunningIsOwned` | `Spec => []NativeOwned` |
| | `CloseStops` | `Spec => []UnmanagedCloseStops` |
| | `ViewersAreSpared` | `Spec => StopSparesViewers` |
| | `Refinement` | `Spec => ImplementsDemandLease` |
| `CameraPeer_proofs` | `PeerIsSound` | `Spec => []PeerInv` |
| | `RevisionsApplyOnce` | `Spec => NoSecondWrite` |
| | `ReceiptsAnswer` | `Spec => ReceiptAnswersCall` |
| `PipelineControl_proofs` | `ControlIsSound` | `Spec => []RunInv` |
| | `FramesAreFresh` | `Spec => NoStaleFrame` |
| `Viewers_proofs` | `SessionsAreSound` | `Spec => []SessionInv` |
| | `SlotsSuffice` | `Spec => []SlotBound` |
| | `DemandFollowsSessions` | `Spec => []SessionHoldsDemand` |
| | `Refinement` | `Spec => ImplementsViewerSlots` |
| | `SessionsAreAccounted` | `PageSpec => []PageInv` |
| | `NoOverlap` | `PageSpec => []OffersDoNotOverlap` |
| `Storage_proofs` | `RecordingIsSound` | `Spec => []RecordingInv` |
| | `RecordingsAreFound` | `Spec => []AcknowledgedIsFound` |
| | `CompleteRecordingsStay` | `Spec => CompleteIsDurable` |
| | `RecordingIsALedger` | `Spec => ImplementsRecordingLedger` |
| | `RetentionIsSound` | `RetentionSpec => []RetentionInv` |
| | `NothingIsDroppedInVain` | `RetentionSpec => NothingDroppedInVain` |
| `SourceTelemetry_proofs` | `FlagsAreTasks` | `Spec => []TelemetryInv` |
| | `ReportsAreCurrent` | `Spec => []ReportIsCurrent` |
| `ServerLifecycle_proofs` | `LifecycleIsSound` | `Spec => []LifecycleInv` |
| | `FailedStartsLeaveNothing` | `Spec => FailedStartLeavesNothing` |
| `EdgeConfig_proofs` | `AcceptanceIsSound` | `Spec => []AcceptedIsSound` |
| | `PipelinesServed` | `Spec => []PipelinesAreServable` |
| | `AdmissionsFit` | `Spec => []AdmittedFits` |
| | `AddSaturates`, `MultiplySaturates` | the saturating operators are the capped sum and product |
| | `AdmitsWhatFits` | the admission in wrapping words is the comparison of plain numbers |

The proofs have one shape. An invariant that a run checks is seldom inductive;
the module of the component states next to it the parts that make it so, and
the run checks these too, as conjuncts of the same `...Inv`. There is a lemma
for each part (what keeps `ListInv`, say) with a step for each action, or a lemma
for each group of actions; the theorem combines them.

**The lease.** Neither `PendingExact`, `StopWithoutConsumers` nor
`ConsumersHoldLease` is inductive alone. That a stop in flight has no consumer
needs that nobody can be granted meanwhile, so the invariant says that an
acquiring operation holds `lifecycleMu` and that there is one at most; that
pending is exact needs `Granted` to be finite and to change by one; that a
viewer holds an active lease needs that a session belongs to an operation that
was granted, that a session and the recording are different operations, and
that after Close has reached the source no operation is granted. `LeaseInv`
collects these, and with the types it is inductive (`DemandInv`). The lemmas
`GrantedGrows`, `GrantedShrinks` and `GrantedKept` carry the cardinalities. For
the refinement `Users` maps the granted, the sessions and the recording to the
abstract users; each step is a `Grant`, `Leave`, `Park`, `Claim`, a step of the
shutdown or a stutter.

What the source itself does is `NativeInv`, three parts that rest on
`DemandInv`. `CallInv` says which call each holder of `lifecycleMu` makes and
what one that landed has left. `RevisionInv` is about a managed source: the
worker's request carries a revision that is not applied yet, the latest unless
another followed, and a source whose last revision is applied runs only if that
was a start. `OwnerInv` says who wants it to run, and that whoever was granted
the source has no stop of the past on its way. From these a producer that runs
is always somebody's to stop, a Close of an unmanaged source that succeeded
has stopped it, and no stop reaches a source with viewers.

**The peer.** Revisions alternate between start and stop, so the parity of one
tells which it was: `DesiredInv` states it of the desired revision, the receipt
and the callers that wait. `ConnectionInv` says at which steps of the worker a
process is bound, `AppliedInv` whom the applied revision was applied to and what
that process does since. `ServedInv` is what `NoSecondWrite` needs: a process
that was already made to apply the desired revision, though the reply was lost,
is known to have done so (`ServedIsKnown`) by the time the worker decides again,
because a lost reply leads through a status of the same process first.

**The pipeline.** `OneRunAtATime` follows from where processes may be at all:
`SupervisionInv` says that only the last generation, or the run that is just
being recorded, is alive, and that a run without a supervisor has no process;
`OwnerInv` that a live run is the recorded one or the victim of whom holds
`opMu`; `LockInv` that the holder is one, and that the source admits no second
lifecycle call. `FramesInv` says that no scratch file is older than the last
recorded run, for `NoStaleFrame`. That the newest of the frames a capture listed
is one of them (`NewestIsListed`) is an argument by the least number.

**Viewers.** The slots are counted apart from the rest: `SlotsExact` says that
`pendingSessions` is the number of tokens between reservation and registration,
and `Kept` is everything that needs no counting. `Progress` ties the steps of
`OpenSession` to what is registered, `Ownership` says that who holds `item.mu`
closes a session that is still owned and that what the edge was told of a native
session is true, and `ExitIsFinal` that nothing is created once the child has
exited. With these each step is a step of ViewerSlots or a stutter, by the
mapping of section 2; whom a pass has judged, and not forgotten yet, is the one
whom the slots miss. `WalkInv` adds the list that a pass walks along and where
it is in it: `SortedIsAscending` shows that the sort of a finite set of tokens
exists, by taking away its last one from a smallest set that had none.

**The player.** `PageInv` becomes inductive with `Negotiates`: a flight that was
not answered holds no session, and one that has begun to negotiate has an empty
chain of retirements. What the page was not told of is apart from all that it
holds or retires, and the parts say so.

**Recordings.** `StartInv` says who holds the mutex of a source between the
beginning and the end of `StartRecording`; `ListInv` that `finalize` runs
only for what is listed and once, and that a source names a recording
exactly from its success to its release; `ItemInv` that a recording which is
not known to have been switched off, or has no segment, has a reason to
fail, so that "complete" is never said in vain; `DiskInv` relates the
manifest on disk to the item and to the history. `AcknowledgedIsFound` is
proved along with them, and `CompleteIsDurable` because whatever the history
calls complete is complete on the disk it will be loaded from. For the
ledger, `BookInv` says that who is done was told, that what the history has
is on disk, and that what is neither listed nor in the history was only
begun, or was passed over and is over: without it a crash could settle a
recording that the ledger has as absent. Each step is then a step of the
ledger (`Take` when the source is acquired, `Publish`, `Tell`, `Release` and
`Settle` in the order the code does them, `GiveUp` for a start that fails)
or a stutter.

**Snapshots.** The expiry of a snapshot is stamped before the locks are taken, so
that a list is in order of expiry is not obvious, and the code relies on it when
it caps a source. `CapturesInOrder` has the reason: identifiers and expiries grow
together, no two requests capture one source, and what is about to be stored is
newer than all its source lists. `KeepKeeps` and `KeepAscends` say what a filtered
list has and that it is in the order of the old one; they rest on `RankGrows` and
`NthIsPlace`, by which the nth kept place exists. `BytesGrow` is what the budget
needs of a cardinality: fewer snapshots take no more. `StoreKept` combines them.
For `NothingDroppedInVain`, `NewestAscend` counts what follows an entry of an
ascending list, so that the cap cuts off those alone that have enough newer ones;
`DroppedFor` shows that any other live snapshot which a store removes is a victim,
and that the last victim, the new snapshot and what stays do not fit together:
all of them expire no earlier than it.

**Telemetry.** That no old sample is published rests on `FencedByEpoch`: a poll
that was sampled under an earlier lease belongs to an earlier epoch by the time
the source may be active again, because a confirmed stop leaves the source
parked and the acquisition that follows advances the epoch. `GrantedIsActive` and
`HolderIsOne` give what a stop may assume of the viewers; `FlagsExact` is the
flags.

**The server.** `Held` says what a caller of Close knows at each of its steps:
it holds `closeMu`; past the hosts they are closed, past the join it is over,
past the stop of the source it is stopped unless the failure is recorded.
`Joins` says that work that was joined does not come back, because admission
looks at `closing` under the same lock. `ChildAwaited` says that a
`Process.Close` that was called has either seen the child go or is waiting for
it. Together they make success final (`Completed`). For
`FailedStartLeavesNothing`, `ChildKnown` says what each step of a failing `Start`
may take for granted: the deferred function finds a child that was ready, for
which it calls `Process.Close`, or one that has exited or was never spawned; and
the process exits only behind a child that is gone. `Begun` says that `closing`
marks the second `Process.Close`, the deferred one.

**The configuration.** That the normal form is a fixed point is proved field by
field, up to the sources and the origins (`NormalTwice`), from `TextAssumption`
alone. `ConfigInv` says that what is served is the normal form of a
configuration that was accepted, which carries over to it by the fixed point;
`StartedInv` that each pipeline has described itself acceptably once the edge
has started; `AdmittedInv` that the admitted sizes are numbers that fit.
`DescribesItself` and `PipelineAccepts` show that the three checks of a pipeline
agree on every pipeline that was accepted. The
admission multiplies, adds and compares words: a product exceeds the word
exactly when the test by division says so, and the saturated comparison agrees
with the one of plain numbers.

Every safety property of a passing run is a theorem. Only model-checked is all
liveness: the prover has no rule for fairness or ENABLED that could be used here.

## 5. Where the code and its documents disagree

One run is kept as a violation:

- `PeerStopLost`: `source_peer.go:404` leaves `revalidateStop` out of what the
  worker needs. One failed revalidation of a stop parks it, and a replacement
  that runs is never stopped, against the comment at 337-338.

While modelling, more traces were found. Each has a configuration of its own
here that reproduces it with the module that its component's runs use, and a
property that states what the text says:

| Configuration | Property | What happens |
|---|---|---|
| `LeasePeerClose` | `ClosedMeansStopped` | a late start receipt (`source_peer.go:239`) clears the doubt of a failed stop; Close sends none (`README.md` 208-210) |
| `PeerHealthStale` | `HealthFollowsCamera` | a round invalidated after its last reply publishes no error: a camera that is gone stays healthy (`source_peer.go:402`) |
| `PeerJoinsCancelled` | `JoinedAttemptLives` | a caller joins the attempt that the last caller's departure cancelled (`source_peer.go:115`) |
| `PeerCloseRediscovers` | `CleanupStaysFenced` | Close's cleanup discovers a replacement and stops it (`source_peer.go:178-181`) |
| `WhepStaleInventory` | `NativeIsOwned` | an inventory older than the session forgets a live native one (`server:1054`) |
| `WhepAskedForgotten` | `AskedKeepsSlot` | a pass reads `closeRequested` and unlocks (`server:1029-1032`); a client's DELETE is asked for and fails; the pass then forgets the session without asking again (`server:1055`, 658-691), while the native one lives (`README.md` 214-219) |
| `PipelineReceipt` | `ReceiptsAreFinal` | an applied receipt for a run that has just died (`pipeline_source.go:184`) |
| `PipelineSequence` | `SequenceNamesRun` | a frame of the old run is numbered with the new generation (`pipeline_source.go:482`) |
| `RecordingLostReply` | `NativeRecordingOwned` | a start whose reply is lost records for nobody (`mediamtx_recording.go:196`) |
| `RecordingRestart` | `RestartKeepsSegments` | the manifest is written at the start and by `finalize` only: after a crash it lists none of the segments on disk (`mediamtx_recording.go:92`, `README.md` 431-435) |
| `RecordingForgets` | `RestartKeepsHistory` | a start passes over a manifest of more than 1 MiB, which nothing keeps from growing so large (`mediamtx_recording.go:74`): a finalized recording is gone from the history (`README.md` 434-435: "A restart preserves previously finalized segments") |
| `TelemetryCamera` | `ConfirmedStopIsDark` | a stop of a camera whose caller gave up is confirmed by the worker (`source_peer.go:224-243`), and nobody takes back the path flags as `server:896-897` does: a released camera is reported available |
| `ConfigSharedListener` | `NoSharedListener` | two sources listen on one address under two spellings (`config.go:215` compares texts) |
| `ConfigJointCapacity` | `TogetherTheyFit` | recordings of two sources are admitted against the same free space (`mediamtx_recording.go:142`) |
| `LifecycleOrphan` | `ReadinessIsOurs` | a restarted edge takes an orphaned MediaMTX for its child (`process.go:113`, `server:201`) |
| `LifecycleZombie` | `ChildExitEndsEdge` | after the child has exited main waits for a signal (`main.go:146`) |
| `PlayerStuck` | `RecoversWithoutReload` | a DELETE answered with 404 ends every later attempt (`main.tsx:80`) |
| `PlayerLostAnswer` | `OneSessionAtATime` | a POST that times out or whose answer is lost (`main.tsx:200-208`) leaves a session the page was not told of, and the next offer overlaps it (`test-reconnect.mjs:168`, "zero overlapping offers") |

Smaller observations without a property: the status "complete" of a recording
is visible before its manifest is durable (`mediamtx_recording.go:324`); Close
can give a failure reason to a recording that completes
(`mediamtx_recording.go:468`); a start that failed leaves a manifest that a
restart reports (`mediamtx_recording.go:165`); `item.timer` is written after
the item was published (`mediamtx_recording.go:215`); a pipeline's frame is not
limited by `MaxCaptureBytes` (`pipeline_source.go:408`); a child that exits before
it is ready leaves its configuration file behind (`process.go:147`), as no
`Process.Close` follows.

## 6. What is not modelled

- Of the configuration: the edge's own addresses, public IPs, ICE servers, time
  limits, sizes of HTTP messages, and the reading of flags and files
  (`source_config.go`). Each is a check of one value by itself.
- HTTP routing, CORS, decoding and status codes: stateless.
- URL handling and JSON of the MediaMTX client and the text of `mediamtx.yml`:
  formatting.
- Decoding of camera responses, the lookup of the service reference and a
  watcher that cannot start.
- The capture commands and the example client: sequential, one request each.
- Web build, packaging, process definitions, continuous integration.

`components` in `PROJECT.json` has the reason for each.

Out of reach of the provers, and left to TLC: liveness under fairness, ENABLED,
induction over data, and RECURSIVE operators (there are none here). Where the
code sorts, filters, or takes the last of a set, the definition is a CHOOSE, or a
rank, and the proof goes by the least number or a cardinality, which needs no
induction theorem.

## 7. Plan

Done, in order of importance: lease and its abstract specification, peer,
WHEP sessions and the abstract viewer slots, pipeline, recording and its
abstract ledger, snapshots, lifecycle, player, telemetry, the capacity, templates
and configuration; proofs of the safety of all of them, and of the three
refinements.

What would come next:

1. a composition of SourceLease with CameraPeer in place of its `flight`, and
   with it `NativeOwned` of a camera that is replaced;
2. an abstract specification of the server's shutdown that ServerLifecycle, with
   SourceLease for its source, implements.

------------------------------ MODULE Recording ------------------------------
(***************************************************************************)
(* The recordings of one source (internal/mediaedge/mediamtx_recording.go) *)
(* from StartRecording to the finalized manifest, with the manifest file   *)
(* that outlives the edge and the recording switch of the MediaMTX path.   *)
(*                                                                         *)
(* StartRecording and the end of finalize hold recordingLifecycleMu.       *)
(* Stops come from clients, from the duration timer and from Close; the    *)
(* first of them starts the one finalize goroutine.  Any call to MediaMTX  *)
(* may fail with or without effect, any write of a manifest may fail, and  *)
(* the edge may be killed and restarted at any step.                       *)
(***************************************************************************)
EXTENDS Integers, FiniteSets

CONSTANTS
  NRecordings,  \* bound: recordings that are asked for
  MaxSegments,  \* bound: segments that MediaMTX finalizes for one of them
  MaxListed,    \* segments that fit a manifest of 1 MiB
  MaxUnread,    \* bound: manifests that one load cannot read
  MaxRestart,   \* bound: crashes of the edge
  MaxShutdown   \* bound: calls of Close, 0 or 1

ASSUME ConstantsAssumption ==
  /\ NRecordings \in Nat /\ MaxSegments \in Nat /\ MaxListed \in Nat
  /\ MaxUnread \in Nat /\ MaxRestart \in Nat
  /\ MaxShutdown \in {0, 1}

Rec == 1..NRecordings
NoRec == 0

VARIABLES
  pc,           \* progress of StartRecording
  mutex,        \* who holds source.recordingLifecycleMu
  pending,      \* operations counted in source.pending
  recordingID,  \* source.recordingID
  listed,       \* server.recordings
  item,         \* the manifest in memory
  stopOnce,     \* recordings whose stopOnce is done
  fin,          \* progress of finalize
  history,      \* server.recordingHistory
  disk,         \* manifest.json
  passed,       \* history: recordings whose manifest the last load passed over
  native,       \* external: the recording MediaMTX writes segments for
  segments,     \* external: segments it finalized
  acknowledged, \* history: recordings that a client was told of
  closing, restarts

memory  == <<recordingID, listed, item, stopOnce, history>>
outside == <<native, segments>>
ends    == <<closing, restarts, passed>>
vars    == <<pc, mutex, pending, memory, fin, disk, outside, acknowledged, ends>>

Manifest == [state : {"none", "waiting", "active", "stopping", "complete", "failed"},
             reason : BOOLEAN, segments : 0..MaxSegments]
Final == {"complete", "failed"}

NoManifest  == [state |-> "none", reason |-> FALSE, segments |-> 0]
NewManifest == [state |-> "waiting", reason |-> FALSE, segments |-> 0]

ProgressOK ==
  /\ pc \in [Rec -> {"idle", "locked", "acquired", "persisted", "configuring", "configured",
                     "published", "done", "failed"}]
  /\ fin \in [Rec -> {"none", "stopping", "disable", "scan", "decide", "persist", "release",
                      "retire", "done"}]
  /\ mutex \in {NoRec} \cup Rec /\ recordingID \in {NoRec} \cup Rec /\ native \in {NoRec} \cup Rec
  /\ pending \in SUBSET Rec /\ listed \in SUBSET Rec
  /\ stopOnce \in SUBSET Rec /\ acknowledged \in SUBSET Rec
  /\ segments \in [Rec -> 0..MaxSegments]
  /\ closing \in BOOLEAN /\ restarts \in 0..MaxRestart /\ passed \in SUBSET Rec

ManifestsOK ==
  /\ item \in [Rec -> Manifest]
  /\ disk \in [Rec -> Manifest]
  /\ history \in [Rec -> [state : {"none"} \cup Final, reason : BOOLEAN, segments : 0..MaxSegments]]

\* The variables have their types.
TypeOK == ProgressOK /\ ManifestsOK

Init ==
  /\ pc = [r \in Rec |-> "idle"] /\ mutex = NoRec
  /\ pending = {} /\ recordingID = NoRec /\ listed = {}
  /\ item = [r \in Rec |-> NoManifest] /\ stopOnce = {} /\ fin = [r \in Rec |-> "none"]
  /\ history = [r \in Rec |-> NoManifest] /\ disk = [r \in Rec |-> NoManifest]
  /\ native = NoRec /\ segments = [r \in Rec |-> 0]
  /\ acknowledged = {} /\ closing = FALSE /\ restarts = 0 /\ passed = {}

-----------------------------------------------------------------------------
(* StartRecording.                                                         *)

Goes(r, from, to) == pc[r] = from /\ pc' = [pc EXCEPT ![r] = to]

\* An early return: the deferred calls release the demand and the mutex.
Fails(r) ==
  /\ pc' = [pc EXCEPT ![r] = "failed"]
  /\ pending' = pending \ {r}
  /\ mutex' = NoRec

Unlocked == mutex = NoRec

Begin(r) ==
  /\ Goes(r, "idle", "locked")
  /\ ~closing
  /\ Unlocked
  /\ mutex' = r
  /\ UNCHANGED <<pending, memory, fin, disk, outside, acknowledged, ends>>

Written(r, m) == disk' = [disk EXCEPT ![r] = m]

\* A conflict, a full filesystem, a source that does not start or a path that
\* does not appear, a directory or a manifest that cannot be written; the write
\* of the manifest may fail in its last step, and then the manifest stays.
Refused(r) ==
  /\ pc[r] \in {"locked", "acquired"}
  /\ Fails(r)
  /\ \/ UNCHANGED disk
     \/ pc[r] = "acquired" /\ Written(r, NewManifest)
  /\ UNCHANGED <<memory, fin, outside, acknowledged, ends>>

Acquires(r) ==
  /\ Goes(r, "locked", "acquired")
  /\ recordingID = NoRec
  /\ pending' = pending \cup {r}
  /\ UNCHANGED <<mutex, memory, fin, disk, outside, acknowledged, ends>>

Persists(r) ==
  /\ Goes(r, "acquired", "persisted")
  /\ item' = [item EXCEPT ![r] = NewManifest]
  /\ disk' = [disk EXCEPT ![r] = NewManifest]
  /\ UNCHANGED <<mutex, pending, recordingID, listed, stopOnce, fin, history, outside, acknowledged, ends>>

\* ConfigureRecording, which MediaMTX carries out ...
Configures(r) ==
  /\ Goes(r, "persisted", "configuring")
  /\ native' = r
  /\ UNCHANGED <<mutex, pending, memory, fin, disk, segments, acknowledged, ends>>

Configured(r) ==
  /\ Goes(r, "configuring", "configured")
  /\ UNCHANGED <<mutex, pending, memory, fin, disk, outside, acknowledged, ends>>

\* ... or not; without a reply either is possible.  The manifest stays.
ConfigureFails(r) ==
  /\ pc[r] \in {"persisted", "configuring"}
  /\ Fails(r)
  /\ UNCHANGED <<memory, fin, disk, outside, acknowledged, ends>>

Publishes(r) ==
  /\ Goes(r, "configured", "published")
  /\ ~closing
  /\ listed' = listed \cup {r}
  /\ UNCHANGED <<mutex, pending, recordingID, item, stopOnce, history, fin, disk, outside, acknowledged, ends>>

\* The edge began to close meanwhile: one attempt to switch off again.
PublishRefused(r) ==
  /\ pc[r] = "configured"
  /\ closing
  /\ native' \in {NoRec, native}
  /\ Fails(r)
  /\ UNCHANGED <<memory, fin, disk, segments, acknowledged, ends>>

DropPending(r) == pending' = pending \ {r}

\* The pending demand becomes the recording's.
Binds(r) ==
  /\ Goes(r, "published", "done")
  /\ recordingID' = r
  /\ DropPending(r)
  /\ mutex' = NoRec
  /\ acknowledged' = acknowledged \cup {r}
  /\ UNCHANGED <<listed, item, stopOnce, fin, history, disk, outside, ends>>

Starts(r) ==
  \/ Begin(r) \/ Refused(r) \/ Acquires(r) \/ Persists(r) \/ Configures(r) \/ Configured(r)
  \/ ConfigureFails(r) \/ Publishes(r) \/ PublishRefused(r) \/ Binds(r)

-----------------------------------------------------------------------------
(* While it records.                                                       *)

\* external: MediaMTX finalizes another segment.
SegmentEnds ==
  /\ native # NoRec
  /\ segments[native] < MaxSegments
  /\ segments' = [segments EXCEPT ![native] = @ + 1]
  /\ UNCHANGED <<pc, mutex, pending, memory, fin, disk, native, acknowledged, ends>>

\* observePath saw new packets of the path while this was its recording.
MarkActive(r) ==
  /\ r \in listed
  /\ item[r].state = "waiting"
  /\ item' = [item EXCEPT ![r].state = "active"]
  /\ UNCHANGED <<pc, mutex, pending, recordingID, listed, stopOnce, fin, history, disk, outside,
                 acknowledged, ends>>

\* A client that found the recording in the list, or its timer.
RequestStop(r) ==
  /\ r \in listed \ stopOnce
  /\ stopOnce' = stopOnce \cup {r}
  /\ fin' = [fin EXCEPT ![r] = "stopping"]
  /\ UNCHANGED <<pc, mutex, pending, recordingID, listed, item, history, disk, outside, acknowledged, ends>>

-----------------------------------------------------------------------------
(* finalize.                                                               *)

Step(r, from, to) == fin[r] = from /\ fin' = [fin EXCEPT ![r] = to]

\* The outcome of this write is ignored.
FinStopping(r) ==
  /\ Step(r, "stopping", "disable")
  /\ item' = [item EXCEPT ![r].state = "stopping"]
  /\ Written(r, item'[r]) \/ UNCHANGED disk
  /\ UNCHANGED <<pc, mutex, pending, recordingID, listed, stopOnce, history, outside, acknowledged, ends>>

FinDisabled(r) ==
  /\ Step(r, "disable", "scan")
  /\ native' = NoRec
  /\ UNCHANGED <<pc, mutex, pending, memory, disk, segments, acknowledged, ends>>

Mutant_Silently(r) == UNCHANGED item
GiveReason(r) == item' = [item EXCEPT ![r].reason = TRUE]

FinNotDisabled(r) ==
  /\ Step(r, "disable", "scan")
  /\ native' \in {NoRec, native}
  /\ GiveReason(r)
  /\ UNCHANGED <<pc, mutex, pending, recordingID, listed, stopOnce, history, disk, segments,
                 acknowledged, ends>>

\* Stable, timed out with some of the segments, or without any, or unreadable.
FinScanned(r) ==
  /\ Step(r, "scan", "decide")
  /\ \E n \in 0..segments[r] :
       item' = [item EXCEPT ![r].segments = n, ![r].reason = @ \/ n = 0]
  /\ UNCHANGED <<pc, mutex, pending, recordingID, listed, stopOnce, history, disk, outside,
                 acknowledged, ends>>

FinDecided(r) ==
  /\ Step(r, "decide", "persist")
  /\ item' = [item EXCEPT ![r].state = IF item[r].reason THEN "failed" ELSE "complete"]
  /\ UNCHANGED <<pc, mutex, pending, recordingID, listed, stopOnce, history, disk, outside,
                 acknowledged, ends>>

FinPersisted(r) ==
  /\ Step(r, "persist", "release")
  /\ Written(r, item[r])
  /\ UNCHANGED <<pc, mutex, pending, memory, outside, acknowledged, ends>>

Mutant_StillComplete(r) == item
FailedItem(r) == [item EXCEPT ![r].state = "failed", ![r].reason = TRUE]

\* The write failed, perhaps only in its last step, and is tried once more.
FinNotPersisted(r) ==
  /\ Step(r, "persist", "release")
  /\ item' = FailedItem(r)
  /\ \/ Written(r, item'[r])
     \/ Written(r, item[r])
     \/ UNCHANGED disk
  /\ UNCHANGED <<pc, mutex, pending, recordingID, listed, stopOnce, history, outside, acknowledged, ends>>

Mutant_NoLock == TRUE
\* finalize waits for a StartRecording that is not through with this source.
LockFree == mutex = NoRec

Mutant_KeepID(r) == UNCHANGED recordingID
ClearID(r) == recordingID' = IF recordingID = r THEN NoRec ELSE recordingID

FinReleased(r) ==
  /\ Step(r, "release", "retire")
  /\ LockFree
  /\ ClearID(r)
  /\ UNCHANGED <<pc, mutex, pending, listed, item, stopOnce, history, disk, outside, acknowledged, ends>>

Mutant_OnlyComplete(r) ==
  history' = IF item[r].state = "complete" THEN [history EXCEPT ![r] = item[r]] ELSE history
KeepHistory(r) == history' = [history EXCEPT ![r] = item[r]]

FinRetired(r) ==
  /\ Step(r, "retire", "done")
  /\ listed' = listed \ {r}
  /\ KeepHistory(r)
  /\ UNCHANGED <<pc, mutex, pending, recordingID, item, stopOnce, disk, outside, acknowledged, ends>>

Finalizes(r) ==
  \/ FinStopping(r) \/ FinDisabled(r) \/ FinNotDisabled(r) \/ FinScanned(r) \/ FinDecided(r)
  \/ FinPersisted(r) \/ FinNotPersisted(r) \/ FinReleased(r) \/ FinRetired(r)

-----------------------------------------------------------------------------
(* Close and crash.                                                        *)

Shutdown ==
  /\ ~closing
  /\ MaxShutdown > 0
  /\ closing' = TRUE
  /\ UNCHANGED <<pc, mutex, pending, memory, fin, disk, outside, acknowledged, restarts, passed>>

Drained == \A r \in Rec : pc[r] \in {"idle", "done", "failed"}

\* stopAllMediaMTXRecordings; the reason is set whether or not this is the
\* first request.
CloseStops(r) ==
  /\ closing /\ Drained
  /\ r \in listed
  /\ ~item[r].reason \/ r \notin stopOnce
  /\ item' = [item EXCEPT ![r].reason = TRUE]
  /\ stopOnce' = stopOnce \cup {r}
  /\ fin' = [fin EXCEPT ![r] = IF r \in stopOnce THEN @ ELSE "stopping"]
  /\ UNCHANGED <<pc, mutex, pending, recordingID, listed, history, disk, outside, acknowledged, ends>>

\* What was not final has failed.
Recovered(m) ==
  IF m.state \in {"waiting", "active", "stopping"}
  THEN [m EXCEPT !.state = "failed", !.reason = TRUE]
  ELSE m

\* A manifest of more than 1 MiB is passed over.  It grows with the segments
\* that it lists, and whoever writes it knows no limit.
Loadable(m) == m.state # "none" /\ m.segments <= MaxListed

\* loadMediaMTXRecordingHistory.  A manifest that cannot be inspected, opened or
\* decoded is passed over as well.  (One that cannot be written back fails the
\* start, and the next one begins again.)
Loads(loaded) ==
  /\ passed' = {r \in Rec : disk[r].state # "none"} \ loaded
  /\ disk' = [r \in Rec |-> IF r \in loaded THEN Recovered(disk[r]) ELSE disk[r]]
  /\ history' = [r \in Rec |-> IF r \in loaded THEN Recovered(disk[r]) ELSE NoManifest]

\* The edge is killed and started again; its MediaMTX is assumed to end with it.
Restart ==
  /\ restarts < MaxRestart
  /\ restarts' = restarts + 1
  /\ pc' = [r \in Rec |-> IF pc[r] \in {"idle", "done"} THEN pc[r] ELSE "failed"]
  /\ mutex' = NoRec /\ pending' = {} /\ recordingID' = NoRec /\ listed' = {}
  /\ item' = [r \in Rec |-> NoManifest] /\ stopOnce' = {} /\ fin' = [r \in Rec |-> "none"]
  /\ \E unread \in SUBSET Rec :
       Cardinality(unread) <= MaxUnread /\ Loads({r \in Rec : Loadable(disk[r])} \ unread)
  /\ native' = NoRec
  /\ closing' = FALSE
  /\ UNCHANGED <<segments, acknowledged>>

-----------------------------------------------------------------------------

Next ==
  \/ \E r \in Rec : Starts(r) \/ MarkActive(r) \/ RequestStop(r) \/ Finalizes(r) \/ CloseStops(r)
  \/ SegmentEnds
  \/ Shutdown \/ Restart

Spec == Init /\ [][Next]_vars

(* Operations and finalize run, calls to MediaMTX have deadlines, and the  *)
(* timer of every recording fires.                                         *)
Fairness ==
  \A r \in Rec :
    /\ WF_vars(Starts(r) /\ pc[r] # "idle")
    /\ WF_vars(RequestStop(r))
    /\ WF_vars(Finalizes(r) /\ fin[r] # "release") /\ SF_vars(FinReleased(r))

FairSpec == Spec /\ Fairness

-----------------------------------------------------------------------------
(* What is promised of recordings.                                         *)

Holding == {"acquired", "persisted", "configuring", "configured", "published"}

Occupies(r) == pc[r] \in Holding \/ recordingID = r

\* Only one recording may be active per source, however starts and finalize
\* interleave.
OneRecordingPerSource == \A r, q \in Rec : Occupies(r) /\ Occupies(q) => r = q

\* The source is never left to a recording that is over: whoever it names is
\* listed, and its finalize is still to release it.
RecordingIDIsLive ==
  recordingID # NoRec => recordingID \in listed /\ fin[recordingID] \notin {"retire", "done"}

\* A listed recording holds the source, and holds it once.
DemandHeldOnce ==
  \A r \in listed : fin[r] \notin {"retire", "done"} =>
    (r \in pending) # (recordingID = r)

\* A complete recording was switched off and has segments to show.
CompleteIsStopped ==
  \A r \in listed : item[r].state = "complete" => native # r /\ item[r].segments > 0

\* A client that was told of a recording finds it ever after: listed, or in
\* the history, also while it is retired and after a crash, unless the edge was
\* started again and passed over its manifest.
AcknowledgedIsFound ==
  \A r \in acknowledged : r \in listed \/ history[r].state # "none" \/ r \in passed

(* What they rest on. *)

\* Who is between the beginning of StartRecording and its end holds the mutex,
\* and a source that is being taken is named by nobody.
StartInv == \A r \in Rec :
  /\ pc[r] \in Holding \cup {"locked"} <=> mutex = r
  /\ r \in pending <=> pc[r] \in Holding
  /\ pc[r] \in Holding => recordingID = NoRec

\* finalize runs only for what is listed, once, and after it has released the
\* source nothing is left of the recording but its place in the list.
ListInv == \A r \in Rec :
  /\ r \in listed => pc[r] \in {"published", "done"} /\ fin[r] # "done"
  /\ pc[r] = "published" => r \in listed /\ fin[r] # "retire"
  /\ fin[r] \notin {"none", "done"} => r \in listed
  /\ fin[r] # "none" => r \in stopOnce /\ pc[r] \in {"published", "done"}
  /\ r \in listed /\ pc[r] = "done" /\ fin[r] # "retire" => recordingID = r
  /\ recordingID = r => r \in listed /\ pc[r] = "done" /\ fin[r] # "retire"

\* What is not yet listed waits; a recording that is not known to have been
\* switched off, or that has no segments, has a reason to fail.
ItemInv == \A r \in Rec :
  /\ pc[r] \in {"persisted", "configuring", "configured"} => item[r].state = "waiting"
  /\ r \in listed => item[r].state # "none"
  /\ fin[r] \in {"scan", "decide"} /\ ~item[r].reason => native # r
  /\ fin[r] = "decide" /\ ~item[r].reason => item[r].segments > 0
  /\ fin[r] \in {"persist", "release", "retire"} => item[r].state \in Final
  /\ r \in listed /\ item[r].state = "complete" =>
       native # r /\ item[r].segments > 0 /\ fin[r] \in {"persist", "release", "retire"}

\* There is a manifest on disk from before a recording is configured, what is
\* complete in memory is complete on disk once it is written, and what is in the
\* history is neither listed nor started again.
DiskInv == \A r \in Rec :
  /\ pc[r] \in {"idle", "locked", "acquired"} => disk[r].state = "none"
  /\ pc[r] \in {"persisted", "configuring", "configured", "published", "done"} => disk[r].state # "none"
  /\ pc[r] \in Holding \cup {"idle", "locked"} \/ r \in listed => history[r].state = "none"
  /\ fin[r] \in {"release", "retire"} /\ item[r].state = "complete" =>
       disk[r].state = "complete" /\ disk[r].segments = item[r].segments
  /\ history[r].state = "complete" =>
       disk[r].state = "complete" /\ disk[r].segments = history[r].segments
  /\ r \in acknowledged => pc[r] = "done"

\* Who was told is who was bound, nothing leaves the history that was written to
\* disk, and what is neither listed nor in the history was only begun, or passed
\* over; what was passed over is over, with its manifest on disk.
BookInv == \A r \in Rec :
  /\ pc[r] = "done" => r \in acknowledged
  /\ history[r].state # "none" => disk[r].state # "none"
  /\ r \notin listed \cup passed /\ history[r].state = "none" => disk[r].state \in {"none", "waiting"}
  /\ r \in passed =>
       /\ pc[r] \in {"done", "failed"} /\ r \notin listed
       /\ history[r].state = "none" /\ disk[r].state # "none"
  /\ disk[r].state = "complete" => disk[r].segments > 0

\* A source has one recording at a time, it is the one the source names, and
\* it holds the source once, by its pending reference or by its ID, whoever
\* ends it; and what is complete is stopped.
RecordingInv ==
  /\ TypeOK /\ OneRecordingPerSource /\ RecordingIDIsLive /\ DemandHeldOnce /\ CompleteIsStopped
  /\ StartInv /\ ListInv /\ ItemInv /\ DiskInv /\ BookInv

\* What was once retired as complete stays complete, with the segments it
\* listed, crashes included: in the history, or, when its manifest is passed over
\* at the next start, in that manifest.  (Its reason may change: Close can give
\* one to an item between the last write of its manifest and its retirement.)
CompleteIsDurable ==
  [][\A r \in Rec : history[r].state = "complete" =>
       LET kept == IF r \in passed' THEN disk'[r] ELSE history'[r]
       IN kept.state = "complete" /\ kept.segments = history[r].segments]_vars

\* What the history has of a recording, or would have had it not been passed over.
Kept(r) == IF r \in passed THEN Recovered(disk[r]) ELSE history[r]

\* What there is of a recording: it is open while it is listed, whatever status
\* its item shows already; what the history has of it is settled.
EntryOf ==
  [r \in Rec |->
     CASE Kept(r).state = "complete" -> [state |-> "complete", segments |-> Kept(r).segments]
       [] Kept(r).state = "failed"   -> [state |-> "failed", segments |-> 0]
       [] Kept(r).state = "none"     ->
            [state |-> IF r \in listed THEN "open" ELSE "absent", segments |-> 0]]

Ledger == INSTANCE RecordingLedger WITH
  Recorded <- Rec, Count <- 1..MaxSegments,
  holding <- {r \in Rec : Occupies(r)}, entry <- EntryOf, hidden <- passed, told <- acknowledged

\* Whatever call to MediaMTX or write fails and wherever the edge is killed, the
\* list, the history and the files behind them are one ledger: recordings have
\* the source one by one, none is lost that a client was told of, none is settled
\* before its client was told and its source released, and what is complete has
\* segments and stays as it is, also behind a manifest that a start passed over
\* (StartRecording, finalize, the history that is loaded from the manifests).
ImplementsRecordingLedger == Ledger!Spec

\* A recording whose duration is over releases the source.
RecordingEnds ==
  \A r \in Rec : r \in listed ~> r \notin listed /\ recordingID # r

\* A restart preserves the segments that were finalized before it.
RestartKeepsSegments ==
  [][Restart => \A r \in acknowledged : segments[r] > 0 => history'[r].segments > 0]_vars

\* A restart preserves the recordings that were finalized before it.
RestartKeepsHistory ==
  [][Restart => \A r \in Rec : history[r].state # "none" => history'[r].state # "none"]_vars

\* A segment is never written for a recording that nobody owns.
NativeRecordingOwned ==
  native # NoRec => native \in listed \/ pc[native] \in {"configuring", "configured"}
=============================================================================

--------------------------- MODULE Storage_proofs ---------------------------
(***************************************************************************)
(* What the edge stores.  The recordings of a source on disk, for every    *)
(* number of recordings, segments, crashes and shutdowns: Recording.  The  *)
(* snapshots that it retains in memory, for every number of sources,       *)
(* captures and readers and every limit: SnapshotRetention.                *)
(***************************************************************************)
EXTENDS Recording, SnapshotRetention, FiniteSetTheorems, TLAPS

\* A manifest that is given a reason is one.
LEMMA WithReason ==
  ASSUME NEW m \in Manifest, NEW b \in BOOLEAN
  PROVE  [m EXCEPT !.reason = b] \in Manifest
BY DEF Manifest

\* A manifest that goes to another state is one.
LEMMA WithState ==
  ASSUME NEW m \in Manifest,
         NEW s \in {"none", "waiting", "active", "stopping", "complete", "failed"}
  PROVE  [m EXCEPT !.state = s] \in Manifest
BY DEF Manifest

\* The manifests that are written first.
LEMMA Fixed == NoManifest \in Manifest /\ NewManifest \in Manifest
<1>1. FALSE \in BOOLEAN /\ 0 \in 0..MaxSegments
  BY ConstantsAssumption
<1> QED
  BY <1>1, Zenon DEF NoManifest, NewManifest, Manifest

\* What a restart makes of a manifest is final, keeps its segments, and is complete
\* or absent only as it was.
LEMMA RecoveredIsFinal ==
  ASSUME NEW m \in Manifest
  PROVE  /\ Recovered(m) \in Manifest
         /\ Recovered(m).state \in {"none"} \cup Final
         /\ Recovered(m) \in [state : {"none"} \cup Final, reason : BOOLEAN, segments : 0..MaxSegments]
         /\ Recovered(m).segments = m.segments
         /\ Recovered(m).state = "none" <=> m.state = "none"
         /\ Recovered(m).state = "complete" <=> m.state = "complete"
<1> DEFINE failed == [[m EXCEPT !.state = "failed"] EXCEPT !.reason = TRUE]
<1>1. failed \in Manifest
  <2>1. [m EXCEPT !.state = "failed"] \in Manifest
    BY WithState
  <2> QED
    BY <2>1, WithReason
<1>2. failed.state = "failed" /\ failed.segments = m.segments
  BY DEF Manifest
<1>3. [m EXCEPT !.state = "failed", !.reason = TRUE] = failed
  BY DEF Manifest
<1> HIDE DEF failed
<1>4. Recovered(m) = IF m.state \in {"waiting", "active", "stopping"} THEN failed ELSE m
  BY <1>3 DEF Recovered
<1>5. m.state \in {"waiting", "active", "stopping"} \/ m.state \in {"none"} \cup Final
  BY DEF Manifest, Final
<1>6. /\ Recovered(m) \in Manifest
      /\ Recovered(m).state \in {"none"} \cup Final
  BY <1>1, <1>2, <1>4, <1>5 DEF Final
<1>7. Recovered(m) \in [state : {"none"} \cup Final, reason : BOOLEAN, segments : 0..MaxSegments]
  BY <1>6 DEF Manifest
<1> QED
  BY <1>2, <1>4, <1>6, <1>7 DEF Final

\* What a start of the edge makes of the manifests, and of the history: those that
\* it passes over stay as they are, the others are recovered.
LEMMA RestartLoads ==
  ASSUME ManifestsOK, Restart
  PROVE  /\ passed' \in SUBSET Rec
         /\ disk' \in [Rec -> Manifest]
         /\ history' \in [Rec -> [state : {"none"} \cup Final, reason : BOOLEAN, segments : 0..MaxSegments]]
         /\ \A r \in Rec :
              /\ r \in passed' =>
                   disk[r].state # "none" /\ disk'[r] = disk[r] /\ history'[r].state = "none"
              /\ r \notin passed' /\ disk[r].state # "none" =>
                   disk'[r] = Recovered(disk[r]) /\ history'[r] = disk'[r]
              /\ disk[r].state = "none" => disk'[r] = disk[r] /\ history'[r].state = "none"
<1>1. PICK loaded \in SUBSET Rec : (\A r \in loaded : disk[r].state # "none") /\ Loads(loaded)
  <2>1. PICK unread \in SUBSET Rec : Loads({r \in Rec : Loadable(disk[r])} \ unread)
    BY DEF Restart
  <2> QED
    BY <2>1 DEF Loadable
<1>2. NoManifest \in [state : {"none"} \cup Final, reason : BOOLEAN, segments : 0..MaxSegments]
  <2>1. FALSE \in BOOLEAN /\ 0 \in 0..MaxSegments
    BY ConstantsAssumption
  <2> QED
    BY <2>1, Zenon DEF NoManifest
<1>3. NoManifest.state = "none"
  BY DEF NoManifest
<1>4. passed' = {r \in Rec : disk[r].state # "none"} \ loaded
  BY <1>1 DEF Loads
<1>5. disk' \in [Rec -> Manifest]
  BY <1>1, RecoveredIsFinal DEF Loads, ManifestsOK
<1>6. history' \in [Rec -> [state : {"none"} \cup Final, reason : BOOLEAN, segments : 0..MaxSegments]]
  BY <1>1, <1>2, RecoveredIsFinal DEF Loads, ManifestsOK
<1>7. \A r \in Rec : /\ disk'[r] = IF r \in loaded THEN Recovered(disk[r]) ELSE disk[r]
                     /\ history'[r] = IF r \in loaded THEN Recovered(disk[r]) ELSE NoManifest
  BY <1>1 DEF Loads
<1> QED
  BY <1>1, <1>3, <1>4, <1>5, <1>6, <1>7

\* Every step keeps the types of the progress.
LEMMA ProgressKept ==
  ASSUME ProgressOK, ManifestsOK, [Next]_vars
  PROVE  ProgressOK'
<1>1. ASSUME NEW r \in Rec, Begin(r) PROVE ProgressOK'
  BY <1>1 DEF Begin, memory, outside, ends, Goes, Unlocked, ProgressOK, Rec, NoRec
<1>2. ASSUME NEW r \in Rec, Refused(r) PROVE ProgressOK'
  BY <1>2 DEF Refused, memory, outside, ends, Fails, ProgressOK, Rec, NoRec
<1>3. ASSUME NEW r \in Rec, Acquires(r) PROVE ProgressOK'
  BY <1>3 DEF Acquires, memory, outside, ends, Goes, ProgressOK, Rec, NoRec
<1>4. ASSUME NEW r \in Rec, Persists(r) PROVE ProgressOK'
  BY <1>4 DEF Persists, memory, outside, ends, Goes, NewManifest, ProgressOK, Rec, NoRec
<1>5. ASSUME NEW r \in Rec, Configures(r) PROVE ProgressOK'
  BY <1>5 DEF Configures, memory, outside, ends, Goes, ProgressOK, Rec, NoRec
<1>6. ASSUME NEW r \in Rec, Configured(r) PROVE ProgressOK'
  BY <1>6 DEF Configured, memory, outside, ends, Goes, ProgressOK, Rec, NoRec
<1>7. ASSUME NEW r \in Rec, ConfigureFails(r) PROVE ProgressOK'
  BY <1>7 DEF ConfigureFails, memory, outside, ends, Fails, ProgressOK, Rec, NoRec
<1>8. ASSUME NEW r \in Rec, Publishes(r) PROVE ProgressOK'
  BY <1>8 DEF Publishes, memory, outside, ends, Goes, ProgressOK, Rec, NoRec
<1>9. ASSUME NEW r \in Rec, PublishRefused(r) PROVE ProgressOK'
  BY <1>9 DEF PublishRefused, memory, outside, ends, Fails, ProgressOK, Rec, NoRec
<1>10. ASSUME NEW r \in Rec, Binds(r) PROVE ProgressOK'
  BY <1>10 DEF Binds, memory, outside, ends, Goes, DropPending, ProgressOK, Rec, NoRec
<1>11. ASSUME NEW r \in Rec, MarkActive(r) PROVE ProgressOK'
  BY <1>11 DEF MarkActive, memory, outside, ends, ProgressOK, Rec, NoRec
<1>12. ASSUME NEW r \in Rec, RequestStop(r) PROVE ProgressOK'
  BY <1>12 DEF RequestStop, memory, outside, ends, ProgressOK, Rec, NoRec
<1>13. ASSUME NEW r \in Rec, FinStopping(r) PROVE ProgressOK'
  BY <1>13 DEF FinStopping, memory, outside, ends, Step, Written, ProgressOK, Rec, NoRec
<1>14. ASSUME NEW r \in Rec, FinDisabled(r) PROVE ProgressOK'
  BY <1>14 DEF FinDisabled, memory, outside, ends, Step, ProgressOK, Rec, NoRec
<1>15. ASSUME NEW r \in Rec, FinNotDisabled(r) PROVE ProgressOK'
  BY <1>15 DEF FinNotDisabled, memory, outside, ends, Step, GiveReason, ProgressOK, Rec, NoRec
<1>16. ASSUME NEW r \in Rec, FinScanned(r) PROVE ProgressOK'
  BY <1>16 DEF FinScanned, memory, outside, ends, Step, ProgressOK, Rec, NoRec
<1>17. ASSUME NEW r \in Rec, FinDecided(r) PROVE ProgressOK'
  BY <1>17 DEF FinDecided, memory, outside, ends, Step, ProgressOK, Rec, NoRec
<1>18. ASSUME NEW r \in Rec, FinPersisted(r) PROVE ProgressOK'
  BY <1>18 DEF FinPersisted, memory, outside, ends, Step, Written, ProgressOK, Rec, NoRec
<1>19. ASSUME NEW r \in Rec, FinNotPersisted(r) PROVE ProgressOK'
  BY <1>19 DEF FinNotPersisted, memory, outside, ends, Step, Written, FailedItem, ProgressOK, Rec,
     NoRec
<1>20. ASSUME NEW r \in Rec, FinReleased(r) PROVE ProgressOK'
  BY <1>20 DEF FinReleased, memory, outside, ends, Step, LockFree, ClearID, ProgressOK, Rec, NoRec
<1>21. ASSUME NEW r \in Rec, FinRetired(r) PROVE ProgressOK'
  BY <1>21 DEF FinRetired, memory, outside, ends, Step, KeepHistory, ProgressOK, Rec, NoRec
<1>22. ASSUME NEW r \in Rec, CloseStops(r) PROVE ProgressOK'
  BY <1>22 DEF CloseStops, memory, outside, ends, ProgressOK, Rec, NoRec
<1>23. CASE SegmentEnds
  <2>1. segments[native] + 1 \in 0..MaxSegments
    BY <1>23, ConstantsAssumption DEF SegmentEnds, ProgressOK, Rec, NoRec
  <2>2. segments' \in [Rec -> 0..MaxSegments]
    BY <1>23, <2>1 DEF SegmentEnds, ProgressOK
  <2> QED
    BY <1>23, <2>2 DEF SegmentEnds, memory, ends, ProgressOK
<1>24. CASE Shutdown
  BY <1>24 DEF Shutdown, memory, outside, ends, ProgressOK, Rec, NoRec
<1>25. CASE Restart
  <2>1. restarts' \in 0..MaxRestart
    BY <1>25, ConstantsAssumption DEF Restart, ProgressOK
  <2>2. closing' \in BOOLEAN
    BY <1>25, Zenon DEF Restart
  <2>3. pc' \in [Rec -> {"idle", "locked", "acquired", "persisted", "configuring", "configured",
                       "published", "done", "failed"}]
    BY <1>25 DEF Restart, ProgressOK
  <2>4. fin' \in [Rec -> {"none", "stopping", "disable", "scan", "decide", "persist", "release",
                        "retire", "done"}]
    BY <1>25 DEF Restart
  <2>5. passed' \in SUBSET Rec
    BY <1>25, RestartLoads
  <2> QED
    BY <1>25, <2>1, <2>2, <2>3, <2>4, <2>5 DEF Restart, ProgressOK
<1>26. CASE UNCHANGED vars
  BY <1>26 DEF vars, memory, outside, ends, ProgressOK, Rec, NoRec
<1> QED
  BY <1>1, <1>2, <1>3, <1>4, <1>5, <1>6, <1>7, <1>8, <1>9, <1>10, <1>11, <1>12, <1>13, <1>14,
     <1>15, <1>16, <1>17, <1>18, <1>19, <1>20, <1>21, <1>22, <1>23, <1>24, <1>25,
     <1>26 DEF Next, Starts, Finalizes

\* Every step keeps the types of the manifests.
LEMMA ManifestsKept ==
  ASSUME ProgressOK, ManifestsOK, ItemInv, [Next]_vars
  PROVE  ManifestsOK'
<1>1. ASSUME NEW r \in Rec, Begin(r) PROVE ManifestsOK'
  BY <1>1 DEF Begin, memory, outside, ends, Goes, Unlocked, ProgressOK, ManifestsOK, Manifest,
     Final, ItemInv, NoManifest
<1>2. ASSUME NEW r \in Rec, Refused(r) PROVE ManifestsOK'
  <2>1. disk' = disk \/ disk' = [disk EXCEPT ![r] = NewManifest]
    BY <1>2 DEF Refused, Written
  <2>2. UNCHANGED <<item, history>>
    BY <1>2 DEF Refused, memory
  <2> QED
    BY <2>1, <2>2, Fixed DEF ManifestsOK
<1>3. ASSUME NEW r \in Rec, Acquires(r) PROVE ManifestsOK'
  BY <1>3 DEF Acquires, memory, outside, ends, Goes, ProgressOK, ManifestsOK, Manifest, Final,
     ItemInv, NoManifest
<1>4. ASSUME NEW r \in Rec, Persists(r) PROVE ManifestsOK'
  BY <1>4, Fixed DEF Persists, ManifestsOK
<1>5. ASSUME NEW r \in Rec, Configures(r) PROVE ManifestsOK'
  BY <1>5 DEF Configures, memory, outside, ends, Goes, ProgressOK, ManifestsOK, Manifest, Final,
     ItemInv, NoManifest
<1>6. ASSUME NEW r \in Rec, Configured(r) PROVE ManifestsOK'
  BY <1>6 DEF Configured, memory, outside, ends, Goes, ProgressOK, ManifestsOK, Manifest, Final,
     ItemInv, NoManifest
<1>7. ASSUME NEW r \in Rec, ConfigureFails(r) PROVE ManifestsOK'
  BY <1>7 DEF ConfigureFails, memory, outside, ends, Fails, ProgressOK, ManifestsOK, Manifest,
     Final, ItemInv, NoManifest
<1>8. ASSUME NEW r \in Rec, Publishes(r) PROVE ManifestsOK'
  BY <1>8 DEF Publishes, memory, outside, ends, Goes, ProgressOK, ManifestsOK, Manifest, Final,
     ItemInv, NoManifest
<1>9. ASSUME NEW r \in Rec, PublishRefused(r) PROVE ManifestsOK'
  BY <1>9 DEF PublishRefused, memory, outside, ends, Fails, ProgressOK, ManifestsOK, Manifest,
     Final, ItemInv, NoManifest
<1>10. ASSUME NEW r \in Rec, Binds(r) PROVE ManifestsOK'
  BY <1>10 DEF Binds, memory, outside, ends, Goes, DropPending, ProgressOK, ManifestsOK, Manifest,
     Final, ItemInv, NoManifest
<1>11. ASSUME NEW r \in Rec, MarkActive(r) PROVE ManifestsOK'
  <2>1. [item[r] EXCEPT !.state = "active"] \in Manifest
    BY WithState DEF ManifestsOK
  <2>2. item' = [item EXCEPT ![r] = [item[r] EXCEPT !.state = "active"]]
    BY <1>11 DEF MarkActive
  <2>3. item' \in [Rec -> Manifest]
    BY <2>1, <2>2 DEF ManifestsOK
  <2> QED
    BY <1>11, <2>3 DEF MarkActive, outside, ends, ManifestsOK
<1>12. ASSUME NEW r \in Rec, RequestStop(r) PROVE ManifestsOK'
  BY <1>12 DEF RequestStop, memory, outside, ends, ProgressOK, ManifestsOK, Manifest, Final,
     ItemInv, NoManifest
<1>13. ASSUME NEW r \in Rec, FinStopping(r) PROVE ManifestsOK'
  <2>1. [item[r] EXCEPT !.state = "stopping"] \in Manifest
    BY WithState DEF ManifestsOK
  <2>2. item' = [item EXCEPT ![r] = [item[r] EXCEPT !.state = "stopping"]]
    BY <1>13 DEF FinStopping
  <2>3. item' \in [Rec -> Manifest]
    BY <2>1, <2>2 DEF ManifestsOK
  <2>4. disk' \in [Rec -> Manifest]
    BY <1>13, <2>3 DEF FinStopping, Written, ManifestsOK
  <2> QED
    BY <1>13, <2>3, <2>4 DEF FinStopping, ManifestsOK
<1>14. ASSUME NEW r \in Rec, FinDisabled(r) PROVE ManifestsOK'
  BY <1>14 DEF FinDisabled, memory, outside, ends, Step, ProgressOK, ManifestsOK, Manifest, Final,
     ItemInv, NoManifest
<1>15. ASSUME NEW r \in Rec, FinNotDisabled(r) PROVE ManifestsOK'
  <2>1. [item[r] EXCEPT !.reason = TRUE] \in Manifest
    BY WithReason DEF ManifestsOK
  <2>2. item' = [item EXCEPT ![r] = [item[r] EXCEPT !.reason = TRUE]]
    BY <1>15 DEF FinNotDisabled, GiveReason
  <2>3. item' \in [Rec -> Manifest]
    BY <2>1, <2>2 DEF ManifestsOK
  <2> QED
    BY <1>15, <2>3 DEF FinNotDisabled, ManifestsOK
<1>16. ASSUME NEW r \in Rec, FinScanned(r) PROVE ManifestsOK'
  <2>1. PICK n \in 0..segments[r] :
           item' = [item EXCEPT ![r].segments = n, ![r].reason = @ \/ n = 0]
    BY <1>16 DEF FinScanned
  <2>2. n \in 0..MaxSegments /\ (item[r].reason \/ n = 0) \in BOOLEAN
    BY <2>1, ConstantsAssumption DEF ProgressOK
  <2>3. [item[r] EXCEPT !.segments = n, !.reason = item[r].reason \/ n = 0] \in Manifest
    BY <2>2 DEF ManifestsOK, Manifest
  <2>4. item' = [item EXCEPT ![r] = [item[r] EXCEPT !.segments = n, !.reason = item[r].reason \/ n = 0]]
    BY <2>1
  <2>5. item' \in [Rec -> Manifest]
    BY <2>3, <2>4 DEF ManifestsOK
  <2> QED
    BY <1>16, <2>5 DEF FinScanned, ManifestsOK
<1>17. ASSUME NEW r \in Rec, FinDecided(r) PROVE ManifestsOK'
  <2> DEFINE s == IF item[r].reason THEN "failed" ELSE "complete"
  <2>1. [item[r] EXCEPT !.state = s] \in Manifest
    BY WithState DEF ManifestsOK
  <2>2. item' = [item EXCEPT ![r] = [item[r] EXCEPT !.state = s]]
    BY <1>17 DEF FinDecided
  <2> HIDE DEF s
  <2>3. item' \in [Rec -> Manifest]
    BY <2>1, <2>2 DEF ManifestsOK
  <2> QED
    BY <1>17, <2>3 DEF FinDecided, ManifestsOK
<1>18. ASSUME NEW r \in Rec, FinPersisted(r) PROVE ManifestsOK'
  BY <1>18 DEF FinPersisted, memory, outside, ends, Step, Written, ProgressOK, ManifestsOK,
     Manifest, Final, ItemInv, NoManifest
<1>19. ASSUME NEW r \in Rec, FinNotPersisted(r) PROVE ManifestsOK'
  <2> DEFINE failed == [[item[r] EXCEPT !.state = "failed"] EXCEPT !.reason = TRUE]
  <2>1. failed \in Manifest
    <3>1. [item[r] EXCEPT !.state = "failed"] \in Manifest
      BY WithState DEF ManifestsOK
    <3> QED
      BY <3>1, WithReason
  <2>2. item' = [item EXCEPT ![r] = failed]
    BY <1>19 DEF FinNotPersisted, FailedItem
  <2> HIDE DEF failed
  <2>3. item' \in [Rec -> Manifest]
    BY <2>1, <2>2 DEF ManifestsOK
  <2>4. disk' \in [Rec -> Manifest]
    BY <1>19, <2>3 DEF FinNotPersisted, Written, ManifestsOK
  <2> QED
    BY <1>19, <2>3, <2>4 DEF FinNotPersisted, ManifestsOK
<1>20. ASSUME NEW r \in Rec, FinReleased(r) PROVE ManifestsOK'
  BY <1>20 DEF FinReleased, memory, outside, ends, Step, LockFree, ClearID, ProgressOK,
     ManifestsOK, Manifest, Final, ItemInv, NoManifest
<1>21. ASSUME NEW r \in Rec, FinRetired(r) PROVE ManifestsOK'
  BY <1>21 DEF FinRetired, memory, outside, ends, Step, KeepHistory, ProgressOK, ManifestsOK,
     Manifest, Final, ItemInv, NoManifest
<1>22. ASSUME NEW r \in Rec, CloseStops(r) PROVE ManifestsOK'
  <2>1. [item[r] EXCEPT !.reason = TRUE] \in Manifest
    BY WithReason DEF ManifestsOK
  <2>2. item' = [item EXCEPT ![r] = [item[r] EXCEPT !.reason = TRUE]]
    BY <1>22 DEF CloseStops
  <2>3. item' \in [Rec -> Manifest]
    BY <2>1, <2>2 DEF ManifestsOK
  <2> QED
    BY <1>22, <2>3 DEF CloseStops, ManifestsOK
<1>23. CASE SegmentEnds
  BY <1>23 DEF SegmentEnds, memory, outside, ends, ProgressOK, ManifestsOK, Manifest, Final,
     ItemInv, NoManifest
<1>24. CASE Shutdown
  BY <1>24 DEF Shutdown, memory, outside, ends, ProgressOK, ManifestsOK, Manifest, Final, ItemInv,
     NoManifest
<1>25. CASE Restart
  <2>1. item' \in [Rec -> Manifest]
    BY <1>25, Fixed DEF Restart
  <2> QED
    BY <1>25, <2>1, RestartLoads DEF ManifestsOK
<1>26. CASE UNCHANGED vars
  BY <1>26 DEF vars, memory, outside, ends, ProgressOK, ManifestsOK, Manifest, Final, ItemInv,
     NoManifest
<1> QED
  BY <1>1, <1>2, <1>3, <1>4, <1>5, <1>6, <1>7, <1>8, <1>9, <1>10, <1>11, <1>12, <1>13, <1>14,
     <1>15, <1>16, <1>17, <1>18, <1>19, <1>20, <1>21, <1>22, <1>23, <1>24, <1>25,
     <1>26 DEF Next, Starts, Finalizes

\* Every step keeps who holds the mutex and the source.
LEMMA StartKept ==
  ASSUME ProgressOK, StartInv, ListInv, [Next]_vars
  PROVE  StartInv'
<1>1. ASSUME NEW r \in Rec, Begin(r) PROVE StartInv'
  BY <1>1 DEF Begin, memory, outside, ends, Goes, Unlocked, ProgressOK, StartInv, ListInv, Holding,
     Rec, NoRec
<1>2. ASSUME NEW r \in Rec, Refused(r) PROVE StartInv'
  BY <1>2 DEF Refused, memory, outside, ends, Fails, ProgressOK, StartInv, ListInv, Holding, Rec,
     NoRec
<1>3. ASSUME NEW r \in Rec, Acquires(r) PROVE StartInv'
  BY <1>3 DEF Acquires, memory, outside, ends, Goes, ProgressOK, StartInv, ListInv, Holding, Rec,
     NoRec
<1>4. ASSUME NEW r \in Rec, Persists(r) PROVE StartInv'
  BY <1>4 DEF Persists, memory, outside, ends, Goes, NewManifest, ProgressOK, StartInv, ListInv,
     Holding, Rec, NoRec
<1>5. ASSUME NEW r \in Rec, Configures(r) PROVE StartInv'
  BY <1>5 DEF Configures, memory, outside, ends, Goes, ProgressOK, StartInv, ListInv, Holding, Rec,
     NoRec
<1>6. ASSUME NEW r \in Rec, Configured(r) PROVE StartInv'
  BY <1>6 DEF Configured, memory, outside, ends, Goes, ProgressOK, StartInv, ListInv, Holding, Rec,
     NoRec
<1>7. ASSUME NEW r \in Rec, ConfigureFails(r) PROVE StartInv'
  BY <1>7 DEF ConfigureFails, memory, outside, ends, Fails, ProgressOK, StartInv, ListInv, Holding,
     Rec, NoRec
<1>8. ASSUME NEW r \in Rec, Publishes(r) PROVE StartInv'
  BY <1>8 DEF Publishes, memory, outside, ends, Goes, ProgressOK, StartInv, ListInv, Holding, Rec,
     NoRec
<1>9. ASSUME NEW r \in Rec, PublishRefused(r) PROVE StartInv'
  BY <1>9 DEF PublishRefused, memory, outside, ends, Fails, ProgressOK, StartInv, ListInv, Holding,
     Rec, NoRec
<1>10. ASSUME NEW r \in Rec, Binds(r) PROVE StartInv'
  BY <1>10 DEF Binds, memory, outside, ends, Goes, DropPending, ProgressOK, StartInv, ListInv,
     Holding, Rec, NoRec
<1>11. ASSUME NEW r \in Rec, MarkActive(r) PROVE StartInv'
  BY <1>11 DEF MarkActive, memory, outside, ends, ProgressOK, StartInv, ListInv, Holding, Rec, NoRec
<1>12. ASSUME NEW r \in Rec, RequestStop(r) PROVE StartInv'
  BY <1>12 DEF RequestStop, memory, outside, ends, ProgressOK, StartInv, ListInv, Holding, Rec,
     NoRec
<1>13. ASSUME NEW r \in Rec, FinStopping(r) PROVE StartInv'
  BY <1>13 DEF FinStopping, memory, outside, ends, Step, Written, ProgressOK, StartInv, ListInv,
     Holding, Rec, NoRec
<1>14. ASSUME NEW r \in Rec, FinDisabled(r) PROVE StartInv'
  BY <1>14 DEF FinDisabled, memory, outside, ends, Step, ProgressOK, StartInv, ListInv, Holding,
     Rec, NoRec
<1>15. ASSUME NEW r \in Rec, FinNotDisabled(r) PROVE StartInv'
  BY <1>15 DEF FinNotDisabled, memory, outside, ends, Step, GiveReason, ProgressOK, StartInv,
     ListInv, Holding, Rec, NoRec
<1>16. ASSUME NEW r \in Rec, FinScanned(r) PROVE StartInv'
  BY <1>16 DEF FinScanned, memory, outside, ends, Step, ProgressOK, StartInv, ListInv, Holding,
     Rec, NoRec
<1>17. ASSUME NEW r \in Rec, FinDecided(r) PROVE StartInv'
  BY <1>17 DEF FinDecided, memory, outside, ends, Step, ProgressOK, StartInv, ListInv, Holding,
     Rec, NoRec
<1>18. ASSUME NEW r \in Rec, FinPersisted(r) PROVE StartInv'
  BY <1>18 DEF FinPersisted, memory, outside, ends, Step, Written, ProgressOK, StartInv, ListInv,
     Holding, Rec, NoRec
<1>19. ASSUME NEW r \in Rec, FinNotPersisted(r) PROVE StartInv'
  BY <1>19 DEF FinNotPersisted, memory, outside, ends, Step, Written, FailedItem, ProgressOK,
     StartInv, ListInv, Holding, Rec, NoRec
<1>20. ASSUME NEW r \in Rec, FinReleased(r) PROVE StartInv'
  BY <1>20 DEF FinReleased, memory, outside, ends, Step, LockFree, ClearID, ProgressOK, StartInv,
     ListInv, Holding, Rec, NoRec
<1>21. ASSUME NEW r \in Rec, FinRetired(r) PROVE StartInv'
  BY <1>21 DEF FinRetired, memory, outside, ends, Step, KeepHistory, ProgressOK, StartInv, ListInv,
     Holding, Rec, NoRec
<1>22. ASSUME NEW r \in Rec, CloseStops(r) PROVE StartInv'
  BY <1>22 DEF CloseStops, memory, outside, ends, ProgressOK, StartInv, ListInv, Holding, Rec, NoRec
<1>23. CASE SegmentEnds
  BY <1>23 DEF SegmentEnds, memory, outside, ends, ProgressOK, StartInv, ListInv, Holding, Rec,
     NoRec
<1>24. CASE Shutdown
  BY <1>24 DEF Shutdown, memory, outside, ends, ProgressOK, StartInv, ListInv, Holding, Rec, NoRec
<1>25. CASE Restart
  BY <1>25 DEF Restart, memory, outside, ends, ProgressOK, StartInv, ListInv, Holding, Rec, NoRec
<1>26. CASE UNCHANGED vars
  BY <1>26 DEF vars, memory, outside, ends, ProgressOK, StartInv, ListInv, Holding, Rec, NoRec
<1> QED
  BY <1>1, <1>2, <1>3, <1>4, <1>5, <1>6, <1>7, <1>8, <1>9, <1>10, <1>11, <1>12, <1>13, <1>14,
     <1>15, <1>16, <1>17, <1>18, <1>19, <1>20, <1>21, <1>22, <1>23, <1>24, <1>25,
     <1>26 DEF Next, Starts, Finalizes

\* Every step keeps what is listed.
LEMMA ListKept ==
  ASSUME ProgressOK, StartInv, ListInv, [Next]_vars
  PROVE  ListInv'
<1>1. ASSUME NEW r \in Rec, Begin(r) PROVE ListInv'
  BY <1>1 DEF Begin, memory, outside, ends, Goes, Unlocked, ProgressOK, StartInv, ListInv, Holding,
     Rec, NoRec
<1>2. ASSUME NEW r \in Rec, Refused(r) PROVE ListInv'
  BY <1>2 DEF Refused, memory, outside, ends, Fails, ProgressOK, StartInv, ListInv, Holding, Rec,
     NoRec
<1>3. ASSUME NEW r \in Rec, Acquires(r) PROVE ListInv'
  BY <1>3 DEF Acquires, memory, outside, ends, Goes, ProgressOK, StartInv, ListInv, Holding, Rec,
     NoRec
<1>4. ASSUME NEW r \in Rec, Persists(r) PROVE ListInv'
  BY <1>4 DEF Persists, memory, outside, ends, Goes, NewManifest, ProgressOK, StartInv, ListInv,
     Holding, Rec, NoRec
<1>5. ASSUME NEW r \in Rec, Configures(r) PROVE ListInv'
  BY <1>5 DEF Configures, memory, outside, ends, Goes, ProgressOK, StartInv, ListInv, Holding, Rec,
     NoRec
<1>6. ASSUME NEW r \in Rec, Configured(r) PROVE ListInv'
  BY <1>6 DEF Configured, memory, outside, ends, Goes, ProgressOK, StartInv, ListInv, Holding, Rec,
     NoRec
<1>7. ASSUME NEW r \in Rec, ConfigureFails(r) PROVE ListInv'
  BY <1>7 DEF ConfigureFails, memory, outside, ends, Fails, ProgressOK, StartInv, ListInv, Holding,
     Rec, NoRec
<1>8. ASSUME NEW r \in Rec, Publishes(r) PROVE ListInv'
  BY <1>8 DEF Publishes, memory, outside, ends, Goes, ProgressOK, StartInv, ListInv, Holding, Rec,
     NoRec
<1>9. ASSUME NEW r \in Rec, PublishRefused(r) PROVE ListInv'
  BY <1>9 DEF PublishRefused, memory, outside, ends, Fails, ProgressOK, StartInv, ListInv, Holding,
     Rec, NoRec
<1>10. ASSUME NEW r \in Rec, Binds(r) PROVE ListInv'
  BY <1>10 DEF Binds, memory, outside, ends, Goes, DropPending, ProgressOK, StartInv, ListInv,
     Holding, Rec, NoRec
<1>11. ASSUME NEW r \in Rec, MarkActive(r) PROVE ListInv'
  BY <1>11 DEF MarkActive, memory, outside, ends, ProgressOK, StartInv, ListInv, Holding, Rec, NoRec
<1>12. ASSUME NEW r \in Rec, RequestStop(r) PROVE ListInv'
  BY <1>12 DEF RequestStop, memory, outside, ends, ProgressOK, StartInv, ListInv, Holding, Rec,
     NoRec
<1>13. ASSUME NEW r \in Rec, FinStopping(r) PROVE ListInv'
  BY <1>13 DEF FinStopping, memory, outside, ends, Step, Written, ProgressOK, StartInv, ListInv,
     Holding, Rec, NoRec
<1>14. ASSUME NEW r \in Rec, FinDisabled(r) PROVE ListInv'
  BY <1>14 DEF FinDisabled, memory, outside, ends, Step, ProgressOK, StartInv, ListInv, Holding,
     Rec, NoRec
<1>15. ASSUME NEW r \in Rec, FinNotDisabled(r) PROVE ListInv'
  BY <1>15 DEF FinNotDisabled, memory, outside, ends, Step, GiveReason, ProgressOK, StartInv,
     ListInv, Holding, Rec, NoRec
<1>16. ASSUME NEW r \in Rec, FinScanned(r) PROVE ListInv'
  BY <1>16 DEF FinScanned, memory, outside, ends, Step, ProgressOK, StartInv, ListInv, Holding,
     Rec, NoRec
<1>17. ASSUME NEW r \in Rec, FinDecided(r) PROVE ListInv'
  BY <1>17 DEF FinDecided, memory, outside, ends, Step, ProgressOK, StartInv, ListInv, Holding,
     Rec, NoRec
<1>18. ASSUME NEW r \in Rec, FinPersisted(r) PROVE ListInv'
  BY <1>18 DEF FinPersisted, memory, outside, ends, Step, Written, ProgressOK, StartInv, ListInv,
     Holding, Rec, NoRec
<1>19. ASSUME NEW r \in Rec, FinNotPersisted(r) PROVE ListInv'
  BY <1>19 DEF FinNotPersisted, memory, outside, ends, Step, Written, FailedItem, ProgressOK,
     StartInv, ListInv, Holding, Rec, NoRec
<1>20. ASSUME NEW r \in Rec, FinReleased(r) PROVE ListInv'
  BY <1>20 DEF FinReleased, memory, outside, ends, Step, LockFree, ClearID, ProgressOK, StartInv,
     ListInv, Holding, Rec, NoRec
<1>21. ASSUME NEW r \in Rec, FinRetired(r) PROVE ListInv'
  BY <1>21 DEF FinRetired, memory, outside, ends, Step, KeepHistory, ProgressOK, StartInv, ListInv,
     Holding, Rec, NoRec
<1>22. ASSUME NEW r \in Rec, CloseStops(r) PROVE ListInv'
  BY <1>22 DEF CloseStops, memory, outside, ends, ProgressOK, StartInv, ListInv, Holding, Rec, NoRec
<1>23. CASE SegmentEnds
  BY <1>23 DEF SegmentEnds, memory, outside, ends, ProgressOK, StartInv, ListInv, Holding, Rec,
     NoRec
<1>24. CASE Shutdown
  BY <1>24 DEF Shutdown, memory, outside, ends, ProgressOK, StartInv, ListInv, Holding, Rec, NoRec
<1>25. CASE Restart
  BY <1>25 DEF Restart, memory, outside, ends, ProgressOK, StartInv, ListInv, Holding, Rec, NoRec
<1>26. CASE UNCHANGED vars
  BY <1>26 DEF vars, memory, outside, ends, ProgressOK, StartInv, ListInv, Holding, Rec, NoRec
<1> QED
  BY <1>1, <1>2, <1>3, <1>4, <1>5, <1>6, <1>7, <1>8, <1>9, <1>10, <1>11, <1>12, <1>13, <1>14,
     <1>15, <1>16, <1>17, <1>18, <1>19, <1>20, <1>21, <1>22, <1>23, <1>24, <1>25,
     <1>26 DEF Next, Starts, Finalizes

\* Every step keeps the manifests in memory.
LEMMA ItemKept ==
  ASSUME ProgressOK, ManifestsOK, StartInv, ListInv, ItemInv, [Next]_vars
  PROVE  ItemInv'
<1>1. ASSUME NEW r \in Rec, Begin(r) PROVE ItemInv'
  BY <1>1 DEF Begin, memory, outside, ends, Goes, Unlocked, ProgressOK, ManifestsOK, Manifest,
     ListInv, ItemInv, Final, Rec, NoRec, NoManifest
<1>2. ASSUME NEW r \in Rec, Refused(r) PROVE ItemInv'
  BY <1>2 DEF Refused, memory, outside, ends, Fails, ProgressOK, ManifestsOK, Manifest, ListInv,
     ItemInv, Final, Rec, NoRec, NoManifest
<1>3. ASSUME NEW r \in Rec, Acquires(r) PROVE ItemInv'
  BY <1>3 DEF Acquires, memory, outside, ends, Goes, ProgressOK, ManifestsOK, Manifest, ListInv,
     ItemInv, Final, Rec, NoRec, NoManifest
<1>4. ASSUME NEW r \in Rec, Persists(r) PROVE ItemInv'
  BY <1>4 DEF Persists, memory, outside, ends, Goes, NewManifest, ProgressOK, ManifestsOK,
     Manifest, ListInv, ItemInv, Final, Rec, NoRec, NoManifest
<1>5. ASSUME NEW r \in Rec, Configures(r) PROVE ItemInv'
  BY <1>5 DEF Configures, memory, outside, ends, Goes, ProgressOK, ManifestsOK, Manifest, ListInv,
     ItemInv, Final, Rec, NoRec, NoManifest
<1>6. ASSUME NEW r \in Rec, Configured(r) PROVE ItemInv'
  BY <1>6 DEF Configured, memory, outside, ends, Goes, ProgressOK, ManifestsOK, Manifest, ListInv,
     ItemInv, Final, Rec, NoRec, NoManifest
<1>7. ASSUME NEW r \in Rec, ConfigureFails(r) PROVE ItemInv'
  BY <1>7 DEF ConfigureFails, memory, outside, ends, Fails, ProgressOK, ManifestsOK, Manifest,
     ListInv, ItemInv, Final, Rec, NoRec, NoManifest
<1>8. ASSUME NEW r \in Rec, Publishes(r) PROVE ItemInv'
  BY <1>8 DEF Publishes, memory, outside, ends, Goes, ProgressOK, ManifestsOK, Manifest, ListInv,
     ItemInv, Final, Rec, NoRec, NoManifest
<1>9. ASSUME NEW r \in Rec, PublishRefused(r) PROVE ItemInv'
  BY <1>9 DEF PublishRefused, memory, outside, ends, Fails, ProgressOK, ManifestsOK, Manifest,
     ListInv, ItemInv, Final, Rec, NoRec, NoManifest
<1>10. ASSUME NEW r \in Rec, Binds(r) PROVE ItemInv'
  BY <1>10 DEF Binds, memory, outside, ends, Goes, DropPending, ProgressOK, ManifestsOK, Manifest,
     ListInv, ItemInv, Final, Rec, NoRec, NoManifest
<1>11. ASSUME NEW r \in Rec, MarkActive(r) PROVE ItemInv'
  BY <1>11 DEF MarkActive, memory, outside, ends, ProgressOK, ManifestsOK, Manifest, ListInv,
     ItemInv, Final, Rec, NoRec, NoManifest
<1>12. ASSUME NEW r \in Rec, RequestStop(r) PROVE ItemInv'
  BY <1>12 DEF RequestStop, memory, outside, ends, ProgressOK, ManifestsOK, Manifest, ListInv,
     ItemInv, Final, Rec, NoRec, NoManifest
<1>13. ASSUME NEW r \in Rec, FinStopping(r) PROVE ItemInv'
  BY <1>13 DEF FinStopping, memory, outside, ends, Step, Written, ProgressOK, ManifestsOK,
     Manifest, ListInv, ItemInv, Final, Rec, NoRec, NoManifest
<1>14. ASSUME NEW r \in Rec, FinDisabled(r) PROVE ItemInv'
  BY <1>14 DEF FinDisabled, memory, outside, ends, Step, ProgressOK, ManifestsOK, Manifest,
     ListInv, ItemInv, Final, Rec, NoRec, NoManifest
<1>15. ASSUME NEW r \in Rec, FinNotDisabled(r) PROVE ItemInv'
  BY <1>15 DEF FinNotDisabled, memory, outside, ends, Step, GiveReason, ProgressOK, ManifestsOK,
     Manifest, ListInv, ItemInv, Final, Rec, NoRec, NoManifest
<1>16. ASSUME NEW r \in Rec, FinScanned(r) PROVE ItemInv'
  BY <1>16 DEF FinScanned, memory, outside, ends, Step, ProgressOK, ManifestsOK, Manifest, ListInv,
     ItemInv, Final, Rec, NoRec, NoManifest
<1>17. ASSUME NEW r \in Rec, FinDecided(r) PROVE ItemInv'
  <2>1. fin[r] = "decide" /\ fin' = [fin EXCEPT ![r] = "persist"]
    BY <1>17 DEF FinDecided, Step
  <2>2. UNCHANGED <<pc, listed, native>>
    BY <1>17 DEF FinDecided, outside
  <2>3. item \in [Rec -> Manifest] /\ DOMAIN fin = Rec
    BY DEF ProgressOK, ManifestsOK
  <2>4. /\ item'[r].state = (IF item[r].reason THEN "failed" ELSE "complete")
        /\ item'[r].segments = item[r].segments
    BY <1>17, <2>3 DEF FinDecided, Manifest
  <2>5. \A q \in Rec \ {r} : item'[q] = item[q] /\ fin'[q] = fin[q]
    BY <1>17, <2>1, <2>3 DEF FinDecided
  <2> QED
    BY <2>1, <2>2, <2>3, <2>4, <2>5 DEF ItemInv, ListInv, Final
<1>18. ASSUME NEW r \in Rec, FinPersisted(r) PROVE ItemInv'
  BY <1>18 DEF FinPersisted, memory, outside, ends, Step, Written, ProgressOK, ManifestsOK,
     Manifest, ListInv, ItemInv, Final, Rec, NoRec, NoManifest
<1>19. ASSUME NEW r \in Rec, FinNotPersisted(r) PROVE ItemInv'
  BY <1>19 DEF FinNotPersisted, memory, outside, ends, Step, Written, FailedItem, ProgressOK,
     ManifestsOK, Manifest, ListInv, ItemInv, Final, Rec, NoRec, NoManifest
<1>20. ASSUME NEW r \in Rec, FinReleased(r) PROVE ItemInv'
  BY <1>20 DEF FinReleased, memory, outside, ends, Step, LockFree, ClearID, ProgressOK,
     ManifestsOK, Manifest, ListInv, ItemInv, Final, Rec, NoRec, NoManifest
<1>21. ASSUME NEW r \in Rec, FinRetired(r) PROVE ItemInv'
  BY <1>21 DEF FinRetired, memory, outside, ends, Step, KeepHistory, ProgressOK, ManifestsOK,
     Manifest, ListInv, ItemInv, Final, Rec, NoRec, NoManifest
<1>22. ASSUME NEW r \in Rec, CloseStops(r) PROVE ItemInv'
  BY <1>22 DEF CloseStops, memory, outside, ends, ProgressOK, ManifestsOK, Manifest, ListInv,
     ItemInv, Final, Rec, NoRec, NoManifest
<1>23. CASE SegmentEnds
  BY <1>23 DEF SegmentEnds, memory, outside, ends, ProgressOK, ManifestsOK, Manifest, ListInv,
     ItemInv, Final, Rec, NoRec, NoManifest
<1>24. CASE Shutdown
  BY <1>24 DEF Shutdown, memory, outside, ends, ProgressOK, ManifestsOK, Manifest, ListInv,
     ItemInv, Final, Rec, NoRec, NoManifest
<1>25. CASE Restart
  BY <1>25 DEF Restart, memory, outside, ends, ProgressOK, ManifestsOK, Manifest, ListInv, ItemInv,
     Final, Rec, NoRec, NoManifest
<1>26. CASE UNCHANGED vars
  BY <1>26 DEF vars, memory, outside, ends, ProgressOK, ManifestsOK, Manifest, ListInv, ItemInv,
     Final, Rec, NoRec, NoManifest
<1> QED
  BY <1>1, <1>2, <1>3, <1>4, <1>5, <1>6, <1>7, <1>8, <1>9, <1>10, <1>11, <1>12, <1>13, <1>14,
     <1>15, <1>16, <1>17, <1>18, <1>19, <1>20, <1>21, <1>22, <1>23, <1>24, <1>25,
     <1>26 DEF Next, Starts, Finalizes

\* Every step keeps the manifests on disk.
LEMMA DiskKept ==
  ASSUME ProgressOK, ManifestsOK, StartInv, ListInv, ItemInv, DiskInv, [Next]_vars
  PROVE  DiskInv'
<1>1. ASSUME NEW r \in Rec, Begin(r) PROVE DiskInv'
  BY <1>1 DEF Begin, memory, outside, ends, Goes, Unlocked, ProgressOK, ManifestsOK, Manifest,
     StartInv, ListInv, ItemInv, DiskInv, Final, Holding, Rec, NoRec, NoManifest
<1>2. ASSUME NEW r \in Rec, Refused(r) PROVE DiskInv'
  <2>1. /\ pc[r] \in {"locked", "acquired"} /\ \A q \in Rec : pc'[q] = IF q = r THEN "failed" ELSE pc[q]
        /\ UNCHANGED <<listed, fin, item, history, acknowledged>>
    BY <1>2 DEF Refused, Fails, memory, ProgressOK
  <2>2. \A q \in Rec \ {r} : disk'[q] = disk[q]
    BY <1>2 DEF Refused, Written, ManifestsOK
  <2>3. history[r].state = "none" /\ fin[r] \notin {"release", "retire"} /\ r \notin acknowledged
    BY <2>1 DEF ListInv, DiskInv, Holding
  <2> QED
    BY <2>1, <2>2, <2>3 DEF DiskInv, Holding
<1>3. ASSUME NEW r \in Rec, Acquires(r) PROVE DiskInv'
  BY <1>3 DEF Acquires, memory, outside, ends, Goes, ProgressOK, ManifestsOK, Manifest, StartInv,
     ListInv, ItemInv, DiskInv, Final, Holding, Rec, NoRec, NoManifest
<1>4. ASSUME NEW r \in Rec, Persists(r) PROVE DiskInv'
  BY <1>4 DEF Persists, memory, outside, ends, Goes, NewManifest, ProgressOK, ManifestsOK,
     Manifest, StartInv, ListInv, ItemInv, DiskInv, Final, Holding, Rec, NoRec, NoManifest
<1>5. ASSUME NEW r \in Rec, Configures(r) PROVE DiskInv'
  BY <1>5 DEF Configures, memory, outside, ends, Goes, ProgressOK, ManifestsOK, Manifest, StartInv,
     ListInv, ItemInv, DiskInv, Final, Holding, Rec, NoRec, NoManifest
<1>6. ASSUME NEW r \in Rec, Configured(r) PROVE DiskInv'
  BY <1>6 DEF Configured, memory, outside, ends, Goes, ProgressOK, ManifestsOK, Manifest, StartInv,
     ListInv, ItemInv, DiskInv, Final, Holding, Rec, NoRec, NoManifest
<1>7. ASSUME NEW r \in Rec, ConfigureFails(r) PROVE DiskInv'
  BY <1>7 DEF ConfigureFails, memory, outside, ends, Fails, ProgressOK, ManifestsOK, Manifest,
     StartInv, ListInv, ItemInv, DiskInv, Final, Holding, Rec, NoRec, NoManifest
<1>8. ASSUME NEW r \in Rec, Publishes(r) PROVE DiskInv'
  BY <1>8 DEF Publishes, memory, outside, ends, Goes, ProgressOK, ManifestsOK, Manifest, StartInv,
     ListInv, ItemInv, DiskInv, Final, Holding, Rec, NoRec, NoManifest
<1>9. ASSUME NEW r \in Rec, PublishRefused(r) PROVE DiskInv'
  BY <1>9 DEF PublishRefused, memory, outside, ends, Fails, ProgressOK, ManifestsOK, Manifest,
     StartInv, ListInv, ItemInv, DiskInv, Final, Holding, Rec, NoRec, NoManifest
<1>10. ASSUME NEW r \in Rec, Binds(r) PROVE DiskInv'
  BY <1>10 DEF Binds, memory, outside, ends, Goes, DropPending, ProgressOK, ManifestsOK, Manifest,
     StartInv, ListInv, ItemInv, DiskInv, Final, Holding, Rec, NoRec, NoManifest
<1>11. ASSUME NEW r \in Rec, MarkActive(r) PROVE DiskInv'
  BY <1>11 DEF MarkActive, memory, outside, ends, ProgressOK, ManifestsOK, Manifest, StartInv,
     ListInv, ItemInv, DiskInv, Final, Holding, Rec, NoRec, NoManifest
<1>12. ASSUME NEW r \in Rec, RequestStop(r) PROVE DiskInv'
  BY <1>12 DEF RequestStop, memory, outside, ends, ProgressOK, ManifestsOK, Manifest, StartInv,
     ListInv, ItemInv, DiskInv, Final, Holding, Rec, NoRec, NoManifest
<1>13. ASSUME NEW r \in Rec, FinStopping(r) PROVE DiskInv'
  <2>1. item'[r].state = "stopping" /\ \A q \in Rec : q # r => item'[q] = item[q] /\ disk'[q] = disk[q]
    BY <1>13 DEF FinStopping, Written, ManifestsOK, Manifest
  <2>2. disk'[r] = disk[r] \/ disk'[r] = item'[r]
    BY <1>13 DEF FinStopping, Written, ManifestsOK
  <2>3. r \in listed /\ fin[r] = "stopping" /\ pc[r] \in {"published", "done"}
    BY <1>13 DEF FinStopping, Step, ListInv
  <2>4. fin'[r] = "disable" /\ \A q \in Rec : q # r => fin'[q] = fin[q]
    BY <1>13 DEF FinStopping, Step, ProgressOK
  <2>5. UNCHANGED <<pc, listed, history, acknowledged>>
    BY <1>13 DEF FinStopping
  <2> QED
    BY <2>1, <2>2, <2>3, <2>4, <2>5 DEF DiskInv, Holding
<1>14. ASSUME NEW r \in Rec, FinDisabled(r) PROVE DiskInv'
  BY <1>14 DEF FinDisabled, memory, outside, ends, Step, ProgressOK, ManifestsOK, Manifest,
     StartInv, ListInv, ItemInv, DiskInv, Final, Holding, Rec, NoRec, NoManifest
<1>15. ASSUME NEW r \in Rec, FinNotDisabled(r) PROVE DiskInv'
  BY <1>15 DEF FinNotDisabled, memory, outside, ends, Step, GiveReason, ProgressOK, ManifestsOK,
     Manifest, StartInv, ListInv, ItemInv, DiskInv, Final, Holding, Rec, NoRec, NoManifest
<1>16. ASSUME NEW r \in Rec, FinScanned(r) PROVE DiskInv'
  BY <1>16 DEF FinScanned, memory, outside, ends, Step, ProgressOK, ManifestsOK, Manifest,
     StartInv, ListInv, ItemInv, DiskInv, Final, Holding, Rec, NoRec, NoManifest
<1>17. ASSUME NEW r \in Rec, FinDecided(r) PROVE DiskInv'
  BY <1>17 DEF FinDecided, memory, outside, ends, Step, ProgressOK, ManifestsOK, Manifest,
     StartInv, ListInv, ItemInv, DiskInv, Final, Holding, Rec, NoRec, NoManifest
<1>18. ASSUME NEW r \in Rec, FinPersisted(r) PROVE DiskInv'
  BY <1>18 DEF FinPersisted, memory, outside, ends, Step, Written, ProgressOK, ManifestsOK,
     Manifest, StartInv, ListInv, ItemInv, DiskInv, Final, Holding, Rec, NoRec, NoManifest
<1>19. ASSUME NEW r \in Rec, FinNotPersisted(r) PROVE DiskInv'
  <2>1. item'[r].state = "failed" /\ \A q \in Rec : q # r => item'[q] = item[q] /\ disk'[q] = disk[q]
    BY <1>19 DEF FinNotPersisted, FailedItem, Written, ManifestsOK, Manifest
  <2>2. disk'[r] = disk[r] \/ disk'[r] = item'[r] \/ disk'[r] = item[r]
    BY <1>19 DEF FinNotPersisted, Written, ManifestsOK
  <2>3. /\ r \in listed /\ pc[r] \in {"published", "done"}
        /\ item[r].state \in Final
    BY <1>19 DEF FinNotPersisted, Step, ListInv, ItemInv
  <2>4. fin'[r] = "release" /\ \A q \in Rec : q # r => fin'[q] = fin[q]
    BY <1>19 DEF FinNotPersisted, Step, ProgressOK
  <2>5. UNCHANGED <<pc, listed, history, acknowledged>>
    BY <1>19 DEF FinNotPersisted
  <2> QED
    BY <2>1, <2>2, <2>3, <2>4, <2>5 DEF DiskInv, Holding, Final
<1>20. ASSUME NEW r \in Rec, FinReleased(r) PROVE DiskInv'
  BY <1>20 DEF FinReleased, memory, outside, ends, Step, LockFree, ClearID, ProgressOK,
     ManifestsOK, Manifest, StartInv, ListInv, ItemInv, DiskInv, Final, Holding, Rec, NoRec,
     NoManifest
<1>21. ASSUME NEW r \in Rec, FinRetired(r) PROVE DiskInv'
  BY <1>21 DEF FinRetired, memory, outside, ends, Step, KeepHistory, ProgressOK, ManifestsOK,
     Manifest, StartInv, ListInv, ItemInv, DiskInv, Final, Holding, Rec, NoRec, NoManifest
<1>22. ASSUME NEW r \in Rec, CloseStops(r) PROVE DiskInv'
  BY <1>22 DEF CloseStops, memory, outside, ends, ProgressOK, ManifestsOK, Manifest, StartInv,
     ListInv, ItemInv, DiskInv, Final, Holding, Rec, NoRec, NoManifest
<1>23. CASE SegmentEnds
  BY <1>23 DEF SegmentEnds, memory, outside, ends, ProgressOK, ManifestsOK, Manifest, StartInv,
     ListInv, ItemInv, DiskInv, Final, Holding, Rec, NoRec, NoManifest
<1>24. CASE Shutdown
  BY <1>24 DEF Shutdown, memory, outside, ends, ProgressOK, ManifestsOK, Manifest, StartInv,
     ListInv, ItemInv, DiskInv, Final, Holding, Rec, NoRec, NoManifest
<1>25. CASE Restart
  <2>1. \A r \in Rec : /\ disk'[r].state = "none" <=> disk[r].state = "none"
                       /\ history'[r].state = "none" \/ history'[r] = disk'[r]
                       /\ disk[r].state = "none" => history'[r].state = "none"
    BY <1>25, RestartLoads, RecoveredIsFinal DEF ManifestsOK
  <2>2. \A r \in Rec : pc'[r] = IF pc[r] \in {"idle", "done"} THEN pc[r] ELSE "failed"
    BY <1>25 DEF Restart
  <2>3. listed' = {} /\ acknowledged' = acknowledged /\ \A r \in Rec : fin'[r] = "none"
    BY <1>25 DEF Restart
  <2> QED
    BY <2>1, <2>2, <2>3 DEF DiskInv, Holding
<1>26. CASE UNCHANGED vars
  BY <1>26 DEF vars, memory, outside, ends, ProgressOK, ManifestsOK, Manifest, StartInv, ListInv,
     ItemInv, DiskInv, Final, Holding, Rec, NoRec, NoManifest
<1> QED
  BY <1>1, <1>2, <1>3, <1>4, <1>5, <1>6, <1>7, <1>8, <1>9, <1>10, <1>11, <1>12, <1>13, <1>14,
     <1>15, <1>16, <1>17, <1>18, <1>19, <1>20, <1>21, <1>22, <1>23, <1>24, <1>25,
     <1>26 DEF Next, Starts, Finalizes

\* Every step keeps what clients were told of.
LEMMA FoundKept ==
  ASSUME ProgressOK, ManifestsOK, ListInv, ItemInv, DiskInv, AcknowledgedIsFound, [Next]_vars
  PROVE  AcknowledgedIsFound'
<1>1. ASSUME NEW r \in Rec, Begin(r) PROVE AcknowledgedIsFound'
  BY <1>1 DEF Begin, memory, outside, ends, Goes, Unlocked, ProgressOK, ManifestsOK, ListInv,
     ItemInv, DiskInv, AcknowledgedIsFound, Final
<1>2. ASSUME NEW r \in Rec, Refused(r) PROVE AcknowledgedIsFound'
  BY <1>2 DEF Refused, memory, outside, ends, Fails, ProgressOK, ManifestsOK, ListInv, ItemInv,
     DiskInv, AcknowledgedIsFound, Final
<1>3. ASSUME NEW r \in Rec, Acquires(r) PROVE AcknowledgedIsFound'
  BY <1>3 DEF Acquires, memory, outside, ends, Goes, ProgressOK, ManifestsOK, ListInv, ItemInv,
     DiskInv, AcknowledgedIsFound, Final
<1>4. ASSUME NEW r \in Rec, Persists(r) PROVE AcknowledgedIsFound'
  BY <1>4 DEF Persists, memory, outside, ends, Goes, NewManifest, ProgressOK, ManifestsOK, ListInv,
     ItemInv, DiskInv, AcknowledgedIsFound, Final
<1>5. ASSUME NEW r \in Rec, Configures(r) PROVE AcknowledgedIsFound'
  BY <1>5 DEF Configures, memory, outside, ends, Goes, ProgressOK, ManifestsOK, ListInv, ItemInv,
     DiskInv, AcknowledgedIsFound, Final
<1>6. ASSUME NEW r \in Rec, Configured(r) PROVE AcknowledgedIsFound'
  BY <1>6 DEF Configured, memory, outside, ends, Goes, ProgressOK, ManifestsOK, ListInv, ItemInv,
     DiskInv, AcknowledgedIsFound, Final
<1>7. ASSUME NEW r \in Rec, ConfigureFails(r) PROVE AcknowledgedIsFound'
  BY <1>7 DEF ConfigureFails, memory, outside, ends, Fails, ProgressOK, ManifestsOK, ListInv,
     ItemInv, DiskInv, AcknowledgedIsFound, Final
<1>8. ASSUME NEW r \in Rec, Publishes(r) PROVE AcknowledgedIsFound'
  BY <1>8 DEF Publishes, memory, outside, ends, Goes, ProgressOK, ManifestsOK, ListInv, ItemInv,
     DiskInv, AcknowledgedIsFound, Final
<1>9. ASSUME NEW r \in Rec, PublishRefused(r) PROVE AcknowledgedIsFound'
  BY <1>9 DEF PublishRefused, memory, outside, ends, Fails, ProgressOK, ManifestsOK, ListInv,
     ItemInv, DiskInv, AcknowledgedIsFound, Final
<1>10. ASSUME NEW r \in Rec, Binds(r) PROVE AcknowledgedIsFound'
  BY <1>10 DEF Binds, memory, outside, ends, Goes, DropPending, ProgressOK, ManifestsOK, ListInv,
     ItemInv, DiskInv, AcknowledgedIsFound, Final
<1>11. ASSUME NEW r \in Rec, MarkActive(r) PROVE AcknowledgedIsFound'
  BY <1>11 DEF MarkActive, memory, outside, ends, ProgressOK, ManifestsOK, ListInv, ItemInv,
     DiskInv, AcknowledgedIsFound, Final
<1>12. ASSUME NEW r \in Rec, RequestStop(r) PROVE AcknowledgedIsFound'
  BY <1>12 DEF RequestStop, memory, outside, ends, ProgressOK, ManifestsOK, ListInv, ItemInv,
     DiskInv, AcknowledgedIsFound, Final
<1>13. ASSUME NEW r \in Rec, FinStopping(r) PROVE AcknowledgedIsFound'
  BY <1>13 DEF FinStopping, memory, outside, ends, Step, Written, ProgressOK, ManifestsOK, ListInv,
     ItemInv, DiskInv, AcknowledgedIsFound, Final
<1>14. ASSUME NEW r \in Rec, FinDisabled(r) PROVE AcknowledgedIsFound'
  BY <1>14 DEF FinDisabled, memory, outside, ends, Step, ProgressOK, ManifestsOK, ListInv, ItemInv,
     DiskInv, AcknowledgedIsFound, Final
<1>15. ASSUME NEW r \in Rec, FinNotDisabled(r) PROVE AcknowledgedIsFound'
  BY <1>15 DEF FinNotDisabled, memory, outside, ends, Step, GiveReason, ProgressOK, ManifestsOK,
     ListInv, ItemInv, DiskInv, AcknowledgedIsFound, Final
<1>16. ASSUME NEW r \in Rec, FinScanned(r) PROVE AcknowledgedIsFound'
  BY <1>16 DEF FinScanned, memory, outside, ends, Step, ProgressOK, ManifestsOK, ListInv, ItemInv,
     DiskInv, AcknowledgedIsFound, Final
<1>17. ASSUME NEW r \in Rec, FinDecided(r) PROVE AcknowledgedIsFound'
  BY <1>17 DEF FinDecided, memory, outside, ends, Step, ProgressOK, ManifestsOK, ListInv, ItemInv,
     DiskInv, AcknowledgedIsFound, Final
<1>18. ASSUME NEW r \in Rec, FinPersisted(r) PROVE AcknowledgedIsFound'
  BY <1>18 DEF FinPersisted, memory, outside, ends, Step, Written, ProgressOK, ManifestsOK,
     ListInv, ItemInv, DiskInv, AcknowledgedIsFound, Final
<1>19. ASSUME NEW r \in Rec, FinNotPersisted(r) PROVE AcknowledgedIsFound'
  BY <1>19 DEF FinNotPersisted, memory, outside, ends, Step, Written, FailedItem, ProgressOK,
     ManifestsOK, ListInv, ItemInv, DiskInv, AcknowledgedIsFound, Final
<1>20. ASSUME NEW r \in Rec, FinReleased(r) PROVE AcknowledgedIsFound'
  BY <1>20 DEF FinReleased, memory, outside, ends, Step, LockFree, ClearID, ProgressOK,
     ManifestsOK, ListInv, ItemInv, DiskInv, AcknowledgedIsFound, Final
<1>21. ASSUME NEW r \in Rec, FinRetired(r) PROVE AcknowledgedIsFound'
  BY <1>21 DEF FinRetired, memory, outside, ends, Step, KeepHistory, ProgressOK, ManifestsOK,
     ListInv, ItemInv, DiskInv, AcknowledgedIsFound, Final
<1>22. ASSUME NEW r \in Rec, CloseStops(r) PROVE AcknowledgedIsFound'
  BY <1>22 DEF CloseStops, memory, outside, ends, ProgressOK, ManifestsOK, ListInv, ItemInv,
     DiskInv, AcknowledgedIsFound, Final
<1>23. CASE SegmentEnds
  BY <1>23 DEF SegmentEnds, memory, outside, ends, ProgressOK, ManifestsOK, ListInv, ItemInv,
     DiskInv, AcknowledgedIsFound, Final
<1>24. CASE Shutdown
  BY <1>24 DEF Shutdown, memory, outside, ends, ProgressOK, ManifestsOK, ListInv, ItemInv, DiskInv,
     AcknowledgedIsFound, Final
<1>25. CASE Restart
  <2>1. \A r \in acknowledged : disk[r].state # "none"
    BY DEF ProgressOK, DiskInv
  <2>2. \A r \in Rec : history'[r].state = "none" => disk[r].state = "none" \/ r \in passed'
    BY <1>25, RestartLoads, RecoveredIsFinal DEF ManifestsOK
  <2> QED
    BY <1>25, <2>1, <2>2 DEF Restart, ProgressOK, AcknowledgedIsFound
<1>26. CASE UNCHANGED vars
  BY <1>26 DEF vars, memory, outside, ends, ProgressOK, ManifestsOK, ListInv, ItemInv, DiskInv,
     AcknowledgedIsFound, Final
<1> QED
  BY <1>1, <1>2, <1>3, <1>4, <1>5, <1>6, <1>7, <1>8, <1>9, <1>10, <1>11, <1>12, <1>13, <1>14,
     <1>15, <1>16, <1>17, <1>18, <1>19, <1>20, <1>21, <1>22, <1>23, <1>24, <1>25,
     <1>26 DEF Next, Starts, Finalizes

\* Every step keeps what the ledger of recordings rests on.
LEMMA BookKept ==
  ASSUME ProgressOK, ManifestsOK, ListInv, ItemInv, DiskInv, BookInv, Next
  PROVE  BookInv'
<1>1. ASSUME UNCHANGED <<disk, history, listed, acknowledged, passed>>,
             \A q \in Rec : pc'[q] = "done" => pc[q] = "done",
             \A q \in Rec : pc[q] \in {"done", "failed"} => pc'[q] = pc[q]
      PROVE  BookInv'
  BY <1>1 DEF BookInv
<1>2. ASSUME NEW r \in Rec, Persists(r) PROVE BookInv'
  <2>1. /\ disk' = [disk EXCEPT ![r] = NewManifest] /\ UNCHANGED <<history, listed, acknowledged, passed>>
        /\ \A q \in Rec : pc'[q] = "done" => pc[q] = "done"
        /\ \A q \in Rec : pc[q] \in {"done", "failed"} => pc'[q] = pc[q]
    BY <1>2 DEF Persists, Goes, ProgressOK, ends
  <2>2. NewManifest.state = "waiting"
    BY DEF NewManifest
  <2> QED
    BY <2>1, <2>2 DEF BookInv, ManifestsOK
<1>3. ASSUME NEW r \in Rec, Publishes(r) PROVE BookInv'
  BY <1>3 DEF Publishes, Goes, ProgressOK, BookInv, ends
<1>4. ASSUME NEW r \in Rec, Binds(r) PROVE BookInv'
  BY <1>4 DEF Binds, Goes, ProgressOK, BookInv, ends
<1>5. ASSUME NEW r \in Rec, r \in listed, disk'[r].state = "complete" => disk'[r].segments > 0,
             \A q \in Rec : q # r => disk'[q] = disk[q],
             disk'[r].state # "none",
             UNCHANGED <<pc, history, listed, acknowledged, passed>>
      PROVE  BookInv'
  BY <1>5 DEF BookInv
<1>6. ASSUME NEW r \in Rec, FinStopping(r) \/ FinPersisted(r) \/ FinNotPersisted(r) PROVE BookInv'
  <2>1. /\ r \in listed /\ disk[r].state # "none" /\ item[r].state # "none"
        /\ UNCHANGED <<pc, history, listed, acknowledged, passed>>
        /\ fin[r] = "persist" /\ item[r].state = "complete" => item[r].segments > 0
    BY <1>6 DEF FinStopping, FinPersisted, FinNotPersisted, Step, memory, ends, ListInv, ItemInv, DiskInv
  <2>2. \A q \in Rec : q # r => disk'[q] = disk[q]
    BY <1>6 DEF FinStopping, FinPersisted, FinNotPersisted, Written, ManifestsOK
  <2>3. disk[r].state = "complete" => disk[r].segments > 0
    BY DEF BookInv
  <2>4. CASE FinStopping(r)
    <3>1. item'[r].state = "stopping" /\ disk'[r] \in {disk[r], item'[r]}
      BY <2>4 DEF FinStopping, Written, ManifestsOK, Manifest
    <3> QED
      BY <1>5, <2>1, <2>2, <2>3, <3>1
  <2>5. CASE FinPersisted(r)
    <3>1. disk'[r] = item[r] /\ fin[r] = "persist"
      BY <2>5 DEF FinPersisted, Step, Written, ManifestsOK
    <3> QED
      BY <1>5, <2>1, <2>2, <2>3, <3>1
  <2>6. CASE FinNotPersisted(r)
    <3>1. /\ item'[r].state = "failed" /\ fin[r] = "persist"
          /\ disk'[r] \in {disk[r], item[r], item'[r]}
      BY <2>6 DEF FinNotPersisted, FailedItem, Step, Written, ManifestsOK, Manifest
    <3> QED
      BY <1>5, <2>1, <2>2, <2>3, <3>1
  <2> QED
    BY <1>6, <2>4, <2>5, <2>6
<1>7. ASSUME NEW r \in Rec, FinRetired(r) PROVE BookInv'
  <2>1. /\ history' = [history EXCEPT ![r] = item[r]] /\ listed' = listed \ {r}
        /\ UNCHANGED <<pc, disk, acknowledged, passed>>
    BY <1>7 DEF FinRetired, KeepHistory, ends
  <2>2. disk[r].state # "none" /\ item[r].state # "none" /\ r \notin passed
    BY <1>7 DEF FinRetired, Step, ListInv, ItemInv, DiskInv, BookInv
  <2> QED
    BY <2>1, <2>2 DEF BookInv, ManifestsOK
<1>8. CASE Restart
  <2>1. \A q \in Rec : /\ disk'[q].segments = disk[q].segments
                       /\ disk'[q].state = "complete" <=> disk[q].state = "complete"
                       /\ disk'[q].state = "none" <=> disk[q].state = "none"
                       /\ q \in passed' => history'[q].state = "none" /\ disk[q].state # "none"
                       /\ q \notin passed' =>
                            (history'[q].state = "none" <=> disk'[q].state = "none")
                       /\ history'[q].state # "none" => disk'[q].state # "none"
    BY <1>8, RestartLoads, RecoveredIsFinal DEF ManifestsOK
  <2>2. UNCHANGED acknowledged /\ listed' = {} /\ \A q \in Rec : pc'[q] = "done" => pc[q] = "done"
    BY <1>8 DEF Restart
  <2>3. \A q \in Rec : disk[q].state # "none" => pc'[q] \in {"done", "failed"}
    BY <1>8 DEF Restart, DiskInv
  <2> QED
    BY <2>1, <2>2, <2>3 DEF BookInv
<1>9. ASSUME NEW r \in Rec, ~Persists(r), ~Publishes(r), ~Binds(r), Starts(r) PROVE BookInv'
  <2>1. UNCHANGED <<history, listed, acknowledged, passed>> /\ (UNCHANGED disk \/ Refused(r))
    BY <1>9 DEF Starts, Begin, Refused, Acquires, Configures, Configured, ConfigureFails,
       PublishRefused, memory, ends
  <2>2. \A q \in Rec : /\ pc'[q] = "done" => pc[q] = "done"
                       /\ pc[q] \in {"done", "failed"} => pc'[q] = pc[q]
    BY <1>9 DEF Starts, Begin, Refused, Acquires, Configures, Configured, ConfigureFails,
       PublishRefused, Goes, Fails, ProgressOK, Holding
  <2>3. CASE UNCHANGED disk
    BY <1>1, <2>1, <2>2, <2>3
  <2>4. CASE Refused(r)
    <3>1. NewManifest.state = "waiting"
      BY DEF NewManifest
    <3>2. \A q \in Rec : disk'[q] = disk[q] \/ (q = r /\ disk'[q] = NewManifest)
      <4>1. disk' = disk \/ disk' = [disk EXCEPT ![r] = NewManifest]
        BY <2>4 DEF Refused, Written
      <4> QED
        BY <4>1 DEF ManifestsOK
    <3>3. history[r].state = "none"
      BY <2>4 DEF Refused, DiskInv, Holding
    <3> QED
      BY <2>1, <2>2, <3>1, <3>2, <3>3 DEF BookInv
  <2> QED
    BY <2>1, <2>3, <2>4
<1>10. ASSUME NEW r \in Rec,
              \/ MarkActive(r) \/ RequestStop(r) \/ CloseStops(r) \/ SegmentEnds \/ Shutdown
              \/ FinDisabled(r) \/ FinNotDisabled(r) \/ FinScanned(r) \/ FinDecided(r) \/ FinReleased(r)
       PROVE  BookInv'
  <2>1. UNCHANGED <<pc, disk, history, listed, acknowledged, passed>>
    BY <1>10 DEF MarkActive, RequestStop, CloseStops, SegmentEnds, Shutdown, FinDisabled,
       FinNotDisabled, FinScanned, FinDecided, FinReleased, memory, ends
  <2> QED
    BY <1>1, <2>1
<1>11. (SegmentEnds \/ Shutdown) => UNCHANGED <<pc, disk, history, listed, acknowledged, passed>>
  BY DEF SegmentEnds, Shutdown, memory, ends
<1> QED
  BY <1>1, <1>2, <1>3, <1>4, <1>6, <1>7, <1>8, <1>9, <1>10, <1>11 DEF Next, Finalizes

\* What is promised of a moment follows from the parts of the invariant.
LEMMA PartsSuffice ==
  ProgressOK /\ StartInv /\ ListInv /\ ItemInv =>
    OneRecordingPerSource /\ RecordingIDIsLive /\ DemandHeldOnce /\ CompleteIsStopped
<1> SUFFICES ASSUME ProgressOK, StartInv, ListInv, ItemInv
             PROVE  OneRecordingPerSource /\ RecordingIDIsLive /\ DemandHeldOnce /\ CompleteIsStopped
  OBVIOUS
<1>1. OneRecordingPerSource
  BY DEF OneRecordingPerSource, Occupies, StartInv, Rec, NoRec
<1>2. RecordingIDIsLive
  BY DEF RecordingIDIsLive, ProgressOK, ListInv
<1>3. DemandHeldOnce
  BY DEF DemandHeldOnce, ProgressOK, StartInv, ListInv, Holding, Rec, NoRec
<1>4. CompleteIsStopped
  BY DEF CompleteIsStopped, ProgressOK, ItemInv
<1> QED
  BY <1>1, <1>2, <1>3, <1>4

\* The recordings start in their invariant.
LEMMA InitRecording == Init => RecordingInv /\ AcknowledgedIsFound
<1> SUFFICES ASSUME Init
             PROVE  RecordingInv /\ AcknowledgedIsFound
  OBVIOUS
<1>1. ProgressOK
  <2>1. closing \in BOOLEAN
    BY Zenon DEF Init
  <2>2. 0 \in 0..MaxSegments /\ 0 \in 0..MaxRestart
    BY ConstantsAssumption
  <2> QED
    BY <2>1, <2>2 DEF Init, ProgressOK
<1>2. ManifestsOK
  <2>1. NoManifest \in Manifest /\ Recovered(NoManifest) = NoManifest
    BY Fixed DEF NoManifest, Recovered
  <2>2. NoManifest \in [state : {"none"} \cup Final, reason : BOOLEAN, segments : 0..MaxSegments]
    BY <2>1, RecoveredIsFinal
  <2> QED
    BY <2>1, <2>2 DEF Init, ManifestsOK
<1>3. StartInv /\ ListInv
  BY DEF Init, StartInv, ListInv, Holding, Rec, NoRec
<1>4. ItemInv /\ DiskInv /\ AcknowledgedIsFound
  BY DEF Init, ItemInv, DiskInv, AcknowledgedIsFound, Holding, Final, NoManifest
<1>5. BookInv
  BY DEF Init, BookInv, NoManifest
<1> QED
  BY <1>1, <1>2, <1>3, <1>4, <1>5, PartsSuffice DEF RecordingInv, TypeOK

\* Every step of the recordings keeps it.
LEMMA StepRecording ==
  RecordingInv /\ AcknowledgedIsFound /\ [Next]_vars => (RecordingInv /\ AcknowledgedIsFound)'
<1> SUFFICES ASSUME RecordingInv, AcknowledgedIsFound, [Next]_vars
             PROVE  (RecordingInv /\ AcknowledgedIsFound)'
  OBVIOUS
<1>1. ProgressOK /\ ManifestsOK /\ StartInv /\ ListInv /\ ItemInv /\ DiskInv /\ BookInv
  BY DEF RecordingInv, TypeOK
<1>2. ProgressOK' /\ ManifestsOK'
  BY <1>1, ProgressKept, ManifestsKept
<1>3. StartInv' /\ ListInv'
  BY <1>1, StartKept, ListKept
<1>4. ItemInv' /\ DiskInv' /\ AcknowledgedIsFound'
  BY <1>1, ItemKept, DiskKept, FoundKept
<1>5. BookInv'
  <2>1. CASE UNCHANGED vars
    BY <1>1, <2>1 DEF vars, memory, ends, BookInv
  <2> QED
    BY <1>1, <2>1, BookKept
<1>6. (OneRecordingPerSource /\ RecordingIDIsLive /\ DemandHeldOnce /\ CompleteIsStopped)'
  BY <1>2, <1>3, <1>4, PartsSuffice, PTL
<1> QED
  BY <1>2, <1>3, <1>4, <1>5, <1>6 DEF RecordingInv, TypeOK

\* A source has one recording at a time, which it names and which holds it once,
\* and what is complete was switched off: whoever ends it, whatever call to
\* MediaMTX or write fails, and wherever the edge is killed.
THEOREM RecordingIsSound == Spec => []RecordingInv
BY InitRecording, StepRecording, PTL DEF Spec

\* A recording that a client was told of is in the list or in the history ever
\* after, also while it is retired and after a crash, unless the edge was started
\* again and passed over its manifest.
THEOREM RecordingsAreFound == Spec => []AcknowledgedIsFound
BY InitRecording, StepRecording, PTL DEF Spec

\* Between two starts of the edge nothing is passed over, and the manifest of what
\* was passed over is not written.
SamePassed == UNCHANGED passed /\ \A q \in passed : disk'[q] = disk[q]

LEMMA PassedStay ==
  ASSUME RecordingInv, Next, ~Restart
  PROVE  SamePassed
<1>1. ManifestsOK /\ ListInv /\ BookInv /\ passed \in SUBSET Rec
  BY DEF RecordingInv, TypeOK, ProgressOK
<1>2. UNCHANGED passed
  BY DEF Next, Starts, Finalizes, ends, Begin, Refused, Acquires, Persists, Configures,
     Configured, ConfigureFails, Publishes, PublishRefused, Binds, MarkActive, RequestStop,
     FinStopping, FinDisabled, FinNotDisabled, FinScanned, FinDecided, FinPersisted,
     FinNotPersisted, FinReleased, FinRetired, CloseStops, SegmentEnds, Shutdown
<1>3. ASSUME NEW r \in Rec, disk' # disk, Refused(r) \/ Persists(r)
      PROVE  r \notin passed /\ \A q \in Rec \ {r} : disk'[q] = disk[q]
  <2>1. r \notin passed
    BY <1>1, <1>3 DEF Refused, Persists, Goes, BookInv
  <2>2. disk' = [disk EXCEPT ![r] = NewManifest]
    BY <1>3 DEF Refused, Persists, Written
  <2> QED
    BY <1>1, <2>1, <2>2 DEF ManifestsOK
<1>4. ASSUME NEW r \in Rec, FinStopping(r) \/ FinPersisted(r) \/ FinNotPersisted(r)
      PROVE  r \notin passed /\ \A q \in Rec \ {r} : disk'[q] = disk[q]
  <2>1. r \notin passed
    BY <1>1, <1>4 DEF FinStopping, FinPersisted, FinNotPersisted, Step, ListInv, BookInv
  <2>2. \A q \in Rec \ {r} : disk'[q] = disk[q]
    BY <1>1, <1>4 DEF FinStopping, FinPersisted, FinNotPersisted, Written, ManifestsOK
  <2> QED
    BY <2>1, <2>2
<1>5. \/ UNCHANGED disk
      \/ \E r \in Rec : \/ Refused(r) \/ Persists(r)
                        \/ FinStopping(r) \/ FinPersisted(r) \/ FinNotPersisted(r)
  BY DEF Next, Starts, Finalizes, Begin, Acquires, Configures, Configured, ConfigureFails,
     Publishes, PublishRefused, Binds, MarkActive, RequestStop, FinDisabled, FinNotDisabled,
     FinScanned, FinDecided, FinReleased, FinRetired, CloseStops, SegmentEnds, Shutdown
<1> QED
  BY <1>1, <1>2, <1>3, <1>4, <1>5 DEF SamePassed

\* What the history keeps as complete stays complete with the segments it names,
\* through every later crash: it was written to disk before it was retired, and
\* nothing takes up its ID again.  A start that passes over its manifest leaves it
\* as it is.
THEOREM CompleteRecordingsStay == Spec => CompleteIsDurable
<1> DEFINE Stays(r) ==
      history[r].state = "complete" =>
        LET kept == IF r \in passed' THEN disk'[r] ELSE history'[r]
        IN kept.state = "complete" /\ kept.segments = history[r].segments
<1>1. ASSUME RecordingInv, Next, NEW r \in Rec
      PROVE  Stays(r)
  <2>1. ManifestsOK /\ ListInv /\ DiskInv /\ BookInv
    BY <1>1 DEF RecordingInv, TypeOK
  <2>2. CASE Restart
    <3> SUFFICES ASSUME history[r].state = "complete" PROVE Stays(r)
      OBVIOUS
    <3>1. disk[r].state = "complete" /\ disk[r].segments = history[r].segments
      BY <2>1 DEF DiskInv
    <3>2. Recovered(disk[r]) = disk[r]
      BY <3>1 DEF Recovered
    <3> QED
      BY <2>1, <2>2, <3>1, <3>2, RestartLoads
  <2>3. ASSUME NEW q \in Rec, FinRetired(q)
        PROVE  Stays(r)
    <3>1. q \in listed
      BY <2>1, <2>3 DEF FinRetired, Step, ListInv
    <3>2. history[q].state = "none"
      BY <2>1, <3>1 DEF DiskInv
    <3>3. history[r].state # "none" => r \notin passed' /\ history'[r] = history[r]
      BY <2>1, <2>3, <3>2 DEF FinRetired, KeepHistory, ManifestsOK, BookInv, ends
    <3> QED
      BY <3>3
  <2>4. CASE UNCHANGED history /\ ~Restart
    <3>1. history[r].state # "none" => r \notin passed'
      BY <1>1, <2>1, <2>4, PassedStay DEF BookInv, SamePassed
    <3> QED
      BY <2>4, <3>1
  <2>5. UNCHANGED history \/ Restart \/ \E q \in Rec : FinRetired(q)
    BY <1>1 DEF Next, Starts, Finalizes, memory, Begin, Refused, Acquires, Persists, Configures,
       Configured, ConfigureFails, Publishes, PublishRefused, Binds, MarkActive, RequestStop,
       FinStopping, FinDisabled, FinNotDisabled, FinScanned, FinDecided, FinPersisted,
       FinNotPersisted, FinReleased, CloseStops, SegmentEnds, Shutdown
  <2> QED
    BY <2>2, <2>3, <2>4, <2>5
<1>2. RecordingInv /\ [Next]_vars => [\A r \in Rec : Stays(r)]_vars
  BY <1>1
<1> QED
  BY <1>2, RecordingIsSound, PTL DEF Spec, CompleteIsDurable

-----------------------------------------------------------------------------
(***************************************************************************)
(* The list, the history and the manifests are one ledger: Recording       *)
(* implements RecordingLedger.                                             *)
(***************************************************************************)

\* Who has the source.
Holders == {r \in Rec : Occupies(r)}

\* What the invariant says of an entry.
LEMMA EntryCases ==
  ASSUME RecordingInv, NEW r \in Rec
  PROVE  /\ Kept(r).state \in {"none", "complete", "failed"}
         /\ Kept(r).state = "complete" =>
              EntryOf[r] = Ledger!Complete(Kept(r).segments) /\ Kept(r).segments \in 1..MaxSegments
         /\ Kept(r).state = "failed" => EntryOf[r] = Ledger!Failed
         /\ Kept(r).state = "none" /\ r \in listed => EntryOf[r] = Ledger!Open
         /\ Kept(r).state = "none" /\ r \notin listed => EntryOf[r] = Ledger!Absent
         /\ r \in listed => r \notin passed /\ history[r].state = "none" /\ Kept(r).state = "none"
         /\ pc[r] \in {"locked"} \cup Holding => Kept(r).state = "none"
<1>1. ManifestsOK /\ DiskInv /\ BookInv
  BY DEF RecordingInv, TypeOK
<1>2. /\ Kept(r).state \in {"none", "complete", "failed"} /\ Kept(r).segments \in 0..MaxSegments
      /\ Kept(r).state = "complete" => Kept(r).segments > 0
  <2>1. CASE r \in passed
    <3>1. /\ Recovered(disk[r]).state \in {"none"} \cup Final
          /\ Recovered(disk[r]).segments = disk[r].segments /\ disk[r].segments \in 0..MaxSegments
          /\ Recovered(disk[r]).state = "complete" <=> disk[r].state = "complete"
      BY <1>1, RecoveredIsFinal DEF ManifestsOK, Manifest
    <3> QED
      BY <1>1, <2>1, <3>1 DEF Kept, BookInv, Final
  <2>2. CASE r \notin passed
    BY <1>1, <2>2 DEF Kept, ManifestsOK, DiskInv, BookInv, Final
  <2> QED
    BY <2>1, <2>2
<1>3. Kept(r).state = "complete" => Kept(r).segments \in 1..MaxSegments
  BY <1>2
<1>4. /\ r \in listed => r \notin passed /\ history[r].state = "none" /\ Kept(r).state = "none"
      /\ pc[r] \in {"locked"} \cup Holding => Kept(r).state = "none"
  BY <1>1 DEF DiskInv, BookInv, Kept, Holding
<1>5. EntryOf[r] =
        CASE Kept(r).state = "complete" -> [state |-> "complete", segments |-> Kept(r).segments]
          [] Kept(r).state = "failed"   -> [state |-> "failed", segments |-> 0]
          [] Kept(r).state = "none"     ->
               [state |-> IF r \in listed THEN "open" ELSE "absent", segments |-> 0]
  BY DEF EntryOf
<1> QED
  BY <1>2, <1>3, <1>4, <1>5 DEF Ledger!Complete, Ledger!Failed, Ledger!Open, Ledger!Absent

\* A step of the edge's own passes nothing over.
LEMMA OwnStep ==
  ASSUME RecordingInv, NEW r \in Rec,
         \/ Starts(r) \/ MarkActive(r) \/ RequestStop(r) \/ Finalizes(r) \/ CloseStops(r)
         \/ SegmentEnds \/ Shutdown
  PROVE  SamePassed
<1>1. UNCHANGED restarts
  BY DEF Starts, Finalizes, ends, Begin, Refused, Acquires, Persists, Configures,
     Configured, ConfigureFails, Publishes, PublishRefused, Binds, MarkActive, RequestStop,
     FinStopping, FinDisabled, FinNotDisabled, FinScanned, FinDecided, FinPersisted,
     FinNotPersisted, FinReleased, FinRetired, CloseStops, SegmentEnds, Shutdown
<1>2. ~Restart
  BY <1>1, ConstantsAssumption DEF Restart, RecordingInv, TypeOK, ProgressOK
<1>3. Next
  BY DEF Next
<1> QED
  BY <1>2, <1>3, PassedStay

\* It leaves what there is of a recording to the history and the list.
LEMMA EntryStays ==
  ASSUME SamePassed, NEW q \in Rec, history'[q] = history[q], q \in listed' <=> q \in listed
  PROVE  EntryOf'[q] = EntryOf[q]
<1>1. Kept(q)' = Kept(q)
  BY DEF Kept, SamePassed, Recovered
<1>2. EntryOf[q] =
        CASE Kept(q).state = "complete" -> [state |-> "complete", segments |-> Kept(q).segments]
          [] Kept(q).state = "failed"   -> [state |-> "failed", segments |-> 0]
          [] Kept(q).state = "none"     ->
               [state |-> IF q \in listed THEN "open" ELSE "absent", segments |-> 0]
  BY DEF EntryOf
<1>3. EntryOf'[q] =
        CASE Kept(q)'.state = "complete" -> [state |-> "complete", segments |-> Kept(q)'.segments]
          [] Kept(q)'.state = "failed"   -> [state |-> "failed", segments |-> 0]
          [] Kept(q)'.state = "none"     ->
               [state |-> IF q \in listed' THEN "open" ELSE "absent", segments |-> 0]
  BY DEF EntryOf
<1> QED
  BY <1>1, <1>2, <1>3

\* Entries that differ for one recording at most.
LEMMA OneEntry ==
  ASSUME SamePassed, NEW r \in Rec,
         \A q \in Rec \ {r} : history'[q] = history[q] /\ (q \in listed' <=> q \in listed)
  PROVE  EntryOf' = [EntryOf EXCEPT ![r] = EntryOf'[r]]
<1>1. \A q \in Rec \ {r} : EntryOf'[q] = EntryOf[q]
  BY EntryStays
<1>2. EntryOf \in [Rec -> {EntryOf[q] : q \in Rec}] /\ EntryOf' \in [Rec -> {EntryOf'[q] : q \in Rec}]
  BY DEF EntryOf
<1> HIDE DEF EntryOf
<1> QED
  BY <1>1, <1>2

\* No entry changes when neither the list nor the history does.
LEMMA EntriesStay ==
  ASSUME SamePassed, UNCHANGED <<history, listed>>
  PROVE  EntryOf' = EntryOf
<1>1. \A q \in Rec : EntryOf'[q] = EntryOf[q]
  BY EntryStays
<1>2. EntryOf \in [Rec -> {EntryOf[q] : q \in Rec}] /\ EntryOf' \in [Rec -> {EntryOf'[q] : q \in Rec}]
  BY DEF EntryOf
<1> HIDE DEF EntryOf
<1> QED
  BY <1>1, <1>2

\* The recording that has the source is alone.
LEMMA SoleHolder ==
  ASSUME RecordingInv, NEW r \in Rec, Occupies(r)
  PROVE  Holders = {r}
BY DEF RecordingInv, OneRecordingPerSource, Holders

\* A step that leaves the source to whom it has, and what is known of recordings
\* as it is, is no step of the ledger.
LEMMA NoEntry ==
  ASSUME SamePassed, \A q \in Rec : Occupies(q)' <=> Occupies(q),
         UNCHANGED <<history, listed, acknowledged>>
  PROVE  [Ledger!Next]_(Ledger!vars)
<1>1. EntryOf' = EntryOf
  BY EntriesStay
<1>2. Holders' = Holders
  BY DEF Holders
<1> QED
  BY <1>1, <1>2 DEF Ledger!vars, Holders, SamePassed

\* A recording that gives up before it is published.
LEMMA GivesUp ==
  ASSUME RecordingInv, SamePassed, NEW r \in Rec, pc[r] \in Holding \ {"published"}, Fails(r),
         UNCHANGED <<recordingID, history, listed, acknowledged>>
  PROVE  [Ledger!Next]_(Ledger!vars)
<1>1. Holders = {r}
  BY SoleHolder DEF Occupies
<1>2. recordingID = NoRec /\ r \notin listed
  BY DEF RecordingInv, StartInv, ListInv, Holding
<1>3. \A q \in Rec : pc'[q] = IF q = r THEN "failed" ELSE pc[q]
  BY DEF Fails, RecordingInv, TypeOK, ProgressOK
<1>4. Holders' = {}
  <2>1. \A q \in Rec : q # r => ~Occupies(q)
    BY <1>1 DEF Holders
  <2> QED
    BY <1>2, <1>3, <2>1 DEF Holders, Occupies, Holding, Rec, NoRec
<1>5. EntryOf[r] = Ledger!Absent
  BY <1>2, EntryCases
<1>6. EntryOf' = EntryOf
  BY EntriesStay
<1> QED
  BY <1>1, <1>4, <1>5, <1>6 DEF SamePassed, Ledger!Next, Ledger!GiveUp, Holders

\* StartRecording takes the source, gives it up or publishes the recording and
\* tells its client.
LEMMA StartImplements ==
  ASSUME RecordingInv, NEW r \in Rec, Starts(r)
  PROVE  [Ledger!Next]_(Ledger!vars)
<1>0. ProgressOK /\ StartInv /\ ListInv /\ SamePassed
  BY OwnStep DEF RecordingInv, TypeOK
<1>1. CASE Begin(r)
  <2>1. \A q \in Rec : pc'[q] = IF q = r THEN "locked" ELSE pc[q]
    BY <1>0, <1>1 DEF Begin, Goes, ProgressOK
  <2>2. pc[r] = "idle" /\ UNCHANGED <<recordingID, history, listed, acknowledged>>
    BY <1>1 DEF Begin, Goes, memory
  <2> QED
    BY <2>1, <2>2, <1>0, NoEntry DEF Occupies, Holding
<1>2. CASE Refused(r) /\ pc[r] = "locked"
  <2>1. \A q \in Rec : pc'[q] = IF q = r THEN "failed" ELSE pc[q]
    BY <1>0, <1>2 DEF Refused, Fails, ProgressOK
  <2>2. UNCHANGED <<recordingID, history, listed, acknowledged>>
    BY <1>2 DEF Refused, memory
  <2> QED
    BY <1>2, <2>1, <2>2, <1>0, NoEntry DEF Occupies, Holding
<1>3. CASE (Refused(r) /\ pc[r] # "locked") \/ ConfigureFails(r) \/ PublishRefused(r)
  BY <1>0, <1>3, GivesUp DEF Refused, ConfigureFails, PublishRefused, memory, Holding
<1>4. CASE Acquires(r)
  <2>1. /\ pc[r] = "locked" /\ recordingID = NoRec
        /\ UNCHANGED <<recordingID, history, listed, acknowledged>>
    BY <1>4 DEF Acquires, Goes, memory
  <2>2. \A q \in Rec : pc'[q] = IF q = r THEN "acquired" ELSE pc[q]
    BY <1>0, <1>4 DEF Acquires, Goes, ProgressOK
  <2>3. Holders = {}
    <3>1. mutex = r
      BY <1>0, <2>1 DEF StartInv
    <3>2. \A q \in Rec : pc[q] \notin Holding
      BY <1>0, <2>1, <3>1 DEF StartInv, Holding
    <3> QED
      BY <2>1, <3>2 DEF Holders, Occupies, Rec, NoRec
  <2>4. Holders' = {r}
    <3>1. \A q \in Rec : ~Occupies(q)
      BY <2>3 DEF Holders
    <3>2. Occupies(r)'
      BY <2>2 DEF Occupies, Holding
    <3>3. \A q \in Rec \ {r} : ~Occupies(q)'
      BY <2>1, <2>2, <3>1 DEF Occupies
    <3> QED
      BY <3>2, <3>3 DEF Holders
  <2>5. EntryOf[r] = Ledger!Absent
    BY <1>0, <2>1, EntryCases DEF ListInv
  <2>6. EntryOf' = EntryOf
    BY <1>0, <2>1, EntriesStay
  <2> QED
    BY <1>0, <2>1, <2>3, <2>4, <2>5, <2>6 DEF SamePassed, Ledger!Next, Ledger!Take, Holders
<1>5. CASE Persists(r) \/ Configures(r) \/ Configured(r)
  <2>1. /\ pc[r] \in Holding /\ pc'[r] \in Holding /\ \A q \in Rec \ {r} : pc'[q] = pc[q]
        /\ UNCHANGED <<recordingID, history, listed, acknowledged>>
    BY <1>0, <1>5 DEF Persists, Configures, Configured, Goes, memory, ProgressOK, Holding
  <2> QED
    BY <2>1, <1>0, NoEntry DEF Occupies
<1>6. CASE Publishes(r)
  <2>1. /\ pc[r] = "configured" /\ pc'[r] = "published" /\ \A q \in Rec \ {r} : pc'[q] = pc[q]
        /\ listed' = listed \cup {r} /\ UNCHANGED <<recordingID, history, acknowledged>>
    BY <1>0, <1>6 DEF Publishes, Goes, ProgressOK
  <2>2. Occupies(r) /\ Occupies(r)' /\ \A q \in Rec : Occupies(q)' <=> Occupies(q)
    BY <2>1 DEF Occupies, Holding
  <2>3. Holders' = Holders /\ r \in Holders
    BY <2>2 DEF Holders
  <2>4. history[r].state = "none" /\ r \notin listed /\ EntryOf[r] = Ledger!Absent
    BY <1>0, <2>1, EntryCases DEF ListInv, Holding, RecordingInv, DiskInv
  <2>5. EntryOf'[r] = Ledger!Open
    <3>1. r \notin passed'
      BY <1>0, <2>1 DEF SamePassed, RecordingInv, BookInv
    <3> QED
      BY <2>1, <2>4, <3>1 DEF EntryOf, Kept, Ledger!Open
  <2>6. EntryOf' = [EntryOf EXCEPT ![r] = Ledger!Open]
    BY <1>0, <2>1, <2>5, OneEntry
  <2> QED
    BY <1>0, <2>1, <2>3, <2>4, <2>6 DEF SamePassed, Ledger!Next, Ledger!Publish, Holders
<1>7. CASE Binds(r)
  <2>1. /\ pc[r] = "published" /\ pc'[r] = "done" /\ \A q \in Rec \ {r} : pc'[q] = pc[q]
        /\ recordingID' = r /\ acknowledged' = acknowledged \cup {r} /\ UNCHANGED <<history, listed>>
    BY <1>0, <1>7 DEF Binds, Goes, ProgressOK
  <2>2. Holders = {r}
    BY <2>1, SoleHolder DEF Occupies, Holding
  <2>3. Holders' = {r}
    <3>1. \A q \in Rec \ {r} : ~Occupies(q)
      BY <2>2 DEF Holders
    <3>2. Occupies(r)' /\ \A q \in Rec \ {r} : ~Occupies(q)'
      BY <2>1, <3>1 DEF Occupies, Holding
    <3> QED
      BY <3>2 DEF Holders
  <2>4. r \in listed /\ EntryOf[r] = Ledger!Open
    BY <1>0, <2>1, EntryCases DEF ListInv
  <2>5. EntryOf' = EntryOf
    BY <1>0, <2>1, EntriesStay
  <2> QED
    BY <1>0, <2>1, <2>2, <2>3, <2>4, <2>5 DEF SamePassed, Ledger!Next, Ledger!Tell, Holders
<1> QED
  BY <1>1, <1>2, <1>3, <1>4, <1>5, <1>6, <1>7 DEF Starts

\* What goes on while it records, and all of finalize but its last two steps.
LEMMA UnnoticedImplements ==
  ASSUME RecordingInv, NEW r \in Rec,
         \/ MarkActive(r) \/ RequestStop(r) \/ CloseStops(r) \/ SegmentEnds \/ Shutdown
         \/ FinStopping(r) \/ FinDisabled(r) \/ FinNotDisabled(r) \/ FinScanned(r) \/ FinDecided(r)
         \/ FinPersisted(r) \/ FinNotPersisted(r)
  PROVE  [Ledger!Next]_(Ledger!vars)
<1>1. UNCHANGED <<pc, recordingID, history, listed, acknowledged>>
  BY DEF MarkActive, RequestStop, CloseStops, SegmentEnds, Shutdown, FinStopping, FinDisabled,
     FinNotDisabled, FinScanned, FinDecided, FinPersisted, FinNotPersisted, memory
<1>2. SamePassed
  BY OwnStep DEF Finalizes
<1> QED
  BY <1>1, <1>2, NoEntry DEF Occupies

\* finalize releases the source of a recording that its client was told of, and
\* settles it afterwards.
LEMMA FinalizeImplements ==
  ASSUME RecordingInv, NEW r \in Rec, FinReleased(r) \/ FinRetired(r)
  PROVE  [Ledger!Next]_(Ledger!vars)
<1>0. /\ ProgressOK /\ ManifestsOK /\ StartInv /\ ListInv /\ ItemInv /\ BookInv
      /\ SamePassed
  BY OwnStep DEF RecordingInv, TypeOK, Finalizes
<1>1. /\ r \in listed /\ pc[r] \in {"published", "done"} /\ r \notin passed
      /\ EntryOf[r] = Ledger!Open
  BY <1>0, EntryCases DEF FinReleased, FinRetired, Step, ListInv
<1>2. CASE FinReleased(r)
  <2>1. /\ pc[r] = "done" /\ recordingID = r
        /\ mutex = NoRec
    BY <1>0, <1>1, <1>2 DEF FinReleased, LockFree, Step, StartInv, ListInv, Holding, Rec, NoRec
  <2>2. r \in acknowledged
    BY <1>0, <2>1 DEF BookInv
  <2>3. recordingID' = NoRec /\ UNCHANGED <<pc, history, listed, acknowledged>>
    BY <1>2, <2>1 DEF FinReleased, ClearID
  <2>4. Holders = {r}
    BY <2>1, SoleHolder DEF Occupies
  <2>5. Holders' = {}
    <3>1. \A q \in Rec : pc[q] \notin Holding
      BY <1>0, <2>1 DEF StartInv, Rec, NoRec
    <3> QED
      BY <2>3, <3>1 DEF Holders, Occupies, Rec, NoRec
  <2>6. EntryOf' = EntryOf
    BY <1>0, <2>3, EntriesStay
  <2> QED
    BY <1>0, <1>1, <2>2, <2>3, <2>4, <2>5, <2>6 DEF SamePassed, Ledger!Next, Ledger!Release, Holders
<1>3. CASE FinRetired(r)
  <2>1. /\ fin[r] = "retire" /\ UNCHANGED <<pc, recordingID, acknowledged>>
        /\ listed' = listed \ {r} /\ history' = [history EXCEPT ![r] = item[r]]
    BY <1>3 DEF FinRetired, Step, KeepHistory
  <2>2. pc[r] = "done" /\ recordingID # r /\ ~Occupies(r)
    BY <1>0, <1>1, <2>1 DEF ListInv, Occupies, Holding
  <2>3. r \in acknowledged
    BY <1>0, <2>2 DEF BookInv
  <2>4. Holders' = Holders /\ r \notin Holders
    BY <2>1, <2>2 DEF Holders, Occupies
  <2>5. /\ item[r].state \in Final /\ item[r].segments \in 0..MaxSegments
        /\ item[r].state = "complete" => item[r].segments > 0
    BY <1>0, <1>1, <2>1 DEF ItemInv, ManifestsOK, Manifest
  <2>6. history'[r] = item[r] /\ \A q \in Rec \ {r} : history'[q] = history[q]
    BY <1>0, <2>1 DEF ManifestsOK
  <2>7. EntryOf'[r] \in Ledger!Settled
    <3>1. CASE item[r].state = "complete"
      <4>1. EntryOf'[r] = Ledger!Complete(item[r].segments)
        BY <1>1, <1>0, <2>6, <3>1 DEF EntryOf, Kept, SamePassed, Ledger!Complete
      <4>2. item[r].segments \in 1..MaxSegments
        BY <2>5, <3>1
      <4> QED
        BY <4>1, <4>2 DEF Ledger!Settled
    <3>2. CASE item[r].state = "failed"
      <4>1. EntryOf'[r] = Ledger!Failed
        BY <1>1, <1>0, <2>6, <3>2 DEF EntryOf, Kept, SamePassed, Ledger!Failed
      <4> QED
        BY <4>1 DEF Ledger!Settled
    <3> QED
      BY <2>5, <3>1, <3>2 DEF Final
  <2>8. EntryOf' = [EntryOf EXCEPT ![r] = EntryOf'[r]]
    BY <1>0, <2>1, <2>6, OneEntry
  <2>9. Ledger!Settle(r)
    <3>1. PICK e \in Ledger!Settled : e = EntryOf'[r]
      BY <2>7
    <3>2. EntryOf' = [EntryOf EXCEPT ![r] = e]
      BY <2>8, <3>1
    <3> QED
      BY <1>1, <2>1, <2>3, <2>4, <3>2, <1>0 DEF SamePassed, Ledger!Settle, Holders
  <2> QED
    BY <2>9 DEF Ledger!Next
<1> QED
  BY <1>2, <1>3

\* A crash and the history that the next start of the edge loads.
LEMMA CrashImplements ==
  ASSUME RecordingInv, Restart
  PROVE  [Ledger!Next]_(Ledger!vars)
<1>0. ManifestsOK /\ ListInv /\ DiskInv /\ BookInv
  BY DEF RecordingInv, TypeOK
<1>1. /\ recordingID' = NoRec /\ listed' = {} /\ UNCHANGED acknowledged
      /\ \A q \in Rec : pc'[q] \in {"idle", "done", "failed"}
  BY DEF Restart
<1>2. Holders' = {}
  BY <1>1 DEF Holders, Occupies, Holding, Rec, NoRec
<1>3. \A q \in Rec : /\ Kept(q)'.state \in {"none", "complete", "failed"}
                     /\ Kept(q)'.state # "none" => Kept(q)'.segments = disk[q].segments
                     /\ Kept(q)'.state = "none" <=> disk[q].state = "none"
                     /\ Kept(q)'.state = "complete" <=> disk[q].state = "complete"
                     /\ disk[q].segments \in 0..MaxSegments
                     /\ q \in passed' => disk[q].state # "none"
  <2> TAKE q \in Rec
  <2>1. /\ disk[q] \in Manifest /\ Recovered(disk[q]).state \in {"none"} \cup Final
        /\ Recovered(disk[q]).segments = disk[q].segments /\ disk[q].segments \in 0..MaxSegments
        /\ Recovered(disk[q]).state = "none" <=> disk[q].state = "none"
        /\ Recovered(disk[q]).state = "complete" <=> disk[q].state = "complete"
    BY <1>0, RecoveredIsFinal DEF ManifestsOK, Manifest
  <2>2. CASE q \in passed'
    <3>1. disk'[q] = disk[q] /\ disk[q].state # "none"
      BY <1>0, <2>2, RestartLoads
    <3>2. Kept(q)' = Recovered(disk[q])
      BY <2>2, <3>1 DEF Kept, Recovered
    <3> QED
      BY <2>1, <3>1, <3>2 DEF Final
  <2>3. CASE q \notin passed' /\ disk[q].state # "none"
    <3>1. Kept(q)' = Recovered(disk[q])
      BY <1>0, <2>3, RestartLoads DEF Kept
    <3> QED
      BY <2>1, <2>3, <3>1 DEF Final
  <2>4. CASE q \notin passed' /\ disk[q].state = "none"
    <3>1. Kept(q)'.state = "none"
      BY <1>0, <2>4, RestartLoads DEF Kept
    <3> QED
      BY <2>1, <2>4, <3>1
  <2> QED
    BY <2>2, <2>3, <2>4
<1>4. ASSUME NEW q \in Rec
      PROVE  /\ disk[q].state = "complete" =>
                  /\ EntryOf'[q] = Ledger!Complete(disk[q].segments)
                  /\ disk[q].segments \in 1..MaxSegments
             /\ disk[q].state \notin {"none", "complete"} => EntryOf'[q] = Ledger!Failed
             /\ disk[q].state = "none" => EntryOf'[q] = Ledger!Absent
  <2>1. EntryOf'[q] =
          CASE Kept(q)'.state = "complete" -> [state |-> "complete", segments |-> Kept(q)'.segments]
            [] Kept(q)'.state = "failed"   -> [state |-> "failed", segments |-> 0]
            [] Kept(q)'.state = "none"     ->
                 [state |-> IF q \in listed' THEN "open" ELSE "absent", segments |-> 0]
    BY DEF EntryOf
  <2>2. disk[q].state = "complete" => disk[q].segments \in 1..MaxSegments
    BY <1>0, <1>3 DEF BookInv
  <2> QED
    BY <1>1, <1>3, <2>1, <2>2 DEF Ledger!Complete, Ledger!Failed, Ledger!Absent
<1>5. ASSUME NEW q \in Rec
      PROVE  EntryOf'[q] \in {Ledger!Absent} \cup Ledger!Settled
  BY <1>4 DEF Ledger!Settled
<1>6. ASSUME NEW q \in Rec
      PROVE  EntryOf'[q] \in Ledger!AfterCrash(EntryOf[q])
  <2>1. CASE Kept(q).state = "complete"
    <3>1. disk[q].state = "complete" /\ disk[q].segments = Kept(q).segments
      <4>1. CASE q \in passed
        BY <1>0, <2>1, <4>1, RecoveredIsFinal DEF Kept, ManifestsOK
      <4>2. CASE q \notin passed
        BY <1>0, <2>1, <4>2 DEF Kept, DiskInv
      <4> QED
        BY <4>1, <4>2
    <3>2. EntryOf'[q] = EntryOf[q] /\ EntryOf[q] = Ledger!Complete(Kept(q).segments)
      BY <1>4, <2>1, <3>1, EntryCases
    <3> QED
      BY <3>2 DEF Ledger!AfterCrash, Ledger!Complete, Ledger!Absent, Ledger!Open, Ledger!Failed
  <2>2. CASE Kept(q).state = "failed" \/ q \in listed
    <3>1. disk[q].state # "none"
      BY <1>0, <2>2 DEF Kept, DiskInv, BookInv, ListInv
    <3>2. EntryOf'[q] \in Ledger!Settled
      BY <1>4, <3>1 DEF Ledger!Settled
    <3>3. EntryOf[q] \in {Ledger!Open, Ledger!Failed}
      BY <2>2, EntryCases
    <3> QED
      BY <3>2, <3>3 DEF Ledger!AfterCrash, Ledger!Absent, Ledger!Open, Ledger!Failed
  <2>3. CASE Kept(q).state = "none" /\ q \notin listed
    <3>1. disk[q].state \in {"none", "waiting"}
      <4>1. CASE q \in passed
        BY <1>0, <2>3, <4>1, RecoveredIsFinal DEF Kept, ManifestsOK
      <4>2. CASE q \notin passed
        BY <1>0, <2>3, <4>2 DEF Kept, BookInv
      <4> QED
        BY <4>1, <4>2
    <3>2. EntryOf'[q] \in {Ledger!Absent, Ledger!Failed}
      BY <1>4, <3>1
    <3>3. EntryOf[q] = Ledger!Absent
      BY <2>3, EntryCases
    <3> QED
      BY <3>2, <3>3 DEF Ledger!AfterCrash, Ledger!Absent, Ledger!Open, Ledger!Failed
  <2> QED
    BY <2>1, <2>2, <2>3, EntryCases
<1>7. EntryOf' \in [Rec -> {Ledger!Absent} \cup Ledger!Settled]
  <2>1. EntryOf' \in [Rec -> {EntryOf'[q] : q \in Rec}]
    BY DEF EntryOf
  <2> HIDE DEF EntryOf
  <2> QED
    BY <1>5, <2>1
<1>8. passed' \in SUBSET {q \in Rec : EntryOf'[q] # Ledger!Absent}
  <2>1. ASSUME NEW q \in passed' PROVE q \in Rec /\ EntryOf'[q] # Ledger!Absent
    <3>1. q \in Rec
      BY <1>0, <2>1, RestartLoads
    <3>2. EntryOf'[q] = Ledger!Complete(disk[q].segments) \/ EntryOf'[q] = Ledger!Failed
      BY <1>3, <1>4, <2>1, <3>1
    <3> QED
      BY <3>1, <3>2 DEF Ledger!Absent, Ledger!Complete, Ledger!Failed
  <2> HIDE DEF EntryOf
  <2> QED
    BY <2>1
<1> HIDE DEF EntryOf
<1> QED
  BY <1>1, <1>2, <1>6, <1>7, <1>8 DEF Ledger!Next, Ledger!Crash, Holders

\* The list, the history and the manifests behind them are one ledger, whatever
\* call to MediaMTX or write fails and wherever the edge is killed: recordings
\* have the source one by one, none is lost that a client was told of, none is
\* settled before that, and what is complete stays as it is.
THEOREM RecordingIsALedger == Spec => ImplementsRecordingLedger
<1>1. Init => Ledger!Init
  <2> SUFFICES ASSUME Init
               PROVE  Ledger!Init
    OBVIOUS
  <2>1. \A r \in Rec : ~Occupies(r)
    BY DEF Init, Occupies, Holding, Rec, NoRec
  <2>2. EntryOf = [r \in Rec |-> Ledger!Absent]
    BY DEF Init, EntryOf, Kept, NoManifest, Ledger!Absent
  <2> QED
    BY <2>1, <2>2 DEF Init, Ledger!Init
<1>2. RecordingInv /\ [Next]_vars => [Ledger!Next]_(Ledger!vars)
  <2> SUFFICES ASSUME RecordingInv, [Next]_vars
               PROVE  [Ledger!Next]_(Ledger!vars)
    OBVIOUS
  <2>1. CASE UNCHANGED vars
    BY <2>1, NoEntry DEF vars, memory, ends, Occupies, SamePassed
  <2>2. CASE SegmentEnds \/ Shutdown
    BY <2>2, NoEntry DEF SegmentEnds, Shutdown, memory, ends, Occupies, SamePassed
  <2> QED
    BY <2>1, <2>2, StartImplements, UnnoticedImplements, FinalizeImplements, CrashImplements
       DEF Next, Finalizes
<1> QED
  BY <1>1, <1>2, RecordingIsSound, PTL DEF Spec, ImplementsRecordingLedger, Ledger!Spec

-----------------------------------------------------------------------------
(***************************************************************************)
(* The snapshots in memory.                                                *)
(***************************************************************************)

\* A list in which every snapshot is newer than the one before.
Ascending(list) == \A i, k \in DOMAIN list : i < k => list[i] < list[k]

\* The rank of a place grows along the list.
LEMMA RankGrows ==
  ASSUME NEW P, P \subseteq Nat, IsFiniteSet(P), NEW p \in P
  PROVE  /\ Rank(P, p) \in 1..Cardinality(P)
         /\ \A q \in P : p < q => Rank(P, p) < Rank(P, q)
<1> DEFINE Upto(q) == {r \in P : r <= q}
<1>1. \A q \in P : /\ IsFiniteSet(Upto(q)) /\ Cardinality(Upto(q)) \in Nat
                   /\ Cardinality(Upto(q)) <= Cardinality(P)
                   /\ Cardinality(Upto(q)) # 0
  <2> SUFFICES ASSUME NEW q \in P
               PROVE  /\ IsFiniteSet(Upto(q)) /\ Cardinality(Upto(q)) \in Nat
                      /\ Cardinality(Upto(q)) <= Cardinality(P)
                      /\ Cardinality(Upto(q)) # 0
    OBVIOUS
  <2>1. Upto(q) \in SUBSET P
    OBVIOUS
  <2>2. q \in Upto(q)
    OBVIOUS
  <2> HIDE DEF Upto
  <2>3. IsFiniteSet(Upto(q)) /\ Cardinality(Upto(q)) <= Cardinality(P)
    BY <2>1, FS_Subset
  <2> QED
    BY <2>2, <2>3, FS_CardinalityType, FS_EmptySet
<1>2. Cardinality(P) \in Nat
  BY FS_CardinalityType
<1>3. ASSUME NEW q \in P, p < q
      PROVE  Cardinality(Upto(p)) < Cardinality(Upto(q))
  <2>1. Upto(p) \in SUBSET Upto(q) /\ q \in Upto(q) /\ q \notin Upto(p)
    <3>1. \A r \in P : r \in Int
      OBVIOUS
    <3>2. \A r \in P : r <= p => r <= q
      BY <1>3, <3>1
    <3>3. q <= q /\ ~(q <= p)
      BY <1>3, <3>1
    <3> QED
      BY <3>2, <3>3
  <2> HIDE DEF Upto
  <2>2. /\ Cardinality(Upto(p)) <= Cardinality(Upto(q))
        /\ Cardinality(Upto(q)) = Cardinality(Upto(p)) => Upto(q) = Upto(p)
    BY <1>1, <2>1, FS_Subset
  <2> QED
    BY <1>1, <2>1, <2>2
<1> QED
  BY <1>1, <1>2, <1>3 DEF Rank

\* There is one place of each rank, and the places of growing rank lie in order.
LEMMA NthIsPlace ==
  ASSUME NEW P, P \subseteq Nat, IsFiniteSet(P)
  PROVE  /\ \A n \in 1..Cardinality(P) : Nth(P, n) \in P /\ Rank(P, Nth(P, n)) = n
         /\ \A p \in P : Rank(P, p) \in 1..Cardinality(P) /\ Nth(P, Rank(P, p)) = p
         /\ \A m, n \in 1..Cardinality(P) : m < n => Nth(P, m) < Nth(P, n)
<1> DEFINE rank == [p \in P |-> Rank(P, p)]
           c == Cardinality(P)
<1>1. c \in Nat
  BY FS_CardinalityType
<1>2. \A p \in P : Rank(P, p) \in 1..c
  BY RankGrows
<1>3. \A p, q \in P : p < q => Rank(P, p) < Rank(P, q)
  BY RankGrows
<1>4. \A p, q \in P : Rank(P, p) = Rank(P, q) => p = q
  BY <1>1, <1>2, <1>3
<1>5. rank \in Injection(P, 1..c)
  BY <1>2, <1>4 DEF Injection, IsInjective
<1>6. IsFiniteSet(1..c) /\ Cardinality(1..c) = c
  BY <1>1, FS_Interval
<1>7. rank \in Surjection(P, 1..c)
  <2> HIDE DEF rank
  <2> QED
    BY <1>5, <1>6, FS_Injection
<1>8. \A n \in 1..c : \E p \in P : Rank(P, p) = n
  BY <1>7 DEF Surjection
<1>9. \A n \in 1..c : Nth(P, n) \in P /\ Rank(P, Nth(P, n)) = n
  BY <1>8 DEF Nth
<1>10. \A p \in P : Nth(P, Rank(P, p)) = p
  BY <1>2, <1>4, <1>9
<1>11. ASSUME NEW m \in 1..c, NEW n \in 1..c, m < n
       PROVE  Nth(P, m) < Nth(P, n)
  <2>1. /\ Nth(P, m) \in P /\ Nth(P, n) \in P
        /\ Rank(P, Nth(P, m)) = m /\ Rank(P, Nth(P, n)) = n
    BY <1>9
  <2>2. m \in Int /\ n \in Int /\ Nth(P, m) \in Int /\ Nth(P, n) \in Int
    <3>1. Nth(P, m) \in Nat /\ Nth(P, n) \in Nat
      BY <2>1, Zenon
    <3> QED
      BY <3>1
  <2>3. Nth(P, n) < Nth(P, m) => n < m
    BY <1>3, <2>1, Zenon
  <2>4. Nth(P, m) # Nth(P, n)
    BY <1>11, <2>1, <2>2
  <2> HIDE DEF c
  <2> QED
    BY <1>11, <2>2, <2>3, <2>4
<1> QED
  BY <1>2, <1>9, <1>10, <1>11

\* The places of a list are finitely many.
LEMMA PlacesFinite ==
  ASSUME NEW S, NEW list \in Seq(S), NEW kept
  PROVE  /\ Places(list, kept) \subseteq Nat
         /\ Places(list, kept) \subseteq DOMAIN list
         /\ IsFiniteSet(Places(list, kept))
<1>1. DOMAIN list = 1..Len(list) /\ Len(list) \in Nat
  OBVIOUS
<1>2. Places(list, kept) \in SUBSET (1..Len(list))
  BY <1>1 DEF Places
<1>3. IsFiniteSet(1..Len(list))
  BY <1>1, FS_Interval
<1>4. IsFiniteSet(Places(list, kept))
  BY <1>2, <1>3, FS_Subset
<1> QED
  BY <1>1, <1>2, <1>4

\* What is kept of a list: all of it that may stay, and in its order.
LEMMA KeepKeeps ==
  ASSUME NEW S, NEW list \in Seq(S), NEW kept
  PROVE  /\ Keep(list, kept) \in Seq(S)
         /\ Len(Keep(list, kept)) = Cardinality(Places(list, kept))
         /\ Listed(Keep(list, kept)) = Listed(list) \cap kept
         /\ \A i, k \in DOMAIN Keep(list, kept) : i < k =>
              \E p, q \in DOMAIN list : /\ p < q
                                        /\ Keep(list, kept)[i] = list[p]
                                        /\ Keep(list, kept)[k] = list[q]
<1> DEFINE P == Places(list, kept)
           c == Cardinality(P)
           K == Keep(list, kept)
<1>1. P \subseteq Nat /\ P \subseteq DOMAIN list /\ IsFiniteSet(P)
  BY PlacesFinite
<1>2. c \in Nat
  BY <1>1, FS_CardinalityType
<1>3. \A p \in P : list[p] \in S /\ list[p] \in kept
  BY <1>1 DEF Places
<1>3a. \A p \in DOMAIN list : list[p] \in kept => p \in P
  BY DEF Places
<1>4. /\ \A n \in 1..c : Nth(P, n) \in P
      /\ \A p \in P : Rank(P, p) \in 1..c /\ Nth(P, Rank(P, p)) = p
      /\ \A m, n \in 1..c : m < n => Nth(P, m) < Nth(P, n)
  <2> HIDE DEF P
  <2> QED
    BY <1>1, NthIsPlace
<1>5. K = [n \in 1..c |-> list[Nth(P, n)]]
  BY DEF Keep
<1> HIDE DEF K, c, P
<1>6. K \in [1..c -> S] /\ DOMAIN K = 1..c
  BY <1>3, <1>4, <1>5
<1>7. K \in Seq(S) /\ Len(K) = c
  BY <1>2, <1>6
<1>8. Listed(K) \subseteq Listed(list) \cap kept
  <2> SUFFICES ASSUME NEW n \in 1..c
               PROVE  K[n] \in Listed(list) /\ K[n] \in kept
    BY <1>6 DEF Listed
  <2> QED
    BY <1>1, <1>3, <1>4, <1>5 DEF Listed
<1>9. Listed(list) \cap kept \subseteq Listed(K)
  <2> SUFFICES ASSUME NEW p \in DOMAIN list, list[p] \in kept
               PROVE  list[p] \in Listed(K)
    BY DEF Listed
  <2>1. p \in P
    BY <1>3a
  <2>2. Rank(P, p) \in 1..c /\ K[Rank(P, p)] = list[p]
    BY <1>4, <1>5, <2>1
  <2> QED
    BY <1>6, <2>2 DEF Listed
<1>10. ASSUME NEW i \in DOMAIN K, NEW k \in DOMAIN K, i < k
       PROVE  \E p, q \in DOMAIN list : p < q /\ K[i] = list[p] /\ K[k] = list[q]
  <2>1. Nth(P, i) \in DOMAIN list /\ Nth(P, k) \in DOMAIN list /\ Nth(P, i) < Nth(P, k)
    BY <1>1, <1>4, <1>6, <1>10
  <2> QED
    BY <1>5, <1>6, <1>10, <2>1
<1> QED
  BY <1>7, <1>8, <1>9, <1>10 DEF K, c, P

-----------------------------------------------------------------------------

\* What is kept of an ascending list ascends.
LEMMA KeepAscends ==
  ASSUME NEW list \in Seq(Nat), Ascending(list), NEW kept
  PROVE  Ascending(Keep(list, kept))
<1> DEFINE K == Keep(list, kept)
<1> SUFFICES ASSUME NEW i \in DOMAIN K, NEW k \in DOMAIN K, i < k
             PROVE  K[i] < K[k]
  BY DEF Ascending
<1>1. PICK p \in DOMAIN list, q \in DOMAIN list : p < q /\ K[i] = list[p] /\ K[k] = list[q]
  BY KeepKeeps
<1> QED
  BY <1>1 DEF Ascending

\* An ascending list with something newer at its end ascends, and so do the newest few of it:
\* those that fewer than that many follow.
LEMMA NewestAscend ==
  ASSUME NEW n \in Nat, NEW list \in Seq(1..n), Ascending(list),
         NEW id \in 1..n, \A i \in Listed(list) : i < id,
         NEW max \in Nat \ {0}
  PROVE  LET order == Append(list, id)
             newest == SubSeq(order, IF Len(order) <= max THEN 1 ELSE Len(order) - max + 1, Len(order))
         IN  /\ newest \in Seq(1..n)
             /\ Ascending(newest)
             /\ Listed(newest) \subseteq Listed(list) \cup {id}
             /\ id \in Listed(newest)
             /\ \A i \in Listed(list) :
                  i \in Listed(newest) <=> Cardinality({k \in Listed(list) : k > i}) < max - 1
<1> DEFINE order == Append(list, id)
           len == Len(list)
           from == IF Len(order) <= max THEN 1 ELSE Len(order) - max + 1
           newest == SubSeq(order, from, Len(order))
<1>1. /\ order \in Seq(1..n) /\ Len(order) = len + 1 /\ len \in Nat
      /\ \A i \in 1..len : order[i] = list[i]
      /\ order[len + 1] = id
  OBVIOUS
<1>2. DOMAIN list = 1..len /\ DOMAIN order = 1..(len + 1)
  BY <1>1
<1>3. \A i \in 1..len : list[i] \in 1..n /\ list[i] \in Listed(list)
  BY <1>2 DEF Listed
<1>4. \A i, k \in 1..(len + 1) : i < k => order[i] < order[k]
  <2> SUFFICES ASSUME NEW i \in 1..(len + 1), NEW k \in 1..(len + 1), i < k
               PROVE  order[i] < order[k]
    OBVIOUS
  <2>1. i \in 1..len /\ order[i] = list[i]
    BY <1>1
  <2>2. CASE k = len + 1
    BY <1>1, <1>3, <2>1, <2>2
  <2>3. CASE k # len + 1
    <3>1. k \in 1..len /\ order[k] = list[k]
      BY <1>1, <2>3
    <3> QED
      BY <1>2, <2>1, <3>1 DEF Ascending
  <2> QED
    BY <2>2, <2>3
<1>5. \A i \in 1..(len + 1) : order[i] \in Listed(list) \cup {id} /\ order[i] \in 1..n
  BY <1>1, <1>3
<1> HIDE DEF order, len
<1>6. from \in 1..(len + 1) /\ \A i \in 1..len : i >= from <=> len - i < max - 1
  BY <1>1
<1> HIDE DEF from
<1>7. /\ newest \in Seq(1..n) /\ Len(newest) = len + 2 - from
      /\ \A i \in 1..(len + 2 - from) : newest[i] = order[from + i - 1]
  <2>1. from \in 1..Len(order) /\ Len(order) \in from..Len(order) /\ Len(order) = len + 1
    BY <1>1, <1>6
  <2>2. newest \in Seq(1..n) /\ Len(newest) = Len(order) - from + 1
    BY <1>1, <2>1
  <2>3. \A i \in 1..(Len(order) - from + 1) : newest[i] = order[from + i - 1]
    BY <1>1, <2>1
  <2>4. Len(order) - from + 1 = len + 2 - from
    BY <1>1, <1>6, <2>1
  <2> QED
    BY <2>2, <2>3, <2>4
<1> HIDE DEF newest
<1>8. DOMAIN newest = 1..(len + 2 - from)
  BY <1>7
<1>9. Ascending(newest)
  <2> SUFFICES ASSUME NEW i \in 1..(len + 2 - from), NEW k \in 1..(len + 2 - from), i < k
               PROVE  newest[i] < newest[k]
    BY <1>8 DEF Ascending
  <2>1. from + i - 1 \in 1..(len + 1) /\ from + k - 1 \in 1..(len + 1) /\ from + i - 1 < from + k - 1
    BY <1>1, <1>6
  <2> QED
    BY <1>4, <1>7, <2>1
<1>10. Listed(newest) \subseteq Listed(list) \cup {id}
  <2> SUFFICES ASSUME NEW i \in 1..(len + 2 - from)
               PROVE  newest[i] \in Listed(list) \cup {id}
    BY <1>8 DEF Listed
  <2>1. from + i - 1 \in 1..(len + 1)
    BY <1>1, <1>6
  <2> QED
    BY <1>5, <1>7, <2>1
<1>11. id \in Listed(newest)
  <2>1. len + 2 - from \in 1..(len + 2 - from) /\ from + (len + 2 - from) - 1 = len + 1
    BY <1>1, <1>6
  <2>2. newest[len + 2 - from] = id
    BY <1>1, <1>7, <2>1
  <2> QED
    BY <1>8, <2>1, <2>2 DEF Listed
<1>12. ASSUME NEW i \in 1..len
       PROVE  list[i] \in Listed(newest) <=> i >= from
  <2>1. ASSUME i >= from
        PROVE  list[i] \in Listed(newest)
    <3>1. i - from + 1 \in 1..(len + 2 - from) /\ from + (i - from + 1) - 1 = i
      BY <1>1, <1>6, <2>1
    <3>2. newest[i - from + 1] = list[i]
      BY <1>1, <1>7, <3>1
    <3> QED
      BY <1>8, <3>1, <3>2 DEF Listed
  <2>2. ASSUME NEW k \in 1..(len + 2 - from), newest[k] = list[i]
        PROVE  i >= from
    <3>1. from + k - 1 \in 1..(len + 1) /\ i \in 1..(len + 1) /\ from + k - 1 >= from
      BY <1>1, <1>6
    <3>2. order[from + k - 1] = order[i] /\ order[i] \in 1..n /\ order[from + k - 1] \in 1..n
      BY <1>1, <1>3, <1>7, <2>2, <3>1
    <3>3. ~(from + k - 1 < i) /\ ~(i < from + k - 1)
      BY <1>4, <3>1, <3>2
    <3> QED
      BY <1>6, <3>1, <3>3
  <2> QED
    BY <1>8, <2>1, <2>2 DEF Listed
<1>13. ASSUME NEW i \in 1..len
       PROVE  Cardinality({k \in Listed(list) : k > list[i]}) = len - i
  <2> DEFINE later == {k \in Listed(list) : k > list[i]}
             f == [k \in (i + 1)..len |-> list[k]]
  <2>1. \A k \in 1..len : list[k] > list[i] <=> k > i
    <3> SUFFICES ASSUME NEW k \in 1..len
                 PROVE  list[k] > list[i] <=> k > i
      OBVIOUS
    <3>1. list[k] \in Nat /\ list[i] \in Nat
      BY <1>3
    <3>2. (k < i => list[k] < list[i]) /\ (i < k => list[i] < list[k])
      BY <1>2 DEF Ascending
    <3> QED
      BY <1>1, <3>1, <3>2
  <2>2. \A k \in (i + 1)..len : k \in 1..len /\ k > i
    BY <1>1
  <2>3. \A k \in 1..len : k > i => k \in (i + 1)..len
    BY <1>1
  <2>4. \A k, m \in (i + 1)..len : list[k] = list[m] => k = m
    <3> SUFFICES ASSUME NEW k \in (i + 1)..len, NEW m \in (i + 1)..len, list[k] = list[m]
                 PROVE  k = m
      OBVIOUS
    <3>1. k \in 1..len /\ m \in 1..len /\ list[k] \in Nat /\ list[m] \in Nat
      BY <1>3, <2>2
    <3>2. ~(k < m) /\ ~(m < k)
      BY <1>2, <3>1 DEF Ascending
    <3> QED
      BY <1>1, <3>1, <3>2
  <2>5. f \in [(i + 1)..len -> later]
    <3> SUFFICES ASSUME NEW k \in (i + 1)..len
                 PROVE  list[k] \in later
      OBVIOUS
    <3> QED
      BY <1>3, <2>1, <2>2
  <2>6. \A k \in later : \E m \in (i + 1)..len : f[m] = k
    <3> SUFFICES ASSUME NEW m \in 1..len, list[m] > list[i]
                 PROVE  m \in (i + 1)..len
      BY <1>2 DEF Listed
    <3> QED
      BY <2>1, <2>3
  <2>7. f \in Bijection((i + 1)..len, later)
    BY <2>4, <2>5, <2>6 DEF Bijection, Injection, IsInjective, Surjection
  <2>8. ExistsBijection((i + 1)..len, later)
    BY <2>7 DEF ExistsBijection
  <2>9. /\ IsFiniteSet((i + 1)..len)
        /\ Cardinality((i + 1)..len) = IF i + 1 > len THEN 0 ELSE len - (i + 1) + 1
    <3>1. i + 1 \in Int /\ len \in Int
      BY <1>1
    <3> QED
      BY <3>1, FS_Interval
  <2> HIDE DEF later, f
  <2>10. Cardinality(later) = Cardinality((i + 1)..len)
    BY <2>8, <2>9, FS_Bijection
  <2> QED
    BY <1>1, <2>9, <2>10 DEF later
<1>14. ASSUME NEW i \in Listed(list)
       PROVE  i \in Listed(newest) <=> Cardinality({k \in Listed(list) : k > i}) < max - 1
  <2>1. PICK p \in 1..len : i = list[p]
    BY <1>2 DEF Listed
  <2> QED
    BY <1>6, <1>12, <1>13, <2>1
<1> QED
  BY <1>7, <1>9, <1>10, <1>11, <1>14 DEF order, len, from, newest

-----------------------------------------------------------------------------

\* The bytes of some snapshots, one by one.
Cells(ids) == UNION {{i} \X (1..size[i]) : i \in ids}

\* The bytes of finitely many snapshots can be counted.
LEMMA CellsFinite ==
  ASSUME size \in [Id -> Nat], NEW ids \in SUBSET Id
  PROVE  /\ IsFiniteSet(ids)
         /\ IsFiniteSet(Cells(ids))
         /\ Bytes(ids) = Cardinality(Cells(ids))
         /\ Bytes(ids) \in Nat
<1> DEFINE f == [i \in ids |-> {i} \X (1..size[i])]
           T == {f[i] : i \in ids}
<1>1. IsFiniteSet(Id)
  BY RetentionAssumption, FS_Interval DEF Id
<1>2. IsFiniteSet(ids)
  BY <1>1, FS_Subset
<1>3. f \in Surjection(ids, T)
  BY DEF Surjection
<1>4. IsFiniteSet(T)
  <2> HIDE DEF f, T
  <2> QED
    BY <1>2, <1>3, FS_Surjection
<1>5. \A i \in ids : IsFiniteSet({i} \X (1..size[i]))
  <2> SUFFICES ASSUME NEW i \in ids
               PROVE  IsFiniteSet({i} \X (1..size[i]))
    OBVIOUS
  <2>1. IsFiniteSet({i})
    BY FS_Singleton
  <2>2. IsFiniteSet(1..size[i])
    BY FS_Interval
  <2> QED
    BY <2>1, <2>2, FS_Product
<1>6. \A c \in T : IsFiniteSet(c)
  BY <1>5
<1>7. Cells(ids) = UNION T
  BY DEF Cells
<1>8. IsFiniteSet(Cells(ids))
  <2> HIDE DEF T
  <2> QED
    BY <1>4, <1>6, <1>7, FS_UNION
<1>9. Bytes(ids) = Cardinality(Cells(ids))
  BY DEF Bytes, Cells
<1> QED
  BY <1>2, <1>8, <1>9, FS_CardinalityType

\* Fewer snapshots take no more bytes.
LEMMA BytesGrow ==
  ASSUME size \in [Id -> Nat], NEW ids \in SUBSET Id, NEW some \in SUBSET ids
  PROVE  /\ Bytes(some) \in Nat /\ Bytes(ids) \in Nat
         /\ Bytes(some) <= Bytes(ids)
<1>1. some \in SUBSET Id
  OBVIOUS
<1>2. Cells(some) \in SUBSET Cells(ids)
  BY DEF Cells
<1>3. IsFiniteSet(Cells(ids))
  BY CellsFinite
<1>4. Cardinality(Cells(some)) <= Cardinality(Cells(ids))
  BY <1>2, <1>3, FS_Subset
<1> QED
  BY <1>1, <1>4, CellsFinite

-----------------------------------------------------------------------------

\* The entries of a list.
LEMMA EntriesOfSeq ==
  ASSUME NEW S, NEW list \in Seq(S)
  PROVE  \A n \in DOMAIN list : n \in Nat /\ list[n] \in S
OBVIOUS

\* A list of some elements is one of more.
LEMMA SeqGrows ==
  ASSUME NEW S, NEW T, S \subseteq T, NEW list \in Seq(S)
  PROVE  list \in Seq(T)
OBVIOUS

\* What the sizes and the numbers of snapshots are.
LEMMA Sorts ==
  ASSUME RetentionTypeOK
  PROVE  /\ NSnapshots \in Nat /\ MaxTime \in Nat /\ TTL \in Nat \ {0} /\ MaxRetained \in Nat
         /\ MaximumSnapshots \in Nat \ {0}
         /\ now \in Nat /\ made \in Nat /\ made <= NSnapshots
         /\ size \in [Id -> Nat] /\ expiresAt \in [Id -> Nat]
         /\ 1..made \subseteq Id
         /\ \A s \in Source : /\ snapshots[s] \subseteq 1..made
                              /\ snapshotOrder[s] \in Seq(1..made)
                              /\ snapshotOrder[s] \in Seq(Nat)
                              /\ Listed(snapshotOrder[s]) \subseteq 1..made
<1>1. /\ NSnapshots \in Nat /\ MaxTime \in Nat /\ TTL \in Nat \ {0} /\ MaxRetained \in Nat
      /\ MaximumSnapshots \in Nat \ {0} /\ Sizes \subseteq Nat
  BY RetentionAssumption
<1>2. now \in Nat /\ made \in Nat /\ made <= NSnapshots
  BY <1>1 DEF RetentionTypeOK
<1>3. size \in [Id -> Nat] /\ expiresAt \in [Id -> Nat]
  <2>1. Sizes \cup {0} \subseteq Nat /\ 0..(MaxTime + TTL) \subseteq Nat
    BY <1>1
  <2>2. size \in [Id -> Sizes \cup {0}] /\ expiresAt \in [Id -> 0..(MaxTime + TTL)]
    BY DEF RetentionTypeOK
  <2> QED
    BY <2>1, <2>2
<1>4. 1..made \subseteq Id
  BY <1>1, <1>2 DEF Id
<1>5. ASSUME NEW s \in Source
      PROVE  /\ snapshots[s] \subseteq 1..made
             /\ snapshotOrder[s] \in Seq(1..made)
             /\ snapshotOrder[s] \in Seq(Nat)
             /\ Listed(snapshotOrder[s]) \subseteq 1..made
  <2>1. snapshots[s] \subseteq 1..made /\ snapshotOrder[s] \in Seq(1..made)
    BY DEF RetentionTypeOK
  <2>2. \A n \in DOMAIN snapshotOrder[s] : snapshotOrder[s][n] \in 1..made
    BY <2>1, EntriesOfSeq
  <2> QED
    BY <1>2, <2>1, <2>2 DEF Listed
<1> QED
  BY <1>1, <1>2, <1>3, <1>4, <1>5

\* Nothing is in a map that is not in the list beside it.
AllListed == \A s \in Source : snapshots[s] \subseteq Listed(snapshotOrder[s])

\* Lists that ascend hold every snapshot once, in the order they expire in.
LEMMA AscendingSuffices ==
  RetentionTypeOK /\ CapturesInOrder /\ AllListed => RetainedIsListed /\ OldestLeavesFirst
<1> SUFFICES ASSUME RetentionTypeOK, CapturesInOrder, AllListed, NEW s \in Source,
                    NEW i \in DOMAIN snapshotOrder[s], NEW k \in DOMAIN snapshotOrder[s]
             PROVE  /\ i # k => snapshotOrder[s][i] # snapshotOrder[s][k]
                    /\ i < k => expiresAt[snapshotOrder[s][i]] <= expiresAt[snapshotOrder[s][k]]
  BY DEF RetainedIsListed, OldestLeavesFirst, AllListed
<1>1. /\ snapshotOrder[s][i] \in 1..made /\ snapshotOrder[s][k] \in 1..made
      /\ i \in Nat /\ k \in Nat /\ made \in Nat
  BY Sorts, EntriesOfSeq
<1>2. /\ i < k => snapshotOrder[s][i] < snapshotOrder[s][k]
      /\ k < i => snapshotOrder[s][k] < snapshotOrder[s][i]
  BY DEF CapturesInOrder
<1>3. i < k => expiresAt[snapshotOrder[s][i]] <= expiresAt[snapshotOrder[s][k]]
  BY <1>1, <1>2 DEF CapturesInOrder
<1> QED
  BY <1>1, <1>2, <1>3

\* The lists of the sources ascend.
LEMMA ListsAscend ==
  ASSUME CapturesInOrder, NEW s \in Source
  PROVE  Ascending(snapshotOrder[s])
BY DEF CapturesInOrder, Ascending

-----------------------------------------------------------------------------

\* What a job may be.
JobSorts == [phase : {"idle", "capturing", "captured", "stored"},
             source : Source \cup {"none"}, id : Id \cup {NoSnapshot}]

\* A step that leaves the snapshots alone leaves their budget and lists alone.
LEMMA SameRetained ==
  ASSUME RetentionInv, UNCHANGED <<facts, retained>>
  PROVE  BudgetHeld' /\ RetainedIsListed' /\ OldestLeavesFirst'
BY DEF RetentionInv, facts, retained, BudgetHeld, Bytes, Retained, RetainedIsListed, Listed,
       OldestLeavesFirst

LEMMA TickKept ==
  ASSUME RetentionInv, Tick
  PROVE  RetentionInv'
<1> USE DEF RetentionInv
<1>1. /\ now' = now + 1 /\ now < MaxTime
      /\ UNCHANGED <<made, size, expiresAt, job, capturePending, snapshots, snapshotOrder, returned>>
  BY DEF Tick, facts, retained
<1>2. RetentionTypeOK'
  <2>1. MaxTime \in Nat /\ now \in 0..MaxTime
    BY Sorts DEF RetentionTypeOK
  <2>2. now' \in 0..MaxTime
    BY <1>1, <2>1
  <2> QED
    BY <1>1, <2>2 DEF RetentionTypeOK
<1>3. CapturesInOrder'
  <2>1. \A i \in 1..made : expiresAt[i] <= now + 1 + TTL
    <3>1. now \in Nat /\ TTL \in Nat /\ \A i \in 1..made : expiresAt[i] \in Nat
      BY Sorts
    <3> QED
      BY <3>1 DEF CapturesInOrder
  <2> QED
    BY <1>1, <2>1 DEF CapturesInOrder
<1>4. BudgetHeld' /\ RetainedIsListed' /\ OldestLeavesFirst'
  BY <1>1, SameRetained DEF facts, retained
<1> QED
  BY <1>2, <1>3, <1>4

\* A job that begins, with its source to itself.
LEMMA AdmitKept ==
  ASSUME RetentionInv, NEW j \in Job, NEW s \in Source, Admit(j, s)
  PROVE  RetentionInv'
<1> USE DEF RetentionInv
<1> DEFINE new == [phase |-> "capturing", source |-> s, id |-> NoSnapshot]
<1>1. /\ job' = [job EXCEPT ![j] = new] /\ capturePending' = capturePending \cup {s}
      /\ s \notin capturePending /\ job[j].phase = "idle"
      /\ UNCHANGED <<now, made, size, expiresAt, snapshots, snapshotOrder, returned>>
  BY DEF Admit, Admitted, facts, retained
<1>2. job \in [Job -> JobSorts] /\ new \in JobSorts
  BY DEF RetentionTypeOK, JobSorts
<1> HIDE DEF JobSorts
<1>3. /\ job' \in [Job -> JobSorts]
      /\ job'[j] = new
      /\ \A k \in Job \ {j} : job'[k] = job[k]
  BY <1>1, <1>2
<1>4. RetentionTypeOK'
  BY <1>1, <1>3 DEF RetentionTypeOK, JobSorts
<1>5. CapturesInOrder'
  <2>1. \A k \in Job : job'[k].phase # "idle" => job'[k].source \in capturePending'
    BY <1>1, <1>3 DEF CapturesInOrder
  <2>2. \A k \in Job \ {j} : job[k].phase # "idle" => job[k].source # s
    BY <1>1 DEF CapturesInOrder
  <2>3. \A k, l \in Job : k # l /\ job'[k].phase # "idle" /\ job'[l].phase # "idle"
                          => job'[k].source # job'[l].source
    BY <1>3, <2>2 DEF CapturesInOrder
  <2>4. \A k \in Job : job'[k].phase \in {"captured", "stored"} => k # j /\ job'[k] = job[k]
    BY <1>3
  <2> QED
    BY <1>1, <2>1, <2>3, <2>4 DEF CapturesInOrder
<1>6. BudgetHeld' /\ RetainedIsListed' /\ OldestLeavesFirst'
  BY <1>1, SameRetained DEF facts, retained
<1> QED
  BY <1>4, <1>5, <1>6

\* A job that ends, and leaves its source to others.
LEMMA EndKept ==
  ASSUME RetentionInv, NEW j \in Job, job[j].phase # "idle",
         job' = [job EXCEPT ![j] = NoJob],
         capturePending' = capturePending \ {job[j].source},
         returned' \subseteq 1..made,
         UNCHANGED <<now, made, size, expiresAt, snapshots, snapshotOrder>>
  PROVE  RetentionInv'
<1> USE DEF RetentionInv
<1>1. job \in [Job -> JobSorts] /\ NoJob \in JobSorts /\ NoJob.phase = "idle"
  BY DEF RetentionTypeOK, JobSorts, NoJob
<1> HIDE DEF JobSorts
<1>2. /\ job' \in [Job -> JobSorts]
      /\ job'[j] = NoJob
      /\ \A k \in Job \ {j} : job'[k] = job[k]
  BY <1>1
<1>3. RetentionTypeOK'
  BY <1>2 DEF RetentionTypeOK, JobSorts
<1>4. CapturesInOrder'
  <2>1. \A k \in Job : job'[k].phase # "idle" => k # j /\ job'[k] = job[k]
    BY <1>1, <1>2
  <2>2. \A k \in Job : job'[k].phase # "idle" => job'[k].source \in capturePending'
    BY <2>1 DEF CapturesInOrder
  <2>3. \A k, l \in Job : k # l /\ job'[k].phase # "idle" /\ job'[l].phase # "idle"
                          => job'[k].source # job'[l].source
    BY <2>1 DEF CapturesInOrder
  <2>4. \A k \in Job : job'[k].phase \in {"captured", "stored"} => k # j /\ job'[k] = job[k]
    BY <2>1
  <2> QED
    BY <2>2, <2>3, <2>4 DEF CapturesInOrder
<1>5. BudgetHeld' /\ RetainedIsListed' /\ OldestLeavesFirst'
  BY SameRetained DEF facts, retained
<1> QED
  BY <1>3, <1>4, <1>5

\* The snapshot that is captured is the newest of all.
LEMMA CaptureKept ==
  ASSUME RetentionInv, NEW j \in Job, Capture(j)
  PROVE  RetentionInv'
<1> USE DEF RetentionInv
<1> DEFINE new == [job[j] EXCEPT !.phase = "captured", !.id = made + 1]
<1>1. /\ job' = [job EXCEPT ![j] = new]
      /\ job[j].phase = "capturing" /\ made < NSnapshots /\ made' = made + 1
      /\ expiresAt' = [expiresAt EXCEPT ![made + 1] = now + TTL]
      /\ UNCHANGED <<now, capturePending, snapshots, snapshotOrder, returned>>
  BY DEF Capture, Expiry, retained
<1>2. PICK n \in Sizes : size' = [size EXCEPT ![made + 1] = n]
  BY DEF Capture
<1>3. /\ NSnapshots \in Nat /\ MaxTime \in Nat /\ TTL \in Nat /\ now \in Nat /\ now <= MaxTime
      /\ made \in Nat /\ 1..made \subseteq Id /\ made + 1 \in Id /\ made + 1 \notin 1..made
      /\ 1..(made + 1) = (1..made) \cup {made + 1}
      /\ expiresAt \in [Id -> Nat]
  <2>1. /\ NSnapshots \in Nat /\ MaxTime \in Nat /\ TTL \in Nat /\ now \in Nat
        /\ made \in Nat /\ 1..made \subseteq Id /\ expiresAt \in [Id -> Nat]
    BY Sorts
  <2>2. now <= MaxTime
    BY <2>1 DEF RetentionTypeOK
  <2> QED
    BY <1>1, <2>1, <2>2 DEF Id
<1>4. /\ job[j] \in JobSorts /\ job \in [Job -> JobSorts]
  BY DEF RetentionTypeOK, JobSorts
<1>5. new \in JobSorts /\ new.phase = "captured" /\ new.id = made + 1 /\ new.source = job[j].source
  BY <1>3, <1>4 DEF JobSorts
<1> HIDE DEF new, JobSorts
<1>6. /\ job' \in [Job -> JobSorts]
      /\ job'[j] = new
      /\ \A k \in Job \ {j} : job'[k] = job[k]
  BY <1>1, <1>4, <1>5
<1>7. /\ \A i \in 1..made : expiresAt'[i] = expiresAt[i] /\ size'[i] = size[i]
      /\ expiresAt'[made + 1] = now + TTL
  BY <1>1, <1>2, <1>3 DEF RetentionTypeOK
<1>8. RetentionTypeOK'
  <2>1. now + TTL \in 0..(MaxTime + TTL)
    BY <1>3
  <2>2. expiresAt' \in [Id -> 0..(MaxTime + TTL)] /\ size' \in [Id -> Sizes \cup {0}]
    BY <1>1, <1>2, <1>3, <2>1 DEF RetentionTypeOK
  <2>3. made' \in 0..NSnapshots /\ 1..made \subseteq 1..made'
    BY <1>1, <1>3
  <2>4. /\ snapshots' \in [Source -> SUBSET (1..made')] /\ returned' \in SUBSET (1..made')
        /\ snapshotOrder' \in [Source -> Seq(1..made')]
    <3>1. Seq(1..made) \subseteq Seq(1..made')
      BY <2>3, SeqGrows
    <3> QED
      BY <1>1, <2>3, <3>1 DEF RetentionTypeOK
  <2>5. job' \in [Job -> [phase : {"idle", "capturing", "captured", "stored"},
                          source : Source \cup {"none"}, id : Id \cup {NoSnapshot}]]
    BY <1>6 DEF JobSorts
  <2> QED
    BY <1>1, <2>2, <2>3, <2>4, <2>5 DEF RetentionTypeOK
<1>9. CapturesInOrder'
  <2>1. /\ \A i \in 1..made' : expiresAt'[i] <= now' + TTL
        /\ \A i, k \in 1..made' : i < k => expiresAt'[i] <= expiresAt'[k]
    <3>1. \A i \in 1..made : expiresAt'[i] <= now + TTL
      BY <1>7 DEF CapturesInOrder
    <3>2. \A i, k \in 1..made : i < k => expiresAt'[i] <= expiresAt'[k]
      BY <1>7 DEF CapturesInOrder
    <3>3. \A i \in 1..(made + 1) : expiresAt'[i] <= now + TTL
      BY <1>3, <1>7, <3>1
    <3>4. \A i, k \in 1..(made + 1) : i < k => expiresAt'[i] <= expiresAt'[k]
      <4> SUFFICES ASSUME NEW i \in 1..(made + 1), NEW k \in 1..(made + 1), i < k
                   PROVE  expiresAt'[i] <= expiresAt'[k]
        OBVIOUS
      <4>1. i \in 1..made
        BY <1>3
      <4>2. CASE k \in 1..made
        BY <3>2, <4>1, <4>2
      <4>3. CASE k = made + 1
        BY <1>7, <3>1, <4>1, <4>3
      <4> QED
        BY <1>3, <4>2, <4>3
    <3> QED
      BY <1>1, <3>3, <3>4
  <2>2. \A s \in Source : \A i, k \in DOMAIN snapshotOrder'[s] :
          i < k => snapshotOrder'[s][i] < snapshotOrder'[s][k]
    BY <1>1 DEF CapturesInOrder
  <2>3. \A k \in Job : /\ job'[k].phase # "idle" => job[k].phase # "idle"
                       /\ job'[k].source = job[k].source
    BY <1>1, <1>5, <1>6
  <2>4. \A k \in Job : job'[k].phase # "idle" => job'[k].source \in capturePending'
    BY <1>1, <2>3 DEF CapturesInOrder
  <2>5. \A k, l \in Job : k # l /\ job'[k].phase # "idle" /\ job'[l].phase # "idle"
                          => job'[k].source # job'[l].source
    BY <2>3 DEF CapturesInOrder
  <2>6. \A k \in Job : job'[k].phase \in {"captured", "stored"} => job'[k].id \in 1..made'
    BY <1>1, <1>3, <1>5, <1>6 DEF CapturesInOrder
  <2>7. job[j].source \in Source
    BY <1>1 DEF CapturesInOrder, RetentionTypeOK
  <2>8. \A i \in DOMAIN snapshotOrder[job[j].source] : snapshotOrder[job[j].source][i] < made + 1
    <3>1. \A i \in DOMAIN snapshotOrder[job[j].source] : snapshotOrder[job[j].source][i] \in 1..made
      BY <2>7, Sorts, EntriesOfSeq
    <3> QED
      BY <1>3, <3>1
  <2>9. ASSUME NEW k \in Job, job'[k].phase = "captured"
        PROVE  \A i \in DOMAIN snapshotOrder'[job'[k].source] :
                 snapshotOrder'[job'[k].source][i] < job'[k].id
    <3>1. CASE k = j
      BY <1>1, <1>5, <1>6, <2>8, <3>1
    <3>2. CASE k # j
      BY <1>1, <1>6, <2>9, <3>2 DEF CapturesInOrder
    <3> QED
      BY <3>1, <3>2
  <2> QED
    BY <2>1, <2>2, <2>4, <2>5, <2>6, <2>9 DEF CapturesInOrder
<1>10. BudgetHeld'
  <2>1. Retained' = Retained /\ Retained \subseteq 1..made
    BY <1>1, Sorts DEF Retained
  <2>2. \A i \in Retained : size'[i] = size[i]
    BY <1>7, <2>1
  <2>3. UNION {{i} \X (1..size'[i]) : i \in Retained} = UNION {{i} \X (1..size[i]) : i \in Retained}
    BY <2>2
  <2> QED
    BY <2>1, <2>3 DEF BudgetHeld, Bytes
<1>11. AllListed'
  BY <1>1 DEF RetainedIsListed, AllListed, Listed
<1>12. RetainedIsListed' /\ OldestLeavesFirst'
  BY <1>8, <1>9, <1>11, AscendingSuffices, PTL
<1> QED
  BY <1>8, <1>9, <1>10, <1>12

-----------------------------------------------------------------------------

\* The lists that a store has when it begins to make room.
StoreOrder(j) ==
  [q \in Source |-> IF q = job[j].source THEN Capped(job[j].source, job[j].id) ELSE LiveOrder(q)]

\* The entries of a source that are still there, in their order.
LEMMA LiveLists ==
  ASSUME RetentionInv, NEW s \in Source
  PROVE  /\ LiveOrder(s) \in Seq(1..made)
         /\ Ascending(LiveOrder(s))
         /\ Listed(LiveOrder(s)) = Live(s)
         /\ Live(s) \subseteq Listed(snapshotOrder[s])
         /\ Live(s) \subseteq 1..made
<1> DEFINE list == snapshotOrder[s]
<1>1. list \in Seq(1..made) /\ list \in Seq(Nat) /\ Listed(list) \subseteq 1..made
  BY Sorts DEF RetentionInv
<1>2. Ascending(list)
  BY ListsAscend DEF RetentionInv
<1>3. Live(s) \subseteq Listed(list)
  BY DEF Live
<1>4. /\ LiveOrder(s) \in Seq(1..made)
      /\ Listed(LiveOrder(s)) = Listed(list) \cap Live(s)
  BY <1>1, KeepKeeps DEF LiveOrder
<1>5. Ascending(LiveOrder(s))
  BY <1>1, <1>2, KeepAscends DEF LiveOrder
<1> QED
  BY <1>1, <1>3, <1>4, <1>5

\* The lists of a store: what is live, the new snapshot at the end of its source's, and
\* nothing else; only beyond the cap does a live one leave.
LEMMA StoreLists ==
  ASSUME RetentionInv, NEW j \in Job, job[j].phase = "captured"
  PROVE  /\ job[j].source \in Source /\ job[j].id \in 1..made
         /\ \A q \in Source :
              /\ StoreOrder(j)[q] \in Seq(1..made)
              /\ Ascending(StoreOrder(j)[q])
              /\ Listed(StoreOrder(j)[q]) \subseteq Live(q) \cup {job[j].id}
              /\ q # job[j].source => Listed(StoreOrder(j)[q]) = Live(q)
              /\ \A i \in Live(q) : i \in Listed(StoreOrder(j)[q]) <=> ~BeyondCap(j, q, i)
<1> DEFINE s == job[j].source
           id == job[j].id
<1>1. s \in Source /\ id \in 1..made
  BY DEF RetentionInv, CapturesInOrder, RetentionTypeOK
<1>2. made \in Nat /\ MaximumSnapshots \in Nat \ {0}
  BY Sorts DEF RetentionInv
<1>3. \A q \in Source : StoreOrder(j)[q] = IF q = s THEN Capped(s, id) ELSE LiveOrder(q)
  BY DEF StoreOrder
<1> HIDE DEF s, id
<1>4. ASSUME NEW q \in Source, q # s
      PROVE  /\ StoreOrder(j)[q] \in Seq(1..made)
             /\ Ascending(StoreOrder(j)[q])
             /\ Listed(StoreOrder(j)[q]) = Live(q)
             /\ \A i \in Live(q) : ~BeyondCap(j, q, i)
  BY <1>3, <1>4, LiveLists DEF BeyondCap, s
<1>5. \A i \in Listed(LiveOrder(s)) : i < id
  <2>1. Listed(LiveOrder(s)) \subseteq Listed(snapshotOrder[s])
    BY <1>1, LiveLists
  <2>2. \A i \in DOMAIN snapshotOrder[s] : snapshotOrder[s][i] < id
    BY DEF RetentionInv, CapturesInOrder, s, id
  <2> QED
    BY <2>1, <2>2 DEF Listed
<1>6. /\ LiveOrder(s) \in Seq(1..made) /\ Ascending(LiveOrder(s)) /\ Listed(LiveOrder(s)) = Live(s)
      /\ Live(s) \subseteq 1..made
  BY <1>1, LiveLists
<1>7. LET order == Append(LiveOrder(s), id)
          newest == SubSeq(order, IF Len(order) <= MaximumSnapshots THEN 1
                                  ELSE Len(order) - MaximumSnapshots + 1, Len(order))
      IN  /\ newest \in Seq(1..made)
          /\ Ascending(newest)
          /\ Listed(newest) \subseteq Live(s) \cup {id}
          /\ \A i \in Live(s) : i \in Listed(newest) <=>
                                Cardinality({k \in Live(s) : k > i}) < MaximumSnapshots - 1
  <2> DEFINE list == LiveOrder(s)
  <2>1. list \in Seq(1..made) /\ Ascending(list) /\ Listed(list) = Live(s)
    BY <1>6
  <2>2. \A i \in Listed(list) : i < id
    BY <1>5
  <2> HIDE DEF list
  <2>3. LET order == Append(list, id)
            newest == SubSeq(order, IF Len(order) <= MaximumSnapshots THEN 1
                                    ELSE Len(order) - MaximumSnapshots + 1, Len(order))
        IN  /\ newest \in Seq(1..made)
            /\ Ascending(newest)
            /\ Listed(newest) \subseteq Listed(list) \cup {id}
            /\ \A i \in Listed(list) : i \in Listed(newest) <=>
                                       Cardinality({k \in Listed(list) : k > i}) < MaximumSnapshots - 1
    BY <1>1, <1>2, <2>1, <2>2, NewestAscend
  <2> QED
    BY <2>1, <2>3 DEF list
<1>8. /\ Capped(s, id) \in Seq(1..made)
      /\ Ascending(Capped(s, id))
      /\ Listed(Capped(s, id)) \subseteq Live(s) \cup {id}
      /\ \A i \in Live(s) : i \in Listed(Capped(s, id)) <=>
                            Cardinality({k \in Live(s) : k > i}) < MaximumSnapshots - 1
  BY <1>7 DEF Capped
<1>9. \A i \in Live(s) : i \in Listed(Capped(s, id)) <=> ~BeyondCap(j, s, i)
  <2> SUFFICES ASSUME NEW i \in Live(s)
               PROVE  ~(Cardinality({k \in Live(s) : k > i}) >= MaximumSnapshots - 1) <=>
                      Cardinality({k \in Live(s) : k > i}) < MaximumSnapshots - 1
    BY <1>8 DEF BeyondCap, s
  <2>1. IsFiniteSet(1..made)
    BY <1>2, FS_Interval
  <2>2. {k \in Live(s) : k > i} \in SUBSET (1..made)
    BY <1>6
  <2>3. Cardinality({k \in Live(s) : k > i}) \in Nat
    BY <2>1, <2>2, FS_Subset, FS_CardinalityType
  <2> QED
    BY <1>2, <2>3
<1>10. ASSUME NEW q \in Source, q = s
      PROVE  /\ StoreOrder(j)[q] \in Seq(1..made)
             /\ Ascending(StoreOrder(j)[q])
             /\ Listed(StoreOrder(j)[q]) \subseteq Live(q) \cup {id}
             /\ \A i \in Live(q) : i \in Listed(StoreOrder(j)[q]) <=> ~BeyondCap(j, q, i)
  BY <1>3, <1>8, <1>9, <1>10
<1> QED
  BY <1>1, <1>4, <1>10 DEF s, id

\* What a store leaves: the lists without the victims, which fit the budget.
LEMMA StoreLeaves ==
  ASSUME RetentionInv, NEW j \in Job, Store(j)
  PROVE  LET others == Others(StoreOrder(j), job[j].source, job[j].id) IN
         /\ job[j].phase = "captured"
         /\ job' = [job EXCEPT ![j].phase = "stored"]
         /\ UNCHANGED <<now, made, size, expiresAt, capturePending, returned>>
         /\ others \subseteq UNION {Live(q) : q \in Source}
         /\ others \subseteq Id
         /\ \A q \in Source : Listed(StoreOrder(j)[q]) \subseteq others \cup {job[j].id}
         /\ \E victims \in SUBSET others :
              /\ MakeRoom(job[j].id, others, victims)
              /\ snapshotOrder' = [q \in Source |-> Keep(StoreOrder(j)[q], Id \ victims)]
              /\ snapshots' = [q \in Source |-> Listed(StoreOrder(j)[q]) \ victims]
<1> DEFINE others == Others(StoreOrder(j), job[j].source, job[j].id)
<1>1. job[j].phase = "captured"
  BY DEF Store
<1>2. /\ job' = [job EXCEPT ![j].phase = "stored"]
      /\ UNCHANGED <<now, made, size, expiresAt, capturePending, returned>>
  BY DEF Store, facts
<1>4. \E victims \in SUBSET others :
        /\ MakeRoom(job[j].id, others, victims)
        /\ snapshotOrder' = [q \in Source |-> Keep(StoreOrder(j)[q], Id \ victims)]
        /\ snapshots' = [q \in Source |-> Listed(StoreOrder(j)[q]) \ victims]
  BY Zenon DEF Store, StoreOrder
<1>5. others = (UNION {Listed(StoreOrder(j)[q]) : q \in Source}) \ {job[j].id}
  BY DEF Others
<1> HIDE DEF others
<1>6. \A q \in Source : /\ Listed(StoreOrder(j)[q]) \subseteq Live(q) \cup {job[j].id}
                        /\ Live(q) \subseteq 1..made
  BY <1>1, StoreLists, LiveLists
<1>7. 1..made \subseteq Id
  BY Sorts DEF RetentionInv
<1>8. others \subseteq UNION {Live(q) : q \in Source} /\ others \subseteq Id
  BY <1>5, <1>6, <1>7
<1>9. \A q \in Source : Listed(StoreOrder(j)[q]) \subseteq others \cup {job[j].id}
  BY <1>5
<1> QED
  BY <1>1, <1>2, <1>4, <1>8, <1>9 DEF others

\* A store keeps the budget of all sources, and puts the newest snapshot last.
LEMMA StoreKept ==
  ASSUME RetentionInv, NEW j \in Job, Store(j)
  PROVE  RetentionInv'
<1> USE DEF RetentionInv
<1> DEFINE order == StoreOrder(j)
           id == job[j].id
           others == Others(order, job[j].source, id)
           new == [job[j] EXCEPT !.phase = "stored"]
<1>1. /\ job[j].phase = "captured"
      /\ job' = [job EXCEPT ![j] = new]
      /\ UNCHANGED <<now, made, size, expiresAt, capturePending, returned>>
      /\ others \subseteq Id
      /\ \A q \in Source : Listed(order[q]) \subseteq others \cup {id}
  BY StoreLeaves
<1>2. PICK victims \in SUBSET others :
        /\ MakeRoom(id, others, victims)
        /\ snapshotOrder' = [q \in Source |-> Keep(order[q], Id \ victims)]
        /\ snapshots' = [q \in Source |-> Listed(order[q]) \ victims]
  BY StoreLeaves
<1>3. /\ job[j].source \in Source /\ id \in 1..made
      /\ \A q \in Source : /\ order[q] \in Seq(1..made) /\ Ascending(order[q])
                           /\ Listed(order[q]) \subseteq Live(q) \cup {id}
                           /\ q # job[j].source => Listed(order[q]) = Live(q)
  BY <1>1, StoreLists
<1>4. made \in Nat /\ 1..made \subseteq Id /\ 1..made \subseteq Nat /\ size \in [Id -> Nat]
  BY Sorts
<1> HIDE DEF order, others
<1>5. ASSUME NEW q \in Source
      PROVE  /\ snapshotOrder'[q] \in Seq(1..made)
             /\ Ascending(snapshotOrder'[q])
             /\ Listed(snapshotOrder'[q]) = snapshots'[q]
             /\ snapshots'[q] = Listed(order[q]) \ victims
             /\ snapshots'[q] \subseteq 1..made
  <2>1. order[q] \in Seq(1..made) /\ order[q] \in Seq(Nat) /\ Ascending(order[q])
    BY <1>3, <1>4, SeqGrows
  <2>2. /\ Keep(order[q], Id \ victims) \in Seq(1..made)
        /\ Listed(Keep(order[q], Id \ victims)) = Listed(order[q]) \cap (Id \ victims)
    BY <2>1, KeepKeeps
  <2>3. Ascending(Keep(order[q], Id \ victims))
    BY <2>1, KeepAscends
  <2>4. Listed(order[q]) \subseteq 1..made
    BY <2>1, EntriesOfSeq DEF Listed
  <2>5. Listed(order[q]) \cap (Id \ victims) = Listed(order[q]) \ victims
    BY <1>4, <2>4
  <2> QED
    BY <1>2, <2>2, <2>3, <2>4, <2>5
<1>6. job[j] \in JobSorts /\ job \in [Job -> JobSorts]
  BY DEF RetentionTypeOK, JobSorts
<1>7. new \in JobSorts /\ new.phase = "stored" /\ new.id = id /\ new.source = job[j].source
  BY <1>6 DEF JobSorts
<1> HIDE DEF new, id, JobSorts
<1>8. /\ job' \in [Job -> JobSorts]
      /\ job'[j] = new
      /\ \A k \in Job \ {j} : job'[k] = job[k]
  BY <1>1, <1>6, <1>7
<1>9. RetentionTypeOK'
  <2>1. snapshots' \in [Source -> SUBSET (1..made)] /\ snapshotOrder' \in [Source -> Seq(1..made)]
    BY <1>2, <1>5
  <2>2. job' \in [Job -> [phase : {"idle", "capturing", "captured", "stored"},
                          source : Source \cup {"none"}, id : Id \cup {NoSnapshot}]]
    BY <1>8 DEF JobSorts
  <2> QED
    BY <1>1, <2>1, <2>2 DEF RetentionTypeOK
<1>10. CapturesInOrder'
  <2>1. \A s \in Source : \A i, k \in DOMAIN snapshotOrder'[s] :
          i < k => snapshotOrder'[s][i] < snapshotOrder'[s][k]
    BY <1>5 DEF Ascending
  <2>2. \A k \in Job : /\ job'[k].phase # "idle" => job[k].phase # "idle"
                       /\ job'[k].source = job[k].source
    BY <1>1, <1>7, <1>8
  <2>3. \A k \in Job : job'[k].phase # "idle" => job'[k].source \in capturePending'
    BY <1>1, <2>2 DEF CapturesInOrder
  <2>4. \A k, l \in Job : k # l /\ job'[k].phase # "idle" /\ job'[l].phase # "idle"
                          => job'[k].source # job'[l].source
    BY <2>2 DEF CapturesInOrder
  <2>5. \A k \in Job : job'[k].phase \in {"captured", "stored"} => job'[k].id \in 1..made'
    BY <1>1, <1>3, <1>7, <1>8 DEF CapturesInOrder
  <2>6. ASSUME NEW k \in Job, job'[k].phase = "captured"
        PROVE  \A i \in DOMAIN snapshotOrder'[job'[k].source] :
                 snapshotOrder'[job'[k].source][i] < job'[k].id
    <3>1. k # j /\ job'[k] = job[k] /\ job[k].phase = "captured"
      BY <1>7, <1>8, <2>6
    <3> DEFINE q == job[k].source
    <3>2. q # job[j].source /\ q \in Source
      BY <1>1, <3>1 DEF CapturesInOrder, RetentionTypeOK
    <3>3. \A i \in Listed(snapshotOrder[q]) : i < job[k].id
      BY <3>1 DEF CapturesInOrder, Listed
    <3> HIDE DEF q
    <3>4. Listed(snapshotOrder'[q]) \subseteq Live(q) /\ Live(q) \subseteq Listed(snapshotOrder[q])
      <4>1. Listed(snapshotOrder'[q]) \subseteq Listed(order[q])
        BY <1>5, <3>2
      <4>2. Listed(order[q]) = Live(q)
        BY <1>3, <3>2
      <4>3. Live(q) \subseteq Listed(snapshotOrder[q])
        BY DEF Live
      <4> QED
        BY <4>1, <4>2, <4>3
    <3>5. \A i \in DOMAIN snapshotOrder'[q] : snapshotOrder'[q][i] \in Listed(snapshotOrder'[q])
      BY DEF Listed
    <3> QED
      BY <3>1, <3>3, <3>4, <3>5 DEF q
  <2> QED
    BY <1>1, <2>1, <2>3, <2>4, <2>5, <2>6 DEF CapturesInOrder
<1>11. BudgetHeld'
  <2> DEFINE left == UNION {snapshots'[s] : s \in Source}
             fitting == (others \ victims) \cup {id}
  <2>1. left \in SUBSET fitting /\ fitting \in SUBSET Id
    BY <1>1, <1>3, <1>4, <1>5
  <2>2. Bytes(fitting) <= MaxRetained
    BY <1>2 DEF MakeRoom
  <2> HIDE DEF left, fitting
  <2>3. Bytes(left) <= Bytes(fitting) /\ Bytes(left) \in Nat /\ Bytes(fitting) \in Nat
    BY <1>4, <2>1, BytesGrow
  <2>4. Bytes(left) <= MaxRetained
    BY <2>2, <2>3, Sorts
  <2> QED
    BY <1>1, <2>4 DEF BudgetHeld, Retained, Bytes, left
<1>12. AllListed'
  BY <1>5 DEF AllListed, Listed
<1>13. RetainedIsListed' /\ OldestLeavesFirst'
  BY <1>9, <1>10, <1>12, AscendingSuffices, PTL
<1> QED
  BY <1>9, <1>10, <1>11, <1>13

\* A reader who takes a snapshot out of the map of a source, and out of its list or not.
LEMMA TakenKept ==
  ASSUME RetentionInv, NEW s \in Source, NEW id,
         snapshots' = [snapshots EXCEPT ![s] = @ \ {id}],
         \/ UNCHANGED snapshotOrder
         \/ snapshotOrder' = [snapshotOrder EXCEPT ![s] = Keep(@, Id \ {id})],
         UNCHANGED <<now, made, size, expiresAt, job, capturePending, returned>>
  PROVE  RetentionInv'
<1> USE DEF RetentionInv
<1>1. /\ made \in Nat /\ 1..made \subseteq Id /\ size \in [Id -> Nat] /\ MaxRetained \in Nat
      /\ snapshots \in [Source -> SUBSET (1..made)] /\ snapshotOrder \in [Source -> Seq(1..made)]
  BY Sorts DEF RetentionTypeOK
<1>2. ASSUME NEW q \in Source
      PROVE  /\ snapshotOrder'[q] \in Seq(1..made)
             /\ Ascending(snapshotOrder'[q])
             /\ snapshots'[q] \subseteq snapshots[q]
             /\ snapshots'[q] \subseteq Listed(snapshotOrder'[q])
             /\ Listed(snapshotOrder'[q]) \subseteq Listed(snapshotOrder[q])
  <2>1. /\ snapshotOrder[q] \in Seq(1..made) /\ snapshotOrder[q] \in Seq(Nat)
        /\ Ascending(snapshotOrder[q])
        /\ snapshots[q] \subseteq Listed(snapshotOrder[q]) /\ snapshots[q] \subseteq Id
    BY <1>1, Sorts, ListsAscend DEF RetainedIsListed
  <2>2. CASE snapshotOrder'[q] = snapshotOrder[q]
    BY <1>1, <2>1, <2>2
  <2>3. CASE q = s /\ snapshotOrder'[q] = Keep(snapshotOrder[q], Id \ {id})
    <3>1. /\ Keep(snapshotOrder[q], Id \ {id}) \in Seq(1..made)
          /\ Listed(Keep(snapshotOrder[q], Id \ {id})) = Listed(snapshotOrder[q]) \cap (Id \ {id})
      BY <2>1, KeepKeeps
    <3>2. Ascending(Keep(snapshotOrder[q], Id \ {id}))
      BY <2>1, KeepAscends
    <3>3. snapshots'[q] = snapshots[q] \ {id}
      BY <1>1, <2>3
    <3> QED
      BY <2>1, <2>3, <3>1, <3>2, <3>3
  <2> QED
    BY <1>1, <2>2, <2>3
<1>3. RetentionTypeOK'
  <2>1. snapshots' \in [Source -> SUBSET (1..made)] /\ snapshotOrder' \in [Source -> Seq(1..made)]
    <3>1. snapshots'[s] \in SUBSET (1..made) /\ snapshotOrder'[s] \in Seq(1..made)
      BY <1>1, <1>2
    <3> QED
      BY <1>1, <1>2
  <2> QED
    BY <2>1 DEF RetentionTypeOK
<1>4. CapturesInOrder'
  <2>1. \A q \in Source : \A i, k \in DOMAIN snapshotOrder'[q] :
          i < k => snapshotOrder'[q][i] < snapshotOrder'[q][k]
    BY <1>2 DEF Ascending
  <2>2. ASSUME NEW k \in Job, job[k].phase = "captured"
        PROVE  \A i \in DOMAIN snapshotOrder'[job[k].source] :
                 snapshotOrder'[job[k].source][i] < job[k].id
    <3> DEFINE q == job[k].source
    <3>1. q \in Source
      BY <2>2 DEF CapturesInOrder, RetentionTypeOK
    <3>2. \A i \in Listed(snapshotOrder[q]) : i < job[k].id
      BY <2>2 DEF CapturesInOrder, Listed
    <3> HIDE DEF q
    <3>3. \A i \in DOMAIN snapshotOrder'[q] : snapshotOrder'[q][i] \in Listed(snapshotOrder'[q])
      BY DEF Listed
    <3> QED
      BY <1>2, <3>1, <3>2, <3>3 DEF q
  <2> QED
    BY <2>1, <2>2 DEF CapturesInOrder
<1>5. BudgetHeld'
  <2> DEFINE left == UNION {snapshots'[q] : q \in Source}
  <2>1. left \in SUBSET Retained /\ Retained \in SUBSET Id
    BY <1>1, <1>2 DEF Retained
  <2> HIDE DEF left
  <2>2. Bytes(left) <= Bytes(Retained) /\ Bytes(left) \in Nat /\ Bytes(Retained) \in Nat
    BY <1>1, <2>1, BytesGrow
  <2>3. Bytes(left) <= MaxRetained
    BY <1>1, <2>2 DEF BudgetHeld
  <2> QED
    BY <2>3 DEF BudgetHeld, Retained, Bytes, left
<1>6. AllListed'
  BY <1>2 DEF AllListed, Listed
<1>7. RetainedIsListed' /\ OldestLeavesFirst'
  BY <1>3, <1>4, <1>6, AscendingSuffices, PTL
<1> QED
  BY <1>3, <1>4, <1>5, <1>7

-----------------------------------------------------------------------------

\* Retention begins with nothing.
LEMMA InitRetention == RetentionInit => RetentionInv
<1> SUFFICES ASSUME RetentionInit
             PROVE  RetentionInv
  OBVIOUS
<1>1. /\ NSnapshots \in Nat /\ MaxTime \in Nat /\ TTL \in Nat \ {0} /\ MaxRetained \in Nat
  BY RetentionAssumption
<1>2. \A s \in Source : snapshots[s] = {} /\ snapshotOrder[s] = <<>> /\ DOMAIN snapshotOrder[s] = {}
  BY DEF RetentionInit
<1>3. \A j \in Job : job[j] = NoJob /\ job[j].phase = "idle"
  BY DEF RetentionInit, NoJob
<1>4. RetentionTypeOK
  <2>1. NoJob \in [phase : {"idle", "capturing", "captured", "stored"},
                   source : Source \cup {"none"}, id : Id \cup {NoSnapshot}]
    BY DEF NoJob
  <2>2. 0 \in 0..MaxTime /\ 0 \in 0..NSnapshots /\ 0 \in 0..(MaxTime + TTL)
    BY <1>1
  <2> QED
    BY <2>1, <2>2 DEF RetentionTypeOK, RetentionInit
<1>5. CapturesInOrder
  <2>1. 1..made = {}
    BY DEF RetentionInit
  <2> QED
    BY <1>2, <1>3, <2>1 DEF CapturesInOrder
<1>6. BudgetHeld
  <2>1. Retained = {}
    BY <1>2 DEF Retained
  <2>2. UNION {{i} \X (1..size[i]) : i \in Retained} = {}
    BY <2>1
  <2>3. Bytes(Retained) = 0
    BY <2>2, FS_EmptySet DEF Bytes
  <2> QED
    BY <1>1, <2>3 DEF BudgetHeld
<1>7. AllListed
  BY <1>2 DEF AllListed
<1> QED
  BY <1>4, <1>5, <1>6, <1>7, AscendingSuffices DEF RetentionInv

\* Every step of the captures and the readers keeps it.
LEMMA StepRetention == RetentionInv /\ [RetentionNext]_retentionVars => RetentionInv'
<1> SUFFICES ASSUME RetentionInv, [RetentionNext]_retentionVars
             PROVE  RetentionInv'
  OBVIOUS
<1>1. ASSUME NEW j \in Job, NEW s \in Source, Admit(j, s)
      PROVE  RetentionInv'
  BY <1>1, AdmitKept
<1>2. returned \subseteq 1..made
  BY DEF RetentionInv, RetentionTypeOK
<1>3. ASSUME NEW j \in Job, CaptureFails(j) \/ StoreRefused(j)
      PROVE  RetentionInv'
  BY <1>2, <1>3, EndKept DEF CaptureFails, StoreRefused, facts, retained
<1>4. ASSUME NEW j \in Job, Capture(j)
      PROVE  RetentionInv'
  BY <1>4, CaptureKept
<1>5. ASSUME NEW j \in Job, Store(j)
      PROVE  RetentionInv'
  BY <1>5, StoreKept
<1>6. ASSUME NEW j \in Job, Return(j)
      PROVE  RetentionInv'
  <2>1. job[j].id \in 1..made
    BY <1>6 DEF Return, RetentionInv, CapturesInOrder
  <2> QED
    BY <1>2, <1>6, <2>1, EndKept DEF Return, facts, retained
<1>7. ASSUME NEW s \in Source, NEW id, ReadExpired(s, id) \/ Delete(s, id)
      PROVE  RetentionInv'
  BY <1>7, TakenKept DEF ReadExpired, Delete, facts
<1>8. CASE Tick
  BY <1>8, TickKept
<1>9. CASE UNCHANGED retentionVars
  BY <1>9 DEF retentionVars, facts, retained, RetentionInv, RetentionTypeOK, BudgetHeld, Bytes,
              Retained, RetainedIsListed, Listed, OldestLeavesFirst, CapturesInOrder
<1> QED
  BY <1>1, <1>3, <1>4, <1>5, <1>6, <1>7, <1>8, <1>9 DEF RetentionNext

\* All sources together never retain more snapshots than the budget has bytes
\* for, none escapes the count, and each source lists them in the order they
\* expire in: for every number of sources, captures and readers, sizes, limits
\* and lifetimes.
THEOREM RetentionIsSound == RetentionSpec => []RetentionInv
BY InitRetention, StepRetention, PTL DEF RetentionSpec

\* A snapshot that a step takes from its source while it is live was deleted, or was
\* beyond the cap, or made room within the budget.
LEMMA DroppedFor ==
  ASSUME RetentionInv, RetentionNext, NEW s \in Source, NEW i \in Live(s) \ snapshots'[s]
  PROVE  \/ i \in returned /\ Delete(s, i)
         \/ \E j \in Job : /\ job[j].phase = "captured" /\ job'[j].phase = "stored"
                           /\ BeyondCap(j, s, i) \/ Crowded(j, i)
<1>1. i \in snapshots[s] /\ expiresAt[i] > now
  BY DEF Live
<1>2. snapshots \in [Source -> SUBSET (1..made)]
  BY DEF RetentionInv, RetentionTypeOK
<1>3. CASE UNCHANGED snapshots
  BY <1>1, <1>3
<1>4. ASSUME NEW q \in Source, NEW id \in returned, Delete(q, id)
      PROVE  i \in returned /\ Delete(s, i)
  <2>1. q = s /\ id = i
    BY <1>1, <1>2, <1>4 DEF Delete
  <2> QED
    BY <1>4, <2>1
<1>5. ASSUME NEW q \in Source, NEW id \in returned, ReadExpired(q, id)
      PROVE  FALSE
  <2>1. i # id
    <3>1. now \in Nat /\ \A k \in 1..made : expiresAt[k] \in Nat
      BY Sorts DEF RetentionInv
    <3> QED
      BY <1>1, <1>2, <1>5, <3>1 DEF ReadExpired
  <2> QED
    BY <1>1, <1>2, <1>5, <2>1 DEF ReadExpired
<1>6. ASSUME NEW j \in Job, Store(j)
      PROVE  job[j].phase = "captured" /\ job'[j].phase = "stored"
  BY <1>6, StoreLeaves DEF RetentionInv, RetentionTypeOK
<1>7. ASSUME NEW j \in Job, Store(j), ~BeyondCap(j, s, i)
      PROVE  Crowded(j, i)
  <2> DEFINE order == StoreOrder(j)
             id == job[j].id
             others == Others(order, job[j].source, id)
             room == UNION {{k \in Live(q) : expiresAt[k] >= expiresAt[i] /\ ~BeyondCap(j, q, k)} :
                              q \in Source}
  <2>1. job[j].phase = "captured"
    BY <1>6, <1>7
  <2>2. PICK victims \in SUBSET others :
          /\ MakeRoom(id, others, victims)
          /\ snapshots' = [q \in Source |-> Listed(order[q]) \ victims]
    BY <1>7, StoreLeaves
  <2>3. /\ id \in 1..made
        /\ \A q \in Source : /\ Listed(order[q]) \subseteq Live(q) \cup {id}
                             /\ \A k \in Live(q) : k \in Listed(order[q]) <=> ~BeyondCap(j, q, k)
    BY <2>1, StoreLists
  <2>4. others = (UNION {Listed(order[q]) : q \in Source}) \ {id}
    BY DEF Others
  <2>5. /\ 1..made \subseteq Id /\ size \in [Id -> Nat] /\ MaxRetained \in Nat
        /\ \A q \in Source : Live(q) \subseteq 1..made
    BY Sorts, LiveLists DEF RetentionInv
  <2> HIDE DEF order, others, id
  <2>6. i \in victims
    BY <1>7, <2>2, <2>3
  <2>7. PICK v \in victims : /\ \A w \in victims : expiresAt[w] <= expiresAt[v]
                           /\ ~(Bytes(((others \ victims) \cup {v}) \cup {id}) <= MaxRetained)
    BY <2>2, <2>6 DEF MakeRoom
  <2>8. \A k \in (others \ victims) \cup {v} : expiresAt[k] >= expiresAt[i]
    BY <2>2, <2>6, <2>7 DEF MakeRoom
  <2>9. \A k \in others : \E q \in Source : k \in Live(q) /\ ~BeyondCap(j, q, k)
    BY <2>3, <2>4
  <2>10. (others \ victims) \cup {v} \subseteq room
    BY <2>2, <2>8, <2>9
  <2>11. {id} \cup room \in SUBSET Id
    BY <2>3, <2>5
  <2> DEFINE most == ((others \ victims) \cup {v}) \cup {id}
  <2>12. most \in SUBSET ({id} \cup room)
    BY <2>10
  <2> HIDE DEF room, most
  <2>13. /\ Bytes(most) <= Bytes({id} \cup room)
         /\ Bytes(most) \in Nat /\ Bytes({id} \cup room) \in Nat
    BY <2>5, <2>11, <2>12, BytesGrow
  <2>14. ~(Bytes(most) <= MaxRetained)
    BY <2>7 DEF most
  <2>15. Bytes({id} \cup room) > MaxRetained
    BY <2>5, <2>13, <2>14
  <2> QED
    BY <2>15 DEF Crowded, room, id
<1>8. ASSUME NEW j \in Job, NEW q \in Source,
             Admit(j, q) \/ CaptureFails(j) \/ Capture(j) \/ StoreRefused(j) \/ Return(j) \/ Tick
      PROVE  UNCHANGED snapshots
  BY <1>8 DEF Admit, CaptureFails, Capture, StoreRefused, Return, Tick, retained
<1>9. Tick => UNCHANGED snapshots
  BY DEF Tick, retained
<1> QED
  BY <1>3, <1>4, <1>5, <1>6, <1>7, <1>8, <1>9 DEF RetentionNext

\* A snapshot that has not expired gives way only to its deletion, to a newer one
\* of its source beyond the cap, or to a budget that is short even of those that
\* expire no earlier.
THEOREM NothingIsDroppedInVain == RetentionSpec => NothingDroppedInVain
<1>1. RetentionInv /\ [RetentionNext]_retentionVars =>
        [\A s \in Source : \A i \in Live(s) \ snapshots'[s] :
           \/ i \in returned /\ Delete(s, i)
           \/ \E j \in Job : /\ job[j].phase = "captured" /\ job'[j].phase = "stored"
                             /\ BeyondCap(j, s, i) \/ Crowded(j, i)]_retentionVars
  BY DroppedFor
<1> QED
  BY <1>1, RetentionIsSound, PTL DEF RetentionSpec, NothingDroppedInVain
=============================================================================

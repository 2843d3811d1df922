------------------------ MODULE PipelineControl_proofs ------------------------
(***************************************************************************)
(* What the control of a pipeline keeps, for every number of callers,      *)
(* processes, runs and frames.                                             *)
(***************************************************************************)
EXTENDS PipelineControl, WellFoundedInduction, TLAPS

\* The newest of some frames is one of them.
LEMMA NewestIsListed ==
  ASSUME NEW S \in SUBSET Frame, S # {}
  PROVE  Max(S) \in S
<1> DEFINE T == {MaxFrames - i : i \in S}
<1>1. T \in SUBSET Nat /\ T # {}
  BY ConstantsAssumption DEF Frame
<1> HIDE DEF T
<1>2. PICK n \in T : \A m \in T : ~ (<<m, n>> \in OpToRel(<, Nat))
  BY <1>1, NatLessThanWellFounded, WFMin
<1>3. \A m \in T : n <= m
  <2> SUFFICES ASSUME NEW m \in T PROVE n <= m
    OBVIOUS
  <2>1. m \in Nat /\ n \in Nat /\ ~ (m < n)
    BY <1>1, <1>2 DEF OpToRel
  <2> QED
    BY <2>1
<1>4. PICK i \in S : n = MaxFrames - i
  BY <1>2 DEF T
<1>5. \A j \in S : i >= j
  <2> SUFFICES ASSUME NEW j \in S PROVE i >= j
    OBVIOUS
  <2>1. MaxFrames - j \in T
    BY DEF T
  <2>2. MaxFrames - i <= MaxFrames - j
    BY <1>3, <1>4, <2>1
  <2>3. i \in Nat /\ j \in Nat /\ MaxFrames \in Nat
    BY ConstantsAssumption DEF Frame
  <2> QED
    BY <2>2, <2>3
<1> QED
  BY <1>5 DEF Max

\* Every step keeps the types of the calls.
LEMMA CallsKept ==
  ASSUME CallsOK, [Next]_vars
  PROVE  CallsOK'
<1>1. ASSUME NEW c \in Caller, NEW o \in Operation, Begin(c, o)
      PROVE  CallsOK'
  BY <1>1, ConstantsAssumption DEF Begin, control, runs, captures, Lifecycle, Operation, CallsOK
<1>2. ASSUME NEW c \in Caller, StartBegins(c)
      PROVE  CallsOK'
  BY <1>2, ConstantsAssumption DEF StartBegins, control, runs, captures, Takes, Goes, CallsOK
<1>3. ASSUME NEW c \in Caller, StartJoins(c)
      PROVE  CallsOK'
  BY <1>3, ConstantsAssumption DEF StartJoins, control, runs, captures, Returns, CallsOK
<1>4. ASSUME NEW c \in Caller, Prepare(c)
      PROVE  CallsOK'
  BY <1>4, ConstantsAssumption DEF Prepare, control, runs, captures, Goes, ClearScratch, Empty,
     CallsOK
<1>5. ASSUME NEW c \in Caller, Spawn(c)
      PROVE  CallsOK'
  BY <1>5, ConstantsAssumption DEF Spawn, control, runs, captures, Goes, CallsOK
<1>6. ASSUME NEW c \in Caller, StartFails(c)
      PROVE  CallsOK'
  BY <1>6, ConstantsAssumption DEF StartFails, control, runs, captures, Errors, CallsOK
<1>7. ASSUME NEW c \in Caller, Record(c)
      PROVE  CallsOK'
  BY <1>7, ConstantsAssumption DEF Record, control, runs, captures, Goes, NextGeneration, CallsOK
<1>8. ASSUME NEW c \in Caller, DoesNotComeUp(c)
      PROVE  CallsOK'
  BY <1>8, ConstantsAssumption DEF DoesNotComeUp, control, runs, captures, Done, RunEnded, Errors,
     CallsOK
<1>9. ASSUME NEW c \in Caller, Settles(c)
      PROVE  CallsOK'
  BY <1>9, ConstantsAssumption DEF Settles, control, runs, captures, SettleState, Returns, CallsOK
<1>10. ASSUME NEW c \in Caller, StopBegins(c)
      PROVE  CallsOK'
  BY <1>10, ConstantsAssumption DEF StopBegins, control, runs, captures, Takes, Goes, Terminate,
     CallsOK
<1>11. ASSUME NEW c \in Caller, KeyframeBegins(c)
      PROVE  CallsOK'
  BY <1>11, ConstantsAssumption DEF KeyframeBegins, control, runs, captures, Takes, Goes,
     Terminate, CallsOK
<1>12. ASSUME NEW c \in Caller, KeyframeCoalesces(c)
      PROVE  CallsOK'
  BY <1>12, ConstantsAssumption DEF KeyframeCoalesces, control, runs, captures, Returns, CallsOK
<1>13. ASSUME NEW c \in Caller, KeyframeRefused(c)
      PROVE  CallsOK'
  BY <1>13, ConstantsAssumption DEF KeyframeRefused, control, runs, captures, Errors, CallsOK
<1>14. ASSUME NEW c \in Caller, CloseBegins(c)
      PROVE  CallsOK'
  BY <1>14, ConstantsAssumption DEF CloseBegins, control, runs, captures, Takes, Goes, Terminate,
     CallsOK
<1>15. ASSUME NEW c \in Caller, StopReaped(c)
      PROVE  CallsOK'
  BY <1>15, ConstantsAssumption DEF StopReaped, control, runs, captures, Goes, Reaped, Done, CallsOK
<1>16. ASSUME NEW c \in Caller, KeyframeReaped(c)
      PROVE  CallsOK'
  BY <1>16, ConstantsAssumption DEF KeyframeReaped, control, runs, captures, Goes, Reaped, Done,
     CallsOK
<1>17. ASSUME NEW c \in Caller, Clear(c)
      PROVE  CallsOK'
  BY <1>17, ConstantsAssumption DEF Clear, control, runs, captures, ClearScratch, Empty, Returns,
     CallsOK
<1>18. ASSUME NEW c \in Caller, Receipt(c)
      PROVE  CallsOK'
  BY <1>18, ConstantsAssumption DEF Receipt, control, runs, captures, Goes, CallsOK
<1>19. ASSUME NEW c \in Caller, CaptureLists(c)
      PROVE  CallsOK'
  BY <1>19, ConstantsAssumption DEF CaptureLists, control, runs, captures, Goes, Files, CallsOK
<1>20. ASSUME NEW c \in Caller, CaptureFails(c)
      PROVE  CallsOK'
  BY <1>20, ConstantsAssumption DEF CaptureFails, control, runs, captures, Goes, CallsOK
<1>21. ASSUME NEW c \in Caller, CaptureReads(c)
      PROVE  CallsOK'
  BY <1>21, ConstantsAssumption DEF CaptureReads, control, runs, captures, Newest, CallsOK
<1>22. ASSUME NEW c \in Caller, Respond(c)
      PROVE  CallsOK'
  BY <1>22, ConstantsAssumption DEF Respond, control, runs, captures, Goes, NoFrame, CallsOK
<1>23. ASSUME NEW r \in Run, NEW p \in Process, ProcessExits(r, p)
      PROVE  CallsOK'
  BY <1>23, ConstantsAssumption DEF ProcessExits, control, runs, captures, CallsOK
<1>24. ASSUME NEW r \in Run, SupervisorInterrupts(r)
      PROVE  CallsOK'
  BY <1>24, ConstantsAssumption DEF SupervisorInterrupts, control, runs, captures, Interrupt,
     CallsOK
<1>25. ASSUME NEW r \in Run, SupervisorEnds(r)
      PROVE  CallsOK'
  BY <1>25, ConstantsAssumption DEF SupervisorEnds, control, runs, captures, CallsOK
<1>26. ASSUME NEW r \in Run, Watch(r)
      PROVE  CallsOK'
  BY <1>26, ConstantsAssumption DEF Watch, control, runs, captures, Done, RunEnded, CallsOK
<1>27. ASSUME NEW r \in Run, FrameWritten(r)
      PROVE  CallsOK'
  BY <1>27, ConstantsAssumption DEF FrameWritten, control, runs, captures, CallsOK
<1>28. CASE UNCHANGED vars
  BY <1>28, ConstantsAssumption DEF vars, control, runs, captures, CallsOK
<1> QED
  BY <1>1, <1>2, <1>3, <1>4, <1>5, <1>6, <1>7, <1>8, <1>9, <1>10, <1>11, <1>12, <1>13, <1>14,
     <1>15, <1>16, <1>17, <1>18, <1>19, <1>20, <1>21, <1>22, <1>23, <1>24, <1>25, <1>26, <1>27,
     <1>28 DEF Next, Lifecycles, Captures, Supervision

\* Every step keeps the types of the runs.
LEMMA RunsKept ==
  ASSUME CallsOK, RunsOK, SupervisionInv, OwnerInv, [Next]_vars
  PROVE  RunsOK'
<1>1. ASSUME NEW c \in Caller, NEW o \in Operation, Begin(c, o)
      PROVE  RunsOK'
  BY <1>1, ConstantsAssumption DEF Begin, control, runs, captures, Lifecycle, Operation, CallsOK,
     RunsOK, SupervisionInv, OwnerInv, Run, NoRun
<1>2. ASSUME NEW c \in Caller, StartBegins(c)
      PROVE  RunsOK'
  BY <1>2, ConstantsAssumption DEF StartBegins, control, runs, captures, Takes, Goes, CallsOK,
     RunsOK, SupervisionInv, OwnerInv, Run, NoRun
<1>3. ASSUME NEW c \in Caller, StartJoins(c)
      PROVE  RunsOK'
  BY <1>3, ConstantsAssumption DEF StartJoins, control, runs, captures, Returns, CallsOK, RunsOK,
     SupervisionInv, OwnerInv, Run, NoRun
<1>4. ASSUME NEW c \in Caller, Prepare(c)
      PROVE  RunsOK'
  BY <1>4, ConstantsAssumption DEF Prepare, control, runs, captures, Goes, ClearScratch, Empty,
     CallsOK, RunsOK, SupervisionInv, OwnerInv, Run, NoRun
<1>5. ASSUME NEW c \in Caller, Spawn(c)
      PROVE  RunsOK'
  BY <1>5, ConstantsAssumption DEF Spawn, control, runs, captures, Goes, CallsOK, RunsOK,
     SupervisionInv, OwnerInv, Run, NoRun
<1>6. ASSUME NEW c \in Caller, StartFails(c)
      PROVE  RunsOK'
  BY <1>6, ConstantsAssumption DEF StartFails, control, runs, captures, Errors, CallsOK, RunsOK,
     SupervisionInv, OwnerInv, Run, NoRun
<1>7. ASSUME NEW c \in Caller, Record(c)
      PROVE  RunsOK'
  BY <1>7, ConstantsAssumption DEF Record, control, runs, captures, Goes, NextGeneration, CallsOK,
     RunsOK, SupervisionInv, OwnerInv, Run, NoRun
<1>8. ASSUME NEW c \in Caller, DoesNotComeUp(c)
      PROVE  RunsOK'
  BY <1>8, ConstantsAssumption DEF DoesNotComeUp, control, runs, captures, Done, RunEnded, Errors,
     CallsOK, RunsOK, SupervisionInv, OwnerInv, Run, NoRun
<1>9. ASSUME NEW c \in Caller, Settles(c)
      PROVE  RunsOK'
  BY <1>9, ConstantsAssumption DEF Settles, control, runs, captures, SettleState, Returns, CallsOK,
     RunsOK, SupervisionInv, OwnerInv, Run, NoRun
<1>10. ASSUME NEW c \in Caller, StopBegins(c)
      PROVE  RunsOK'
  <2>1. desiredActive' \in BOOLEAN /\ closed' \in BOOLEAN
    <3>1. desiredActive' = FALSE
      BY <1>10 DEF StopBegins, control
    <3>2. closed' \in BOOLEAN
      <4>1. closed' = closed
        BY <1>10 DEF StopBegins, control
      <4> QED
        BY <4>1, Zenon DEF RunsOK
    <3> QED
      BY <3>1, <3>2, Zenon
  <2>2. run # NoRun => run \in Run
    BY ConstantsAssumption DEF RunsOK, Run, NoRun
  <2>3. /\ victim' \in 0..generation /\ stopping' \in SUBSET Run /\ signalled' \in SUBSET Run
    BY <1>10, <2>2 DEF StopBegins, Terminate, RunsOK
  <2> QED
    BY <1>10, <2>1, <2>3, ConstantsAssumption DEF StopBegins, RunsOK, NoRun
<1>11. ASSUME NEW c \in Caller, KeyframeBegins(c)
      PROVE  RunsOK'
  BY <1>11, ConstantsAssumption DEF KeyframeBegins, control, runs, captures, Takes, Goes,
     Terminate, CallsOK, RunsOK, SupervisionInv, OwnerInv, Run, NoRun
<1>12. ASSUME NEW c \in Caller, KeyframeCoalesces(c)
      PROVE  RunsOK'
  BY <1>12, ConstantsAssumption DEF KeyframeCoalesces, control, runs, captures, Returns, CallsOK,
     RunsOK, SupervisionInv, OwnerInv, Run, NoRun
<1>13. ASSUME NEW c \in Caller, KeyframeRefused(c)
      PROVE  RunsOK'
  BY <1>13, ConstantsAssumption DEF KeyframeRefused, control, runs, captures, Errors, CallsOK,
     RunsOK, SupervisionInv, OwnerInv, Run, NoRun
<1>14. ASSUME NEW c \in Caller, CloseBegins(c)
      PROVE  RunsOK'
  <2>1. desiredActive' \in BOOLEAN /\ closed' \in BOOLEAN
    <3>1. desiredActive' = FALSE
      BY <1>14 DEF CloseBegins, control
    <3>2. closed' \in BOOLEAN
      <4>1. closed' = TRUE
        BY <1>14 DEF CloseBegins, control
      <4> QED
        BY <4>1, Zenon
    <3> QED
      BY <3>1, <3>2, Zenon
  <2>2. run # NoRun => run \in Run
    BY ConstantsAssumption DEF RunsOK, Run, NoRun
  <2>3. /\ victim' \in 0..generation /\ stopping' \in SUBSET Run /\ signalled' \in SUBSET Run
    BY <1>14, <2>2 DEF CloseBegins, Terminate, RunsOK
  <2> QED
    BY <1>14, <2>1, <2>3, ConstantsAssumption DEF CloseBegins, RunsOK, NoRun
<1>15. ASSUME NEW c \in Caller, StopReaped(c)
      PROVE  RunsOK'
  BY <1>15, ConstantsAssumption DEF StopReaped, control, runs, captures, Goes, Reaped, Done,
     CallsOK, RunsOK, SupervisionInv, OwnerInv, Run, NoRun
<1>16. ASSUME NEW c \in Caller, KeyframeReaped(c)
      PROVE  RunsOK'
  BY <1>16, ConstantsAssumption DEF KeyframeReaped, control, runs, captures, Goes, Reaped, Done,
     CallsOK, RunsOK, SupervisionInv, OwnerInv, Run, NoRun
<1>17. ASSUME NEW c \in Caller, Clear(c)
      PROVE  RunsOK'
  BY <1>17, ConstantsAssumption DEF Clear, control, runs, captures, ClearScratch, Empty, Returns,
     CallsOK, RunsOK, SupervisionInv, OwnerInv, Run, NoRun
<1>18. ASSUME NEW c \in Caller, Receipt(c)
      PROVE  RunsOK'
  BY <1>18, ConstantsAssumption DEF Receipt, control, runs, captures, Goes, CallsOK, RunsOK,
     SupervisionInv, OwnerInv, Run, NoRun
<1>19. ASSUME NEW c \in Caller, CaptureLists(c)
      PROVE  RunsOK'
  BY <1>19, ConstantsAssumption DEF CaptureLists, control, runs, captures, Goes, Files, CallsOK,
     RunsOK, SupervisionInv, OwnerInv, Run, NoRun
<1>20. ASSUME NEW c \in Caller, CaptureFails(c)
      PROVE  RunsOK'
  BY <1>20, ConstantsAssumption DEF CaptureFails, control, runs, captures, Goes, CallsOK, RunsOK,
     SupervisionInv, OwnerInv, Run, NoRun
<1>21. ASSUME NEW c \in Caller, CaptureReads(c)
      PROVE  RunsOK'
  BY <1>21, ConstantsAssumption DEF CaptureReads, control, runs, captures, Newest, CallsOK, RunsOK,
     SupervisionInv, OwnerInv, Run, NoRun
<1>22. ASSUME NEW c \in Caller, Respond(c)
      PROVE  RunsOK'
  BY <1>22, ConstantsAssumption DEF Respond, control, runs, captures, Goes, NoFrame, CallsOK,
     RunsOK, SupervisionInv, OwnerInv, Run, NoRun
<1>23. ASSUME NEW r \in Run, NEW p \in Process, ProcessExits(r, p)
      PROVE  RunsOK'
  BY <1>23, ConstantsAssumption DEF ProcessExits, control, runs, captures, CallsOK, RunsOK,
     SupervisionInv, OwnerInv, Run, NoRun
<1>24. ASSUME NEW r \in Run, SupervisorInterrupts(r)
      PROVE  RunsOK'
  BY <1>24, ConstantsAssumption DEF SupervisorInterrupts, control, runs, captures, Interrupt,
     CallsOK, RunsOK, SupervisionInv, OwnerInv, Run, NoRun
<1>25. ASSUME NEW r \in Run, SupervisorEnds(r)
      PROVE  RunsOK'
  BY <1>25, ConstantsAssumption DEF SupervisorEnds, control, runs, captures, CallsOK, RunsOK,
     SupervisionInv, OwnerInv, Run, NoRun
<1>26. ASSUME NEW r \in Run, Watch(r)
      PROVE  RunsOK'
  BY <1>26, ConstantsAssumption DEF Watch, control, runs, captures, Done, RunEnded, CallsOK,
     RunsOK, SupervisionInv, OwnerInv, Run, NoRun
<1>27. ASSUME NEW r \in Run, FrameWritten(r)
      PROVE  RunsOK'
  BY <1>27, ConstantsAssumption DEF FrameWritten, control, runs, captures, CallsOK, RunsOK,
     SupervisionInv, OwnerInv, Run, NoRun
<1>28. CASE UNCHANGED vars
  BY <1>28, ConstantsAssumption DEF vars, control, runs, captures, CallsOK, RunsOK, SupervisionInv,
     OwnerInv, Run, NoRun
<1> QED
  BY <1>1, <1>2, <1>3, <1>4, <1>5, <1>6, <1>7, <1>8, <1>9, <1>10, <1>11, <1>12, <1>13, <1>14,
     <1>15, <1>16, <1>17, <1>18, <1>19, <1>20, <1>21, <1>22, <1>23, <1>24, <1>25, <1>26, <1>27,
     <1>28 DEF Next, Lifecycles, Captures, Supervision

\* Every step keeps the types of the frames.
LEMMA FramesKept ==
  ASSUME CallsOK, RunsOK, FramesOK, FramesInv, [Next]_vars
  PROVE  FramesOK'
<1>1. ASSUME NEW c \in Caller, NEW o \in Operation, Begin(c, o)
      PROVE  FramesOK'
  BY <1>1, ConstantsAssumption DEF Begin, control, runs, captures, Lifecycle, Operation, RunsOK,
     FramesOK, Run, NoRun, Frame, NoFile
<1>2. ASSUME NEW c \in Caller, StartBegins(c)
      PROVE  FramesOK'
  BY <1>2, ConstantsAssumption DEF StartBegins, control, runs, captures, Takes, Goes, RunsOK,
     FramesOK, Run, NoRun, Frame, NoFile
<1>3. ASSUME NEW c \in Caller, StartJoins(c)
      PROVE  FramesOK'
  BY <1>3, ConstantsAssumption DEF StartJoins, control, runs, captures, Returns, RunsOK, FramesOK,
     Run, NoRun, Frame, NoFile
<1>4. ASSUME NEW c \in Caller, Prepare(c)
      PROVE  FramesOK'
  BY <1>4, ConstantsAssumption DEF Prepare, control, runs, captures, Goes, ClearScratch, Empty,
     RunsOK, FramesOK, Run, NoRun, Frame, NoFile
<1>5. ASSUME NEW c \in Caller, Spawn(c)
      PROVE  FramesOK'
  BY <1>5, ConstantsAssumption DEF Spawn, control, runs, captures, Goes, RunsOK, FramesOK, Run,
     NoRun, Frame, NoFile
<1>6. ASSUME NEW c \in Caller, StartFails(c)
      PROVE  FramesOK'
  BY <1>6, ConstantsAssumption DEF StartFails, control, runs, captures, Errors, RunsOK, FramesOK,
     Run, NoRun, Frame, NoFile
<1>7. ASSUME NEW c \in Caller, Record(c)
      PROVE  FramesOK'
  BY <1>7, ConstantsAssumption DEF Record, control, runs, captures, Goes, NextGeneration, RunsOK,
     FramesOK, Run, NoRun, Frame, NoFile
<1>8. ASSUME NEW c \in Caller, DoesNotComeUp(c)
      PROVE  FramesOK'
  BY <1>8, ConstantsAssumption DEF DoesNotComeUp, control, runs, captures, Done, RunEnded, Errors,
     RunsOK, FramesOK, Run, NoRun, Frame, NoFile
<1>9. ASSUME NEW c \in Caller, Settles(c)
      PROVE  FramesOK'
  BY <1>9, ConstantsAssumption DEF Settles, control, runs, captures, SettleState, Returns, RunsOK,
     FramesOK, Run, NoRun, Frame, NoFile
<1>10. ASSUME NEW c \in Caller, StopBegins(c)
      PROVE  FramesOK'
  BY <1>10, ConstantsAssumption DEF StopBegins, control, runs, captures, Takes, Goes, Terminate,
     RunsOK, FramesOK, Run, NoRun, Frame, NoFile
<1>11. ASSUME NEW c \in Caller, KeyframeBegins(c)
      PROVE  FramesOK'
  BY <1>11, ConstantsAssumption DEF KeyframeBegins, control, runs, captures, Takes, Goes,
     Terminate, RunsOK, FramesOK, Run, NoRun, Frame, NoFile
<1>12. ASSUME NEW c \in Caller, KeyframeCoalesces(c)
      PROVE  FramesOK'
  BY <1>12, ConstantsAssumption DEF KeyframeCoalesces, control, runs, captures, Returns, RunsOK,
     FramesOK, Run, NoRun, Frame, NoFile
<1>13. ASSUME NEW c \in Caller, KeyframeRefused(c)
      PROVE  FramesOK'
  BY <1>13, ConstantsAssumption DEF KeyframeRefused, control, runs, captures, Errors, RunsOK,
     FramesOK, Run, NoRun, Frame, NoFile
<1>14. ASSUME NEW c \in Caller, CloseBegins(c)
      PROVE  FramesOK'
  BY <1>14, ConstantsAssumption DEF CloseBegins, control, runs, captures, Takes, Goes, Terminate,
     RunsOK, FramesOK, Run, NoRun, Frame, NoFile
<1>15. ASSUME NEW c \in Caller, StopReaped(c)
      PROVE  FramesOK'
  BY <1>15, ConstantsAssumption DEF StopReaped, control, runs, captures, Goes, Reaped, Done,
     RunsOK, FramesOK, Run, NoRun, Frame, NoFile
<1>16. ASSUME NEW c \in Caller, KeyframeReaped(c)
      PROVE  FramesOK'
  BY <1>16, ConstantsAssumption DEF KeyframeReaped, control, runs, captures, Goes, Reaped, Done,
     RunsOK, FramesOK, Run, NoRun, Frame, NoFile
<1>17. ASSUME NEW c \in Caller, Clear(c)
      PROVE  FramesOK'
  BY <1>17, ConstantsAssumption DEF Clear, control, runs, captures, ClearScratch, Empty, Returns,
     RunsOK, FramesOK, Run, NoRun, Frame, NoFile
<1>18. ASSUME NEW c \in Caller, Receipt(c)
      PROVE  FramesOK'
  BY <1>18, ConstantsAssumption DEF Receipt, control, runs, captures, Goes, RunsOK, FramesOK, Run,
     NoRun, Frame, NoFile
<1>19. ASSUME NEW c \in Caller, CaptureLists(c)
      PROVE  FramesOK'
  BY <1>19, ConstantsAssumption DEF CaptureLists, control, runs, captures, Goes, Files, RunsOK,
     FramesOK, Run, NoRun, Frame, NoFile
<1>20. ASSUME NEW c \in Caller, CaptureFails(c)
      PROVE  FramesOK'
  BY <1>20, ConstantsAssumption DEF CaptureFails, control, runs, captures, Goes, RunsOK, FramesOK,
     Run, NoRun, Frame, NoFile
<1>21. ASSUME NEW c \in Caller, CaptureReads(c)
      PROVE  FramesOK'
  <2>1. Newest(c) \in names[c] /\ Newest(c) \in Frame
    BY <1>21, NewestIsListed DEF CaptureReads, Newest, FramesOK, FramesInv
  <2> DEFINE i == Newest(c)
  <2>2. scratch[i] # NoFile => [run |-> scratch[i], index |-> i] \in [run : {NoRun} \cup Run, index : 0..MaxFrames]
    BY <2>1, ConstantsAssumption DEF FramesOK, Frame
  <2> HIDE DEF i
  <2>3. \/ scratch[i] # NoFile /\ got' = [got EXCEPT ![c] = [run |-> scratch[i], index |-> i]]
        \/ got' = got
    BY <1>21 DEF CaptureReads, i
  <2>4. got' \in [Caller -> [run : {NoRun} \cup Run, index : 0..MaxFrames]]
    BY <2>2, <2>3 DEF FramesOK
  <2>5. names' \in [Caller -> SUBSET Frame]
    BY <1>21 DEF CaptureReads, FramesOK
  <2> QED
    BY <1>21, <2>4, <2>5 DEF CaptureReads, runs, control, FramesOK
<1>22. ASSUME NEW c \in Caller, Respond(c)
      PROVE  FramesOK'
  BY <1>22, ConstantsAssumption DEF Respond, control, runs, captures, Goes, NoFrame, RunsOK,
     FramesOK, Run, NoRun, Frame, NoFile
<1>23. ASSUME NEW r \in Run, NEW p \in Process, ProcessExits(r, p)
      PROVE  FramesOK'
  BY <1>23, ConstantsAssumption DEF ProcessExits, control, runs, captures, RunsOK, FramesOK, Run,
     NoRun, Frame, NoFile
<1>24. ASSUME NEW r \in Run, SupervisorInterrupts(r)
      PROVE  FramesOK'
  BY <1>24, ConstantsAssumption DEF SupervisorInterrupts, control, runs, captures, Interrupt,
     RunsOK, FramesOK, Run, NoRun, Frame, NoFile
<1>25. ASSUME NEW r \in Run, SupervisorEnds(r)
      PROVE  FramesOK'
  BY <1>25, ConstantsAssumption DEF SupervisorEnds, control, runs, captures, RunsOK, FramesOK, Run,
     NoRun, Frame, NoFile
<1>26. ASSUME NEW r \in Run, Watch(r)
      PROVE  FramesOK'
  BY <1>26, ConstantsAssumption DEF Watch, control, runs, captures, Done, RunEnded, RunsOK,
     FramesOK, Run, NoRun, Frame, NoFile
<1>27. ASSUME NEW r \in Run, FrameWritten(r)
      PROVE  FramesOK'
  BY <1>27, ConstantsAssumption DEF FrameWritten, control, runs, captures, RunsOK, FramesOK, Run,
     NoRun, Frame, NoFile
<1>28. CASE UNCHANGED vars
  BY <1>28, ConstantsAssumption DEF vars, control, runs, captures, RunsOK, FramesOK, Run, NoRun,
     Frame, NoFile
<1> QED
  BY <1>1, <1>2, <1>3, <1>4, <1>5, <1>6, <1>7, <1>8, <1>9, <1>10, <1>11, <1>12, <1>13, <1>14,
     <1>15, <1>16, <1>17, <1>18, <1>19, <1>20, <1>21, <1>22, <1>23, <1>24, <1>25, <1>26, <1>27,
     <1>28 DEF Next, Lifecycles, Captures, Supervision

\* Every step keeps who holds opMu.
LEMMA LockKept ==
  ASSUME CallsOK, LockInv, [Next]_vars
  PROVE  LockInv'
<1>1. ASSUME NEW c \in Caller, NEW o \in Operation, Begin(c, o)
      PROVE  LockInv'
  <2>1. pc' = [pc EXCEPT ![c] = IF o = "capture" THEN "poll" ELSE "queued"]
        /\ want' = [want EXCEPT ![c] = o] /\ opMu' = opMu /\ pc[c] = "idle"
    BY <1>1 DEF Begin
  <2>2. \A d \in Caller : pc[d] # "idle" =>
          want[d] # "close" /\ o # "close" /\ ~(o \in Lifecycle /\ want[d] \in Lifecycle)
    BY <1>1 DEF Begin
  <2>3. \A d \in Caller : d # c => pc'[d] = pc[d] /\ want'[d] = want[d]
    BY <2>1 DEF CallsOK
  <2>4. pc'[c] \notin Locked /\ pc[c] \notin Locked /\ want'[c] = o
    BY <2>1 DEF CallsOK, Locked
  <2>5. opMu # c
    BY <2>4 DEF LockInv
  <2>6. \A d \in Caller :
       /\ pc'[d] \in Locked <=> opMu' = d
       /\ pc'[d] \in {"prepare", "spawn", "record", "settle"} => want'[d] \notin {"stop", "close", "capture"}
       /\ pc'[d] = "clear" => want'[d] \in {"stop", "close"}
       /\ pc'[d] = "reap" => want'[d] \notin {"start", "capture"}
    BY <2>1, <2>3, <2>4, <2>5 DEF LockInv, Locked
  <2>7. \A d, e \in Caller : d # e /\ pc'[d] # "idle" /\ pc'[e] # "idle" =>
          want'[d] # "close" /\ ~(want'[d] \in Lifecycle /\ want'[e] \in Lifecycle)
    BY <2>2, <2>3, <2>4 DEF LockInv
  <2> QED
    BY <2>6, <2>7 DEF LockInv
<1>2. ASSUME NEW c \in Caller, StartBegins(c)
      PROVE  LockInv'
  BY <1>2, ConstantsAssumption DEF StartBegins, control, runs, captures, Takes, Goes, CallsOK,
     LockInv, Locked, Lifecycle, Operation
<1>3. ASSUME NEW c \in Caller, StartJoins(c)
      PROVE  LockInv'
  BY <1>3, ConstantsAssumption DEF StartJoins, control, runs, captures, Returns, CallsOK, LockInv,
     Locked, Lifecycle, Operation
<1>4. ASSUME NEW c \in Caller, Prepare(c)
      PROVE  LockInv'
  BY <1>4, ConstantsAssumption DEF Prepare, control, runs, captures, Goes, ClearScratch, Empty,
     CallsOK, LockInv, Locked, Lifecycle, Operation
<1>5. ASSUME NEW c \in Caller, Spawn(c)
      PROVE  LockInv'
  BY <1>5, ConstantsAssumption DEF Spawn, control, runs, captures, Goes, CallsOK, LockInv, Locked,
     Lifecycle, Operation
<1>6. ASSUME NEW c \in Caller, StartFails(c)
      PROVE  LockInv'
  BY <1>6, ConstantsAssumption DEF StartFails, control, runs, captures, Errors, CallsOK, LockInv,
     Locked, Lifecycle, Operation
<1>7. ASSUME NEW c \in Caller, Record(c)
      PROVE  LockInv'
  BY <1>7, ConstantsAssumption DEF Record, control, runs, captures, Goes, NextGeneration, CallsOK,
     LockInv, Locked, Lifecycle, Operation
<1>8. ASSUME NEW c \in Caller, DoesNotComeUp(c)
      PROVE  LockInv'
  BY <1>8, ConstantsAssumption DEF DoesNotComeUp, control, runs, captures, Done, RunEnded, Errors,
     CallsOK, LockInv, Locked, Lifecycle, Operation
<1>9. ASSUME NEW c \in Caller, Settles(c)
      PROVE  LockInv'
  BY <1>9, ConstantsAssumption DEF Settles, control, runs, captures, SettleState, Returns, CallsOK,
     LockInv, Locked, Lifecycle, Operation
<1>10. ASSUME NEW c \in Caller, StopBegins(c)
      PROVE  LockInv'
  BY <1>10, ConstantsAssumption DEF StopBegins, control, runs, captures, Takes, Goes, Terminate,
     CallsOK, LockInv, Locked, Lifecycle, Operation
<1>11. ASSUME NEW c \in Caller, KeyframeBegins(c)
      PROVE  LockInv'
  BY <1>11, ConstantsAssumption DEF KeyframeBegins, control, runs, captures, Takes, Goes,
     Terminate, CallsOK, LockInv, Locked, Lifecycle, Operation
<1>12. ASSUME NEW c \in Caller, KeyframeCoalesces(c)
      PROVE  LockInv'
  BY <1>12, ConstantsAssumption DEF KeyframeCoalesces, control, runs, captures, Returns, CallsOK,
     LockInv, Locked, Lifecycle, Operation
<1>13. ASSUME NEW c \in Caller, KeyframeRefused(c)
      PROVE  LockInv'
  BY <1>13, ConstantsAssumption DEF KeyframeRefused, control, runs, captures, Errors, CallsOK,
     LockInv, Locked, Lifecycle, Operation
<1>14. ASSUME NEW c \in Caller, CloseBegins(c)
      PROVE  LockInv'
  BY <1>14, ConstantsAssumption DEF CloseBegins, control, runs, captures, Takes, Goes, Terminate,
     CallsOK, LockInv, Locked, Lifecycle, Operation
<1>15. ASSUME NEW c \in Caller, StopReaped(c)
      PROVE  LockInv'
  BY <1>15, ConstantsAssumption DEF StopReaped, control, runs, captures, Goes, Reaped, Done,
     CallsOK, LockInv, Locked, Lifecycle, Operation
<1>16. ASSUME NEW c \in Caller, KeyframeReaped(c)
      PROVE  LockInv'
  BY <1>16, ConstantsAssumption DEF KeyframeReaped, control, runs, captures, Goes, Reaped, Done,
     CallsOK, LockInv, Locked, Lifecycle, Operation
<1>17. ASSUME NEW c \in Caller, Clear(c)
      PROVE  LockInv'
  BY <1>17, ConstantsAssumption DEF Clear, control, runs, captures, ClearScratch, Empty, Returns,
     CallsOK, LockInv, Locked, Lifecycle, Operation
<1>18. ASSUME NEW c \in Caller, Receipt(c)
      PROVE  LockInv'
  BY <1>18, ConstantsAssumption DEF Receipt, control, runs, captures, Goes, CallsOK, LockInv,
     Locked, Lifecycle, Operation
<1>19. ASSUME NEW c \in Caller, CaptureLists(c)
      PROVE  LockInv'
  BY <1>19, ConstantsAssumption DEF CaptureLists, control, runs, captures, Goes, Files, CallsOK,
     LockInv, Locked, Lifecycle, Operation
<1>20. ASSUME NEW c \in Caller, CaptureFails(c)
      PROVE  LockInv'
  BY <1>20, ConstantsAssumption DEF CaptureFails, control, runs, captures, Goes, CallsOK, LockInv,
     Locked, Lifecycle, Operation
<1>21. ASSUME NEW c \in Caller, CaptureReads(c)
      PROVE  LockInv'
  BY <1>21, ConstantsAssumption DEF CaptureReads, control, runs, captures, Newest, CallsOK,
     LockInv, Locked, Lifecycle, Operation
<1>22. ASSUME NEW c \in Caller, Respond(c)
      PROVE  LockInv'
  BY <1>22, ConstantsAssumption DEF Respond, control, runs, captures, Goes, NoFrame, CallsOK,
     LockInv, Locked, Lifecycle, Operation
<1>23. ASSUME NEW r \in Run, NEW p \in Process, ProcessExits(r, p)
      PROVE  LockInv'
  BY <1>23, ConstantsAssumption DEF ProcessExits, control, runs, captures, CallsOK, LockInv,
     Locked, Lifecycle, Operation
<1>24. ASSUME NEW r \in Run, SupervisorInterrupts(r)
      PROVE  LockInv'
  BY <1>24, ConstantsAssumption DEF SupervisorInterrupts, control, runs, captures, Interrupt,
     CallsOK, LockInv, Locked, Lifecycle, Operation
<1>25. ASSUME NEW r \in Run, SupervisorEnds(r)
      PROVE  LockInv'
  BY <1>25, ConstantsAssumption DEF SupervisorEnds, control, runs, captures, CallsOK, LockInv,
     Locked, Lifecycle, Operation
<1>26. ASSUME NEW r \in Run, Watch(r)
      PROVE  LockInv'
  BY <1>26, ConstantsAssumption DEF Watch, control, runs, captures, Done, RunEnded, CallsOK,
     LockInv, Locked, Lifecycle, Operation
<1>27. ASSUME NEW r \in Run, FrameWritten(r)
      PROVE  LockInv'
  BY <1>27, ConstantsAssumption DEF FrameWritten, control, runs, captures, CallsOK, LockInv,
     Locked, Lifecycle, Operation
<1>28. CASE UNCHANGED vars
  BY <1>28, ConstantsAssumption DEF vars, control, runs, captures, CallsOK, LockInv, Locked,
     Lifecycle, Operation
<1> QED
  BY <1>1, <1>2, <1>3, <1>4, <1>5, <1>6, <1>7, <1>8, <1>9, <1>10, <1>11, <1>12, <1>13, <1>14,
     <1>15, <1>16, <1>17, <1>18, <1>19, <1>20, <1>21, <1>22, <1>23, <1>24, <1>25, <1>26, <1>27,
     <1>28 DEF Next, Lifecycles, Captures, Supervision

\* Every step keeps the supervision of the runs.
LEMMA SupervisionKept ==
  ASSUME CallsOK, RunsOK, LockInv, SupervisionInv, OwnerInv, [Next]_vars
  PROVE  SupervisionInv'
<1>1. ASSUME NEW c \in Caller, NEW o \in Operation, Begin(c, o)
      PROVE  SupervisionInv'
  BY <1>1, ConstantsAssumption DEF Begin, control, runs, captures, Lifecycle, Operation, CallsOK,
     RunsOK, LockInv, SupervisionInv, OwnerInv, Run, NoRun, Locked
<1>2. ASSUME NEW c \in Caller, StartBegins(c)
      PROVE  SupervisionInv'
  BY <1>2, ConstantsAssumption DEF StartBegins, control, runs, captures, Takes, Goes, CallsOK,
     RunsOK, LockInv, SupervisionInv, OwnerInv, Run, NoRun, Locked
<1>3. ASSUME NEW c \in Caller, StartJoins(c)
      PROVE  SupervisionInv'
  BY <1>3, ConstantsAssumption DEF StartJoins, control, runs, captures, Returns, CallsOK, RunsOK,
     LockInv, SupervisionInv, OwnerInv, Run, NoRun, Locked
<1>4. ASSUME NEW c \in Caller, Prepare(c)
      PROVE  SupervisionInv'
  BY <1>4, ConstantsAssumption DEF Prepare, control, runs, captures, Goes, ClearScratch, Empty,
     CallsOK, RunsOK, LockInv, SupervisionInv, OwnerInv, Run, NoRun, Locked
<1>5. ASSUME NEW c \in Caller, Spawn(c)
      PROVE  SupervisionInv'
  BY <1>5, ConstantsAssumption DEF Spawn, control, runs, captures, Goes, CallsOK, RunsOK, LockInv,
     SupervisionInv, OwnerInv, Run, NoRun, Locked
<1>6. ASSUME NEW c \in Caller, StartFails(c)
      PROVE  SupervisionInv'
  BY <1>6, ConstantsAssumption DEF StartFails, control, runs, captures, Errors, CallsOK, RunsOK,
     LockInv, SupervisionInv, OwnerInv, Run, NoRun, Locked
<1>7. ASSUME NEW c \in Caller, Record(c)
      PROVE  SupervisionInv'
  <2>1. \A d \in Caller : d # c => pc[d] \notin Locked
    BY <1>7 DEF Record, Goes, LockInv, Locked
  <2>2. \A d \in Caller : d # c => pc'[d] = pc[d]
    BY <1>7 DEF Record, Goes, CallsOK
  <2>3. pc[c] = "record" /\ pc'[c] = "settle" /\ generation < MaxRuns /\ generation' = generation + 1
    BY <1>7 DEF Record, Goes, NextGeneration, CallsOK, SupervisionInv
  <2>4. \A d \in Caller : pc'[d] # "record" /\ pc[d] # "reap"
    BY <2>1, <2>2, <2>3 DEF Locked
  <2>5. generation \in Nat /\ generation + 1 \in Run
    BY <2>3, ConstantsAssumption DEF RunsOK, Run
  <2>6. UNCHANGED <<supervisor, alive>> /\ watchers' = watchers \cup {generation + 1}
    BY <1>7 DEF Record, runs
  <2>7. supervisor[generation + 1] # "none"
    BY <2>3 DEF SupervisionInv
  <2>8. \A r \in Run : alive[r] # {} => r > generation
    <3>1. run = NoRun
      BY <2>3 DEF OwnerInv
    <3> QED
      BY <2>4, <2>5, <3>1 DEF OwnerInv, Run, NoRun
  <2>9. ASSUME NEW r \in Run
        PROVE  /\ r <= generation' => supervisor'[r] # "none"
               /\ r > generation' => supervisor'[r] = "none"
               /\ supervisor'[r] \in {"none", "done"} => alive'[r] = {}
               /\ alive'[r] # {} => r >= generation'
    <3>1. r \in Nat
      BY DEF Run
    <3>2. r <= generation \/ r = generation + 1 \/ r > generation + 1
      BY <2>5, <3>1
    <3> QED
      BY <2>3, <2>5, <2>6, <2>7, <2>8, <3>1, <3>2 DEF SupervisionInv
  <2>10. watchers' \subseteq 1..generation'
    <3>1. 1..generation \subseteq 1..generation' /\ generation + 1 \in 1..generation'
      BY <2>3, <2>5
    <3> QED
      BY <2>6, <3>1 DEF SupervisionInv
  <2> QED
    BY <2>4, <2>9, <2>10 DEF SupervisionInv
<1>8. ASSUME NEW c \in Caller, DoesNotComeUp(c)
      PROVE  SupervisionInv'
  BY <1>8, ConstantsAssumption DEF DoesNotComeUp, control, runs, captures, Done, RunEnded, Errors,
     CallsOK, RunsOK, LockInv, SupervisionInv, OwnerInv, Run, NoRun, Locked
<1>9. ASSUME NEW c \in Caller, Settles(c)
      PROVE  SupervisionInv'
  BY <1>9, ConstantsAssumption DEF Settles, control, runs, captures, SettleState, Returns, CallsOK,
     RunsOK, LockInv, SupervisionInv, OwnerInv, Run, NoRun, Locked
<1>10. ASSUME NEW c \in Caller, StopBegins(c)
      PROVE  SupervisionInv'
  BY <1>10, ConstantsAssumption DEF StopBegins, control, runs, captures, Takes, Goes, Terminate,
     CallsOK, RunsOK, LockInv, SupervisionInv, OwnerInv, Run, NoRun, Locked
<1>11. ASSUME NEW c \in Caller, KeyframeBegins(c)
      PROVE  SupervisionInv'
  BY <1>11, ConstantsAssumption DEF KeyframeBegins, control, runs, captures, Takes, Goes,
     Terminate, CallsOK, RunsOK, LockInv, SupervisionInv, OwnerInv, Run, NoRun, Locked
<1>12. ASSUME NEW c \in Caller, KeyframeCoalesces(c)
      PROVE  SupervisionInv'
  BY <1>12, ConstantsAssumption DEF KeyframeCoalesces, control, runs, captures, Returns, CallsOK,
     RunsOK, LockInv, SupervisionInv, OwnerInv, Run, NoRun, Locked
<1>13. ASSUME NEW c \in Caller, KeyframeRefused(c)
      PROVE  SupervisionInv'
  BY <1>13, ConstantsAssumption DEF KeyframeRefused, control, runs, captures, Errors, CallsOK,
     RunsOK, LockInv, SupervisionInv, OwnerInv, Run, NoRun, Locked
<1>14. ASSUME NEW c \in Caller, CloseBegins(c)
      PROVE  SupervisionInv'
  BY <1>14, ConstantsAssumption DEF CloseBegins, control, runs, captures, Takes, Goes, Terminate,
     CallsOK, RunsOK, LockInv, SupervisionInv, OwnerInv, Run, NoRun, Locked
<1>15. ASSUME NEW c \in Caller, StopReaped(c)
      PROVE  SupervisionInv'
  BY <1>15, ConstantsAssumption DEF StopReaped, control, runs, captures, Goes, Reaped, Done,
     CallsOK, RunsOK, LockInv, SupervisionInv, OwnerInv, Run, NoRun, Locked
<1>16. ASSUME NEW c \in Caller, KeyframeReaped(c)
      PROVE  SupervisionInv'
  BY <1>16, ConstantsAssumption DEF KeyframeReaped, control, runs, captures, Goes, Reaped, Done,
     CallsOK, RunsOK, LockInv, SupervisionInv, OwnerInv, Run, NoRun, Locked
<1>17. ASSUME NEW c \in Caller, Clear(c)
      PROVE  SupervisionInv'
  BY <1>17, ConstantsAssumption DEF Clear, control, runs, captures, ClearScratch, Empty, Returns,
     CallsOK, RunsOK, LockInv, SupervisionInv, OwnerInv, Run, NoRun, Locked
<1>18. ASSUME NEW c \in Caller, Receipt(c)
      PROVE  SupervisionInv'
  BY <1>18, ConstantsAssumption DEF Receipt, control, runs, captures, Goes, CallsOK, RunsOK,
     LockInv, SupervisionInv, OwnerInv, Run, NoRun, Locked
<1>19. ASSUME NEW c \in Caller, CaptureLists(c)
      PROVE  SupervisionInv'
  BY <1>19, ConstantsAssumption DEF CaptureLists, control, runs, captures, Goes, Files, CallsOK,
     RunsOK, LockInv, SupervisionInv, OwnerInv, Run, NoRun, Locked
<1>20. ASSUME NEW c \in Caller, CaptureFails(c)
      PROVE  SupervisionInv'
  BY <1>20, ConstantsAssumption DEF CaptureFails, control, runs, captures, Goes, CallsOK, RunsOK,
     LockInv, SupervisionInv, OwnerInv, Run, NoRun, Locked
<1>21. ASSUME NEW c \in Caller, CaptureReads(c)
      PROVE  SupervisionInv'
  BY <1>21, ConstantsAssumption DEF CaptureReads, control, runs, captures, Newest, CallsOK, RunsOK,
     LockInv, SupervisionInv, OwnerInv, Run, NoRun, Locked
<1>22. ASSUME NEW c \in Caller, Respond(c)
      PROVE  SupervisionInv'
  BY <1>22, ConstantsAssumption DEF Respond, control, runs, captures, Goes, NoFrame, CallsOK,
     RunsOK, LockInv, SupervisionInv, OwnerInv, Run, NoRun, Locked
<1>23. ASSUME NEW r \in Run, NEW p \in Process, ProcessExits(r, p)
      PROVE  SupervisionInv'
  BY <1>23, ConstantsAssumption DEF ProcessExits, control, runs, captures, CallsOK, RunsOK,
     LockInv, SupervisionInv, OwnerInv, Run, NoRun, Locked
<1>24. ASSUME NEW r \in Run, SupervisorInterrupts(r)
      PROVE  SupervisionInv'
  BY <1>24, ConstantsAssumption DEF SupervisorInterrupts, control, runs, captures, Interrupt,
     CallsOK, RunsOK, LockInv, SupervisionInv, OwnerInv, Run, NoRun, Locked
<1>25. ASSUME NEW r \in Run, SupervisorEnds(r)
      PROVE  SupervisionInv'
  BY <1>25, ConstantsAssumption DEF SupervisorEnds, control, runs, captures, CallsOK, RunsOK,
     LockInv, SupervisionInv, OwnerInv, Run, NoRun, Locked
<1>26. ASSUME NEW r \in Run, Watch(r)
      PROVE  SupervisionInv'
  BY <1>26, ConstantsAssumption DEF Watch, control, runs, captures, Done, RunEnded, CallsOK,
     RunsOK, LockInv, SupervisionInv, OwnerInv, Run, NoRun, Locked
<1>27. ASSUME NEW r \in Run, FrameWritten(r)
      PROVE  SupervisionInv'
  BY <1>27, ConstantsAssumption DEF FrameWritten, control, runs, captures, CallsOK, RunsOK,
     LockInv, SupervisionInv, OwnerInv, Run, NoRun, Locked
<1>28. CASE UNCHANGED vars
  BY <1>28, ConstantsAssumption DEF vars, control, runs, captures, CallsOK, RunsOK, LockInv,
     SupervisionInv, OwnerInv, Run, NoRun, Locked
<1> QED
  BY <1>1, <1>2, <1>3, <1>4, <1>5, <1>6, <1>7, <1>8, <1>9, <1>10, <1>11, <1>12, <1>13, <1>14,
     <1>15, <1>16, <1>17, <1>18, <1>19, <1>20, <1>21, <1>22, <1>23, <1>24, <1>25, <1>26, <1>27,
     <1>28 DEF Next, Lifecycles, Captures, Supervision

\* Every step keeps who has the processes.
LEMMA OwnerKept ==
  ASSUME CallsOK, RunsOK, LockInv, SupervisionInv, OwnerInv, [Next]_vars
  PROVE  OwnerInv'
<1>1. ASSUME NEW c \in Caller, NEW o \in Operation, Begin(c, o)
      PROVE  OwnerInv'
  BY <1>1, ConstantsAssumption DEF Begin, control, runs, captures, Lifecycle, Operation, CallsOK,
     RunsOK, LockInv, SupervisionInv, OwnerInv, Run, NoRun, Locked, Lifecycle
<1>2. ASSUME NEW c \in Caller, StartBegins(c)
      PROVE  OwnerInv'
  BY <1>2, ConstantsAssumption DEF StartBegins, control, runs, captures, Takes, Goes, CallsOK,
     RunsOK, LockInv, SupervisionInv, OwnerInv, Run, NoRun, Locked, Lifecycle
<1>3. ASSUME NEW c \in Caller, StartJoins(c)
      PROVE  OwnerInv'
  BY <1>3, ConstantsAssumption DEF StartJoins, control, runs, captures, Returns, CallsOK, RunsOK,
     LockInv, SupervisionInv, OwnerInv, Run, NoRun, Locked, Lifecycle
<1>4. ASSUME NEW c \in Caller, Prepare(c)
      PROVE  OwnerInv'
  BY <1>4, ConstantsAssumption DEF Prepare, control, runs, captures, Goes, ClearScratch, Empty,
     CallsOK, RunsOK, LockInv, SupervisionInv, OwnerInv, Run, NoRun, Locked, Lifecycle
<1>5. ASSUME NEW c \in Caller, Spawn(c)
      PROVE  OwnerInv'
  <2>1. \A d \in Caller : d # c => pc[d] \notin Locked
    BY <1>5 DEF Spawn, Goes, LockInv, Locked
  <2>2. \A d \in Caller : d # c => pc'[d] = pc[d]
    BY <1>5 DEF Spawn, Goes, CallsOK
  <2>3. pc[c] = "spawn" /\ pc'[c] = "record" /\ run = NoRun /\ state = "starting"
    BY <1>5 DEF Spawn, Goes, CallsOK, OwnerInv
  <2>4. UNCHANGED <<want, opMu, state, run, generation, victim>>
    BY <1>5 DEF Spawn, control
  <2>5. \A r \in Run : r <= generation => alive'[r] = alive[r]
    BY <1>5 DEF Spawn, RunsOK, Run
  <2>6. \A d \in Caller : pc[d] # "reap"
    BY <2>1, <2>3 DEF Locked
  <2>7. \A r \in Run : alive'[r] # {} /\ r <= generation' => run' = r
    BY <2>4, <2>5, <2>6 DEF OwnerInv
  <2>8. \A d \in Caller :
       /\ pc'[d] \in {"prepare", "spawn", "record"} => run' = NoRun /\ state' = "starting"
       /\ pc'[d] = "settle" => generation' # 0 /\ (run' # NoRun => state' = "starting")
       /\ pc'[d] = "reap" => victim' = generation' /\ victim' # NoRun /\ state' # "active"
       /\ pc'[d] = "clear" => run' = NoRun /\ state' # "active"
       /\ pc'[d] = "receipt" /\ want'[d] \in {"stop", "close"} => opMu' = NoCaller /\ run' = NoRun
    BY <2>2, <2>3, <2>4 DEF OwnerInv
  <2> QED
    BY <2>4, <2>7, <2>8 DEF OwnerInv
<1>6. ASSUME NEW c \in Caller, StartFails(c)
      PROVE  OwnerInv'
  BY <1>6, ConstantsAssumption DEF StartFails, control, runs, captures, Errors, CallsOK, RunsOK,
     LockInv, SupervisionInv, OwnerInv, Run, NoRun, Locked, Lifecycle
<1>7. ASSUME NEW c \in Caller, Record(c)
      PROVE  OwnerInv'
  <2>1. \A d \in Caller : d # c => pc[d] \notin Locked
    BY <1>7 DEF Record, Goes, LockInv, Locked
  <2>2. \A d \in Caller : d # c => pc'[d] = pc[d]
    BY <1>7 DEF Record, Goes, CallsOK
  <2>3. pc[c] = "record" /\ pc'[c] = "settle" /\ run = NoRun /\ state = "starting" /\ generation < MaxRuns
    BY <1>7 DEF Record, Goes, CallsOK, SupervisionInv, OwnerInv
  <2>4. UNCHANGED <<want, opMu, state, victim, alive>> /\ generation' = generation + 1 /\ run' = generation + 1
    BY <1>7 DEF Record, NextGeneration, runs
  <2>5. generation \in Nat /\ generation + 1 # 0
    BY DEF RunsOK
  <2>6. \A d \in Caller : pc'[d] \notin Locked \ {"settle"}
    BY <2>1, <2>2, <2>3 DEF Locked
  <2>7. \A d \in Caller : pc[d] # "reap"
    BY <2>1, <2>3 DEF Locked
  <2>8. \A r \in Run : alive'[r] # {} /\ r <= generation' => run' = r
    BY <2>3, <2>4, <2>5, <2>7 DEF OwnerInv, Run, NoRun
  <2>9. opMu = c /\ c # NoCaller
    BY <2>3, ConstantsAssumption DEF LockInv, Locked
  <2>10. \A d \in Caller : ~(pc'[d] = "receipt" /\ want'[d] \in {"stop", "close"})
    BY <2>2, <2>3, <2>4, <2>9 DEF OwnerInv
  <2>11. state' = "starting"
    BY <2>3, <2>4
  <2> QED
    BY <2>4, <2>5, <2>6, <2>8, <2>9, <2>10, <2>11 DEF OwnerInv, Locked, NoRun
<1>8. ASSUME NEW c \in Caller, DoesNotComeUp(c)
      PROVE  OwnerInv'
  BY <1>8, ConstantsAssumption DEF DoesNotComeUp, control, runs, captures, Done, RunEnded, Errors,
     CallsOK, RunsOK, LockInv, SupervisionInv, OwnerInv, Run, NoRun, Locked, Lifecycle
<1>9. ASSUME NEW c \in Caller, Settles(c)
      PROVE  OwnerInv'
  BY <1>9, ConstantsAssumption DEF Settles, control, runs, captures, SettleState, Returns, CallsOK,
     RunsOK, LockInv, SupervisionInv, OwnerInv, Run, NoRun, Locked, Lifecycle
<1>10. ASSUME NEW c \in Caller, StopBegins(c)
      PROVE  OwnerInv'
  BY <1>10, ConstantsAssumption DEF StopBegins, control, runs, captures, Takes, Goes, Terminate,
     CallsOK, RunsOK, LockInv, SupervisionInv, OwnerInv, Run, NoRun, Locked, Lifecycle
<1>11. ASSUME NEW c \in Caller, KeyframeBegins(c)
      PROVE  OwnerInv'
  BY <1>11, ConstantsAssumption DEF KeyframeBegins, control, runs, captures, Takes, Goes,
     Terminate, CallsOK, RunsOK, LockInv, SupervisionInv, OwnerInv, Run, NoRun, Locked, Lifecycle
<1>12. ASSUME NEW c \in Caller, KeyframeCoalesces(c)
      PROVE  OwnerInv'
  BY <1>12, ConstantsAssumption DEF KeyframeCoalesces, control, runs, captures, Returns, CallsOK,
     RunsOK, LockInv, SupervisionInv, OwnerInv, Run, NoRun, Locked, Lifecycle
<1>13. ASSUME NEW c \in Caller, KeyframeRefused(c)
      PROVE  OwnerInv'
  BY <1>13, ConstantsAssumption DEF KeyframeRefused, control, runs, captures, Errors, CallsOK,
     RunsOK, LockInv, SupervisionInv, OwnerInv, Run, NoRun, Locked, Lifecycle
<1>14. ASSUME NEW c \in Caller, CloseBegins(c)
      PROVE  OwnerInv'
  BY <1>14, ConstantsAssumption DEF CloseBegins, control, runs, captures, Takes, Goes, Terminate,
     CallsOK, RunsOK, LockInv, SupervisionInv, OwnerInv, Run, NoRun, Locked, Lifecycle
<1>15. ASSUME NEW c \in Caller, StopReaped(c)
      PROVE  OwnerInv'
  BY <1>15, ConstantsAssumption DEF StopReaped, control, runs, captures, Goes, Reaped, Done,
     CallsOK, RunsOK, LockInv, SupervisionInv, OwnerInv, Run, NoRun, Locked, Lifecycle
<1>16. ASSUME NEW c \in Caller, KeyframeReaped(c)
      PROVE  OwnerInv'
  BY <1>16, ConstantsAssumption DEF KeyframeReaped, control, runs, captures, Goes, Reaped, Done,
     CallsOK, RunsOK, LockInv, SupervisionInv, OwnerInv, Run, NoRun, Locked, Lifecycle
<1>17. ASSUME NEW c \in Caller, Clear(c)
      PROVE  OwnerInv'
  BY <1>17, ConstantsAssumption DEF Clear, control, runs, captures, ClearScratch, Empty, Returns,
     CallsOK, RunsOK, LockInv, SupervisionInv, OwnerInv, Run, NoRun, Locked, Lifecycle
<1>18. ASSUME NEW c \in Caller, Receipt(c)
      PROVE  OwnerInv'
  BY <1>18, ConstantsAssumption DEF Receipt, control, runs, captures, Goes, CallsOK, RunsOK,
     LockInv, SupervisionInv, OwnerInv, Run, NoRun, Locked, Lifecycle
<1>19. ASSUME NEW c \in Caller, CaptureLists(c)
      PROVE  OwnerInv'
  BY <1>19, ConstantsAssumption DEF CaptureLists, control, runs, captures, Goes, Files, CallsOK,
     RunsOK, LockInv, SupervisionInv, OwnerInv, Run, NoRun, Locked, Lifecycle
<1>20. ASSUME NEW c \in Caller, CaptureFails(c)
      PROVE  OwnerInv'
  BY <1>20, ConstantsAssumption DEF CaptureFails, control, runs, captures, Goes, CallsOK, RunsOK,
     LockInv, SupervisionInv, OwnerInv, Run, NoRun, Locked, Lifecycle
<1>21. ASSUME NEW c \in Caller, CaptureReads(c)
      PROVE  OwnerInv'
  BY <1>21, ConstantsAssumption DEF CaptureReads, control, runs, captures, Newest, CallsOK, RunsOK,
     LockInv, SupervisionInv, OwnerInv, Run, NoRun, Locked, Lifecycle
<1>22. ASSUME NEW c \in Caller, Respond(c)
      PROVE  OwnerInv'
  BY <1>22, ConstantsAssumption DEF Respond, control, runs, captures, Goes, NoFrame, CallsOK,
     RunsOK, LockInv, SupervisionInv, OwnerInv, Run, NoRun, Locked, Lifecycle
<1>23. ASSUME NEW r \in Run, NEW p \in Process, ProcessExits(r, p)
      PROVE  OwnerInv'
  BY <1>23, ConstantsAssumption DEF ProcessExits, control, runs, captures, CallsOK, RunsOK,
     LockInv, SupervisionInv, OwnerInv, Run, NoRun, Locked, Lifecycle
<1>24. ASSUME NEW r \in Run, SupervisorInterrupts(r)
      PROVE  OwnerInv'
  BY <1>24, ConstantsAssumption DEF SupervisorInterrupts, control, runs, captures, Interrupt,
     CallsOK, RunsOK, LockInv, SupervisionInv, OwnerInv, Run, NoRun, Locked, Lifecycle
<1>25. ASSUME NEW r \in Run, SupervisorEnds(r)
      PROVE  OwnerInv'
  BY <1>25, ConstantsAssumption DEF SupervisorEnds, control, runs, captures, CallsOK, RunsOK,
     LockInv, SupervisionInv, OwnerInv, Run, NoRun, Locked, Lifecycle
<1>26. ASSUME NEW r \in Run, Watch(r)
      PROVE  OwnerInv'
  BY <1>26, ConstantsAssumption DEF Watch, control, runs, captures, Done, RunEnded, CallsOK,
     RunsOK, LockInv, SupervisionInv, OwnerInv, Run, NoRun, Locked, Lifecycle
<1>27. ASSUME NEW r \in Run, FrameWritten(r)
      PROVE  OwnerInv'
  BY <1>27, ConstantsAssumption DEF FrameWritten, control, runs, captures, CallsOK, RunsOK,
     LockInv, SupervisionInv, OwnerInv, Run, NoRun, Locked, Lifecycle
<1>28. CASE UNCHANGED vars
  BY <1>28, ConstantsAssumption DEF vars, control, runs, captures, CallsOK, RunsOK, LockInv,
     SupervisionInv, OwnerInv, Run, NoRun, Locked, Lifecycle
<1> QED
  BY <1>1, <1>2, <1>3, <1>4, <1>5, <1>6, <1>7, <1>8, <1>9, <1>10, <1>11, <1>12, <1>13, <1>14,
     <1>15, <1>16, <1>17, <1>18, <1>19, <1>20, <1>21, <1>22, <1>23, <1>24, <1>25, <1>26, <1>27,
     <1>28 DEF Next, Lifecycles, Captures, Supervision

\* Every step keeps the age of the frames.
LEMMA FilesKept ==
  ASSUME CallsOK, RunsOK, FramesOK, LockInv, SupervisionInv, OwnerInv, FramesInv, [Next]_vars
  PROVE  FramesInv'
<1>1. ASSUME NEW c \in Caller, NEW o \in Operation, Begin(c, o)
      PROVE  FramesInv'
  BY <1>1, ConstantsAssumption DEF Begin, control, runs, captures, Lifecycle, Operation, CallsOK,
     RunsOK, FramesOK, LockInv, SupervisionInv, OwnerInv, FramesInv, Run, NoRun, NoFile, Frame,
     Locked
<1>2. ASSUME NEW c \in Caller, StartBegins(c)
      PROVE  FramesInv'
  BY <1>2, ConstantsAssumption DEF StartBegins, control, runs, captures, Takes, Goes, CallsOK,
     RunsOK, FramesOK, LockInv, SupervisionInv, OwnerInv, FramesInv, Run, NoRun, NoFile, Frame,
     Locked
<1>3. ASSUME NEW c \in Caller, StartJoins(c)
      PROVE  FramesInv'
  BY <1>3, ConstantsAssumption DEF StartJoins, control, runs, captures, Returns, CallsOK, RunsOK,
     FramesOK, LockInv, SupervisionInv, OwnerInv, FramesInv, Run, NoRun, NoFile, Frame, Locked
<1>4. ASSUME NEW c \in Caller, Prepare(c)
      PROVE  FramesInv'
  BY <1>4, ConstantsAssumption DEF Prepare, control, runs, captures, Goes, ClearScratch, Empty,
     CallsOK, RunsOK, FramesOK, LockInv, SupervisionInv, OwnerInv, FramesInv, Run, NoRun, NoFile,
     Frame, Locked
<1>5. ASSUME NEW c \in Caller, Spawn(c)
      PROVE  FramesInv'
  BY <1>5, ConstantsAssumption DEF Spawn, control, runs, captures, Goes, CallsOK, RunsOK, FramesOK,
     LockInv, SupervisionInv, OwnerInv, FramesInv, Run, NoRun, NoFile, Frame, Locked
<1>6. ASSUME NEW c \in Caller, StartFails(c)
      PROVE  FramesInv'
  BY <1>6, ConstantsAssumption DEF StartFails, control, runs, captures, Errors, CallsOK, RunsOK,
     FramesOK, LockInv, SupervisionInv, OwnerInv, FramesInv, Run, NoRun, NoFile, Frame, Locked
<1>7. ASSUME NEW c \in Caller, Record(c)
      PROVE  FramesInv'
  BY <1>7, ConstantsAssumption DEF Record, control, runs, captures, Goes, NextGeneration, CallsOK,
     RunsOK, FramesOK, LockInv, SupervisionInv, OwnerInv, FramesInv, Run, NoRun, NoFile, Frame,
     Locked
<1>8. ASSUME NEW c \in Caller, DoesNotComeUp(c)
      PROVE  FramesInv'
  BY <1>8, ConstantsAssumption DEF DoesNotComeUp, control, runs, captures, Done, RunEnded, Errors,
     CallsOK, RunsOK, FramesOK, LockInv, SupervisionInv, OwnerInv, FramesInv, Run, NoRun, NoFile,
     Frame, Locked
<1>9. ASSUME NEW c \in Caller, Settles(c)
      PROVE  FramesInv'
  BY <1>9, ConstantsAssumption DEF Settles, control, runs, captures, SettleState, Returns, CallsOK,
     RunsOK, FramesOK, LockInv, SupervisionInv, OwnerInv, FramesInv, Run, NoRun, NoFile, Frame,
     Locked
<1>10. ASSUME NEW c \in Caller, StopBegins(c)
      PROVE  FramesInv'
  <2>1. UNCHANGED <<generation, scratch, names, got, admitted>>
    BY <1>10 DEF StopBegins, captures
  <2>2. pc' = [pc EXCEPT ![c] = "clear"] \/ pc' = [pc EXCEPT ![c] = "reap"]
    BY <1>10 DEF StopBegins, Takes, Goes
  <2>3. \A d \in Caller : pc'[d] = pc[d] \/ pc'[d] \in {"clear", "reap"}
    BY <2>2 DEF CallsOK
  <2> QED
    BY <2>1, <2>3 DEF FramesInv
<1>11. ASSUME NEW c \in Caller, KeyframeBegins(c)
      PROVE  FramesInv'
  <2>1. UNCHANGED <<generation, scratch, names, got, admitted>>
    BY <1>11 DEF KeyframeBegins, captures
  <2>2. pc' = [pc EXCEPT ![c] = "clear"] \/ pc' = [pc EXCEPT ![c] = "reap"]
    BY <1>11 DEF KeyframeBegins, Takes, Goes
  <2>3. \A d \in Caller : pc'[d] = pc[d] \/ pc'[d] \in {"clear", "reap"}
    BY <2>2 DEF CallsOK
  <2> QED
    BY <2>1, <2>3 DEF FramesInv
<1>12. ASSUME NEW c \in Caller, KeyframeCoalesces(c)
      PROVE  FramesInv'
  BY <1>12, ConstantsAssumption DEF KeyframeCoalesces, control, runs, captures, Returns, CallsOK,
     RunsOK, FramesOK, LockInv, SupervisionInv, OwnerInv, FramesInv, Run, NoRun, NoFile, Frame,
     Locked
<1>13. ASSUME NEW c \in Caller, KeyframeRefused(c)
      PROVE  FramesInv'
  BY <1>13, ConstantsAssumption DEF KeyframeRefused, control, runs, captures, Errors, CallsOK,
     RunsOK, FramesOK, LockInv, SupervisionInv, OwnerInv, FramesInv, Run, NoRun, NoFile, Frame,
     Locked
<1>14. ASSUME NEW c \in Caller, CloseBegins(c)
      PROVE  FramesInv'
  <2>1. UNCHANGED <<generation, scratch, names, got, admitted>>
    BY <1>14 DEF CloseBegins, captures
  <2>2. pc' = [pc EXCEPT ![c] = "clear"] \/ pc' = [pc EXCEPT ![c] = "reap"]
    BY <1>14 DEF CloseBegins, Takes, Goes
  <2>3. \A d \in Caller : pc'[d] = pc[d] \/ pc'[d] \in {"clear", "reap"}
    BY <2>2 DEF CallsOK
  <2> QED
    BY <2>1, <2>3 DEF FramesInv
<1>15. ASSUME NEW c \in Caller, StopReaped(c)
      PROVE  FramesInv'
  BY <1>15, ConstantsAssumption DEF StopReaped, control, runs, captures, Goes, Reaped, Done,
     CallsOK, RunsOK, FramesOK, LockInv, SupervisionInv, OwnerInv, FramesInv, Run, NoRun, NoFile,
     Frame, Locked
<1>16. ASSUME NEW c \in Caller, KeyframeReaped(c)
      PROVE  FramesInv'
  BY <1>16, ConstantsAssumption DEF KeyframeReaped, control, runs, captures, Goes, Reaped, Done,
     CallsOK, RunsOK, FramesOK, LockInv, SupervisionInv, OwnerInv, FramesInv, Run, NoRun, NoFile,
     Frame, Locked
<1>17. ASSUME NEW c \in Caller, Clear(c)
      PROVE  FramesInv'
  BY <1>17, ConstantsAssumption DEF Clear, control, runs, captures, ClearScratch, Empty, Returns,
     CallsOK, RunsOK, FramesOK, LockInv, SupervisionInv, OwnerInv, FramesInv, Run, NoRun, NoFile,
     Frame, Locked
<1>18. ASSUME NEW c \in Caller, Receipt(c)
      PROVE  FramesInv'
  BY <1>18, ConstantsAssumption DEF Receipt, control, runs, captures, Goes, CallsOK, RunsOK,
     FramesOK, LockInv, SupervisionInv, OwnerInv, FramesInv, Run, NoRun, NoFile, Frame, Locked
<1>19. ASSUME NEW c \in Caller, CaptureLists(c)
      PROVE  FramesInv'
  BY <1>19, ConstantsAssumption DEF CaptureLists, control, runs, captures, Goes, Files, CallsOK,
     RunsOK, FramesOK, LockInv, SupervisionInv, OwnerInv, FramesInv, Run, NoRun, NoFile, Frame,
     Locked
<1>20. ASSUME NEW c \in Caller, CaptureFails(c)
      PROVE  FramesInv'
  BY <1>20, ConstantsAssumption DEF CaptureFails, control, runs, captures, Goes, CallsOK, RunsOK,
     FramesOK, LockInv, SupervisionInv, OwnerInv, FramesInv, Run, NoRun, NoFile, Frame, Locked
<1>21. ASSUME NEW c \in Caller, CaptureReads(c)
      PROVE  FramesInv'
  <2>1. Newest(c) \in names[c] /\ Newest(c) \in Frame
    BY <1>21, NewestIsListed DEF CaptureReads, Newest, FramesOK, FramesInv
  <2> DEFINE i == Newest(c)
  <2>2. \/ /\ scratch[i] # NoFile /\ got' = [got EXCEPT ![c] = [run |-> scratch[i], index |-> i]]
           /\ names' = [names EXCEPT ![c] = {}] /\ pc' = [pc EXCEPT ![c] = "respond"]
        \/ /\ UNCHANGED got /\ names' = [names EXCEPT ![c] = @ \ {i}]
           /\ pc' = [pc EXCEPT ![c] = IF names[c] = {i} THEN "poll" ELSE "read"]
    BY <1>21 DEF CaptureReads
  <2>3. UNCHANGED <<scratch, generation, admitted>> /\ pc[c] = "read"
    BY <1>21 DEF CaptureReads, control
  <2> HIDE DEF i
  <2>4. i \in names[c] /\ i \in Frame
    BY <2>1 DEF i
  <2>5. \A d \in Caller : d # c => pc'[d] = pc[d] /\ got'[d] = got[d] /\ names'[d] = names[d]
    BY <2>2 DEF CallsOK, FramesOK
  <2>6. /\ pc'[c] \in {"respond", "poll", "read"}
        /\ pc'[c] = "read" => names'[c] # {}
        /\ pc'[c] = "respond" => scratch[i] # NoFile /\ got'[c].run = scratch[i]
    BY <2>2, <2>4 DEF CallsOK, FramesOK
  <2>7. pc'[c] = "respond" => got'[c].run >= admitted[c]
    <3>1. scratch[i] # NoFile => scratch[i] >= generation /\ scratch[i] \in Run
      BY <2>4 DEF FramesInv, FramesOK
    <3>2. admitted[c] <= generation /\ admitted[c] \in Nat /\ generation \in Nat
      BY DEF FramesInv, FramesOK, RunsOK, Run, NoRun
    <3> QED
      BY <2>6, <3>1, <3>2 DEF Run
  <2>8. \A j \in Frame : scratch'[j] # NoFile =>
       /\ scratch'[j] >= generation'
       /\ \A d \in Caller : pc'[d] # "spawn" /\ (pc'[d] = "record" => scratch'[j] > generation')
    BY <2>3, <2>5, <2>6 DEF FramesInv
  <2>9. \A d \in Caller :
       /\ admitted'[d] <= generation'
       /\ pc'[d] = "read" => names'[d] # {}
       /\ pc'[d] = "respond" => got'[d].run >= admitted'[d]
    BY <2>3, <2>5, <2>6, <2>7 DEF FramesInv
  <2> QED
    BY <2>8, <2>9 DEF FramesInv
<1>22. ASSUME NEW c \in Caller, Respond(c)
      PROVE  FramesInv'
  BY <1>22, ConstantsAssumption DEF Respond, control, runs, captures, Goes, NoFrame, CallsOK,
     RunsOK, FramesOK, LockInv, SupervisionInv, OwnerInv, FramesInv, Run, NoRun, NoFile, Frame,
     Locked
<1>23. ASSUME NEW r \in Run, NEW p \in Process, ProcessExits(r, p)
      PROVE  FramesInv'
  BY <1>23, ConstantsAssumption DEF ProcessExits, control, runs, captures, CallsOK, RunsOK,
     FramesOK, LockInv, SupervisionInv, OwnerInv, FramesInv, Run, NoRun, NoFile, Frame, Locked
<1>24. ASSUME NEW r \in Run, SupervisorInterrupts(r)
      PROVE  FramesInv'
  BY <1>24, ConstantsAssumption DEF SupervisorInterrupts, control, runs, captures, Interrupt,
     CallsOK, RunsOK, FramesOK, LockInv, SupervisionInv, OwnerInv, FramesInv, Run, NoRun, NoFile,
     Frame, Locked
<1>25. ASSUME NEW r \in Run, SupervisorEnds(r)
      PROVE  FramesInv'
  BY <1>25, ConstantsAssumption DEF SupervisorEnds, control, runs, captures, CallsOK, RunsOK,
     FramesOK, LockInv, SupervisionInv, OwnerInv, FramesInv, Run, NoRun, NoFile, Frame, Locked
<1>26. ASSUME NEW r \in Run, Watch(r)
      PROVE  FramesInv'
  BY <1>26, ConstantsAssumption DEF Watch, control, runs, captures, Done, RunEnded, CallsOK,
     RunsOK, FramesOK, LockInv, SupervisionInv, OwnerInv, FramesInv, Run, NoRun, NoFile, Frame,
     Locked
<1>27. ASSUME NEW r \in Run, FrameWritten(r)
      PROVE  FramesInv'
  <2>1. PICK i \in Frame : scratch' = [scratch EXCEPT ![i] = r]
    BY <1>27 DEF FrameWritten
  <2>2. UNCHANGED <<pc, generation, names, got, admitted>> /\ alive[r] # {}
    BY <1>27 DEF FrameWritten, control, captures
  <2>3. r >= generation /\ r \in Nat /\ generation \in Nat
    BY <2>2 DEF SupervisionInv, RunsOK, Run
  <2>4. ASSUME NEW c \in Caller, pc[c] \in {"spawn", "record"}
        PROVE  r > generation
    <3>1. run = NoRun /\ r # NoRun
      BY <2>4 DEF OwnerInv, Run, NoRun
    <3>2. \A d \in Caller : pc[d] # "reap"
      BY <2>4 DEF LockInv, Locked
    <3> QED
      BY <2>2, <2>3, <3>1, <3>2 DEF OwnerInv
  <2>5. ASSUME NEW c \in Caller
        PROVE  pc[c] # "spawn"
    <3> SUFFICES ASSUME pc[c] = "spawn" PROVE FALSE
      OBVIOUS
    <3>1. r > generation
      BY <2>4
    <3>2. PICK d \in Caller : pc[d] = "record"
      BY <2>2, <3>1 DEF SupervisionInv
    <3> QED
      BY <3>2 DEF LockInv, Locked
  <2>6. \A j \in Frame : scratch'[j] = scratch[j] \/ scratch'[j] = r
    BY <2>1 DEF FramesOK
  <2> QED
    BY <2>2, <2>3, <2>4, <2>5, <2>6 DEF FramesInv
<1>28. CASE UNCHANGED vars
  BY <1>28, ConstantsAssumption DEF vars, control, runs, captures, CallsOK, RunsOK, FramesOK,
     LockInv, SupervisionInv, OwnerInv, FramesInv, Run, NoRun, NoFile, Frame, Locked
<1> QED
  BY <1>1, <1>2, <1>3, <1>4, <1>5, <1>6, <1>7, <1>8, <1>9, <1>10, <1>11, <1>12, <1>13, <1>14,
     <1>15, <1>16, <1>17, <1>18, <1>19, <1>20, <1>21, <1>22, <1>23, <1>24, <1>25, <1>26, <1>27,
     <1>28 DEF Next, Lifecycles, Captures, Supervision

\* What is promised of a moment follows from the parts of the invariant.
LEMMA PartsSuffice ==
  CallsOK /\ RunsOK /\ LockInv /\ SupervisionInv /\ OwnerInv =>
    OneRunAtATime /\ RunIsOwned /\ ActiveIsRecorded /\ StopReceiptIsTrue
<1> SUFFICES ASSUME CallsOK, RunsOK, LockInv, SupervisionInv, OwnerInv
             PROVE  OneRunAtATime /\ RunIsOwned /\ ActiveIsRecorded /\ StopReceiptIsTrue
  OBVIOUS
<1>1. \A r \in Run : alive[r] # {} => r = generation \/ (r = generation + 1 /\ \E c \in Caller : pc[c] = "record")
  BY DEF SupervisionInv, RunsOK, Run
<1>2. \A c, d \in Caller : pc[c] \in Locked /\ pc[d] \in Locked => c = d
  BY DEF LockInv
<1>3. ASSUME NEW c \in Caller, pc[c] = "record", NEW r \in Run, r <= generation
      PROVE  alive[r] = {}
  <2>1. run = NoRun /\ r # NoRun
    BY <1>3 DEF OwnerInv, Run, NoRun
  <2>2. \A d \in Caller : pc[d] # "reap"
    BY <1>2, <1>3 DEF Locked
  <2> QED
    BY <1>3, <2>1, <2>2 DEF OwnerInv
<1>4. OneRunAtATime
  BY <1>1, <1>3 DEF OneRunAtATime, RunsOK
<1>5. opMu = NoCaller => \A c \in Caller : pc[c] \notin Locked
  BY ConstantsAssumption DEF LockInv
<1>6. RunIsOwned
  BY <1>1, <1>5 DEF RunIsOwned, OwnerInv, Locked, RunsOK
<1>7. ActiveIsRecorded
  BY DEF ActiveIsRecorded, OwnerInv
<1>8. StopReceiptIsTrue
  BY <1>6 DEF StopReceiptIsTrue, RunIsOwned, OwnerInv, Run, NoRun
<1> QED
  BY <1>4, <1>6, <1>7, <1>8

\* The control starts in its invariant.
LEMMA InitControl == Init => RunInv
<1> SUFFICES ASSUME Init
             PROVE  RunInv
  OBVIOUS
<1>1. CallsOK
  BY DEF Init, CallsOK, Operation, Lifecycle
<1>2. RunsOK
  <2>1. desiredActive \in BOOLEAN /\ closed \in BOOLEAN
    BY Zenon DEF Init
  <2> QED
    BY <2>1, ConstantsAssumption DEF Init, RunsOK, NoRun
<1>3. FramesOK
  <2>1. NoFrame \in [run : {NoRun} \cup Run, index : 0..MaxFrames]
    BY ConstantsAssumption DEF NoFrame
  <2> QED
    BY <2>1 DEF Init, FramesOK, Empty
<1>4. LockInv
  BY ConstantsAssumption DEF Init, LockInv, Locked
<1>5. SupervisionInv /\ OwnerInv
  BY DEF Init, SupervisionInv, OwnerInv, Run, NoRun
<1>6. FramesInv
  BY DEF Init, FramesInv, Empty, NoRun
<1> QED
  BY <1>1, <1>2, <1>3, <1>4, <1>5, <1>6, PartsSuffice DEF RunInv, TypeOK

\* Every step of the control keeps it.
LEMMA StepControl == RunInv /\ [Next]_vars => RunInv'
<1> SUFFICES ASSUME RunInv, [Next]_vars
             PROVE  RunInv'
  OBVIOUS
<1>1. CallsOK /\ RunsOK /\ FramesOK /\ LockInv /\ SupervisionInv /\ OwnerInv /\ FramesInv
  BY DEF RunInv, TypeOK
<1>2. CallsOK' /\ RunsOK' /\ FramesOK'
  BY <1>1, CallsKept, RunsKept, FramesKept
<1>3. LockInv' /\ SupervisionInv'
  BY <1>1, LockKept, SupervisionKept
<1>4. OwnerInv' /\ FramesInv'
  BY <1>1, OwnerKept, FilesKept
<1>5. (OneRunAtATime /\ RunIsOwned /\ ActiveIsRecorded /\ StopReceiptIsTrue)'
  BY <1>2, <1>3, <1>4, PartsSuffice, PTL
<1> QED
  BY <1>2, <1>3, <1>4, <1>5 DEF RunInv, TypeOK

\* One run at a time holds the device, it is the recorded one whenever no
\* operation holds opMu, and a stop that returned has stopped it: for every
\* number of callers and runs, whichever process exits when, and however late
\* the watcher of an earlier run comes.
THEOREM ControlIsSound == Spec => []RunInv
BY InitControl, StepControl, PTL DEF Spec

\* A capture never answers with a frame of an earlier run than the one it was
\* admitted under, however many restarts clear the directory under it.
THEOREM FramesAreFresh == Spec => NoStaleFrame
<1>1. RunInv /\ [Next]_vars => [\A c \in Caller : Respond(c) => got[c].run >= admitted[c]]_vars
  BY DEF RunInv, FramesInv, Respond, Goes
<1> QED
  BY <1>1, ControlIsSound, PTL DEF Spec, NoStaleFrame
=============================================================================

--------------------------- MODULE CameraPeer_proofs ---------------------------
(***************************************************************************)
(* What the peer of a camera keeps, for every number of callers, revisions *)
(* and camera processes.                                                   *)
(***************************************************************************)
EXTENDS CameraPeer, TLAPS

\* Revisions alternate.
LEMMA OddNext ==
  ASSUME NEW n \in Nat
  PROVE  Odd(n + 1) <=> ~Odd(n)
BY DEF Odd

\* What the worker asks for depends on the revision only.
LEMMA SentActiveIsOdd ==
  ASSUME desiredRevision \in Nat, sentRevision \in Nat, desiredActive \in BOOLEAN,
         desiredActive <=> Odd(desiredRevision), sentRevision <= desiredRevision
  PROVE  SentActive <=> Odd(sentRevision)
<1>1. (desiredRevision - sentRevision) % 2 = 0 <=> (Odd(desiredRevision) <=> Odd(sentRevision))
  BY DEF Odd
<1> QED
  BY <1>1 DEF SentActive

\* Revisions and instances stay in their ranges: what is applied or sent was desired.
LEMMA NumbersKept ==
  ASSUME NumbersOK, [Next]_vars
  PROVE  NumbersOK'
<1>1. CASE CameraStarts
  BY <1>1 DEF CameraStarts, None, Answers, NumbersOK, camera, flags, desired, applied, sent,
     attempt, round
<1>2. CASE CameraStops
  BY <1>2 DEF CameraStops, None, Answers, NumbersOK, camera, flags, desired, applied, sent,
     attempt, round
<1>3. CASE SocketEvent
  BY <1>3 DEF SocketEvent, Invalidate, None, Answers, NumbersOK, camera, flags, desired, applied,
     sent, attempt, round
<1>4. ASSUME NEW c \in Caller, NEW o \in {"start", "stop", "status"}, BeginDemand(c, o)
      PROVE  NumbersOK'
  BY <1>4, OddNext DEF BeginDemand, Changes, NextRevision, Calls, None, Answers, NumbersOK, camera,
     flags, desired, applied, sent, attempt, round
<1>5. ASSUME NEW c \in Caller, CallerRefused(c)
      PROVE  NumbersOK'
  BY <1>5 DEF CallerRefused, EndDemand, NoCall, None, Answers, NumbersOK, camera, flags, desired,
     applied, sent, attempt, round
<1>6. ASSUME NEW c \in Caller, CallerTimesOut(c)
      PROVE  NumbersOK'
  BY <1>6 DEF CallerTimesOut, EndDemand, NoCall, None, Answers, NumbersOK, camera, flags, desired,
     applied, sent, attempt, round
<1>7. ASSUME NEW c \in Caller, AwaitConnected(c)
      PROVE  NumbersOK'
  BY <1>7 DEF AwaitConnected, None, Answers, NumbersOK, camera, flags, desired, applied, sent,
     attempt, round
<1>8. ASSUME NEW c \in Caller, LeaseReturns(c)
      PROVE  NumbersOK'
  BY <1>8 DEF LeaseReturns, EndDemand, NoCall, None, Answers, NumbersOK, camera, flags, desired,
     applied, sent, attempt, round
<1>9. ASSUME NEW c \in Caller, ReadBegins(c)
      PROVE  NumbersOK'
  BY <1>9 DEF ReadBegins, None, Answers, NumbersOK, camera, flags, desired, applied, sent, attempt,
     round
<1>10. ASSUME NEW c \in Caller, ReadReturns(c)
      PROVE  NumbersOK'
  BY <1>10 DEF ReadReturns, EndDemand, NoCall, None, Answers, NumbersOK, camera, flags, desired,
     applied, sent, attempt, round
<1>11. ASSUME NEW c \in Caller, ReadFails(c)
      PROVE  NumbersOK'
  BY <1>11 DEF ReadFails, Invalidate, NoCall, None, Answers, NumbersOK, camera, flags, desired,
     applied, sent, attempt, round
<1>12. CASE Consume
  BY <1>12 DEF Consume, None, Answers, NumbersOK, camera, flags, desired, applied, sent, attempt, round
<1>13. CASE Decide
  BY <1>13 DEF Decide, None, Answers, NumbersOK, camera, flags, desired, applied, sent, attempt, round
<1>14. CASE Discover
  BY <1>14 DEF Discover, None, Answers, NumbersOK, camera, flags, desired, applied, sent, attempt, round
<1>15. CASE Status
  BY <1>15 DEF Status, Resolves, Answers, None, NumbersOK, camera, flags, desired, applied, sent,
     attempt, round
<1>16. CASE Apply
  BY <1>16 DEF Apply, AlreadyApplied, None, Answers, NumbersOK, camera, flags, desired, applied,
     sent, attempt, round
<1>17. CASE RequestLands
  BY <1>17, SentActiveIsOdd DEF RequestLands, Answers, None, NumbersOK, camera, flags, desired,
     applied, sent, attempt, round
<1>18. CASE RequestReturns
  BY <1>18, SentActiveIsOdd DEF RequestReturns, None, Answers, NumbersOK, camera, flags, desired,
     applied, sent, attempt, round
<1>19. CASE AttemptFails
  BY <1>19 DEF AttemptFails, None, Answers, NumbersOK, camera, flags, desired, applied, sent,
     attempt, round
<1>20. CASE Finish
  BY <1>20 DEF Finish, None, Answers, NumbersOK, camera, flags, desired, applied, sent, attempt, round
<1>21. CASE Failed
  BY <1>21 DEF Failed, None, Answers, NumbersOK, camera, flags, desired, applied, sent, attempt, round
<1>22. CASE Woken
  BY <1>22 DEF Woken, None, Answers, NumbersOK, camera, flags, desired, applied, sent, attempt, round
<1>23. CASE BackoffWoken
  BY <1>23 DEF BackoffWoken, None, Answers, NumbersOK, camera, flags, desired, applied, sent,
     attempt, round
<1>24. CASE BackoffOver
  BY <1>24 DEF BackoffOver, None, Answers, NumbersOK, camera, flags, desired, applied, sent,
     attempt, round
<1>25. CASE Shutdown
  BY <1>25 DEF Shutdown, None, Answers, NumbersOK, camera, flags, desired, applied, sent, attempt, round
<1>26. CASE WorkerEnds
  BY <1>26 DEF WorkerEnds, Interruptible, None, Answers, NumbersOK, camera, flags, desired,
     applied, sent, attempt, round
<1>27. CASE CloseDiscovers
  BY <1>27 DEF CloseDiscovers, Drained, None, Answers, NumbersOK, camera, flags, desired, applied,
     sent, attempt, round
<1>28. CASE CloseStops
  BY <1>28 DEF CloseStops, Drained, Answers, None, NumbersOK, camera, flags, desired, applied,
     sent, attempt, round
<1>29. CASE UNCHANGED vars
  BY <1>29 DEF vars, camera, flags, desired, applied, sent, attempt, round, NumbersOK, None, Answers
<1> QED
  BY <1>1, <1>2, <1>3, <1>4, <1>5, <1>6, <1>7, <1>8, <1>9, <1>10, <1>11, <1>12, <1>13, <1>14,
     <1>15, <1>16, <1>17, <1>18, <1>19, <1>20, <1>21, <1>22, <1>23, <1>24, <1>25, <1>26, <1>27,
     <1>28, <1>29 DEF Next, Callers, Worker, Closing

\* Every step keeps the types of the flags.
LEMMA FlagsKept ==
  ASSUME FlagsOK, [Next]_vars
  PROVE  FlagsOK'
<1>1. CASE CameraStarts
  BY <1>1 DEF CameraStarts, FlagsOK, camera, flags, desired, applied, sent, attempt, round
<1>2. CASE CameraStops
  <2>1. up' \in BOOLEAN /\ native' \in BOOLEAN
    BY <1>2, Zenon DEF CameraStops, FlagsOK, flags, attempt
  <2> QED
    BY <1>2, <2>1, SMT DEF CameraStops, FlagsOK, camera, flags, desired, applied, sent, attempt, round
<1>3. CASE SocketEvent
  <2>1. connected' \in BOOLEAN /\ invalidated' \in BOOLEAN /\ healthy' \in BOOLEAN /\ wake' \in BOOLEAN
    BY <1>3, Zenon DEF SocketEvent, Invalidate, FlagsOK, flags, attempt
  <2> QED
    BY <1>3, <2>1, SMT DEF SocketEvent, Invalidate, FlagsOK, camera, flags, desired, applied, sent,
       attempt, round
<1>4. ASSUME NEW c \in Caller, NEW o \in {"start", "stop", "status"}, BeginDemand(c, o)
      PROVE  FlagsOK'
  <2>1. wake' = TRUE /\ (desiredActive' = desiredActive \/ desiredActive' = (o = "start"))
    BY <1>4 DEF BeginDemand, desired
  <2>2. wake' \in BOOLEAN
    BY <2>1, Zenon
  <2>3. desiredActive' \in BOOLEAN
    BY <2>1 DEF FlagsOK
  <2> QED
    BY <1>4, <2>2, <2>3, SMT DEF BeginDemand, FlagsOK, camera, flags, applied, attempt, round
<1>5. ASSUME NEW c \in Caller, CallerRefused(c)
      PROVE  FlagsOK'
  BY <1>5 DEF CallerRefused, EndDemand, NoCall, FlagsOK, camera, flags, desired, applied, sent,
     attempt, round
<1>6. ASSUME NEW c \in Caller, CallerTimesOut(c)
      PROVE  FlagsOK'
  BY <1>6 DEF CallerTimesOut, EndDemand, NoCall, FlagsOK, camera, flags, desired, applied, sent,
     attempt, round
<1>7. ASSUME NEW c \in Caller, AwaitConnected(c)
      PROVE  FlagsOK'
  BY <1>7 DEF AwaitConnected, FlagsOK, camera, flags, desired, applied, sent, attempt, round
<1>8. ASSUME NEW c \in Caller, LeaseReturns(c)
      PROVE  FlagsOK'
  BY <1>8 DEF LeaseReturns, EndDemand, NoCall, FlagsOK, camera, flags, desired, applied, sent,
     attempt, round
<1>9. ASSUME NEW c \in Caller, ReadBegins(c)
      PROVE  FlagsOK'
  BY <1>9 DEF ReadBegins, FlagsOK, camera, flags, desired, applied, sent, attempt, round
<1>10. ASSUME NEW c \in Caller, ReadReturns(c)
      PROVE  FlagsOK'
  BY <1>10 DEF ReadReturns, EndDemand, NoCall, FlagsOK, camera, flags, desired, applied, sent,
     attempt, round
<1>11. ASSUME NEW c \in Caller, ReadFails(c)
      PROVE  FlagsOK'
  <2>1. connected' \in BOOLEAN /\ invalidated' \in BOOLEAN /\ healthy' \in BOOLEAN /\ wake' \in BOOLEAN
    BY <1>11, Zenon DEF ReadFails, Invalidate, NoCall, FlagsOK, flags, attempt
  <2> QED
    BY <1>11, <2>1, SMT DEF ReadFails, Invalidate, NoCall, FlagsOK, camera, flags, desired,
       applied, sent, attempt, round
<1>12. CASE Consume
  <2>1. invalidated' \in BOOLEAN /\ socketChanged' \in BOOLEAN /\ conn' \in BOOLEAN /\ revalidate' \in BOOLEAN
    BY <1>12, Zenon DEF Consume, FlagsOK, flags, attempt
  <2> QED
    BY <1>12, <2>1, SMT DEF Consume, FlagsOK, camera, flags, desired, applied, sent, attempt, round
<1>13. CASE Decide
  <2>1. conn' \in BOOLEAN /\ revalidate' \in BOOLEAN /\ idle' \in BOOLEAN /\ attempting' \in BOOLEAN
    BY <1>13, Zenon DEF Decide, FlagsOK, flags, attempt
  <2> QED
    BY <1>13, <2>1, SMT DEF Decide, FlagsOK, camera, flags, desired, applied, sent, attempt, round
<1>14. CASE Discover
  BY <1>14 DEF Discover, FlagsOK, camera, flags, desired, applied, sent, attempt, round
<1>15. CASE Status
  BY <1>15 DEF Status, Resolves, Answers, FlagsOK, camera, flags, desired, applied, sent, attempt, round
<1>16. CASE Apply
  BY <1>16 DEF Apply, AlreadyApplied, FlagsOK, camera, flags, desired, applied, sent, attempt, round
<1>17. CASE RequestLands
  <2>1. landed' \in BOOLEAN
    BY <1>17, Zenon DEF RequestLands, Answers, FlagsOK, SentActive, flags, attempt
  <2> QED
    BY <1>17, <2>1, SMT DEF RequestLands, Answers, FlagsOK, SentActive, camera, flags, desired,
       applied, sent, attempt, round
<1>18. CASE RequestReturns
  <2>1. healthy' \in BOOLEAN /\ landed' \in BOOLEAN
    BY <1>18, Zenon DEF RequestReturns, FlagsOK, SentActive, flags, attempt
  <2> QED
    BY <1>18, <2>1, SMT DEF RequestReturns, FlagsOK, SentActive, camera, flags, desired, applied,
       sent, attempt, round
<1>19. CASE AttemptFails
  <2>1. failed' \in BOOLEAN /\ landed' \in BOOLEAN
    BY <1>19, Zenon DEF AttemptFails, FlagsOK, flags, attempt
  <2> QED
    BY <1>19, <2>1, SMT DEF AttemptFails, FlagsOK, camera, flags, desired, applied, sent, attempt, round
<1>20. CASE Finish
  <2>1. attempting' \in BOOLEAN /\ cancelled' \in BOOLEAN /\ validatingStop' \in BOOLEAN /\ first' \in BOOLEAN
    BY <1>20, Zenon DEF Finish, FlagsOK, flags, attempt
  <2> QED
    BY <1>20, <2>1, SMT DEF Finish, FlagsOK, camera, flags, desired, applied, sent, attempt, round
<1>21. CASE Failed
  <2>1. failed' \in BOOLEAN
    BY <1>21, Zenon DEF Failed, FlagsOK, flags, attempt
  <2> QED
    BY <1>21, <2>1, SMT DEF Failed, FlagsOK, camera, flags, desired, applied, sent, attempt, round
<1>22. CASE Woken
  <2>1. wake' \in BOOLEAN
    BY <1>22, Zenon DEF Woken, FlagsOK, flags, attempt
  <2> QED
    BY <1>22, <2>1, SMT DEF Woken, FlagsOK, camera, flags, desired, applied, sent, attempt, round
<1>23. CASE BackoffWoken
  <2>1. wake' \in BOOLEAN
    BY <1>23, Zenon DEF BackoffWoken, FlagsOK, flags, attempt
  <2> QED
    BY <1>23, <2>1, SMT DEF BackoffWoken, FlagsOK, camera, flags, desired, applied, sent, attempt, round
<1>24. CASE BackoffOver
  BY <1>24 DEF BackoffOver, FlagsOK, camera, flags, desired, applied, sent, attempt, round
<1>25. CASE Shutdown
  BY <1>25 DEF Shutdown, FlagsOK, camera, flags, desired, applied, sent, attempt, round
<1>26. CASE WorkerEnds
  BY <1>26 DEF WorkerEnds, Interruptible, FlagsOK, camera, flags, desired, applied, sent, attempt, round
<1>27. CASE CloseDiscovers
  BY <1>27 DEF CloseDiscovers, Drained, FlagsOK, camera, flags, desired, applied, sent, attempt, round
<1>28. CASE CloseStops
  <2>1. native' \in BOOLEAN
    BY <1>28, Zenon DEF CloseStops, Drained, Answers, FlagsOK, flags, attempt
  <2> QED
    BY <1>28, <2>1, SMT DEF CloseStops, Drained, Answers, FlagsOK, camera, flags, desired, applied,
       sent, attempt, round
<1>29. CASE UNCHANGED vars
  BY <1>29 DEF vars, camera, flags, desired, applied, sent, attempt, round, FlagsOK
<1> QED
  BY <1>1, <1>2, <1>3, <1>4, <1>5, <1>6, <1>7, <1>8, <1>9, <1>10, <1>11, <1>12, <1>13, <1>14,
     <1>15, <1>16, <1>17, <1>18, <1>19, <1>20, <1>21, <1>22, <1>23, <1>24, <1>25, <1>26, <1>27,
     <1>28, <1>29 DEF Next, Callers, Worker, Closing

\* Every step keeps the types of the callers.
LEMMA CallersKept ==
  ASSUME NumbersOK, FlagsOK, CallersOK, [Next]_vars
  PROVE  CallersOK'
<1>1. CASE CameraStarts
  BY <1>1 DEF CameraStarts, NumbersOK, FlagsOK, CallersOK, camera, flags, desired, applied, sent,
     attempt, round
<1>2. CASE CameraStops
  BY <1>2 DEF CameraStops, NumbersOK, FlagsOK, CallersOK, camera, flags, desired, applied, sent,
     attempt, round
<1>3. CASE SocketEvent
  BY <1>3 DEF SocketEvent, Invalidate, NumbersOK, FlagsOK, CallersOK, camera, flags, desired,
     applied, sent, attempt, round
<1>4. ASSUME NEW c \in Caller, NEW o \in {"start", "stop", "status"}, BeginDemand(c, o)
      PROVE  CallersOK'
  <2> DEFINE new == [phase |-> "await", op |-> o, idle |-> Quiescent,
                     due |-> Quiescent /\ attempting /\ ~invalidated,
                     revision |-> IF o = "status" THEN 0 ELSE desiredRevision']
  <2>1. caller' = [caller EXCEPT ![c] = new]
    BY <1>4, Zenon DEF BeginDemand
  <2>2. desiredRevision' \in Nat
    BY <1>4 DEF BeginDemand, NextRevision, desired, NumbersOK
  <2>3. Quiescent \in BOOLEAN
    BY DEF Quiescent, FlagsOK
  <2>4. (Quiescent /\ attempting /\ ~invalidated) \in BOOLEAN
    OBVIOUS
  <2>5. (IF o = "status" THEN 0 ELSE desiredRevision') \in Nat
    BY <2>2
  <2>6. new \in [phase : {"none", "await", "call", "read"}, op : {"start", "stop", "status"},
                idle : BOOLEAN, due : BOOLEAN, revision : Nat]
    BY <2>3, <2>4, <2>5
  <2> HIDE DEF new
  <2> QED
    BY <2>1, <2>6 DEF CallersOK
<1>5. ASSUME NEW c \in Caller, CallerRefused(c)
      PROVE  CallersOK'
  BY <1>5 DEF CallerRefused, EndDemand, NoCall, NumbersOK, FlagsOK, CallersOK, camera, flags,
     desired, applied, sent, attempt, round
<1>6. ASSUME NEW c \in Caller, CallerTimesOut(c)
      PROVE  CallersOK'
  BY <1>6 DEF CallerTimesOut, EndDemand, NoCall, NumbersOK, FlagsOK, CallersOK, camera, flags,
     desired, applied, sent, attempt, round
<1>7. ASSUME NEW c \in Caller, AwaitConnected(c)
      PROVE  CallersOK'
  BY <1>7 DEF AwaitConnected, NumbersOK, FlagsOK, CallersOK, camera, flags, desired, applied, sent,
     attempt, round
<1>8. ASSUME NEW c \in Caller, LeaseReturns(c)
      PROVE  CallersOK'
  BY <1>8 DEF LeaseReturns, EndDemand, NoCall, NumbersOK, FlagsOK, CallersOK, camera, flags,
     desired, applied, sent, attempt, round
<1>9. ASSUME NEW c \in Caller, ReadBegins(c)
      PROVE  CallersOK'
  BY <1>9 DEF ReadBegins, NumbersOK, FlagsOK, CallersOK, camera, flags, desired, applied, sent,
     attempt, round
<1>10. ASSUME NEW c \in Caller, ReadReturns(c)
      PROVE  CallersOK'
  BY <1>10 DEF ReadReturns, EndDemand, NoCall, NumbersOK, FlagsOK, CallersOK, camera, flags,
     desired, applied, sent, attempt, round
<1>11. ASSUME NEW c \in Caller, ReadFails(c)
      PROVE  CallersOK'
  BY <1>11 DEF ReadFails, Invalidate, NoCall, NumbersOK, FlagsOK, CallersOK, camera, flags,
     desired, applied, sent, attempt, round
<1>12. CASE Consume
  BY <1>12 DEF Consume, NumbersOK, FlagsOK, CallersOK, camera, flags, desired, applied, sent,
     attempt, round
<1>13. CASE Decide
  BY <1>13 DEF Decide, NumbersOK, FlagsOK, CallersOK, camera, flags, desired, applied, sent,
     attempt, round
<1>14. CASE Discover
  BY <1>14 DEF Discover, NumbersOK, FlagsOK, CallersOK, camera, flags, desired, applied, sent,
     attempt, round
<1>15. CASE Status
  BY <1>15 DEF Status, Resolves, Answers, NumbersOK, FlagsOK, CallersOK, camera, flags, desired,
     applied, sent, attempt, round
<1>16. CASE Apply
  BY <1>16 DEF Apply, AlreadyApplied, NumbersOK, FlagsOK, CallersOK, camera, flags, desired,
     applied, sent, attempt, round
<1>17. CASE RequestLands
  BY <1>17, SentActiveIsOdd DEF RequestLands, Answers, NumbersOK, FlagsOK, CallersOK, camera,
     flags, desired, applied, sent, attempt, round
<1>18. CASE RequestReturns
  BY <1>18, SentActiveIsOdd DEF RequestReturns, NumbersOK, FlagsOK, CallersOK, camera, flags,
     desired, applied, sent, attempt, round
<1>19. CASE AttemptFails
  BY <1>19 DEF AttemptFails, NumbersOK, FlagsOK, CallersOK, camera, flags, desired, applied, sent,
     attempt, round
<1>20. CASE Finish
  BY <1>20 DEF Finish, NumbersOK, FlagsOK, CallersOK, camera, flags, desired, applied, sent,
     attempt, round
<1>21. CASE Failed
  BY <1>21 DEF Failed, NumbersOK, FlagsOK, CallersOK, camera, flags, desired, applied, sent,
     attempt, round
<1>22. CASE Woken
  BY <1>22 DEF Woken, NumbersOK, FlagsOK, CallersOK, camera, flags, desired, applied, sent,
     attempt, round
<1>23. CASE BackoffWoken
  BY <1>23 DEF BackoffWoken, NumbersOK, FlagsOK, CallersOK, camera, flags, desired, applied, sent,
     attempt, round
<1>24. CASE BackoffOver
  BY <1>24 DEF BackoffOver, NumbersOK, FlagsOK, CallersOK, camera, flags, desired, applied, sent,
     attempt, round
<1>25. CASE Shutdown
  BY <1>25 DEF Shutdown, NumbersOK, FlagsOK, CallersOK, camera, flags, desired, applied, sent,
     attempt, round
<1>26. CASE WorkerEnds
  BY <1>26 DEF WorkerEnds, Interruptible, NumbersOK, FlagsOK, CallersOK, camera, flags, desired,
     applied, sent, attempt, round
<1>27. CASE CloseDiscovers
  BY <1>27 DEF CloseDiscovers, Drained, NumbersOK, FlagsOK, CallersOK, camera, flags, desired,
     applied, sent, attempt, round
<1>28. CASE CloseStops
  BY <1>28 DEF CloseStops, Drained, Answers, NumbersOK, FlagsOK, CallersOK, camera, flags, desired,
     applied, sent, attempt, round
<1>29. CASE UNCHANGED vars
  BY <1>29 DEF vars, camera, flags, desired, applied, sent, attempt, round, NumbersOK, FlagsOK,
     CallersOK
<1> QED
  BY <1>1, <1>2, <1>3, <1>4, <1>5, <1>6, <1>7, <1>8, <1>9, <1>10, <1>11, <1>12, <1>13, <1>14,
     <1>15, <1>16, <1>17, <1>18, <1>19, <1>20, <1>21, <1>22, <1>23, <1>24, <1>25, <1>26, <1>27,
     <1>28, <1>29 DEF Next, Callers, Worker, Closing

\* The worker is somewhere in its loop.
LEMMA PhaseKept ==
  ASSUME PhaseOK, [Next]_vars
  PROVE  PhaseOK'
<1>1. CASE CameraStarts
  BY <1>1 DEF CameraStarts, PhaseOK, camera, flags, desired, applied, sent, attempt, round
<1>2. CASE CameraStops
  BY <1>2 DEF CameraStops, PhaseOK, camera, flags, desired, applied, sent, attempt, round
<1>3. CASE SocketEvent
  BY <1>3 DEF SocketEvent, Invalidate, PhaseOK, camera, flags, desired, applied, sent, attempt, round
<1>4. ASSUME NEW c \in Caller, NEW o \in {"start", "stop", "status"}, BeginDemand(c, o)
      PROVE  PhaseOK'
  BY <1>4, OddNext DEF BeginDemand, Changes, NextRevision, Calls, PhaseOK, camera, flags, desired,
     applied, sent, attempt, round
<1>5. ASSUME NEW c \in Caller, CallerRefused(c)
      PROVE  PhaseOK'
  BY <1>5 DEF CallerRefused, EndDemand, NoCall, PhaseOK, camera, flags, desired, applied, sent,
     attempt, round
<1>6. ASSUME NEW c \in Caller, CallerTimesOut(c)
      PROVE  PhaseOK'
  BY <1>6 DEF CallerTimesOut, EndDemand, NoCall, PhaseOK, camera, flags, desired, applied, sent,
     attempt, round
<1>7. ASSUME NEW c \in Caller, AwaitConnected(c)
      PROVE  PhaseOK'
  BY <1>7 DEF AwaitConnected, PhaseOK, camera, flags, desired, applied, sent, attempt, round
<1>8. ASSUME NEW c \in Caller, LeaseReturns(c)
      PROVE  PhaseOK'
  BY <1>8 DEF LeaseReturns, EndDemand, NoCall, PhaseOK, camera, flags, desired, applied, sent,
     attempt, round
<1>9. ASSUME NEW c \in Caller, ReadBegins(c)
      PROVE  PhaseOK'
  BY <1>9 DEF ReadBegins, PhaseOK, camera, flags, desired, applied, sent, attempt, round
<1>10. ASSUME NEW c \in Caller, ReadReturns(c)
      PROVE  PhaseOK'
  BY <1>10 DEF ReadReturns, EndDemand, NoCall, PhaseOK, camera, flags, desired, applied, sent,
     attempt, round
<1>11. ASSUME NEW c \in Caller, ReadFails(c)
      PROVE  PhaseOK'
  BY <1>11 DEF ReadFails, Invalidate, NoCall, PhaseOK, camera, flags, desired, applied, sent,
     attempt, round
<1>12. CASE Consume
  BY <1>12 DEF Consume, PhaseOK, camera, flags, desired, applied, sent, attempt, round
<1>13. CASE Decide
  BY <1>13 DEF Decide, PhaseOK, camera, flags, desired, applied, sent, attempt, round
<1>14. CASE Discover
  BY <1>14 DEF Discover, PhaseOK, camera, flags, desired, applied, sent, attempt, round
<1>15. CASE Status
  BY <1>15 DEF Status, Resolves, Answers, PhaseOK, camera, flags, desired, applied, sent, attempt, round
<1>16. CASE Apply
  BY <1>16 DEF Apply, AlreadyApplied, PhaseOK, camera, flags, desired, applied, sent, attempt, round
<1>17. CASE RequestLands
  BY <1>17, SentActiveIsOdd DEF RequestLands, Answers, PhaseOK, camera, flags, desired, applied,
     sent, attempt, round
<1>18. CASE RequestReturns
  BY <1>18, SentActiveIsOdd DEF RequestReturns, PhaseOK, camera, flags, desired, applied, sent,
     attempt, round
<1>19. CASE AttemptFails
  BY <1>19 DEF AttemptFails, PhaseOK, camera, flags, desired, applied, sent, attempt, round
<1>20. CASE Finish
  BY <1>20 DEF Finish, PhaseOK, camera, flags, desired, applied, sent, attempt, round
<1>21. CASE Failed
  BY <1>21 DEF Failed, PhaseOK, camera, flags, desired, applied, sent, attempt, round
<1>22. CASE Woken
  BY <1>22 DEF Woken, PhaseOK, camera, flags, desired, applied, sent, attempt, round
<1>23. CASE BackoffWoken
  BY <1>23 DEF BackoffWoken, PhaseOK, camera, flags, desired, applied, sent, attempt, round
<1>24. CASE BackoffOver
  BY <1>24 DEF BackoffOver, PhaseOK, camera, flags, desired, applied, sent, attempt, round
<1>25. CASE Shutdown
  BY <1>25 DEF Shutdown, PhaseOK, camera, flags, desired, applied, sent, attempt, round
<1>26. CASE WorkerEnds
  BY <1>26 DEF WorkerEnds, Interruptible, PhaseOK, camera, flags, desired, applied, sent, attempt, round
<1>27. CASE CloseDiscovers
  BY <1>27 DEF CloseDiscovers, Drained, PhaseOK, camera, flags, desired, applied, sent, attempt, round
<1>28. CASE CloseStops
  BY <1>28 DEF CloseStops, Drained, Answers, PhaseOK, camera, flags, desired, applied, sent,
     attempt, round
<1>29. CASE UNCHANGED vars
  BY <1>29 DEF vars, camera, flags, desired, applied, sent, attempt, round, PhaseOK
<1> QED
  BY <1>1, <1>2, <1>3, <1>4, <1>5, <1>6, <1>7, <1>8, <1>9, <1>10, <1>11, <1>12, <1>13, <1>14,
     <1>15, <1>16, <1>17, <1>18, <1>19, <1>20, <1>21, <1>22, <1>23, <1>24, <1>25, <1>26, <1>27,
     <1>28, <1>29 DEF Next, Callers, Worker, Closing

\* Revisions keep alternating, and the one start or stop that waits is the last one.
LEMMA DesiredKept ==
  ASSUME NumbersOK, FlagsOK, CallersOK, DesiredInv, [Next]_vars
  PROVE  DesiredInv'
<1>1. CASE CameraStarts
  BY <1>1 DEF CameraStarts, NumbersOK, FlagsOK, CallersOK, DesiredInv, camera, flags, desired,
     applied, sent, attempt, round
<1>2. CASE CameraStops
  BY <1>2 DEF CameraStops, NumbersOK, FlagsOK, CallersOK, DesiredInv, camera, flags, desired,
     applied, sent, attempt, round
<1>3. CASE SocketEvent
  BY <1>3 DEF SocketEvent, Invalidate, NumbersOK, FlagsOK, CallersOK, DesiredInv, camera, flags,
     desired, applied, sent, attempt, round
<1>4. ASSUME NEW c \in Caller, NEW o \in {"start", "stop", "status"}, BeginDemand(c, o)
      PROVE  DesiredInv'
  <2>1. /\ \A d \in Caller : o # "status" /\ caller[d].phase # "none" => caller[d].op = "status"
        /\ o = "stop" => desiredRevision # 0
    BY <1>4 DEF BeginDemand, Calls
  <2>2. \/ /\ o # "status" /\ (desiredRevision = 0 \/ desiredActive # (o = "start"))
           /\ desiredRevision' = desiredRevision + 1 /\ desiredActive' = (o = "start")
        \/ /\ o # "status" => desiredRevision # 0 /\ desiredActive = (o = "start")
           /\ desiredRevision' = desiredRevision /\ desiredActive' = desiredActive
    BY <1>4 DEF BeginDemand, Changes, NextRevision, desired, FlagsOK
  <2>3. (desiredActive <=> Odd(desiredRevision))'
    <3>1. Odd(desiredRevision + 1) <=> ~Odd(desiredRevision)
      BY OddNext DEF NumbersOK
    <3>2. desiredRevision = 0 => ~Odd(desiredRevision)
      BY DEF Odd
    <3>3. CASE /\ desiredRevision = 0 \/ desiredActive # (o = "start")
               /\ o # "status" /\ desiredRevision' = desiredRevision + 1 /\ desiredActive' = (o = "start")
      <4>1. desiredActive # (o = "start")
        BY <2>1, <3>2, <3>3 DEF DesiredInv, FlagsOK
      <4>2. desiredActive' <=> ~desiredActive
        BY <3>3, <4>1 DEF FlagsOK
      <4>3. Odd(desiredRevision') <=> ~Odd(desiredRevision)
        BY <3>1, <3>3
      <4> QED
        BY <4>2, <4>3 DEF DesiredInv
    <3>4. CASE desiredRevision' = desiredRevision /\ desiredActive' = desiredActive
      BY <3>4 DEF DesiredInv
    <3> QED
      BY <2>2, <3>3, <3>4
  <2>4. /\ caller'[c].op = o /\ caller'[c].phase = "await"
        /\ caller'[c].revision = IF o = "status" THEN 0 ELSE desiredRevision'
        /\ \A d \in Caller \ {c} : caller'[d] = caller[d]
    BY <1>4 DEF BeginDemand, CallersOK
  <2>5. ASSUME NEW d \in Caller, caller'[d].op # "status"
        PROVE  /\ caller'[d].phase # "none" /\ caller'[d].revision = desiredRevision'
               /\ desiredRevision' # 0 /\ desiredActive' = (caller'[d].op = "start")
    <3>1. CASE d = c
      BY <2>2, <2>4, <2>5, <3>1 DEF NumbersOK
    <3>2. CASE d # c
      <4>1. caller'[d] = caller[d] /\ caller[d].op # "status" /\ caller[d].phase # "none"
        BY <2>4, <2>5, <3>2 DEF DesiredInv
      <4>2. o = "status"
        BY <2>1, <4>1
      <4> QED
        BY <2>2, <4>1, <4>2 DEF DesiredInv
    <3> QED
      BY <3>1, <3>2
  <2> QED
    BY <1>4, <2>3, <2>5 DEF BeginDemand, DesiredInv, applied
<1>5. ASSUME NEW c \in Caller, CallerRefused(c)
      PROVE  DesiredInv'
  BY <1>5 DEF CallerRefused, EndDemand, NoCall, NumbersOK, FlagsOK, CallersOK, DesiredInv, camera,
     flags, desired, applied, sent, attempt, round
<1>6. ASSUME NEW c \in Caller, CallerTimesOut(c)
      PROVE  DesiredInv'
  BY <1>6 DEF CallerTimesOut, EndDemand, NoCall, NumbersOK, FlagsOK, CallersOK, DesiredInv, camera,
     flags, desired, applied, sent, attempt, round
<1>7. ASSUME NEW c \in Caller, AwaitConnected(c)
      PROVE  DesiredInv'
  BY <1>7 DEF AwaitConnected, NumbersOK, FlagsOK, CallersOK, DesiredInv, camera, flags, desired,
     applied, sent, attempt, round
<1>8. ASSUME NEW c \in Caller, LeaseReturns(c)
      PROVE  DesiredInv'
  BY <1>8 DEF LeaseReturns, EndDemand, NoCall, NumbersOK, FlagsOK, CallersOK, DesiredInv, camera,
     flags, desired, applied, sent, attempt, round
<1>9. ASSUME NEW c \in Caller, ReadBegins(c)
      PROVE  DesiredInv'
  BY <1>9 DEF ReadBegins, NumbersOK, FlagsOK, CallersOK, DesiredInv, camera, flags, desired,
     applied, sent, attempt, round
<1>10. ASSUME NEW c \in Caller, ReadReturns(c)
      PROVE  DesiredInv'
  BY <1>10 DEF ReadReturns, EndDemand, NoCall, NumbersOK, FlagsOK, CallersOK, DesiredInv, camera,
     flags, desired, applied, sent, attempt, round
<1>11. ASSUME NEW c \in Caller, ReadFails(c)
      PROVE  DesiredInv'
  BY <1>11 DEF ReadFails, Invalidate, NoCall, NumbersOK, FlagsOK, CallersOK, DesiredInv, camera,
     flags, desired, applied, sent, attempt, round
<1>12. CASE Consume
  BY <1>12 DEF Consume, NumbersOK, FlagsOK, CallersOK, DesiredInv, camera, flags, desired, applied,
     sent, attempt, round
<1>13. CASE Decide
  BY <1>13 DEF Decide, NumbersOK, FlagsOK, CallersOK, DesiredInv, camera, flags, desired, applied,
     sent, attempt, round
<1>14. CASE Discover
  BY <1>14 DEF Discover, NumbersOK, FlagsOK, CallersOK, DesiredInv, camera, flags, desired,
     applied, sent, attempt, round
<1>15. CASE Status
  BY <1>15 DEF Status, Resolves, Answers, NumbersOK, FlagsOK, CallersOK, DesiredInv, camera, flags,
     desired, applied, sent, attempt, round
<1>16. CASE Apply
  BY <1>16 DEF Apply, AlreadyApplied, NumbersOK, FlagsOK, CallersOK, DesiredInv, camera, flags,
     desired, applied, sent, attempt, round
<1>17. CASE RequestLands
  BY <1>17, SentActiveIsOdd DEF RequestLands, Answers, NumbersOK, FlagsOK, CallersOK, DesiredInv,
     camera, flags, desired, applied, sent, attempt, round
<1>18. CASE RequestReturns
  BY <1>18, SentActiveIsOdd DEF RequestReturns, NumbersOK, FlagsOK, CallersOK, DesiredInv, camera,
     flags, desired, applied, sent, attempt, round
<1>19. CASE AttemptFails
  BY <1>19 DEF AttemptFails, NumbersOK, FlagsOK, CallersOK, DesiredInv, camera, flags, desired,
     applied, sent, attempt, round
<1>20. CASE Finish
  BY <1>20 DEF Finish, NumbersOK, FlagsOK, CallersOK, DesiredInv, camera, flags, desired, applied,
     sent, attempt, round
<1>21. CASE Failed
  BY <1>21 DEF Failed, NumbersOK, FlagsOK, CallersOK, DesiredInv, camera, flags, desired, applied,
     sent, attempt, round
<1>22. CASE Woken
  BY <1>22 DEF Woken, NumbersOK, FlagsOK, CallersOK, DesiredInv, camera, flags, desired, applied,
     sent, attempt, round
<1>23. CASE BackoffWoken
  BY <1>23 DEF BackoffWoken, NumbersOK, FlagsOK, CallersOK, DesiredInv, camera, flags, desired,
     applied, sent, attempt, round
<1>24. CASE BackoffOver
  BY <1>24 DEF BackoffOver, NumbersOK, FlagsOK, CallersOK, DesiredInv, camera, flags, desired,
     applied, sent, attempt, round
<1>25. CASE Shutdown
  BY <1>25 DEF Shutdown, NumbersOK, FlagsOK, CallersOK, DesiredInv, camera, flags, desired,
     applied, sent, attempt, round
<1>26. CASE WorkerEnds
  BY <1>26 DEF WorkerEnds, Interruptible, NumbersOK, FlagsOK, CallersOK, DesiredInv, camera, flags,
     desired, applied, sent, attempt, round
<1>27. CASE CloseDiscovers
  BY <1>27 DEF CloseDiscovers, Drained, NumbersOK, FlagsOK, CallersOK, DesiredInv, camera, flags,
     desired, applied, sent, attempt, round
<1>28. CASE CloseStops
  BY <1>28 DEF CloseStops, Drained, Answers, NumbersOK, FlagsOK, CallersOK, DesiredInv, camera,
     flags, desired, applied, sent, attempt, round
<1>29. CASE UNCHANGED vars
  BY <1>29 DEF vars, camera, flags, desired, applied, sent, attempt, round, NumbersOK, FlagsOK,
     CallersOK, DesiredInv
<1> QED
  BY <1>1, <1>2, <1>3, <1>4, <1>5, <1>6, <1>7, <1>8, <1>9, <1>10, <1>11, <1>12, <1>13, <1>14,
     <1>15, <1>16, <1>17, <1>18, <1>19, <1>20, <1>21, <1>22, <1>23, <1>24, <1>25, <1>26, <1>27,
     <1>28, <1>29 DEF Next, Callers, Worker, Closing

\* A peer is connected to a process that it is bound to.
LEMMA ConnectionKept ==
  ASSUME NumbersOK, FlagsOK, ServedInv, ConnectionInv, [Next]_vars
  PROVE  ConnectionInv'
<1>1. CASE CameraStarts
  BY <1>1 DEF CameraStarts, None, NumbersOK, FlagsOK, ServedInv, ConnectionInv, camera, flags,
     desired, applied, sent, attempt, round
<1>2. CASE CameraStops
  BY <1>2 DEF CameraStops, None, NumbersOK, FlagsOK, ServedInv, ConnectionInv, camera, flags,
     desired, applied, sent, attempt, round
<1>3. CASE SocketEvent
  BY <1>3 DEF SocketEvent, Invalidate, None, NumbersOK, FlagsOK, ServedInv, ConnectionInv, camera,
     flags, desired, applied, sent, attempt, round
<1>4. ASSUME NEW c \in Caller, NEW o \in {"start", "stop", "status"}, BeginDemand(c, o)
      PROVE  ConnectionInv'
  BY <1>4, OddNext DEF BeginDemand, Changes, NextRevision, Calls, None, NumbersOK, FlagsOK,
     ServedInv, ConnectionInv, camera, flags, desired, applied, sent, attempt, round
<1>5. ASSUME NEW c \in Caller, CallerRefused(c)
      PROVE  ConnectionInv'
  BY <1>5 DEF CallerRefused, EndDemand, NoCall, None, NumbersOK, FlagsOK, ServedInv, ConnectionInv,
     camera, flags, desired, applied, sent, attempt, round
<1>6. ASSUME NEW c \in Caller, CallerTimesOut(c)
      PROVE  ConnectionInv'
  BY <1>6 DEF CallerTimesOut, EndDemand, NoCall, None, NumbersOK, FlagsOK, ServedInv,
     ConnectionInv, camera, flags, desired, applied, sent, attempt, round
<1>7. ASSUME NEW c \in Caller, AwaitConnected(c)
      PROVE  ConnectionInv'
  BY <1>7 DEF AwaitConnected, None, NumbersOK, FlagsOK, ServedInv, ConnectionInv, camera, flags,
     desired, applied, sent, attempt, round
<1>8. ASSUME NEW c \in Caller, LeaseReturns(c)
      PROVE  ConnectionInv'
  BY <1>8 DEF LeaseReturns, EndDemand, NoCall, None, NumbersOK, FlagsOK, ServedInv, ConnectionInv,
     camera, flags, desired, applied, sent, attempt, round
<1>9. ASSUME NEW c \in Caller, ReadBegins(c)
      PROVE  ConnectionInv'
  BY <1>9 DEF ReadBegins, None, NumbersOK, FlagsOK, ServedInv, ConnectionInv, camera, flags,
     desired, applied, sent, attempt, round
<1>10. ASSUME NEW c \in Caller, ReadReturns(c)
      PROVE  ConnectionInv'
  BY <1>10 DEF ReadReturns, EndDemand, NoCall, None, NumbersOK, FlagsOK, ServedInv, ConnectionInv,
     camera, flags, desired, applied, sent, attempt, round
<1>11. ASSUME NEW c \in Caller, ReadFails(c)
      PROVE  ConnectionInv'
  BY <1>11 DEF ReadFails, Invalidate, NoCall, None, NumbersOK, FlagsOK, ServedInv, ConnectionInv,
     camera, flags, desired, applied, sent, attempt, round
<1>12. CASE Consume
  BY <1>12 DEF Consume, None, NumbersOK, FlagsOK, ServedInv, ConnectionInv, camera, flags, desired,
     applied, sent, attempt, round
<1>13. CASE Decide
  BY <1>13 DEF Decide, None, NumbersOK, FlagsOK, ServedInv, ConnectionInv, camera, flags, desired,
     applied, sent, attempt, round
<1>14. CASE Discover
  BY <1>14 DEF Discover, None, NumbersOK, FlagsOK, ServedInv, ConnectionInv, camera, flags,
     desired, applied, sent, attempt, round
<1>15. CASE Status
  BY <1>15 DEF Status, Resolves, Answers, None, NumbersOK, FlagsOK, ServedInv, ConnectionInv,
     camera, flags, desired, applied, sent, attempt, round
<1>16. CASE Apply
  BY <1>16 DEF Apply, AlreadyApplied, None, NumbersOK, FlagsOK, ServedInv, ConnectionInv, camera,
     flags, desired, applied, sent, attempt, round
<1>17. CASE RequestLands
  BY <1>17, SentActiveIsOdd DEF RequestLands, Answers, None, NumbersOK, FlagsOK, ServedInv,
     ConnectionInv, camera, flags, desired, applied, sent, attempt, round
<1>18. CASE RequestReturns
  BY <1>18, SentActiveIsOdd DEF RequestReturns, None, NumbersOK, FlagsOK, ServedInv, ConnectionInv,
     camera, flags, desired, applied, sent, attempt, round
<1>19. CASE AttemptFails
  BY <1>19 DEF AttemptFails, None, NumbersOK, FlagsOK, ServedInv, ConnectionInv, camera, flags,
     desired, applied, sent, attempt, round
<1>20. CASE Finish
  BY <1>20 DEF Finish, None, NumbersOK, FlagsOK, ServedInv, ConnectionInv, camera, flags, desired,
     applied, sent, attempt, round
<1>21. CASE Failed
  BY <1>21 DEF Failed, None, NumbersOK, FlagsOK, ServedInv, ConnectionInv, camera, flags, desired,
     applied, sent, attempt, round
<1>22. CASE Woken
  BY <1>22 DEF Woken, None, NumbersOK, FlagsOK, ServedInv, ConnectionInv, camera, flags, desired,
     applied, sent, attempt, round
<1>23. CASE BackoffWoken
  BY <1>23 DEF BackoffWoken, None, NumbersOK, FlagsOK, ServedInv, ConnectionInv, camera, flags,
     desired, applied, sent, attempt, round
<1>24. CASE BackoffOver
  BY <1>24 DEF BackoffOver, None, NumbersOK, FlagsOK, ServedInv, ConnectionInv, camera, flags,
     desired, applied, sent, attempt, round
<1>25. CASE Shutdown
  BY <1>25 DEF Shutdown, None, NumbersOK, FlagsOK, ServedInv, ConnectionInv, camera, flags,
     desired, applied, sent, attempt, round
<1>26. CASE WorkerEnds
  BY <1>26 DEF WorkerEnds, Interruptible, None, NumbersOK, FlagsOK, ServedInv, ConnectionInv,
     camera, flags, desired, applied, sent, attempt, round
<1>27. CASE CloseDiscovers
  BY <1>27 DEF CloseDiscovers, Drained, None, NumbersOK, FlagsOK, ServedInv, ConnectionInv, camera,
     flags, desired, applied, sent, attempt, round
<1>28. CASE CloseStops
  BY <1>28 DEF CloseStops, Drained, Answers, None, NumbersOK, FlagsOK, ServedInv, ConnectionInv,
     camera, flags, desired, applied, sent, attempt, round
<1>29. CASE UNCHANGED vars
  BY <1>29 DEF vars, camera, flags, desired, applied, sent, attempt, round, NumbersOK, FlagsOK,
     ServedInv, ConnectionInv, None
<1> QED
  BY <1>1, <1>2, <1>3, <1>4, <1>5, <1>6, <1>7, <1>8, <1>9, <1>10, <1>11, <1>12, <1>13, <1>14,
     <1>15, <1>16, <1>17, <1>18, <1>19, <1>20, <1>21, <1>22, <1>23, <1>24, <1>25, <1>26, <1>27,
     <1>28, <1>29 DEF Next, Callers, Worker, Closing

\* What was applied stays true of the process, or a later request was sent.
LEMMA AppliedKept ==
  ASSUME NumbersOK, FlagsOK, DesiredInv, ConnectionInv, AppliedInv, ServedInv, [Next]_vars
  PROVE  AppliedInv'
<1>1. CASE CameraStarts
  BY <1>1 DEF CameraStarts, None, Answers, NumbersOK, FlagsOK, DesiredInv, ConnectionInv,
     AppliedInv, ServedInv, camera, flags, desired, applied, sent, attempt, round
<1>2. CASE CameraStops
  BY <1>2 DEF CameraStops, None, Answers, NumbersOK, FlagsOK, DesiredInv, ConnectionInv,
     AppliedInv, ServedInv, camera, flags, desired, applied, sent, attempt, round
<1>3. CASE SocketEvent
  BY <1>3 DEF SocketEvent, Invalidate, None, Answers, NumbersOK, FlagsOK, DesiredInv,
     ConnectionInv, AppliedInv, ServedInv, camera, flags, desired, applied, sent, attempt, round
<1>4. ASSUME NEW c \in Caller, NEW o \in {"start", "stop", "status"}, BeginDemand(c, o)
      PROVE  AppliedInv'
  BY <1>4, OddNext DEF BeginDemand, Changes, NextRevision, Calls, None, Answers, NumbersOK,
     FlagsOK, DesiredInv, ConnectionInv, AppliedInv, ServedInv, camera, flags, desired, applied,
     sent, attempt, round
<1>5. ASSUME NEW c \in Caller, CallerRefused(c)
      PROVE  AppliedInv'
  BY <1>5 DEF CallerRefused, EndDemand, NoCall, None, Answers, NumbersOK, FlagsOK, DesiredInv,
     ConnectionInv, AppliedInv, ServedInv, camera, flags, desired, applied, sent, attempt, round
<1>6. ASSUME NEW c \in Caller, CallerTimesOut(c)
      PROVE  AppliedInv'
  BY <1>6 DEF CallerTimesOut, EndDemand, NoCall, None, Answers, NumbersOK, FlagsOK, DesiredInv,
     ConnectionInv, AppliedInv, ServedInv, camera, flags, desired, applied, sent, attempt, round
<1>7. ASSUME NEW c \in Caller, AwaitConnected(c)
      PROVE  AppliedInv'
  BY <1>7 DEF AwaitConnected, None, Answers, NumbersOK, FlagsOK, DesiredInv, ConnectionInv,
     AppliedInv, ServedInv, camera, flags, desired, applied, sent, attempt, round
<1>8. ASSUME NEW c \in Caller, LeaseReturns(c)
      PROVE  AppliedInv'
  BY <1>8 DEF LeaseReturns, EndDemand, NoCall, None, Answers, NumbersOK, FlagsOK, DesiredInv,
     ConnectionInv, AppliedInv, ServedInv, camera, flags, desired, applied, sent, attempt, round
<1>9. ASSUME NEW c \in Caller, ReadBegins(c)
      PROVE  AppliedInv'
  BY <1>9 DEF ReadBegins, None, Answers, NumbersOK, FlagsOK, DesiredInv, ConnectionInv, AppliedInv,
     ServedInv, camera, flags, desired, applied, sent, attempt, round
<1>10. ASSUME NEW c \in Caller, ReadReturns(c)
      PROVE  AppliedInv'
  BY <1>10 DEF ReadReturns, EndDemand, NoCall, None, Answers, NumbersOK, FlagsOK, DesiredInv,
     ConnectionInv, AppliedInv, ServedInv, camera, flags, desired, applied, sent, attempt, round
<1>11. ASSUME NEW c \in Caller, ReadFails(c)
      PROVE  AppliedInv'
  BY <1>11 DEF ReadFails, Invalidate, NoCall, None, Answers, NumbersOK, FlagsOK, DesiredInv,
     ConnectionInv, AppliedInv, ServedInv, camera, flags, desired, applied, sent, attempt, round
<1>12. CASE Consume
  BY <1>12 DEF Consume, None, Answers, NumbersOK, FlagsOK, DesiredInv, ConnectionInv, AppliedInv,
     ServedInv, camera, flags, desired, applied, sent, attempt, round
<1>13. CASE Decide
  BY <1>13 DEF Decide, None, Answers, NumbersOK, FlagsOK, DesiredInv, ConnectionInv, AppliedInv,
     ServedInv, camera, flags, desired, applied, sent, attempt, round
<1>14. CASE Discover
  BY <1>14 DEF Discover, None, Answers, NumbersOK, FlagsOK, DesiredInv, ConnectionInv, AppliedInv,
     ServedInv, camera, flags, desired, applied, sent, attempt, round
<1>15. CASE Status
  BY <1>15 DEF Status, Resolves, Answers, None, NumbersOK, FlagsOK, DesiredInv, ConnectionInv,
     AppliedInv, ServedInv, camera, flags, desired, applied, sent, attempt, round
<1>16. CASE Apply
  BY <1>16 DEF Apply, AlreadyApplied, None, Answers, NumbersOK, FlagsOK, DesiredInv, ConnectionInv,
     AppliedInv, ServedInv, camera, flags, desired, applied, sent, attempt, round
<1>17. CASE RequestLands
  BY <1>17, SentActiveIsOdd DEF RequestLands, Answers, None, NumbersOK, FlagsOK, DesiredInv,
     ConnectionInv, AppliedInv, ServedInv, camera, flags, desired, applied, sent, attempt, round
<1>18. CASE RequestReturns
  BY <1>18, SentActiveIsOdd DEF RequestReturns, None, Answers, NumbersOK, FlagsOK, DesiredInv,
     ConnectionInv, AppliedInv, ServedInv, camera, flags, desired, applied, sent, attempt, round
<1>19. CASE AttemptFails
  BY <1>19 DEF AttemptFails, None, Answers, NumbersOK, FlagsOK, DesiredInv, ConnectionInv,
     AppliedInv, ServedInv, camera, flags, desired, applied, sent, attempt, round
<1>20. CASE Finish
  BY <1>20 DEF Finish, None, Answers, NumbersOK, FlagsOK, DesiredInv, ConnectionInv, AppliedInv,
     ServedInv, camera, flags, desired, applied, sent, attempt, round
<1>21. CASE Failed
  BY <1>21 DEF Failed, None, Answers, NumbersOK, FlagsOK, DesiredInv, ConnectionInv, AppliedInv,
     ServedInv, camera, flags, desired, applied, sent, attempt, round
<1>22. CASE Woken
  BY <1>22 DEF Woken, None, Answers, NumbersOK, FlagsOK, DesiredInv, ConnectionInv, AppliedInv,
     ServedInv, camera, flags, desired, applied, sent, attempt, round
<1>23. CASE BackoffWoken
  BY <1>23 DEF BackoffWoken, None, Answers, NumbersOK, FlagsOK, DesiredInv, ConnectionInv,
     AppliedInv, ServedInv, camera, flags, desired, applied, sent, attempt, round
<1>24. CASE BackoffOver
  BY <1>24 DEF BackoffOver, None, Answers, NumbersOK, FlagsOK, DesiredInv, ConnectionInv,
     AppliedInv, ServedInv, camera, flags, desired, applied, sent, attempt, round
<1>25. CASE Shutdown
  BY <1>25 DEF Shutdown, None, Answers, NumbersOK, FlagsOK, DesiredInv, ConnectionInv, AppliedInv,
     ServedInv, camera, flags, desired, applied, sent, attempt, round
<1>26. CASE WorkerEnds
  BY <1>26 DEF WorkerEnds, Interruptible, None, Answers, NumbersOK, FlagsOK, DesiredInv,
     ConnectionInv, AppliedInv, ServedInv, camera, flags, desired, applied, sent, attempt, round
<1>27. CASE CloseDiscovers
  BY <1>27 DEF CloseDiscovers, Drained, None, Answers, NumbersOK, FlagsOK, DesiredInv,
     ConnectionInv, AppliedInv, ServedInv, camera, flags, desired, applied, sent, attempt, round
<1>28. CASE CloseStops
  BY <1>28 DEF CloseStops, Drained, Answers, None, NumbersOK, FlagsOK, DesiredInv, ConnectionInv,
     AppliedInv, ServedInv, camera, flags, desired, applied, sent, attempt, round
<1>29. CASE UNCHANGED vars
  BY <1>29 DEF vars, camera, flags, desired, applied, sent, attempt, round, NumbersOK, FlagsOK,
     DesiredInv, ConnectionInv, AppliedInv, ServedInv, None, Answers
<1> QED
  BY <1>1, <1>2, <1>3, <1>4, <1>5, <1>6, <1>7, <1>8, <1>9, <1>10, <1>11, <1>12, <1>13, <1>14,
     <1>15, <1>16, <1>17, <1>18, <1>19, <1>20, <1>21, <1>22, <1>23, <1>24, <1>25, <1>26, <1>27,
     <1>28, <1>29 DEF Next, Callers, Worker, Closing

\* The worker does not forget what the process was made to apply.
LEMMA ServedKept ==
  ASSUME NumbersOK, FlagsOK, DesiredInv, ConnectionInv, AppliedInv, ServedInv, [Next]_vars
  PROVE  ServedInv'
<1>1. CASE CameraStarts
  BY <1>1 DEF CameraStarts, None, Answers, ServedIsKnown, NumbersOK, FlagsOK, DesiredInv,
     ConnectionInv, AppliedInv, ServedInv, camera, flags, desired, applied, sent, attempt, round
<1>2. CASE CameraStops
  BY <1>2 DEF CameraStops, None, Answers, ServedIsKnown, NumbersOK, FlagsOK, DesiredInv,
     ConnectionInv, AppliedInv, ServedInv, camera, flags, desired, applied, sent, attempt, round
<1>3. CASE SocketEvent
  BY <1>3 DEF SocketEvent, Invalidate, None, Answers, ServedIsKnown, NumbersOK, FlagsOK,
     DesiredInv, ConnectionInv, AppliedInv, ServedInv, camera, flags, desired, applied, sent,
     attempt, round
<1>4. ASSUME NEW c \in Caller, NEW o \in {"start", "stop", "status"}, BeginDemand(c, o)
      PROVE  ServedInv'
  BY <1>4, OddNext DEF BeginDemand, Changes, NextRevision, Calls, None, Answers, ServedIsKnown,
     NumbersOK, FlagsOK, DesiredInv, ConnectionInv, AppliedInv, ServedInv, camera, flags, desired,
     applied, sent, attempt, round
<1>5. ASSUME NEW c \in Caller, CallerRefused(c)
      PROVE  ServedInv'
  BY <1>5 DEF CallerRefused, EndDemand, NoCall, None, Answers, ServedIsKnown, NumbersOK, FlagsOK,
     DesiredInv, ConnectionInv, AppliedInv, ServedInv, camera, flags, desired, applied, sent,
     attempt, round
<1>6. ASSUME NEW c \in Caller, CallerTimesOut(c)
      PROVE  ServedInv'
  BY <1>6 DEF CallerTimesOut, EndDemand, NoCall, None, Answers, ServedIsKnown, NumbersOK, FlagsOK,
     DesiredInv, ConnectionInv, AppliedInv, ServedInv, camera, flags, desired, applied, sent,
     attempt, round
<1>7. ASSUME NEW c \in Caller, AwaitConnected(c)
      PROVE  ServedInv'
  BY <1>7 DEF AwaitConnected, None, Answers, ServedIsKnown, NumbersOK, FlagsOK, DesiredInv,
     ConnectionInv, AppliedInv, ServedInv, camera, flags, desired, applied, sent, attempt, round
<1>8. ASSUME NEW c \in Caller, LeaseReturns(c)
      PROVE  ServedInv'
  BY <1>8 DEF LeaseReturns, EndDemand, NoCall, None, Answers, ServedIsKnown, NumbersOK, FlagsOK,
     DesiredInv, ConnectionInv, AppliedInv, ServedInv, camera, flags, desired, applied, sent,
     attempt, round
<1>9. ASSUME NEW c \in Caller, ReadBegins(c)
      PROVE  ServedInv'
  BY <1>9 DEF ReadBegins, None, Answers, ServedIsKnown, NumbersOK, FlagsOK, DesiredInv,
     ConnectionInv, AppliedInv, ServedInv, camera, flags, desired, applied, sent, attempt, round
<1>10. ASSUME NEW c \in Caller, ReadReturns(c)
      PROVE  ServedInv'
  BY <1>10 DEF ReadReturns, EndDemand, NoCall, None, Answers, ServedIsKnown, NumbersOK, FlagsOK,
     DesiredInv, ConnectionInv, AppliedInv, ServedInv, camera, flags, desired, applied, sent,
     attempt, round
<1>11. ASSUME NEW c \in Caller, ReadFails(c)
      PROVE  ServedInv'
  BY <1>11 DEF ReadFails, Invalidate, NoCall, None, Answers, ServedIsKnown, NumbersOK, FlagsOK,
     DesiredInv, ConnectionInv, AppliedInv, ServedInv, camera, flags, desired, applied, sent,
     attempt, round
<1>12. CASE Consume
  BY <1>12 DEF Consume, None, Answers, ServedIsKnown, NumbersOK, FlagsOK, DesiredInv,
     ConnectionInv, AppliedInv, ServedInv, camera, flags, desired, applied, sent, attempt, round
<1>13. CASE Decide
  BY <1>13 DEF Decide, None, Answers, ServedIsKnown, NumbersOK, FlagsOK, DesiredInv, ConnectionInv,
     AppliedInv, ServedInv, camera, flags, desired, applied, sent, attempt, round
<1>14. CASE Discover
  BY <1>14 DEF Discover, None, Answers, ServedIsKnown, NumbersOK, FlagsOK, DesiredInv,
     ConnectionInv, AppliedInv, ServedInv, camera, flags, desired, applied, sent, attempt, round
<1>15. CASE Status
  BY <1>15 DEF Status, Resolves, Answers, None, ServedIsKnown, NumbersOK, FlagsOK, DesiredInv,
     ConnectionInv, AppliedInv, ServedInv, camera, flags, desired, applied, sent, attempt, round
<1>16. CASE Apply
  BY <1>16 DEF Apply, AlreadyApplied, None, Answers, ServedIsKnown, NumbersOK, FlagsOK, DesiredInv,
     ConnectionInv, AppliedInv, ServedInv, camera, flags, desired, applied, sent, attempt, round
<1>17. CASE RequestLands
  BY <1>17, SentActiveIsOdd DEF RequestLands, Answers, None, ServedIsKnown, NumbersOK, FlagsOK,
     DesiredInv, ConnectionInv, AppliedInv, ServedInv, camera, flags, desired, applied, sent,
     attempt, round
<1>18. CASE RequestReturns
  BY <1>18, SentActiveIsOdd DEF RequestReturns, None, Answers, ServedIsKnown, NumbersOK, FlagsOK,
     DesiredInv, ConnectionInv, AppliedInv, ServedInv, camera, flags, desired, applied, sent,
     attempt, round
<1>19. CASE AttemptFails
  BY <1>19 DEF AttemptFails, None, Answers, ServedIsKnown, NumbersOK, FlagsOK, DesiredInv,
     ConnectionInv, AppliedInv, ServedInv, camera, flags, desired, applied, sent, attempt, round
<1>20. CASE Finish
  BY <1>20 DEF Finish, None, Answers, ServedIsKnown, NumbersOK, FlagsOK, DesiredInv, ConnectionInv,
     AppliedInv, ServedInv, camera, flags, desired, applied, sent, attempt, round
<1>21. CASE Failed
  BY <1>21 DEF Failed, None, Answers, ServedIsKnown, NumbersOK, FlagsOK, DesiredInv, ConnectionInv,
     AppliedInv, ServedInv, camera, flags, desired, applied, sent, attempt, round
<1>22. CASE Woken
  BY <1>22 DEF Woken, None, Answers, ServedIsKnown, NumbersOK, FlagsOK, DesiredInv, ConnectionInv,
     AppliedInv, ServedInv, camera, flags, desired, applied, sent, attempt, round
<1>23. CASE BackoffWoken
  BY <1>23 DEF BackoffWoken, None, Answers, ServedIsKnown, NumbersOK, FlagsOK, DesiredInv,
     ConnectionInv, AppliedInv, ServedInv, camera, flags, desired, applied, sent, attempt, round
<1>24. CASE BackoffOver
  BY <1>24 DEF BackoffOver, None, Answers, ServedIsKnown, NumbersOK, FlagsOK, DesiredInv,
     ConnectionInv, AppliedInv, ServedInv, camera, flags, desired, applied, sent, attempt, round
<1>25. CASE Shutdown
  BY <1>25 DEF Shutdown, None, Answers, ServedIsKnown, NumbersOK, FlagsOK, DesiredInv,
     ConnectionInv, AppliedInv, ServedInv, camera, flags, desired, applied, sent, attempt, round
<1>26. CASE WorkerEnds
  BY <1>26 DEF WorkerEnds, Interruptible, None, Answers, ServedIsKnown, NumbersOK, FlagsOK,
     DesiredInv, ConnectionInv, AppliedInv, ServedInv, camera, flags, desired, applied, sent,
     attempt, round
<1>27. CASE CloseDiscovers
  BY <1>27 DEF CloseDiscovers, Drained, None, Answers, ServedIsKnown, NumbersOK, FlagsOK,
     DesiredInv, ConnectionInv, AppliedInv, ServedInv, camera, flags, desired, applied, sent,
     attempt, round
<1>28. CASE CloseStops
  BY <1>28 DEF CloseStops, Drained, Answers, None, ServedIsKnown, NumbersOK, FlagsOK, DesiredInv,
     ConnectionInv, AppliedInv, ServedInv, camera, flags, desired, applied, sent, attempt, round
<1>29. CASE UNCHANGED vars
  BY <1>29 DEF vars, camera, flags, desired, applied, sent, attempt, round, NumbersOK, FlagsOK,
     DesiredInv, ConnectionInv, AppliedInv, ServedInv, None, Answers, ServedIsKnown
<1> QED
  BY <1>1, <1>2, <1>3, <1>4, <1>5, <1>6, <1>7, <1>8, <1>9, <1>10, <1>11, <1>12, <1>13, <1>14,
     <1>15, <1>16, <1>17, <1>18, <1>19, <1>20, <1>21, <1>22, <1>23, <1>24, <1>25, <1>26, <1>27,
     <1>28, <1>29 DEF Next, Callers, Worker, Closing

\* A peer that owes nothing has made the bound process do what was asked last.
LEMMA OwesNothing == TypeOK /\ DesiredInv /\ AppliedInv => AppliedIsNative
<1> SUFFICES ASSUME TypeOK, DesiredInv, AppliedInv, ~closing, connected, Answers, desiredRevision # 0, ~Owed
             PROVE  native = desiredActive
  BY DEF AppliedIsNative
<1>1. desiredRevision = appliedRevision /\ sentRevision <= desiredRevision
  BY DEF Owed, TypeOK, NumbersOK
<1>2. appliedInstance = incarnation /\ up
  BY <1>1 DEF AppliedInv, Answers
<1>3. native <=> Odd(desiredRevision)
  BY <1>1, <1>2 DEF AppliedInv, TypeOK, NumbersOK
<1> QED
  BY <1>3 DEF DesiredInv, TypeOK, FlagsOK

\* The peer starts in its invariant.
LEMMA InitPeer == Init => PeerInv
<1> SUFFICES ASSUME Init
             PROVE  PeerInv
  OBVIOUS
<1>1. NumbersOK
  BY DEF Init, NumbersOK, None
<1>2. FlagsOK
  BY Zenon DEF Init, FlagsOK
<1>3. CallersOK
  <2>1. NoCall \in [phase : {"none", "await", "call", "read"}, op : {"start", "stop", "status"},
                    idle : BOOLEAN, due : BOOLEAN, revision : Nat]
    BY DEF NoCall
  <2> QED
    BY <2>1, Zenon DEF Init, CallersOK
<1>4. TypeOK
  BY <1>1, <1>2, <1>3 DEF Init, TypeOK, PhaseOK
<1>5. DesiredInv
  <2>1. ~Odd(0)
    BY DEF Odd
  <2>2. \A c \in Caller : caller[c].op = "status"
    BY DEF Init, NoCall
  <2> QED
    BY <2>1, <2>2 DEF Init, DesiredInv
<1>6. ConnectionInv /\ AppliedInv
  BY DEF Init, ConnectionInv, AppliedInv, Answers, None
<1>7. ServedInv
  BY DEF Init, ServedInv, ServedIsKnown, Answers, None
<1> QED
  BY <1>4, <1>5, <1>6, <1>7, OwesNothing DEF PeerInv

\* Every step of the peer keeps it.
LEMMA StepPeer == PeerInv /\ [Next]_vars => PeerInv'
<1> SUFFICES ASSUME PeerInv, [Next]_vars
             PROVE  PeerInv'
  OBVIOUS
<1>1. NumbersOK /\ FlagsOK /\ CallersOK /\ PhaseOK /\ TypeOK
  BY DEF PeerInv, TypeOK
<1>2. DesiredInv /\ ConnectionInv /\ AppliedInv /\ ServedInv
  BY DEF PeerInv
<1>3. NumbersOK' /\ FlagsOK' /\ CallersOK'
  BY <1>1, NumbersKept, FlagsKept, CallersKept
<1>4. TypeOK'
  BY <1>1, <1>3, PhaseKept DEF TypeOK
<1>5. DesiredInv' /\ ConnectionInv' /\ AppliedInv' /\ ServedInv'
  BY <1>1, <1>2, DesiredKept, ConnectionKept, AppliedKept, ServedKept
<1>6. AppliedIsNative'
  BY <1>4, <1>5, OwesNothing, PTL
<1> QED
  BY <1>4, <1>5, <1>6 DEF PeerInv

\* A connected peer that owes no revision has made the bound process do what was
\* asked last, with everything that rests on: for every number of callers,
\* revisions and processes, every lost reply and every invalidation.
THEOREM PeerIsSound == Spec => []PeerInv
  BY InitPeer, StepPeer, PTL DEF Spec

\* No process is made to apply a revision twice, whatever receipts are lost.
THEOREM RevisionsApplyOnce == Spec => NoSecondWrite
<1>1. PeerInv /\ [Next]_vars => [RequestLands => served # sentRevision]_vars
  BY DEF PeerInv, ServedInv, RequestLands
<1> QED
  BY <1>1, PeerIsSound, PTL DEF Spec, NoSecondWrite

\* The receipt that a start or a stop returns is its own, never that of a
\* revision that the worker coalesced with it.
THEOREM ReceiptsAnswer == Spec => ReceiptAnswersCall
<1>1. ASSUME PeerInv, NEW c \in Caller, LeaseReturns(c)
      PROVE  receipt = (caller[c].op = "start")
  <2>1. caller[c].op # "status" /\ appliedRevision >= caller[c].revision
    BY <1>1 DEF LeaseReturns, Applied
  <2>2. /\ caller[c].revision = desiredRevision /\ desiredRevision # 0
        /\ desiredActive = (caller[c].op = "start")
    BY <1>1, <2>1 DEF PeerInv, DesiredInv
  <2>3. appliedRevision = desiredRevision
    BY <1>1, <2>1, <2>2 DEF PeerInv, TypeOK, NumbersOK
  <2>4. (receipt <=> Odd(desiredRevision)) /\ (desiredActive <=> Odd(desiredRevision))
    BY <1>1, <2>2, <2>3 DEF PeerInv, DesiredInv
  <2>5. receipt \in BOOLEAN /\ desiredActive \in BOOLEAN
    BY <1>1 DEF PeerInv, TypeOK, FlagsOK
  <2> QED
    BY <2>2, <2>4, <2>5
<1>2. PeerInv /\ [Next]_vars =>
        [\A c \in Caller : LeaseReturns(c) => receipt = (caller[c].op = "start")]_vars
  BY <1>1
<1> QED
  BY <1>2, PeerIsSound, PTL DEF Spec, ReceiptAnswersCall
=============================================================================

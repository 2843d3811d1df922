--------------------------- MODULE Viewers_proofs ---------------------------
(***************************************************************************)
(* The sessions of viewers, at both of their ends.  The viewers of the     *)
(* edge keep their slots, for every number of sessions and every limit:    *)
(* WhepSession implements ViewerSlots.  The page of a viewer accounts for  *)
(* every session that it made: Player.                                     *)
(***************************************************************************)
EXTENDS WhepSession, Player, FiniteSetTheorems, WellFoundedInduction, TLAPS

Early == {"idle", "admitted", "reserved", "leased"}

Item == [opening : BOOLEAN, closeRequested : BOOLEAN, located : BOOLEAN, observed : BOOLEAN,
         complete : BOOLEAN]

\* Whom the inventory of a pass speaks against.
Suspects == pass.odd \cup pass.missing

PassSorts ==
  pass \in [phase : {"off", "listed", "walk", "closing", "forget"},
            odd : SUBSET Session, missing : SUBSET Session, local : {pass.local},
            start : {pass.start}, index : {pass.index}, attempts : {pass.attempts}]

\* The types, but for the list that a pass walks along.
Sorts ==
  /\ maxSessions \in Nat
  /\ op \in [Session -> Early \cup {"registered", "posting", "aborting", "done"}]
  /\ registered \in SUBSET Session /\ pending \in SUBSET Session /\ viewers \in SUBSET Session
  /\ item \in [Session -> Item]
  /\ native \in [Session -> {"none", "requested", "rejected", "gone"} \cup Live]
  /\ mutex \in [Session -> {"free", "client", "open", "reconcile", "shutdown"}]
  /\ step \in [Session -> {"none", "delete", "inventory", "kick"}]
  /\ PassSorts
  /\ closing \in BOOLEAN /\ exited \in BOOLEAN

\* The sessions of operations that hold a slot without being registered.
Reserved == {s \in Session : op[s] \in {"reserved", "leased"}}

\* The counter of pending sessions is exact.
SlotsExact == pendingSessions = Cardinality(Reserved)

\* What the progress of OpenSession says of its session.
Progress(s) ==
  /\ op[s] \in Early => s \notin registered /\ s \notin viewers /\ item[s] = NewItem /\ native[s] = "none"
  /\ op[s] \in {"leased", "registered"} => s \in pending
  /\ op[s] \in {"registered", "posting"} => s \in registered /\ item[s].opening
  /\ op[s] = "registered" => native[s] = "none"

\* Who holds item.mu closes a session that is still owned, and what the edge
\* was told of the native session is true of it.
Ownership(s) ==
  /\ step[s] = "none" <=> mutex[s] = "free"
  /\ step[s] # "none" => s \in registered /\ item[s].closeRequested /\ ~item[s].opening
  /\ step[s] = "delete" => item[s].located
  /\ step[s] = "kick" => item[s].observed
  /\ item[s].located \/ item[s].observed => native[s] \in Live \cup {"gone"}
  /\ item[s].complete => native[s] = "rejected"
  /\ native[s] # "none" \/ s \in Suspects => s \in registered \/ item[s].closeRequested

\* Whom a pass is about to forget is one of its suspects, and negotiated.
JudgedIsOpen ==
  pass.phase = "forget" => Current \in Suspects /\ ~item[Current].opening

\* Nothing is left to come once the child has exited.
ExitIsFinal ==
  exited => closing /\ Drained /\ \A s \in Session : native[s] \notin Live \cup {"requested"}

\* What each step keeps without counting.
Kept ==
  /\ Sorts /\ SessionHoldsDemand /\ ExitIsFinal
  /\ \A s \in Session : Progress(s) /\ Ownership(s)

\* The slots are counted, and suffice.
Counted == SlotsExact /\ SlotBound

\* The inductive invariant.
IInv == Kept /\ JudgedIsOpen /\ Counted

-----------------------------------------------------------------------------
(* The steps of OpenSession.                                               *)

\* Each step of OpenSession, whose POST may be lost, keeps sessions owned.
LEMMA OpenKeeps ==
  ASSUME Kept, NEW s \in Session, Open(s)
  PROVE  Kept'
<1> USE DEF Kept, Sorts, SessionHoldsDemand, ExitIsFinal, Progress, Ownership, Early, Live,
       slots, lease, locks, loop, PassSorts, Suspects, Goes
<1>0. CASE Admits(s) \/ NoSlot(s)
  BY <1>0 DEF Admits, NoSlot, Drained
<1>1. CASE Reserve(s)
  BY <1>1 DEF Reserve, TakeSlot, Drained
<1>2. CASE AcquireFails(s)
  BY <1>2 DEF AcquireFails, Drained
<1>3. CASE Acquires(s)
  BY <1>3 DEF Acquires, Drained
<1>4. CASE GivesUp(s)
  BY <1>4 DEF GivesUp, Drained
<1>5. CASE Registers(s)
  BY <1>5 DEF Registers, Drained, NewItem, Item
<1>6. CASE Posts(s)
  BY <1>6 DEF Posts, LeaseMoves, Drained
<1>7. CASE PostAnswered(s)
  <2> DEFINE r == [item[s] EXCEPT !.opening = FALSE, !.located = TRUE,
                                  !.closeRequested = item[s].closeRequested \/ closing]
  <2>a. item[s] \in Item /\ item' = [item EXCEPT ![s] = r]
    BY <1>7 DEF PostAnswered
  <2>b. r \in Item
    BY <2>a DEF Item
  <2>1. Sorts' /\ SessionHoldsDemand' /\ ExitIsFinal'
    <3> HIDE DEF r
    <3> QED
      BY <1>7, <2>a, <2>b DEF PostAnswered, Drained
  <2>2. \A t \in Session : Progress(t)' /\ Ownership(t)'
    BY <1>7 DEF PostAnswered, Item
  <2> QED
    BY <2>1, <2>2
<1>8. CASE PostRejected(s)
  <2> DEFINE r == [item[s] EXCEPT !.opening = FALSE, !.closeRequested = TRUE, !.complete = TRUE]
  <2>a. item[s] \in Item /\ item' = [item EXCEPT ![s] = r]
    BY <1>8 DEF PostRejected
  <2>b. r \in Item
    BY <2>a DEF Item
  <2>1. Sorts' /\ SessionHoldsDemand' /\ ExitIsFinal'
    <3> HIDE DEF r
    <3> QED
      BY <1>8, <2>a, <2>b DEF PostRejected, Drained
  <2>2. \A t \in Session : Progress(t)' /\ Ownership(t)'
    BY <1>8 DEF PostRejected, Item
  <2> QED
    BY <2>1, <2>2
<1>9. CASE PostLost(s)
  <2> DEFINE r == [item[s] EXCEPT !.opening = FALSE, !.closeRequested = TRUE]
  <2>a. item[s] \in Item /\ item' = [item EXCEPT ![s] = r]
    BY <1>9 DEF PostLost
  <2>b. r \in Item
    BY <2>a DEF Item
  <2>1. Sorts' /\ SessionHoldsDemand' /\ ExitIsFinal'
    <3> HIDE DEF r
    <3> QED
      BY <1>9, <2>a, <2>b DEF PostLost, Drained
  <2>2. \A t \in Session : Progress(t)' /\ Ownership(t)'
    BY <1>9 DEF PostLost, Item
  <2> QED
    BY <2>1, <2>2
<1> QED
  BY <1>0, <1>1, <1>2, <1>3, <1>4, <1>5, <1>6, <1>7, <1>8, <1>9 DEF Open

-----------------------------------------------------------------------------
(* The closing of sessions.                                                *)

\* A request to close a session changes nothing else of it.
LEMMA Requested ==
  ASSUME item \in [Session -> Item], NEW s \in Session,
         item' = [item EXCEPT ![s].closeRequested = TRUE]
  PROVE  /\ item' \in [Session -> Item]
         /\ item'[s].closeRequested
         /\ \A t \in Session :
              /\ item[t].closeRequested => item'[t].closeRequested
              /\ item'[t].opening = item[t].opening /\ item'[t].located = item[t].located
              /\ item'[t].observed = item[t].observed /\ item'[t].complete = item[t].complete
              /\ t # s => item'[t] = item[t]
<1> DEFINE r == [item[s] EXCEPT !.closeRequested = TRUE]
<1>1. item[s] \in Item /\ item' = [item EXCEPT ![s] = r]
  OBVIOUS
<1>2. /\ r \in Item /\ r.closeRequested /\ r.opening = item[s].opening /\ r.located = item[s].located
      /\ r.observed = item[s].observed /\ r.complete = item[s].complete
  BY <1>1 DEF Item
<1> HIDE DEF r
<1> QED
  BY <1>1, <1>2

\* Whoever takes item.mu asks for the session to be closed.
LEMMA LockKeeps ==
  ASSUME Kept, NEW s \in Session, NEW who \in {"client", "open", "reconcile", "shutdown"},
         Lock(s, who),
         op' = op \/ (op[s] = "aborting" /\ op' = [op EXCEPT ![s] = "done"]),
         UNCHANGED <<maxSessions, slots, lease, native, closing, exited>>,
         PassSorts', Suspects' = Suspects
  PROVE  Kept'
<1> USE DEF Kept, Sorts, SessionHoldsDemand, ExitIsFinal, slots, lease, locks
<1>1. s \in registered /\ item' = [item EXCEPT ![s].closeRequested = TRUE]
  BY DEF Lock
<1>2. CASE item[s].opening
  <2>1. UNCHANGED locks
    BY <1>2 DEF Lock
  <2>2. Sorts' /\ SessionHoldsDemand' /\ ExitIsFinal'
    BY <1>1, <2>1, Requested DEF Drained
  <2> QED
    BY <1>1, <2>1, <2>2, Requested DEF Progress, Ownership, Early
<1>3. CASE ~item[s].opening
  <2>1. /\ mutex' = [mutex EXCEPT ![s] = who]
        /\ step' = [step EXCEPT ![s] = IF item[s].located THEN "delete" ELSE "inventory"]
    BY <1>3 DEF Lock
  <2>2. Sorts' /\ SessionHoldsDemand' /\ ExitIsFinal'
    BY <1>1, <2>1, Requested DEF Drained
  <2>3. op[s] \notin Early \cup {"registered", "posting"}
    BY <1>1, <1>3 DEF Progress, Early
  <2> QED
    BY <1>1, <1>3, <2>1, <2>2, <2>3, Requested DEF Progress, Ownership, Early
<1> QED
  BY <1>2, <1>3

\* Nothing but a pass changes whom it suspects.
LEMMA LoopKept ==
  ASSUME Kept, UNCHANGED loop
  PROVE  PassSorts' /\ Suspects' = Suspects
BY DEF Kept, Sorts, PassSorts, Suspects, loop

\* Whoever closes a session, the native calls under item.mu, and what MediaMTX does.
LEMMA CloseKeeps ==
  ASSUME Kept, NEW s \in Session, CloseCall(s) \/ NativeMoves(s) \/ ExitReleases(s)
  PROVE  Kept'
<1>1. CASE ClientCloses(s)
  BY <1>1, LockKeeps, LoopKept DEF ClientCloses
<1>2. CASE OpenCloses(s) /\ s \in registered
  BY <1>2, LockKeeps, LoopKept DEF OpenCloses, Goes
<1>3. CASE ShutdownCloses(s)
  BY <1>3, LockKeeps, LoopKept DEF ShutdownCloses
<1> USE DEF Kept, Sorts, SessionHoldsDemand, ExitIsFinal, Progress, Ownership, Early, Live,
       slots, lease, locks, loop, PassSorts, Suspects, Goes, Item
<1>0. CASE OpenCloses(s) /\ s \notin registered
  BY <1>0 DEF OpenCloses, Drained
<1>4. CASE DeleteConfirmed(s)
  BY <1>4 DEF DeleteConfirmed, Ended, Release, Unlock, Drained
<1>5. CASE CallFails(s)
  <2>1. /\ mutex' = [mutex EXCEPT ![s] = "free"] /\ step' = [step EXCEPT ![s] = "none"]
        /\ UNCHANGED <<maxSessions, op, slots, lease, item, loop, closing, exited>>
    BY <1>5 DEF CallFails, Unlock
  <2>2. CASE UNCHANGED native
    BY <2>1, <2>2 DEF Drained
  <2>3. CASE Ended(s)
    BY <2>1, <2>3 DEF Ended, Drained
  <2> QED
    BY <1>5, <2>2, <2>3 DEF CallFails
<1>6. CASE InventoryMatches(s)
  <2> DEFINE r == [item[s] EXCEPT !.observed = TRUE]
  <2>1. /\ item[s] \in Item /\ item' = [item EXCEPT ![s] = r]
        /\ step[s] = "inventory" /\ step' = [step EXCEPT ![s] = "kick"] /\ native[s] = "read"
        /\ UNCHANGED <<maxSessions, op, slots, lease, native, mutex, loop, closing, exited>>
    BY <1>6 DEF InventoryMatches
  <2>2. /\ r \in Item /\ r.observed /\ r.opening = item[s].opening /\ r.located = item[s].located
        /\ r.closeRequested = item[s].closeRequested /\ r.complete = item[s].complete
    BY <2>1
  <2> HIDE DEF r, Item
  <2>3. Sorts' /\ SessionHoldsDemand' /\ ExitIsFinal'
    BY <2>1, <2>2 DEF Drained
  <2>4. \A t \in Session : Progress(t)' /\ Ownership(t)'
    BY <2>1, <2>2
  <2> QED
    BY <2>3, <2>4
<1>7. CASE InventoryAbsent(s)
  BY <1>7 DEF InventoryAbsent, ProvenAbsent, Release, Unlock, Drained
<1>8. CASE NativeMoves(s)
  BY <1>8 DEF NativeMoves, Drained
<1>9. CASE ExitReleases(s)
  <2>1. /\ item' = [item EXCEPT ![s].closeRequested = TRUE]
        /\ op[s] \in {"aborting", "done"} /\ step[s] = "none"
    BY <1>9 DEF ExitReleases, Drained
  <2>2. Sorts' /\ SessionHoldsDemand' /\ ExitIsFinal'
    BY <1>9, <2>1, Requested DEF ExitReleases, Release, Drained
  <2>3. \A t \in Session : Progress(t)' /\ Ownership(t)'
    BY <1>9, <2>1, Requested DEF ExitReleases, Release
  <2> QED
    BY <2>2, <2>3
<1> QED
  BY <1>0, <1>1, <1>2, <1>3, <1>4, <1>5, <1>6, <1>7, <1>8, <1>9 DEF CloseCall

-----------------------------------------------------------------------------
(* The passes of the reconcile loop, and Close.                            *)

\* A pass that goes on keeps its suspects, or forgets them when it ends.
LEMMA PassGoesOn ==
  ASSUME PassSorts,
         \/ pass' = NoPass
         \/ PassCopies \/ PassResumes \/ PassSkips \/ PassCleans \/ PassRejects
         \/ PassJudges \/ PassForgets
  PROVE  PassSorts' /\ Suspects' \subseteq Suspects
<1> USE DEF PassSorts, Suspects, NoPass
<1>1. CASE pass' = NoPass
  BY <1>1
<1>2. CASE PassCopies
  BY <1>2, <1>1 DEF PassCopies
<1>3. CASE PassResumes \/ PassSkips \/ PassRejects \/ PassForgets
  <2>1. Advance
    BY <1>3 DEF PassResumes, PassSkips, PassRejects, PassForgets
  <2> QED
    BY <2>1, <1>1 DEF Advance
<1>4. CASE PassCleans \/ PassJudges
  BY <1>4, <1>1 DEF PassCleans, PassJudges
<1> QED
  BY <1>1, <1>2, <1>3, <1>4

\* The reconcile pass with its older inventory.
LEMMA PassKeeps ==
  ASSUME Kept, JudgedIsOpen, Pass
  PROVE  Kept'
<1> USE DEF Kept, Sorts, SessionHoldsDemand, ExitIsFinal, Progress, Ownership, Early, Live,
       slots, lease, locks, loop
<1>1. ASSUME NEW young \in SUBSET registered, PassLists(young)
      PROVE  Kept'
  BY <1>1 DEF PassLists, PassBegins, NoPass, Drained, PassSorts, Suspects
<1>2. CASE PassListFails
  BY <1>2 DEF PassListFails, PassBegins, NoPass, Drained, PassSorts, Suspects
<1>3. CASE PassCopies \/ PassResumes \/ PassSkips \/ PassJudges
  <2>1. UNCHANGED <<maxSessions, op, slots, lease, item, native, locks, closing, exited>>
    BY <1>3 DEF PassCopies, PassResumes, PassSkips, PassJudges
  <2> QED
    BY <1>3, <2>1, PassGoesOn DEF Drained
<1>4. CASE PassCleans
  <2>1. CASE Current \in registered
    <3>1. /\ Current \in Session /\ Lock(Current, "reconcile")
          /\ pass' = [pass EXCEPT !.phase = "closing", !.attempts = @ + 1]
          /\ UNCHANGED <<maxSessions, op, slots, lease, native, closing, exited>>
      BY <1>4, <2>1 DEF PassCleans
    <3>2. Suspects' = Suspects
      BY <3>1 DEF PassSorts, Suspects
    <3> QED
      BY <1>4, <3>1, <3>2, LockKeeps, PassGoesOn
  <2>2. CASE Current \notin registered
    <3>1. UNCHANGED <<maxSessions, op, slots, lease, item, native, locks, closing, exited>>
      BY <1>4, <2>2 DEF PassCleans
    <3> QED
      BY <1>4, <3>1, PassGoesOn DEF Drained
  <2> QED
    BY <2>1, <2>2
<1>5. CASE PassRejects
  <2>1. /\ Current \in Session /\ Current \in registered /\ item' = [item EXCEPT ![Current].closeRequested = TRUE]
        /\ UNCHANGED <<maxSessions, op, slots, lease, native, locks, closing, exited>>
    BY <1>5 DEF PassRejects, PassSorts, Suspects
  <2>2. Sorts' /\ SessionHoldsDemand' /\ ExitIsFinal'
    BY <1>5, <2>1, PassGoesOn, Requested DEF Drained
  <2>3. \A t \in Session : Progress(t)' /\ Ownership(t)'
    BY <1>5, <2>1, PassGoesOn, Requested
  <2> QED
    BY <2>2, <2>3
<1>6. CASE PassForgets
  <2>1. CASE Current \in registered
    <3>1. /\ Current \in Session /\ item' = [item EXCEPT ![Current].closeRequested = TRUE]
          /\ mutex[Current] = "free" /\ ~item[Current].opening
          /\ Release(Current)
          /\ UNCHANGED <<maxSessions, op, native, locks, closing, exited>>
      BY <1>6, <2>1 DEF PassForgets, JudgedIsOpen
    <3>2. Sorts' /\ SessionHoldsDemand' /\ ExitIsFinal'
      BY <1>6, <2>1, <3>1, PassGoesOn, Requested DEF Release, Drained
    <3>3. \A t \in Session : Progress(t)' /\ Ownership(t)'
      BY <1>6, <2>1, <3>1, PassGoesOn, Requested DEF Release
    <3> QED
      BY <3>2, <3>3
  <2>2. CASE Current \notin registered
    <3>1. UNCHANGED <<maxSessions, op, slots, lease, item, native, locks, closing, exited>>
      BY <1>6, <2>2 DEF PassForgets
    <3> QED
      BY <1>6, <3>1, PassGoesOn DEF Drained
  <2> QED
    BY <2>1, <2>2
<1> QED
  BY <1>1, <1>2, <1>3, <1>4, <1>5, <1>6 DEF Pass

\* An item never negotiates again.
LEMMA NeverReopens ==
  ASSUME Kept, Next, NEW s \in Session, ~item[s].opening
  PROVE  ~item'[s].opening
<1>0. item \in [Session -> Item]
  BY DEF Kept, Sorts
<1>1. ASSUME NEW t \in Session, UNCHANGED item \/ item' = [item EXCEPT ![t].closeRequested = TRUE]
      PROVE  ~item'[s].opening
  BY <1>0, <1>1, Requested
<1>2. ASSUME NEW t \in Session, Open(t)
      PROVE  ~item'[s].opening
  <2>1. CASE PostAnswered(t) \/ PostRejected(t) \/ PostLost(t)
    <3>1. item'[t].opening = FALSE /\ \A u \in Session : u # t => item'[u] = item[u]
      BY <1>0, <2>1 DEF PostAnswered, PostRejected, PostLost, Item
    <3> QED
      BY <3>1
  <2>2. CASE UNCHANGED item
    BY <1>1, <2>2
  <2> QED
    BY <1>2, <2>1, <2>2 DEF Open, Admits, NoSlot, Reserve, AcquireFails, Acquires, GivesUp, Registers, Posts
<1>3. ASSUME NEW t \in Session, NativeMoves(t) \/ CloseCall(t) \/ ExitReleases(t)
      PROVE  ~item'[s].opening
  <2>1. CASE InventoryMatches(t)
    BY <1>0, <2>1 DEF InventoryMatches, Item
  <2>2. CASE ~InventoryMatches(t)
    BY <1>1, <1>3, <2>2 DEF NativeMoves, CloseCall, ClientCloses, OpenCloses, ShutdownCloses, Lock,
       DeleteConfirmed, CallFails, InventoryAbsent, ExitReleases
  <2> QED
    BY <2>1, <2>2
<1>4. CASE Pass
  <2>1. UNCHANGED item \/ item' = [item EXCEPT ![Current].closeRequested = TRUE]
    BY <1>4 DEF Pass, PassLists, PassListFails, PassBegins, PassCopies, PassCleans, Lock, PassResumes,
       PassSkips, PassRejects, PassJudges, PassForgets
  <2>2. CASE Current \in Session
    BY <1>1, <2>1, <2>2
  <2>3. CASE Current \notin Session
    <3>1. UNCHANGED item
      BY <1>0, <2>1, <2>3
    <3> QED
      BY <3>1
  <2> QED
    BY <2>2, <2>3
<1>5. CASE Shutdown \/ ChildExits
  BY <1>5 DEF Shutdown, ChildExits
<1> QED
  BY <1>2, <1>3, <1>4, <1>5 DEF Next

\* The steps of a pass but its judgement.
GoesOn ==
  \/ \E young \in SUBSET registered : PassLists(young)
  \/ PassListFails \/ PassCopies \/ PassCleans \/ PassResumes \/ PassSkips \/ PassRejects \/ PassForgets

\* A step of a pass that does not judge has nobody to forget when it is done.
LEMMA NothingJudged ==
  ASSUME PassSorts, GoesOn
  PROVE  pass'.phase # "forget"
<1>1. NoPass.phase = "off"
  BY DEF NoPass
<1>2. CASE pass' = NoPass
  BY <1>1, <1>2
<1>3. CASE Advance
  BY <1>2, <1>3 DEF Advance, PassSorts
<1>4. CASE \/ \E young \in SUBSET registered : PassLists(young)
           \/ PassListFails
  BY <1>4 DEF PassLists, PassListFails, NoPass
<1>5. CASE PassCopies
  BY <1>2, <1>5 DEF PassCopies, PassSorts
<1>6. CASE PassCleans
  BY <1>2, <1>6 DEF PassCleans, Walks, PassSorts
<1> QED
  BY <1>3, <1>4, <1>5, <1>6 DEF GoesOn, PassResumes, PassSkips, PassRejects, PassForgets

\* A pass judges whom its inventory misses, and goes on when it has forgotten it.
LEMMA JudgedKept ==
  ASSUME Kept, JudgedIsOpen, Next
  PROVE  JudgedIsOpen'
<1>1. CASE UNCHANGED pass
  <2> SUFFICES ASSUME pass.phase = "forget" PROVE Current' \in Suspects' /\ ~item'[Current'].opening
    BY <1>1 DEF JudgedIsOpen
  <2>1. Current' = Current /\ Suspects' = Suspects
    BY <1>1 DEF Current, Position, Suspects
  <2>2. Current \in Suspects /\ Current \in Session /\ ~item[Current].opening
    BY DEF JudgedIsOpen, Suspects, Kept, Sorts, PassSorts
  <2> QED
    BY <2>1, <2>2, NeverReopens
<1>2. CASE PassJudges
  <2>1. Current' = Current /\ Suspects' = Suspects /\ Current \in Suspects
    BY <1>2 DEF PassJudges, Current, Position, Suspects, Kept, Sorts, PassSorts
  <2> QED
    BY <1>2, <2>1 DEF PassJudges, JudgedIsOpen
<1>3. CASE Pass /\ ~PassJudges
  BY <1>3, NothingJudged DEF JudgedIsOpen, Kept, Sorts, Pass, GoesOn
<1>4. Pass \/ UNCHANGED pass
  BY DEF Next, loop, Open, Admits, NoSlot, Reserve, AcquireFails, Acquires, GivesUp, Registers, Posts,
     PostAnswered, PostRejected, PostLost, NativeMoves, CloseCall, ClientCloses, OpenCloses,
     ShutdownCloses, DeleteConfirmed, CallFails, InventoryMatches, InventoryAbsent, ExitReleases,
     Shutdown, ChildExits
<1> QED
  BY <1>1, <1>2, <1>3, <1>4

\* Close and the exit of the child.
LEMMA ShutdownKeeps ==
  ASSUME Kept, Shutdown \/ ChildExits
  PROVE  Kept'
<1> USE DEF Kept, Sorts, SessionHoldsDemand, ExitIsFinal, Progress, Ownership, Early, Live,
       slots, lease, locks, loop, PassSorts, Suspects
<1>1. CASE Shutdown
  BY <1>1 DEF Shutdown, Drained
<1>2. CASE ChildExits
  BY <1>2 DEF ChildExits, Drained
<1> QED
  BY <1>1, <1>2

-----------------------------------------------------------------------------
(* The slots are counted.                                                  *)

\* There are finitely many tokens to count.
LEMMA SessionsFinite ==
  ASSUME NEW S \in SUBSET Session
  PROVE  IsFiniteSet(S) /\ Cardinality(S) \in Nat
<1>1. IsFiniteSet(Session)
  BY FS_Interval, ConstantsAssumption DEF ConstantsAssumption, Session
<1> QED
  BY <1>1, FS_Subset, FS_CardinalityType

\* A step that reserves nothing and registers nobody.
LEMMA CountKept ==
  ASSUME Kept, Counted, Reserved' = Reserved, registered' \subseteq registered,
         UNCHANGED <<pendingSessions, maxSessions>>
  PROVE  Counted'
<1>1. registered \in SUBSET Session /\ Reserved \in SUBSET Session /\ maxSessions \in Nat
  BY DEF Kept, Sorts, Reserved
<1>2. IsFiniteSet(registered) /\ Cardinality(registered) \in Nat /\ Cardinality(Reserved) \in Nat
  BY <1>1, SessionsFinite
<1>3. Cardinality(registered') \in Nat /\ Cardinality(registered') <= Cardinality(registered)
  BY <1>1, <1>2, FS_Subset, SessionsFinite
<1> QED
  BY <1>1, <1>2, <1>3 DEF Counted, SlotsExact, SlotBound

\* A token reserves a slot by its own progress only.
LEMMA ReservedAt ==
  ASSUME Kept, NEW s \in Session, op' = [op EXCEPT ![s] = op'[s]]
  PROVE  Reserved' = IF op'[s] \in {"reserved", "leased"} THEN Reserved \cup {s} ELSE Reserved \ {s}
BY DEF Kept, Sorts, Reserved

\* OpenSession counts a slot that it takes or gives back.
LEMMA OpenCounts ==
  ASSUME Kept, Counted, NEW s \in Session, Open(s)
  PROVE  Counted'
<1> DEFINE R == Cardinality(Reserved)
           G == Cardinality(registered)
<1>1. /\ registered \in SUBSET Session /\ Reserved \in SUBSET Session /\ maxSessions \in Nat
      /\ IsFiniteSet(registered) /\ G \in Nat /\ IsFiniteSet(Reserved) /\ R \in Nat
      /\ pendingSessions = R /\ G + R <= maxSessions
  BY SessionsFinite DEF Kept, Sorts, Reserved, Counted, SlotsExact, SlotBound
<1>2. op' = [op EXCEPT ![s] = op'[s]] /\ maxSessions' = maxSessions
  BY DEF Open, Admits, NoSlot, Reserve, AcquireFails, Acquires, GivesUp, Registers, Posts,
         PostAnswered, PostRejected, PostLost, Goes, Kept, Sorts
<1>3. CASE Reserve(s)
  <2>1. /\ Reserved' = Reserved \cup {s} /\ s \notin Reserved
        /\ registered' = registered /\ pendingSessions' = R + 1 /\ G + R < maxSessions
    BY <1>1, <1>2, <1>3, ReservedAt DEF Reserve, Goes, HasSlot, TakeSlot, Kept, Sorts, Reserved
  <2>2. Cardinality(Reserved') = R + 1
    BY <1>1, <2>1, FS_AddElement
  <2> QED
    BY <1>1, <1>2, <2>1, <2>2 DEF Counted, SlotsExact, SlotBound
<1>4. CASE AcquireFails(s) \/ GivesUp(s)
  <2>1. /\ Reserved' = Reserved \ {s} /\ s \in Reserved
        /\ registered' = registered /\ pendingSessions' = R - 1
    BY <1>1, <1>2, <1>4, ReservedAt DEF AcquireFails, GivesUp, Goes, Kept, Sorts, Reserved
  <2>2. Cardinality(Reserved') = R - 1
    BY <1>1, <2>1, FS_RemoveElement
  <2> QED
    BY <1>1, <1>2, <2>1, <2>2 DEF Counted, SlotsExact, SlotBound
<1>5. CASE Registers(s)
  <2>1. /\ Reserved' = Reserved \ {s} /\ s \in Reserved /\ s \notin registered
        /\ registered' = registered \cup {s} /\ pendingSessions' = R - 1
    BY <1>1, <1>2, <1>5, ReservedAt
       DEF Registers, Goes, Kept, Sorts, Reserved, Progress, Early
  <2>2. Cardinality(Reserved') = R - 1 /\ Cardinality(registered') = G + 1
    BY <1>1, <2>1, FS_RemoveElement, FS_AddElement
  <2> QED
    BY <1>1, <1>2, <2>1, <2>2 DEF Counted, SlotsExact, SlotBound
<1>6. CASE \/ Admits(s) \/ NoSlot(s) \/ Acquires(s)
           \/ Posts(s) \/ PostAnswered(s) \/ PostRejected(s) \/ PostLost(s)
  <2>1. Reserved' = Reserved /\ registered' = registered /\ pendingSessions' = pendingSessions
    BY <1>2, <1>6, ReservedAt
       DEF Admits, NoSlot, Acquires, Posts, PostAnswered, PostRejected, PostLost, Goes, slots, Kept, Sorts, Reserved
  <2> QED
    BY <1>2, <2>1, CountKept
<1> QED
  BY <1>3, <1>4, <1>5, <1>6 DEF Open

\* Nobody else takes or gives back a reservation.
LEMMA OthersCount ==
  ASSUME Kept, Counted,
         \/ \E s \in Session : NativeMoves(s) \/ CloseCall(s) \/ ExitReleases(s)
         \/ Pass \/ Shutdown \/ ChildExits \/ UNCHANGED vars
  PROVE  Counted'
<1>1. ASSUME NEW s \in Session, NativeMoves(s) \/ CloseCall(s) \/ ExitReleases(s)
      PROVE  Counted'
  <2>1. registered' \subseteq registered /\ UNCHANGED <<pendingSessions, maxSessions>>
    BY <1>1 DEF NativeMoves, CloseCall, ExitReleases, ClientCloses, OpenCloses, ShutdownCloses,
       DeleteConfirmed, CallFails, InventoryMatches, InventoryAbsent, Release, slots
  <2>2. Reserved' = Reserved
    <3>1. op' = op \/ (op[s] = "aborting" /\ op' = [op EXCEPT ![s] = "done"])
      BY <1>1 DEF NativeMoves, CloseCall, ExitReleases, ClientCloses, OpenCloses, ShutdownCloses,
         DeleteConfirmed, CallFails, InventoryMatches, InventoryAbsent, Goes
    <3> QED
      BY <3>1 DEF Reserved, Kept, Sorts
  <2> QED
    BY <2>1, <2>2, CountKept
<1>2. ASSUME Pass \/ Shutdown \/ ChildExits \/ UNCHANGED vars
      PROVE  Counted'
  <2>1. registered' \subseteq registered /\ UNCHANGED <<op, pendingSessions, maxSessions>>
    BY <1>2 DEF Pass, PassLists, PassListFails, PassBegins, PassCopies, PassCleans, PassResumes,
       PassSkips, PassRejects, PassJudges, PassForgets, Release, Shutdown, ChildExits, slots, vars
  <2> QED
    BY <2>1, CountKept DEF Reserved
<1> QED
  BY <1>1, <1>2

-----------------------------------------------------------------------------
\* The invariant holds in every reachable state.
LEMMA Inductive == Spec => []IInv
<1>1. Init => IInv
  <2> SUFFICES ASSUME Init PROVE IInv
    OBVIOUS
  <2>1. Kept
    BY ConstantsAssumption
       DEF Init, Kept, Sorts, PassSorts, NoPass, NewItem, Item, Early, Live, SessionHoldsDemand,
           ExitIsFinal, Progress, Ownership, Suspects, ConstantsAssumption
  <2>3. JudgedIsOpen
    BY DEF Init, NoPass, JudgedIsOpen
  <2>2. Reserved = {} /\ registered = {} /\ pendingSessions = 0 /\ maxSessions \in Nat
    BY ConstantsAssumption DEF Init, Reserved, ConstantsAssumption
  <2> QED
    BY <2>1, <2>2, <2>3, FS_EmptySet DEF IInv, Counted, SlotsExact, SlotBound
<1>2. IInv /\ [Next]_vars => IInv'
  <2> SUFFICES ASSUME IInv, [Next]_vars PROVE IInv'
    OBVIOUS
  <2>1. Kept'
    <3>1. CASE UNCHANGED vars
      BY <3>1 DEF IInv, Kept, Sorts, PassSorts, SessionHoldsDemand, ExitIsFinal, Drained, Progress,
         Ownership, Suspects, vars, slots, lease, locks, loop
    <3> QED
      BY <3>1, OpenKeeps, CloseKeeps, PassKeeps, ShutdownKeeps DEF IInv, Next
  <2>2. Counted'
    BY OpenCounts, OthersCount DEF IInv, Next
  <2>3. JudgedIsOpen'
    <3>1. CASE UNCHANGED vars
      BY <3>1 DEF IInv, JudgedIsOpen, Current, Position, Suspects, vars, loop
    <3> QED
      BY <3>1, JudgedKept DEF IInv
  <2> QED
    BY <2>1, <2>2, <2>3 DEF IInv
<1> QED
  BY <1>1, <1>2, PTL DEF Spec

-----------------------------------------------------------------------------
(* The list of a pass.                                                     *)

\* Every nonempty set of numbers has a least one.
LEMMA LeastNumber ==
  ASSUME NEW T \in SUBSET Nat, T # {}
  PROVE  \E n \in T : \A m \in T : n <= m
<1>1. PICK n \in T : \A m \in T : ~ (<<m, n>> \in OpToRel(<, Nat))
  BY NatLessThanWellFounded, WFMin
<1>2. \A m \in T : ~ (m < n)
  BY <1>1 DEF OpToRel
<1> QED
  BY <1>2

\* A nonempty set of tokens has a last one.
LEMMA LastToken ==
  ASSUME NEW S \in SUBSET Session, S # {}
  PROVE  \E m \in S : \A s \in S : s <= m
<1> DEFINE T == {NSessions - s : s \in S}
<1>1. T \in SUBSET Nat /\ T # {}
  BY ConstantsAssumption DEF Session, ConstantsAssumption
<1>2. PICK n \in T : \A k \in T : n <= k
  BY <1>1, LeastNumber
<1>3. PICK m \in S : n = NSessions - m
  BY <1>2
<1>4. \A s \in S : s <= m
  BY <1>2, <1>3, ConstantsAssumption DEF Session, ConstantsAssumption
<1> QED
  BY <1>4

\* A list of all tokens but the last is continued by the last.
LEMMA AscendingGrows ==
  ASSUME NEW S \in SUBSET Session, IsFiniteSet(S), NEW m \in S, \A s \in S : s <= m,
         NEW list \in Ascending(S \ {m})
  PROVE  Ascending(S) # {}
<1> DEFINE n == Cardinality(S)
           longer == [i \in 1..n |-> IF i = n THEN m ELSE list[i]]
<1>1. n \in Nat \ {0} /\ Cardinality(S \ {m}) = n - 1
  <2>1. Cardinality(S) \in Nat /\ Cardinality(S \ {m}) = Cardinality(S) - 1 /\ Cardinality(S \ {m}) \in Nat
    BY FS_CardinalityType, FS_RemoveElement
  <2> QED
    BY <2>1
<1> HIDE DEF n
<1>2. list \in [1..(n - 1) -> S \ {m}] /\ \A i, j \in 1..(n - 1) : i < j => list[i] < list[j]
  BY <1>1 DEF Ascending
<1>3. longer \in [1..n -> S]
  BY <1>1, <1>2
<1>4. ASSUME NEW i \in 1..n, NEW j \in 1..n, i < j
      PROVE  longer[i] < longer[j]
  <2>1. i \in 1..(n - 1) /\ longer[i] = list[i]
    BY <1>1, <1>4
  <2>2. CASE j = n
    <3>1. list[i] \in S \ {m} /\ longer[j] = m
      BY <1>2, <2>1, <2>2
    <3> HIDE DEF longer
    <3>2. list[i] \in S /\ list[i] # m
      BY <3>1
    <3>3. list[i] \in Int /\ m \in Int /\ list[i] <= m
      <4>1. S \subseteq Int
        BY DEF Session
      <4> QED
        BY <3>2, <4>1
    <3> QED
      BY <2>1, <3>1, <3>2, <3>3
  <2>3. CASE j # n
    BY <1>1, <1>2, <1>4, <2>1, <2>3
  <2> QED
    BY <2>2, <2>3
<1>5. longer \in Ascending(S)
  BY <1>3, <1>4 DEF Ascending, n
<1> QED
  BY <1>5

\* Every set of tokens has an ascending list: the smallest without one would
\* have one, that of the others with the last token behind it.
LEMMA SortedIsAscending ==
  ASSUME NEW S \in SUBSET Session
  PROVE  Sorted(S) \in Ascending(S)
<1> DEFINE Unsorted == {R \in SUBSET Session : Ascending(R) = {}}
           Sizes == {Cardinality(R) : R \in Unsorted}
<1>1. ASSUME NEW R \in SUBSET Session
      PROVE  IsFiniteSet(R) /\ Cardinality(R) \in Nat
  <2>1. IsFiniteSet(Session)
    BY FS_Interval, ConstantsAssumption DEF Session, ConstantsAssumption
  <2> QED
    BY <2>1, FS_Subset, FS_CardinalityType
<1>2. Sizes = {}
  <2> SUFFICES ASSUME Sizes # {} PROVE FALSE
    OBVIOUS
  <2>1. Sizes \in SUBSET Nat
    BY <1>1
  <2>2. PICK n \in Sizes : \A k \in Sizes : n <= k
    BY <2>1, LeastNumber
  <2>3. PICK R \in Unsorted : n = Cardinality(R)
    BY <2>2
  <2>4. CASE R = {}
    <3>1. Cardinality(R) = 0
      BY <2>4, FS_EmptySet
    <3>2. [i \in 1..0 |-> i] \in Ascending(R)
      BY <2>4, <3>1 DEF Ascending
    <3> QED
      BY <2>3, <3>2
  <2>5. CASE R # {}
    <3>1. PICK m \in R : \A s \in R : s <= m
      BY <2>5, LastToken
    <3>2. Cardinality(R \ {m}) = n - 1 /\ n \in Nat
      BY <1>1, <2>3, FS_RemoveElement
    <3>3. R \ {m} \notin Unsorted
      <4> SUFFICES ASSUME R \ {m} \in Unsorted PROVE FALSE
        OBVIOUS
      <4>1. n - 1 \in Sizes
        BY <3>2
      <4> QED
        BY <2>2, <3>2, <4>1
    <3>4. PICK list : list \in Ascending(R \ {m})
      BY <3>3
    <3> QED
      BY <1>1, <2>3, <3>1, <3>4, AscendingGrows
  <2> QED
    BY <2>4, <2>5
<1>3. Ascending(S) # {}
  BY <1>2
<1> QED
  BY <1>3 DEF Sorted

Lists == Seq(Session)

WalkType ==
  [phase : {"off", "listed", "walk", "closing", "forget"},
   odd : SUBSET Session, missing : SUBSET Session, local : Lists,
   start : Nat, index : Nat, attempts : 0..CloseLimit]

\* A pass has its type, and one that walks is somewhere in its list.
WalkInv ==
  /\ maxSessions \in SessionLimits
  /\ pass \in WalkType
  /\ cursor \in Nat
  /\ pass.phase = "listed" => pass.index = 0
  /\ pass.phase \in {"walk", "closing", "forget"} => pass.index < Len(pass.local)

\* There is a pass that does not walk.
LEMMA NoPassTyped == NoPass \in WalkType /\ NoPass.phase = "off" /\ NoPass.index = 0 /\ 0 \in 0..CloseLimit
<1>1. <<>> \in Lists
  BY DEF Lists
<1>2. 0 \in 0..CloseLimit
  BY ConstantsAssumption DEF ConstantsAssumption
<1> HIDE DEF Lists
<1> QED
  BY <1>1, <1>2 DEF NoPass, WalkType

\* A finished pass is forgotten, another one has a session further on.
LEMMA AdvanceKeepsWalk ==
  ASSUME WalkInv, pass.phase \in {"walk", "closing", "forget"}, NEW k \in 0..CloseLimit,
         pass' = IF pass.index + 1 = Len(pass.local) THEN NoPass
                 ELSE [pass EXCEPT !.phase = "walk", !.index = @ + 1, !.attempts = k]
  PROVE  /\ pass' \in WalkType
         /\ pass'.phase = "listed" => pass'.index = 0
         /\ pass'.phase \in {"walk", "closing", "forget"} => pass'.index < Len(pass'.local)
<1>1. pass.index \in Nat /\ pass.index + 1 \in Nat /\ pass.local \in Lists /\ Len(pass.local) \in Nat
  BY DEF WalkInv, WalkType, Lists
<1>2. CASE pass.index + 1 = Len(pass.local)
  <2>1. pass' = NoPass
    BY <1>2
  <2> QED
    BY <2>1, NoPassTyped
<1>3. CASE pass.index + 1 # Len(pass.local)
  <2>1. pass' = [pass EXCEPT !.phase = "walk", !.index = pass.index + 1, !.attempts = k]
    BY <1>3
  <2>2. pass' \in WalkType
    BY <1>1, <2>1 DEF WalkInv, WalkType
  <2>3. pass'.index = pass.index + 1 /\ pass'.local = pass.local /\ pass'.phase = "walk"
    BY <2>1 DEF WalkInv, WalkType
  <2>4. pass.index < Len(pass.local)
    BY DEF WalkInv
  <2> QED
    BY <1>1, <1>3, <2>2, <2>3, <2>4
<1> QED
  BY <1>2, <1>3

\* Only the reconcile loop moves its pass and its cursor.
LEMMA WalkKept ==
  ASSUME WalkInv, UNCHANGED <<maxSessions, loop>>
  PROVE  WalkInv'
BY DEF WalkInv, loop

\* The cursor of a walk is a number, whatever the length of the list.
LEMMA CursorTyped ==
  ASSUME WalkInv, pass.phase \in {"walk", "closing", "forget"}
  PROVE  NextCursor \in Nat
<1>1. pass.index \in Nat /\ pass.start \in Nat /\ Len(pass.local) \in Nat /\ pass.index < Len(pass.local)
  BY DEF WalkInv, WalkType, Lists
<1> DEFINE n == Len(pass.local)
           i == pass.start + pass.index
           p == i % n
<1>2. n \in Nat \ {0} /\ i \in Nat
  BY <1>1
<1> HIDE DEF n, i
<1>3. p \in Nat
  BY <1>2
<1> HIDE DEF p
<1>4. (p + 1) % n \in Nat
  BY <1>2, <1>3
<1> QED
  BY <1>4 DEF NextCursor, Position, n, i, p

\* The reconcile loop keeps its place.
LEMMA PassWalks ==
  ASSUME Kept, WalkInv, Pass
  PROVE  WalkInv'
<1>0. maxSessions' = maxSessions
  BY DEF Pass, PassLists, PassListFails, PassBegins, PassCopies, PassCleans, PassResumes, PassSkips,
     PassRejects, PassJudges, PassForgets
<1>1. ASSUME NEW young \in SUBSET registered, PassLists(young)
      PROVE  WalkInv'
  <2>1. /\ {s \in Session : native[s] = "odd"} \in SUBSET Session
        /\ {s \in registered \ young : native[s] \notin Live} \in SUBSET Session
    BY DEF Kept, Sorts
  <2> QED
    BY <1>0, <1>1, <2>1, NoPassTyped DEF PassLists, PassBegins, WalkInv, WalkType
<1>2. CASE PassListFails
  BY <1>0, <1>2, NoPassTyped DEF PassListFails, PassBegins, WalkInv, WalkType
<1>3. CASE PassCopies
  <2>1. CASE registered = {}
    BY <1>0, <1>3, <2>1, NoPassTyped DEF PassCopies, WalkInv
  <2>2. CASE registered # {}
    <3> DEFINE n == Cardinality(registered)
               list == Sorted(registered)
    <3>1. registered \in SUBSET Session /\ IsFiniteSet(registered) /\ n \in Nat /\ n # 0
      BY <2>2, SessionsFinite, FS_EmptySet DEF Kept, Sorts
    <3>2. list \in [1..n -> registered]
      BY <3>1, SortedIsAscending DEF Ascending
    <3> HIDE DEF n, list
    <3>3. list \in Lists /\ Len(list) = n
      BY <3>1, <3>2 DEF Lists
    <3>4. cursor % n \in Nat
      BY <3>1 DEF WalkInv
    <3>5. pass' = [pass EXCEPT !.phase = "walk", !.local = list, !.start = cursor % n] /\ cursor' = cursor
      BY <1>3, <2>2 DEF PassCopies, n, list
    <3>6. pass.index = 0
      BY <1>3 DEF PassCopies, WalkInv
    <3> DEFINE first == cursor % n
    <3>7. first \in Nat /\ pass' = [pass EXCEPT !.phase = "walk", !.local = list, !.start = first]
      BY <3>4, <3>5
    <3> HIDE DEF first
    <3>8. pass' \in WalkType
      BY <3>3, <3>7 DEF WalkInv, WalkType
    <3>9. pass'.phase = "walk" /\ pass'.index = 0 /\ Len(pass'.local) = n
      BY <3>3, <3>6, <3>7 DEF WalkInv, WalkType
    <3>10. 0 < n
      BY <3>1
    <3> QED
      BY <1>0, <3>5, <3>8, <3>9, <3>10 DEF WalkInv
  <2> QED
    BY <2>1, <2>2
<1>4. CASE PassCleans
  <2>1. /\ pass.phase = "walk" /\ pass.attempts \in 0..CloseLimit /\ pass.attempts + 1 \in 0..CloseLimit
        /\ cursor' = NextCursor
    BY <1>4, ConstantsAssumption DEF PassCleans, Walks, WalkInv, WalkType, ConstantsAssumption
  <2>2. cursor' \in Nat
    BY <2>1, CursorTyped
  <2>3. CASE Current \in registered
    <3>1. pass' = [pass EXCEPT !.phase = "closing", !.attempts = pass.attempts + 1]
      BY <1>4, <2>3 DEF PassCleans
    <3> QED
      BY <1>0, <2>1, <2>2, <3>1 DEF WalkInv, WalkType
  <2>4. CASE Current \notin registered
    <3>1. pass' = IF pass.index + 1 = Len(pass.local) THEN NoPass
                  ELSE [pass EXCEPT !.phase = "walk", !.index = @ + 1, !.attempts = pass.attempts + 1]
      BY <1>4, <2>1, <2>4 DEF PassCleans, WalkInv, WalkType
    <3> QED
      BY <1>0, <2>1, <2>2, <3>1, AdvanceKeepsWalk DEF WalkInv
  <2> QED
    BY <2>3, <2>4
<1>5. CASE PassResumes \/ PassSkips \/ PassRejects \/ PassForgets
  <2>1. Advance /\ pass.phase \in {"walk", "closing", "forget"} /\ cursor' = cursor
    BY <1>5 DEF PassResumes, PassSkips, PassRejects, PassForgets, Walks
  <2>2. pass.attempts \in 0..CloseLimit
    BY DEF WalkInv, WalkType
  <2>3. pass' = IF pass.index + 1 = Len(pass.local) THEN NoPass
                ELSE [pass EXCEPT !.phase = "walk", !.index = @ + 1, !.attempts = pass.attempts]
    BY <2>1 DEF Advance, WalkInv, WalkType
  <2> QED
    BY <1>0, <2>1, <2>2, <2>3, AdvanceKeepsWalk DEF WalkInv
<1>6. CASE PassJudges
  BY <1>0, <1>6 DEF PassJudges, Walks, WalkInv, WalkType
<1> QED
  BY <1>1, <1>2, <1>3, <1>4, <1>5, <1>6 DEF Pass

\* Types, slots and demand: the pass and the counters have their types, the
\* slots suffice and a registered session holds its source, whatever is lost.
THEOREM SessionsAreSound == Spec => []SessionInv
<1>1. Init => WalkInv
  BY NoPassTyped DEF Init, WalkInv
<1>2. IInv /\ WalkInv /\ [Next]_vars => WalkInv'
  <2> SUFFICES ASSUME IInv, WalkInv, [Next]_vars PROVE WalkInv'
    OBVIOUS
  <2>1. CASE Pass
    BY <2>1, PassWalks DEF IInv
  <2>2. CASE ~Pass
    <3>1. UNCHANGED <<maxSessions, loop>>
      BY <2>2 DEF Next, Open, Admits, NoSlot, Reserve, AcquireFails, Acquires, GivesUp, Registers, Posts, PostAnswered,
         PostRejected, PostLost, NativeMoves, CloseCall, ClientCloses, OpenCloses, ShutdownCloses,
         DeleteConfirmed, CallFails, InventoryMatches, InventoryAbsent, ExitReleases, Shutdown, ChildExits,
         vars
    <3> QED
      BY <3>1, WalkKept
  <2> QED
    BY <2>1, <2>2
<1>3. IInv /\ WalkInv => SessionInv
  <2> SUFFICES ASSUME IInv, WalkInv PROVE SessionInv
    OBVIOUS
  <2>1. pendingSessions \in Nat
    BY SessionsFinite DEF IInv, Kept, Counted, SlotsExact, Reserved
  <2>2. TypeOK
    BY <2>1 DEF IInv, Kept, Sorts, Early, Item, WalkInv, WalkType, Lists, TypeOK
  <2> QED
    BY <2>2 DEF SessionInv, IInv, Kept, Counted
<1> QED
  BY <1>1, <1>2, <1>3, Inductive, PTL DEF Spec

\* The viewers and the negotiations in progress never exceed maxSessions.
THEOREM SlotsSuffice == Spec => []SlotBound
<1>1. IInv => SlotBound
  BY DEF IInv, Counted
<1> QED
  BY <1>1, Inductive, PTL

\* A registered session holds a consumer or a pending reference of its source,
\* and a released one holds none.
THEOREM DemandFollowsSessions == Spec => []SessionHoldsDemand
<1>1. IInv => SessionHoldsDemand
  BY DEF IInv, Kept
<1> QED
  BY <1>1, Inductive, PTL

-----------------------------------------------------------------------------
(* The abstract slots.                                                     *)

\* Who holds an abstract slot is counted by the registry and the counter.
LEMMA HoldersCounted ==
  ASSUME IInv
  PROVE  Cardinality(Slots!Holders) = Cardinality(registered) + pendingSessions
<1>1. registered \in SUBSET Session /\ Reserved \in SUBSET Session /\ registered \cap Reserved = {}
  BY DEF IInv, Kept, Sorts, Reserved, Progress, Early
<1>2. Slots!Holders = registered \cup Reserved
  BY DEF Slots!Holders, SlotOf, Reserved, IInv, Kept, Sorts, Progress, Early
<1>3. Cardinality(registered \cup Reserved) = Cardinality(registered) + Cardinality(Reserved)
  <2>1. /\ IsFiniteSet(registered) /\ Cardinality(registered) \in Nat
        /\ IsFiniteSet(Reserved) /\ Cardinality(Reserved) \in Nat
    BY <1>1, SessionsFinite
  <2>2. Cardinality(registered \cap Reserved) = 0
    BY <1>1, FS_EmptySet
  <2>3. Cardinality(registered \cup Reserved)
          = Cardinality(registered) + Cardinality(Reserved) - Cardinality(registered \cap Reserved)
    BY <2>1, FS_Union
  <2> QED
    BY <2>1, <2>2, <2>3
<1> QED
  BY <1>2, <1>3 DEF IInv, Counted, SlotsExact

\* A step that is invisible.
LEMMA Invisible ==
  ASSUME SlotOf' = SlotOf, NativeOf' = NativeOf, Judged' = Judged, UNCHANGED <<maxSessions, closing>>
  PROVE  [Slots!Next]_(Slots!vars)
BY DEF Slots!vars

\* A step that at most asks one session to leave.
LEMMA Asks ==
  ASSUME IInv, NEW s \in Session,
         SlotOf' = SlotOf \/ (SlotOf[s] = "held" /\ SlotOf' = [SlotOf EXCEPT ![s] = "asked"]),
         NativeOf' = NativeOf, Judged' = Judged, UNCHANGED <<maxSessions, closing>>
  PROVE  [Slots!Next]_(Slots!vars)
<1>1. CASE SlotOf' = SlotOf
  BY <1>1, Invisible
<1>2. CASE SlotOf[s] = "held" /\ SlotOf' = [SlotOf EXCEPT ![s] = "asked"]
  BY <1>2 DEF Slots!Next, Slots!Ask, Slots!Goes
<1> QED
  BY <1>1, <1>2

\* Slots that differ for one session at most.
LEMMA OneSlot ==
  ASSUME NEW s \in Session, \A t \in Session : t # s => SlotOf'[t] = SlotOf[t]
  PROVE  /\ SlotOf'[s] = SlotOf[s] => SlotOf' = SlotOf
         /\ SlotOf' = [SlotOf EXCEPT ![s] = SlotOf'[s]]
<1>1. SlotOf = [t \in Session |-> SlotOf[t]] /\ SlotOf' = [t \in Session |-> SlotOf'[t]]
  BY DEF SlotOf
<1> HIDE DEF SlotOf
<1>2. CASE SlotOf'[s] = SlotOf[s]
  BY <1>1, <1>2
<1>3. SlotOf' = [SlotOf EXCEPT ![s] = SlotOf'[s]]
  BY <1>1
<1> QED
  BY <1>2, <1>3

\* A request to close a session is visible if it is registered, and the first.
LEMMA RequestSeen ==
  ASSUME Kept, NEW s \in registered,
         item' = [item EXCEPT ![s].closeRequested = TRUE],
         registered' = registered,
         \A t \in Session : op'[t] = op[t] \/ {op[t], op'[t]} \cap Early = {}
  PROVE  SlotOf' = SlotOf \/ (SlotOf[s] = "held" /\ SlotOf' = [SlotOf EXCEPT ![s] = "asked"])
<1>1. s \in Session /\ op[s] \notin Early
  BY DEF Kept, Sorts, Progress
<1>2. /\ item'[s].closeRequested
      /\ \A t \in Session : t # s => item'[t] = item[t]
  BY <1>1, Requested DEF Kept, Sorts
<1>3. \A t \in Session : t # s => SlotOf'[t] = SlotOf[t]
  BY <1>2 DEF SlotOf, Early
<1>4. SlotOf[s] \in {"held", "asked"} /\ SlotOf'[s] = "asked"
  BY <1>1, <1>2 DEF SlotOf, Early
<1>5. (SlotOf'[s] = SlotOf[s] => SlotOf' = SlotOf) /\ SlotOf' = [SlotOf EXCEPT ![s] = SlotOf'[s]]
  BY <1>1, <1>3, OneSlot
<1> QED
  BY <1>4, <1>5

\* Nobody but a pass changes whom it is about to forget.
LEMMA SameJudged ==
  ASSUME UNCHANGED loop
  PROVE  Judged' = Judged
BY DEF Judged, Current, Position, loop

\* OpenSession admits a viewer, attempts its native session, or gives up.
LEMMA OpenImplements ==
  ASSUME IInv, NEW s \in Session, Open(s)
  PROVE  [Slots!Next]_(Slots!vars)
<1> USE DEF IInv, Kept, Sorts, Goes, lease, slots
<1>0. UNCHANGED <<maxSessions, closing>> /\ Judged' = Judged
  BY SameJudged DEF Open, Admits, NoSlot, Reserve, AcquireFails, Acquires, GivesUp, Registers, Posts,
     PostAnswered, PostRejected, PostLost
<1>8. CASE Admits(s)
  <2>1. SlotOf[s] = "free" /\ SlotOf' = [SlotOf EXCEPT ![s] = "waiting"] /\ NativeOf' = NativeOf
    BY <1>8 DEF Admits, SlotOf, NativeOf, Progress, Early
  <2> QED
    BY <1>0, <1>8, <2>1 DEF Admits, Slots!Next, Slots!Enter, Slots!Goes
<1>9. CASE NoSlot(s)
  <2>1. SlotOf[s] = "waiting" /\ SlotOf' = [SlotOf EXCEPT ![s] = "free"] /\ NativeOf' = NativeOf
    BY <1>9 DEF NoSlot, SlotOf, NativeOf, Progress, Early
  <2> QED
    BY <1>0, <2>1 DEF Slots!Next, Slots!Refuse, Slots!Goes
<1>1. CASE Reserve(s)
  <2>1. SlotOf[s] = "waiting" /\ SlotOf' = [SlotOf EXCEPT ![s] = "held"] /\ NativeOf' = NativeOf
    BY <1>1 DEF Reserve, SlotOf, NativeOf, Progress, Early
  <2>2. Cardinality(Slots!Holders) < maxSessions
    BY <1>1, HoldersCounted DEF Reserve, HasSlot
  <2>3. Slots!Cardinality(Slots!Holders) = Cardinality(Slots!Holders)
    BY DEF Slots!Cardinality, Cardinality
  <2>4. Slots!Admit(s)
    BY <1>0, <2>1, <2>2, <2>3 DEF Slots!Admit, Slots!Goes
  <2> QED
    BY <2>4 DEF Slots!Next
<1>2. CASE AcquireFails(s) \/ GivesUp(s)
  <2>0. /\ op[s] \in {"reserved", "leased"} /\ op' = [op EXCEPT ![s] = "done"] /\ s \notin registered
        /\ UNCHANGED <<registered, item, native>>
    BY <1>2 DEF AcquireFails, GivesUp, Progress, Early
  <2>1. SlotOf[s] = "held" /\ SlotOf' = [SlotOf EXCEPT ![s] = "released"] /\ NativeOf' = NativeOf
    BY <2>0 DEF SlotOf, NativeOf
  <2>2. NativeOf[s] = "none"
    BY <2>0 DEF NativeOf, Progress, Early
  <2> QED
    BY <1>0, <2>1, <2>2 DEF Slots!Next, Slots!Leave, Slots!Goes
<1>3. CASE Acquires(s) \/ Registers(s)
  <2>0. /\ op[s] \in {"reserved", "leased"} /\ s \notin registered /\ ~item[s].closeRequested
        /\ \/ op' = [op EXCEPT ![s] = "leased"] /\ registered' = registered
           \/ op' = [op EXCEPT ![s] = "registered"] /\ registered' = registered \cup {s}
        /\ UNCHANGED <<item, native>>
    BY <1>3 DEF Acquires, Registers, Progress, Early, NewItem
  <2>1. SlotOf' = SlotOf /\ NativeOf' = NativeOf
    BY <2>0 DEF SlotOf, NativeOf
  <2> QED
    BY <1>0, <2>1, Invisible
<1>4. CASE Posts(s)
  <2>1. s \in registered /\ native[s] = "none" /\ native' = [native EXCEPT ![s] = "requested"]
    BY <1>4 DEF Posts, Progress
  <2>2. SlotOf' = SlotOf
    BY <1>4 DEF Posts, SlotOf
  <2>3. SlotOf[s] \in {"held", "asked"}
    BY <1>4, <2>1 DEF Posts, SlotOf
  <2>4. NativeOf[s] = "none" /\ NativeOf' = [NativeOf EXCEPT ![s] = "may exist"]
    BY <2>1 DEF NativeOf
  <2> QED
    BY <1>0, <2>2, <2>3, <2>4 DEF Slots!Next, Slots!Attempt, Slots!Holders
<1>5. CASE PostAnswered(s) \/ PostRejected(s) \/ PostLost(s)
  <2>1. s \in registered /\ registered' = registered /\ native' = native /\ op[s] = "posting"
    BY <1>5 DEF PostAnswered, PostRejected, PostLost, Progress
  <2>2. op' = [op EXCEPT ![s] = "aborting"] \/ op' = [op EXCEPT ![s] = "done"]
    BY <1>5 DEF PostAnswered, PostRejected, PostLost
  <2>3. PICK r \in Item : item' = [item EXCEPT ![s] = r] /\ (item[s].closeRequested => r.closeRequested)
    <3>0. item[s] \in Item
      OBVIOUS
    <3>1. CASE PostAnswered(s)
      <4> DEFINE r == [item[s] EXCEPT !.opening = FALSE, !.located = TRUE,
                                      !.closeRequested = item[s].closeRequested \/ closing]
      <4>1. r \in Item /\ (item[s].closeRequested => r.closeRequested)
        BY <3>0 DEF Item
      <4>2. item' = [item EXCEPT ![s] = r]
        BY <3>1 DEF PostAnswered
      <4> QED
        BY <4>1, <4>2
    <3>2. CASE PostRejected(s)
      <4> DEFINE r == [item[s] EXCEPT !.opening = FALSE, !.closeRequested = TRUE, !.complete = TRUE]
      <4>1. r \in Item /\ r.closeRequested
        BY <3>0 DEF Item
      <4>2. item' = [item EXCEPT ![s] = r]
        BY <3>2 DEF PostRejected
      <4> QED
        BY <4>1, <4>2
    <3>3. CASE PostLost(s)
      <4> DEFINE r == [item[s] EXCEPT !.opening = FALSE, !.closeRequested = TRUE]
      <4>1. r \in Item /\ r.closeRequested
        BY <3>0 DEF Item
      <4>2. item' = [item EXCEPT ![s] = r]
        BY <3>3 DEF PostLost
      <4> QED
        BY <4>1, <4>2
    <3> QED
      BY <1>5, <3>1, <3>2, <3>3
  <2>4. SlotOf' = SlotOf \/ (SlotOf[s] = "held" /\ SlotOf' = [SlotOf EXCEPT ![s] = "asked"])
    <3>1. /\ item'[s] = r
          /\ \A t \in Session : t # s => item'[t] = item[t]
      BY <2>3
    <3>2. \A t \in Session : t # s => SlotOf'[t] = SlotOf[t]
      BY <2>1, <2>2, <3>1 DEF SlotOf
    <3>3. /\ SlotOf[s] = IF item[s].closeRequested THEN "asked" ELSE "held"
          /\ SlotOf'[s] = IF r.closeRequested THEN "asked" ELSE "held"
      BY <2>1, <2>2, <3>1 DEF SlotOf
    <3>4. (SlotOf'[s] = SlotOf[s] => SlotOf' = SlotOf) /\ SlotOf' = [SlotOf EXCEPT ![s] = SlotOf'[s]]
      BY <3>2, OneSlot
    <3> HIDE DEF SlotOf
    <3>5. CASE item[s].closeRequested
      <4>1. SlotOf[s] = "asked"
        BY <3>3, <3>5
      <4>2. SlotOf'[s] = "asked"
        BY <2>3, <3>3, <3>5
      <4> QED
        BY <3>4, <4>1, <4>2
    <3>6. CASE ~item[s].closeRequested
      <4>1. SlotOf[s] = "held"
        BY <3>3, <3>6
      <4>2. SlotOf'[s] \in {"held", "asked"}
        BY <3>3
      <4> QED
        BY <3>4, <4>1, <4>2
    <3> QED
      BY <3>5, <3>6
  <2> QED
    BY <1>0, <2>1, <2>4, Asks DEF NativeOf
<1> QED
  BY <1>1, <1>2, <1>3, <1>4, <1>5, <1>8, <1>9 DEF Open

\* A session that is dropped gives back its slot, if no native one is left.
LEMMA ReleaseImplements ==
  ASSUME IInv, NEW s \in registered, Release(s), op' = op,
         \A t \in Session : t # s => item'[t] = item[t],
         NativeOf' = Slots!Ended(s), Judged' = Judged,
         UNCHANGED <<maxSessions, closing>>
  PROVE  [Slots!Next]_(Slots!vars)
<1>1. s \in Session /\ op[s] \notin Early
  BY DEF IInv, Kept, Sorts, Progress
<1>2. SlotOf[s] \in {"held", "asked"} /\ SlotOf' = [SlotOf EXCEPT ![s] = "released"]
  BY <1>1 DEF SlotOf, Release, Early
<1>3. Slots!Release(s)
  BY <1>1, <1>2 DEF Slots!Release, Slots!Holders
<1> QED
  BY <1>1, <1>3 DEF Slots!Next

\* The native session ends, or will never be created.
LEMMA NativeEnds ==
  ASSUME IInv, NEW s \in Session, NEW v \in {"gone", "rejected"},
         native[s] \in Live \cup {"requested"}, native' = [native EXCEPT ![s] = v]
  PROVE  NativeOf' = Slots!Ended(s)
BY DEF NativeOf, Slots!Ended, IInv, Kept, Sorts, Live

\* A native session that is observed to end.
LEMMA EndImplements ==
  ASSUME IInv, NEW s \in Session, SlotOf' = SlotOf, Judged' = Judged,
         UNCHANGED <<maxSessions, closing>>,
         NativeOf' = NativeOf \/ NativeOf' = Slots!Ended(s)
  PROVE  [Slots!Next]_(Slots!vars)
<1>1. CASE NativeOf' = NativeOf
  BY <1>1, Invisible
<1>2. CASE NativeOf' = Slots!Ended(s)
  <2>1. Slots!End(s)
    BY <1>2 DEF Slots!End
  <2> QED
    BY <2>1 DEF Slots!Next
<1> QED
  BY <1>1, <1>2

\* Taking and leaving item.mu is invisible, or asks the viewer to leave.
LEMMA LockImplements ==
  ASSUME IInv, NEW s \in Session, NEW who, Lock(s, who),
         op' = op \/ (op[s] = "aborting" /\ op' = [op EXCEPT ![s] = "done"]),
         UNCHANGED <<maxSessions, registered, native, closing>>, Judged' = Judged
  PROVE  [Slots!Next]_(Slots!vars)
<1>1. s \in registered /\ item' = [item EXCEPT ![s].closeRequested = TRUE]
  BY DEF Lock
<1>2. \A t \in Session : op'[t] = op[t] \/ {op[t], op'[t]} \cap Early = {}
  BY DEF IInv, Kept, Sorts, Early
<1>3. SlotOf' = SlotOf \/ (SlotOf[s] = "held" /\ SlotOf' = [SlotOf EXCEPT ![s] = "asked"])
  BY <1>1, <1>2, RequestSeen DEF IInv
<1> QED
  BY <1>3, Asks DEF NativeOf

\* CloseSession asks, and releases what has ended for good.
LEMMA CloseImplements ==
  ASSUME IInv, NEW s \in Session, CloseCall(s) \/ NativeMoves(s) \/ ExitReleases(s)
  PROVE  [Slots!Next]_(Slots!vars)
<1>0. Judged' = Judged
  BY SameJudged DEF CloseCall, NativeMoves, ExitReleases, ClientCloses, OpenCloses, ShutdownCloses,
     DeleteConfirmed, CallFails, InventoryMatches, InventoryAbsent
<1> USE DEF IInv, Kept, Sorts, slots
<1>1. CASE ClientCloses(s)
  BY <1>0, <1>1, LockImplements DEF ClientCloses
<1>2. CASE OpenCloses(s)
  <2>1. CASE s \in registered
    BY <1>0, <1>2, <2>1, LockImplements DEF OpenCloses, Goes
  <2>2. CASE s \notin registered
    <3>1. SlotOf' = SlotOf /\ NativeOf' = NativeOf
      BY <1>2, <2>2 DEF OpenCloses, Goes, SlotOf, NativeOf
    <3> QED
      BY <1>0, <1>2, <2>2, <3>1, Invisible DEF OpenCloses
  <2> QED
    BY <2>1, <2>2
<1>3. CASE ShutdownCloses(s)
  BY <1>0, <1>3, LockImplements DEF ShutdownCloses
<1>4. CASE DeleteConfirmed(s)
  <2>1. s \in registered /\ native[s] \in Live \cup {"gone"}
    BY <1>4 DEF DeleteConfirmed, Ownership
  <2>2. NativeOf' = Slots!Ended(s)
    BY <1>4, <2>1 DEF DeleteConfirmed, Ended, NativeOf, Slots!Ended, Live
  <2> QED
    BY <1>0, <1>4, <2>1, <2>2, ReleaseImplements DEF DeleteConfirmed
<1>5. CASE CallFails(s)
  <2>1. SlotOf' = SlotOf /\ UNCHANGED <<maxSessions, closing>>
    BY <1>5 DEF CallFails, SlotOf
  <2>2. native' = native \/ (native[s] \in Live /\ native' = [native EXCEPT ![s] = "gone"])
    BY <1>5 DEF CallFails, Ended
  <2>3. NativeOf' = NativeOf \/ NativeOf' = Slots!Ended(s)
    BY <2>2, NativeEnds DEF NativeOf
  <2> QED
    BY <1>0, <2>1, <2>3, EndImplements
<1>6. CASE InventoryMatches(s)
  <2>1. \A t \in Session : item'[t].closeRequested = item[t].closeRequested
    BY <1>6 DEF InventoryMatches, Item
  <2>2. SlotOf' = SlotOf /\ NativeOf' = NativeOf
    BY <1>6, <2>1 DEF InventoryMatches, SlotOf, NativeOf
  <2> QED
    BY <1>0, <1>6, <2>2, Invisible DEF InventoryMatches
<1>7. CASE InventoryAbsent(s)
  <2>1. s \in registered /\ native[s] \in {"gone", "rejected"}
    BY <1>7 DEF InventoryAbsent, ProvenAbsent, Ownership
  <2>2. NativeOf' = Slots!Ended(s)
    BY <1>7, <2>1 DEF InventoryAbsent, NativeOf, Slots!Ended, Live
  <2> QED
    BY <1>0, <1>7, <2>1, <2>2, ReleaseImplements DEF InventoryAbsent
<1>8. CASE NativeMoves(s)
  <2>1. SlotOf' = SlotOf /\ UNCHANGED <<maxSessions, closing>>
    BY <1>8 DEF NativeMoves, SlotOf
  <2>2. ASSUME native[s] = "requested", NEW v \in Live, native' = [native EXCEPT ![s] = v]
        PROVE  [Slots!Next]_(Slots!vars)
    <3>1. NativeOf' = NativeOf
      BY <2>2 DEF NativeOf, Live
    <3> QED
      BY <1>0, <2>1, <3>1, Invisible
  <2>3. ASSUME native[s] \in Live \cup {"requested"}, NEW v \in {"gone", "rejected"},
               native' = [native EXCEPT ![s] = v]
        PROVE  [Slots!Next]_(Slots!vars)
    BY <1>0, <2>1, <2>3, NativeEnds, EndImplements
  <2> QED
    BY <1>8, <2>2, <2>3 DEF NativeMoves
<1>9. CASE ExitReleases(s)
  <2>1. s \in registered /\ native[s] \notin Live \cup {"requested"} /\ native' = native
    BY <1>9 DEF ExitReleases, ExitIsFinal
  <2>2. NativeOf' = Slots!Ended(s)
    BY <2>1 DEF NativeOf, Slots!Ended
  <2> QED
    BY <1>0, <1>9, <2>1, <2>2, ReleaseImplements DEF ExitReleases
<1> QED
  BY <1>1, <1>2, <1>3, <1>4, <1>5, <1>6, <1>7, <1>8, <1>9 DEF CloseCall

\* The reconcile pass forgets, releases or asks.
LEMMA PassImplements ==
  ASSUME IInv, Pass \/ Shutdown \/ ChildExits \/ UNCHANGED vars
  PROVE  [Slots!Next]_(Slots!vars)
<1> USE DEF IInv, Kept, Sorts, slots
<1>0. GoesOn => Judged' = {}
  BY NothingJudged DEF Judged
<1>1. CASE \/ \E young \in SUBSET registered : PassLists(young)
           \/ PassListFails \/ PassCopies \/ PassResumes \/ PassSkips \/ UNCHANGED vars
  <2>1. UNCHANGED <<maxSessions, op, registered, item, native, closing>>
    BY <1>1 DEF PassLists, PassListFails, PassBegins, PassCopies, PassResumes, PassSkips, vars
  <2>2. Judged' = Judged
    <3>1. CASE UNCHANGED vars
      BY <3>1, SameJudged DEF vars
    <3>2. CASE ~UNCHANGED vars
      <4>1. GoesOn /\ Judged = {}
        BY <1>1, <3>2 DEF GoesOn, PassLists, PassListFails, PassBegins, PassCopies, PassResumes, PassSkips,
           Walks, Judged
      <4> QED
        BY <1>0, <4>1
    <3> QED
      BY <3>1, <3>2
  <2> QED
    BY <2>1, <2>2, Invisible DEF SlotOf, NativeOf
<1>2. CASE PassCleans
  <2>3. Judged' = Judged
    BY <1>0, <1>2 DEF GoesOn, PassCleans, Walks, Judged
  <2>1. CASE Current \in registered
    BY <1>2, <2>1, <2>3, LockImplements DEF PassCleans
  <2>2. CASE Current \notin registered
    <3>1. UNCHANGED <<maxSessions, op, registered, item, native, closing>>
      BY <1>2, <2>2 DEF PassCleans
    <3> QED
      BY <2>3, <3>1, Invisible DEF SlotOf, NativeOf
  <2> QED
    BY <2>1, <2>2
<1>3. CASE PassRejects
  <2>1. /\ Current \in registered /\ item' = [item EXCEPT ![Current].closeRequested = TRUE]
        /\ UNCHANGED <<maxSessions, op, registered, native, closing>>
    BY <1>3 DEF PassRejects, PassSorts, Suspects, Ownership
  <2>2. \/ SlotOf' = SlotOf
        \/ SlotOf[Current] = "held" /\ SlotOf' = [SlotOf EXCEPT ![Current] = "asked"]
    BY <2>1, RequestSeen
  <2>3. Judged' = Judged
    BY <1>0, <1>3 DEF GoesOn, PassRejects, Walks, Judged
  <2> QED
    BY <2>1, <2>2, <2>3, Asks DEF NativeOf
<1>7. CASE PassJudges
  <2>1. /\ Current \in registered /\ ~item[Current].closeRequested
        /\ UNCHANGED <<maxSessions, op, registered, item, native, closing>>
    BY <1>7 DEF PassJudges, PassSorts, Suspects, Ownership
  <2>2. Current \in Session /\ SlotOf[Current] = "held"
    BY <2>1 DEF Progress, SlotOf, Early
  <2>3. Judged = {} /\ Judged' = {Current}
    BY <1>7 DEF PassJudges, Walks, Judged, Current, Position, PassSorts
  <2> QED
    BY <2>1, <2>2, <2>3 DEF Slots!Next, Slots!Miss, SlotOf, NativeOf
<1>4. CASE PassForgets
  <2>1. /\ Current \in Session /\ op[Current] \notin Early
        /\ UNCHANGED <<maxSessions, op, native, closing>>
    BY <1>4 DEF PassForgets, JudgedIsOpen, Suspects, PassSorts, Progress, NewItem
  <2>2. /\ registered' = registered \ {Current}
        /\ \A t \in Session : t # Current => item'[t] = item[t]
    BY <1>4, <2>1 DEF PassForgets, Release
  <2>3. SlotOf' = [SlotOf EXCEPT ![Current] = "released"]
    BY <2>1, <2>2 DEF SlotOf, Early
  <2>4. Judged = {Current} /\ Judged' = {}
    BY <1>0, <1>4 DEF GoesOn, PassForgets, Judged
  <2> QED
    BY <2>1, <2>3, <2>4 DEF Slots!Next, Slots!Forget, NativeOf
<1>5. CASE Shutdown
  <2>1. /\ closing' = TRUE /\ SlotOf' = SlotOf /\ NativeOf' = NativeOf /\ maxSessions' = maxSessions
    BY <1>5 DEF Shutdown, SlotOf, NativeOf
  <2>2. Judged' = Judged
    BY <1>5, SameJudged DEF Shutdown
  <2> QED
    BY <2>1, <2>2 DEF Slots!Next, Slots!BeginShutdown
<1>6. CASE ChildExits
  <2>1. UNCHANGED <<maxSessions, closing>> /\ SlotOf' = SlotOf
    BY <1>6 DEF ChildExits, SlotOf
  <2>2. NativeOf' = [t \in Session |-> IF NativeOf[t] = "may exist" THEN "ended" ELSE NativeOf[t]]
    BY <1>6 DEF ChildExits, NativeOf, Live
  <2>3. Judged' = Judged
    BY <1>6, SameJudged DEF ChildExits
  <2> QED
    BY <2>1, <2>2, <2>3 DEF Slots!Next, Slots!EndAll
<1> QED
  BY <1>1, <1>2, <1>3, <1>4, <1>5, <1>6, <1>7 DEF Pass

\* OpenSession, CloseSession and the reconcile loop, with every reply lost or
\* late, keep to the promise of ViewerSlots: a viewer who is asked to leave
\* gives its slot back only when no native session is left, unless a pass had
\* judged by its inventory before it was asked.
THEOREM Refinement == Spec => ImplementsViewerSlots
<1>1. Init => Slots!Init
  BY ConstantsAssumption DEF Init, Slots!Init, SlotOf, NativeOf, Judged, NoPass, ConstantsAssumption
<1>2. IInv /\ [Next]_vars => [Slots!Next]_(Slots!vars)
  BY OpenImplements, CloseImplements, PassImplements DEF Next
<1> QED
  BY <1>1, <1>2, Inductive, PTL DEF Spec, ImplementsViewerSlots, Slots!Spec

-----------------------------------------------------------------------------
(* The page of a viewer: Player, for any number of sessions, failures and  *)
(* sessions that end by themselves.                                        *)

\* A flight that has not been answered holds no session, and one that has
\* begun to negotiate has seen the end of every earlier one.
Negotiates ==
  /\ flight.at \in {"retire", "gather", "post", "late"} => held = NoSession
  /\ flight.at \in {"gather", "post"} => retiring = {} /\ failed = {}

\* The inductive invariant.
PageIInv == PageInv /\ Negotiates

\* Where a flight may be.
FlightSteps == {"none", "retire", "gather", "post", "late", "apply"}

-----------------------------------------------------------------------------
(* What the callbacks share.                                               *)

\* A page without a flight awaits nothing.
LEMMA NoFlightRests ==
  NoFlight \in [at : FlightSteps, current : BOOLEAN] /\ NoFlight.at = "none" /\ ~NoFlight.current
<1>1. NoFlight \in [at : FlightSteps, current : BOOLEAN]
  BY DEF NoFlight, FlightSteps
<1>2. NoFlight.at = "none" /\ NoFlight.current = FALSE
  BY DEF NoFlight
<1> QED
  BY <1>1, <1>2

\* The page opens without a flight, a timer or a session.
LEMMA InitPage ==
  ASSUME PageInit
  PROVE  PageIInv
<1>1. hidden \in BOOLEAN /\ active \in BOOLEAN /\ resume \in BOOLEAN
      /\ flight \in [at : FlightSteps, current : BOOLEAN]
  BY DEF PageInit, FlightSteps
<1>2. PageTypeOK
  BY <1>1, PageAssumption DEF PageAssumption, PageInit, PageTypeOK, FlightSteps
<1> QED
  BY <1>2 DEF PageInit, PageIInv, PageInv, UnwatchedIsQuiet, SessionsAccounted,
     Negotiates, Watched

\* What the page was told of at the edge stays, whatever it was not told of.
EdgeKnown == UNCHANGED <<live, failures, reaped>> /\ untold' \in SUBSET PageSession

\* An edge where nothing happens.
LEMMA EdgeSame ==
  ASSUME PageIInv, UNCHANGED edge
  PROVE  EdgeKnown
BY DEF EdgeKnown, edge, PageIInv, PageInv, PageTypeOK

\* A new flight begins on a watched page, and retires what is left.
LEMMA StartKeeps ==
  ASSUME PageIInv, StartFlight, EdgeKnown, hidden' \in BOOLEAN, active' \in BOOLEAN, Watched'
  PROVE  PageIInv'
<1> USE DEF PageIInv, PageInv, StartFlight, EdgeKnown
<1>1. Chained \in SUBSET PageSession
  BY DEF Chained, PageTypeOK
<1>2. flight' \in [at : FlightSteps, current : BOOLEAN] /\ resume' \in BOOLEAN
  BY DEF FlightSteps
<1>3. PageTypeOK'
  BY <1>1, <1>2 DEF PageTypeOK, FlightSteps
<1>4. UnwatchedIsQuiet'
  BY DEF UnwatchedIsQuiet
<1>5. SessionsAccounted'
  BY PageAssumption DEF PageAssumption, SessionsAccounted, Chained, PageTypeOK
<1>6. Negotiates'
  BY DEF Negotiates, Retirement
<1> QED
  BY <1>3, <1>4, <1>5, <1>6

\* A flight that joins another leaves everything but the resumption as it is.
LEMMA JoinKeeps ==
  ASSUME PageIInv, JoinFlight, retry' \in {0, retry},
         UNCHANGED edge, hidden' \in BOOLEAN, active' \in BOOLEAN, Watched'
  PROVE  PageIInv'
BY DEF PageIInv, PageInv, JoinFlight, Joins, edge, chain, PageTypeOK,
   UnwatchedIsQuiet, SessionsAccounted, Negotiates

\* A call of connect on a watched page.
LEMMA ConnectKeeps ==
  ASSUME PageIInv, Connect, UNCHANGED edge, hidden' \in BOOLEAN,
         active' \in BOOLEAN, Watched'
  PROVE  PageIInv'
BY StartKeeps, JoinKeeps, EdgeSame DEF Connect

\* The end of a flight.
LEMMA FinishKeeps ==
  ASSUME PageIInv, FinishFlight, UNCHANGED page, EdgeKnown
  PROVE  PageIInv'
<1>1. CASE resume /\ Watched
  <2>1. hidden' \in BOOLEAN /\ active' \in BOOLEAN
    BY DEF PageIInv, PageInv, PageTypeOK, page
  <2> QED
    BY <1>1, <2>1, StartKeeps DEF FinishFlight, Watched, page
<1>2. CASE ~(resume /\ Watched)
  <2>1. flight' \in [at : FlightSteps, current : BOOLEAN] /\ resume' \in BOOLEAN /\ flight'.at = "none"
        /\ ~flight'.current
    <3>1. flight' = NoFlight /\ resume' = FALSE
      BY <1>2 DEF FinishFlight
    <3> QED
      BY <3>1, NoFlightRests
  <2> QED
    BY <1>2, <2>1 DEF FinishFlight, FlightSteps, page, EdgeKnown, chain, PageIInv,
       PageInv, PageTypeOK,
       UnwatchedIsQuiet, SessionsAccounted, Negotiates, Watched
<1> QED
  BY <1>1, <1>2

\* The page is hidden or left.
LEMMA LeaveKeeps ==
  ASSUME PageIInv, Leave, UNCHANGED edge, hidden' \in BOOLEAN,
         active' \in BOOLEAN
  PROVE  PageIInv'
<1> USE DEF PageIInv, PageInv, Leave, Closed, edge, MakeStale
<1>1. Chained \in SUBSET PageSession
  BY DEF Chained, PageTypeOK
<1>2. /\ flight' \in [at : FlightSteps, current : BOOLEAN] /\ flight'.at = flight.at /\ ~flight'.current
  BY DEF FlightSteps, PageTypeOK
<1>3. PageTypeOK'
  BY <1>1, <1>2 DEF PageTypeOK, FlightSteps
<1>4. UnwatchedIsQuiet'
  BY <1>2 DEF UnwatchedIsQuiet
<1>5. SessionsAccounted'
  BY PageAssumption DEF PageAssumption, SessionsAccounted, Chained, PageTypeOK
<1>6. Negotiates'
  BY <1>2 DEF Negotiates, Chained
<1> QED
  BY <1>3, <1>4, <1>5, <1>6

-----------------------------------------------------------------------------
(* The steps.                                                              *)

\* The handlers of the page: hidden, revealed, left and restored, and its timer.
LEMMA PageKeeps ==
  ASSUME PageIInv,
         Hide \/ Reveal \/ PageHide \/ PageShow \/ Reconnect \/ TimerFires
  PROVE  PageIInv'
<1>1. hidden \in BOOLEAN /\ active \in BOOLEAN
  BY DEF PageIInv, PageInv, PageTypeOK
<1>2. CASE Hide
  BY <1>1, <1>2, LeaveKeeps DEF Hide
<1>3. CASE Reveal
  <2>1. CASE active
    BY <1>1, <1>3, <2>1, ConnectKeeps DEF Reveal, Watched
  <2>2. CASE ~active
    BY <1>3, <2>2 DEF Reveal, chain, edge, PageIInv, PageInv, PageTypeOK,
       UnwatchedIsQuiet, SessionsAccounted, Negotiates, Watched
  <2> QED
    BY <2>1, <2>2
<1>4. CASE PageHide
  BY <1>1, <1>4, LeaveKeeps DEF PageHide
<1>5. CASE PageShow
  BY <1>1, <1>5, LeaveKeeps, ConnectKeeps DEF PageShow, Watched
<1>6. CASE Reconnect
  BY <1>1, <1>6, ConnectKeeps DEF Reconnect, Watched, page
<1>7. CASE TimerFires
  BY <1>1, <1>7, StartKeeps, JoinKeeps, EdgeSame DEF TimerFires, Watched, page
<1> QED
  BY <1>2, <1>3, <1>4, <1>5, <1>6, <1>7

\* A current flight goes on to its next await.
LEMMA ProceedsKeeps ==
  ASSUME PageIInv, NEW to \in FlightSteps, Proceeds(to),
         UNCHANGED <<page, edge>>,
         flight.current, peer' \in {peer, "new"},
         to \in {"gather", "post"} => held = NoSession /\ retiring = {} /\ failed = {},
         to \in {"retire", "late"} => held = NoSession
  PROVE  PageIInv'
<1>1. flight' \in [at : FlightSteps, current : BOOLEAN] /\ flight'.at = to /\ flight'.current
  BY DEF Proceeds, FlightSteps, PageIInv, PageInv, PageTypeOK
<1> QED
  BY <1>1 DEF Proceeds, page, edge, chain, FlightSteps, PageIInv, PageInv,
     PageTypeOK, UnwatchedIsQuiet, SessionsAccounted,
     Negotiates, Watched

\* connect goes on after each of its awaits.
LEMMA AwaitsKeep ==
  ASSUME PageIInv, Awaits
  PROVE  PageIInv'
<1>1. CASE Joined
  <2>1. CASE flight.current
    BY <1>1, <2>1, ProceedsKeeps DEF Joined, At, FlightSteps, chain, PageIInv, Negotiates
  <2>2. CASE ~flight.current
    BY <1>1, <2>2, FinishKeeps, EdgeSame DEF Joined, At
  <2> QED
    BY <2>1, <2>2
<1>2. CASE JoinFails
  BY <1>2, FinishKeeps, EdgeSame DEF JoinFails, At, FlightGivesUp
<1>3. CASE Gathered
  <2>1. CASE flight.current
    BY <1>3, <2>1, ProceedsKeeps DEF Gathered, At, FlightSteps, PageIInv, Negotiates
  <2>2. CASE ~flight.current
    BY <1>3, <2>2, FinishKeeps, EdgeSame DEF Gathered, At
  <2> QED
    BY <2>1, <2>2
<1>4. CASE Rejected
  <2>1. CASE flight.current
    <3> USE DEF Rejected, AnswerLost, Fresh, PageIInv, PageInv, page, edge
    <3>1. Chained \in SUBSET PageSession
      BY DEF Chained, PageTypeOK
    <3>2. flight' \in [at : FlightSteps, current : BOOLEAN] /\ retry' \in 0..1
      BY <1>4, <2>1, NoFlightRests DEF Armed
    <3>3. PageTypeOK'
      BY <1>4, <2>1, <3>1, <3>2 DEF PageTypeOK, FlightSteps
    <3>4. UnwatchedIsQuiet'
      BY <1>4, <2>1 DEF UnwatchedIsQuiet, NoFlight, Armed, Watched
    <3>5. SessionsAccounted'
      BY <1>4, <2>1, PageAssumption DEF PageAssumption, SessionsAccounted, Chained, PageTypeOK
    <3>6. Negotiates'
      BY <1>4, <2>1 DEF Negotiates, NoFlight
    <3> QED
      BY <3>3, <3>4, <3>5, <3>6
  <2>2. CASE ~flight.current
    <3>1. FinishFlight /\ UNCHANGED page /\ EdgeKnown
      BY <1>4, <2>2 DEF Rejected, AnswerLost, Fresh, EdgeKnown, PageIInv, PageInv, PageTypeOK
    <3> QED
      BY <3>1, FinishKeeps
  <2> QED
    BY <2>1, <2>2
<1>5. CASE Answered
  <2>1. PICK s \in Fresh :
          /\ flight.at = "post" /\ live' = live \cup {s}
          /\ IF flight.current
               THEN /\ flight' = [flight EXCEPT !.at = "apply"]
                    /\ held' = s /\ UNCHANGED chain
               ELSE /\ flight' = [flight EXCEPT !.at = "late"]
                    /\ RetireLate(s) /\ UNCHANGED held
          /\ UNCHANGED <<page, resume, retry, peer, untold, failures, reaped>>
    BY <1>5 DEF Answered
  <2>2. /\ flight' \in [at : FlightSteps, current : BOOLEAN] /\ flight'.current = flight.current
        /\ flight'.at = IF flight.current THEN "apply" ELSE "late"
    BY <2>1 DEF FlightSteps, PageIInv, PageInv, PageTypeOK
  <2>3. PageTypeOK'
    BY <2>1, <2>2 DEF Fresh, FlightSteps, PageIInv, PageInv, PageTypeOK, page, chain,
       RetireLate
  <2>4. UnwatchedIsQuiet'
    BY <2>1, <2>2 DEF PageIInv, PageInv, UnwatchedIsQuiet, page, Watched
  <2>5. SessionsAccounted'
    BY <2>1, PageAssumption DEF Fresh, PageAssumption, PageIInv, PageInv, PageTypeOK, Negotiates,
       SessionsAccounted, chain, RetireLate
  <2>6. Negotiates'
    BY <2>1, <2>2 DEF PageIInv, Negotiates
  <2> QED
    BY <2>3, <2>4, <2>5, <2>6 DEF PageIInv, PageInv
<1>6. CASE LateJoined
  BY <1>6, FinishKeeps, EdgeSame DEF LateJoined, At
<1>7. CASE Applied
  <2>1. CASE flight.current
    <3>1. flight' \in [at : FlightSteps, current : BOOLEAN] /\ flight'.at = "none" /\ ~flight'.current
      BY <1>7, <2>1, NoFlightRests DEF Applied
    <3>2. peer' \in {"none", "new", "answered", "connected",
         "failed"} /\ (peer = "none" => peer' = "none")
      BY <1>7, <2>1 DEF Applied, PageIInv, PageInv, PageTypeOK
    <3> QED
      BY <1>7, <2>1, <3>1, <3>2 DEF Applied, At, FlightSteps, page, edge,
         chain, PageIInv, PageInv, PageTypeOK,
         UnwatchedIsQuiet, SessionsAccounted, Negotiates, Watched
  <2>2. CASE ~flight.current
    BY <1>7, <2>2, FinishKeeps, EdgeSame DEF Applied, At
  <2> QED
    BY <2>1, <2>2
<1> QED
  BY <1>1, <1>2, <1>3, <1>4, <1>5, <1>6, <1>7 DEF Awaits

\* The connection and the edge.
LEMMA OutsideKeeps ==
  ASSUME PageIInv, \/ Connected \/ Dropped
               \/ \E s \in PageSession : Deleted(s) \/ NotFound(s) \/ DeleteFails(s) \/ Reaped(s) \/ Expires(s)
  PROVE  PageIInv'
<1> USE DEF PageIInv, PageInv, PageTypeOK, UnwatchedIsQuiet, SessionsAccounted,
     Negotiates, Watched, page, edge, chain
<1>1. CASE Connected
  BY <1>1 DEF Connected
<1>2. CASE Dropped
  BY <1>2 DEF Dropped, Armed
<1>3. ASSUME NEW s \in PageSession, Deleted(s)
      PROVE  PageIInv'
  BY <1>3 DEF Deleted, Settles
<1>4. ASSUME NEW s \in PageSession, NotFound(s)
      PROVE  PageIInv'
  BY <1>4 DEF NotFound, Settles
<1>5. ASSUME NEW s \in PageSession, DeleteFails(s)
      PROVE  PageIInv'
  BY <1>5, PageAssumption DEF PageAssumption, DeleteFails, Settles
<1>6. ASSUME NEW s \in PageSession, Reaped(s)
      PROVE  PageIInv'
  BY <1>6, PageAssumption DEF PageAssumption, Reaped
<1>7. ASSUME NEW s \in PageSession, Expires(s)
      PROVE  PageIInv'
  BY <1>7 DEF Expires
<1> QED
  BY <1>1, <1>2, <1>3, <1>4, <1>5, <1>6, <1>7

-----------------------------------------------------------------------------
(* The theorems.                                                           *)

\* Every step of the player keeps the invariant.
LEMMA PageInductive == PageSpec => []PageIInv
<1>1. PageInit => PageIInv
  BY InitPage
<1>2. PageIInv /\ [PageNext]_pageVars => PageIInv'
  <2> SUFFICES ASSUME PageIInv, [PageNext]_pageVars PROVE PageIInv'
    OBVIOUS
  <2>1. CASE UNCHANGED pageVars
    BY <2>1 DEF pageVars, page, edge, chain, PageIInv, PageInv, PageTypeOK,
       UnwatchedIsQuiet, SessionsAccounted, Negotiates, Watched
  <2>2. CASE PageNext
    BY <2>2, PageKeeps, AwaitsKeep, OutsideKeeps DEF PageNext
  <2> QED
    BY <2>1, <2>2
<1> QED
  BY <1>1, <1>2, PTL DEF PageSpec

\* An unwatched page is quiet and every session is held, being retired or
\* refused, at every await of connect.
THEOREM SessionsAreAccounted == PageSpec => []PageInv
<1>1. PageIInv => PageInv
  BY DEF PageIInv
<1> QED
  BY <1>1, PageInductive, PTL

\* connect posts an offer only when no earlier session of the page is left.
THEOREM NoOverlap == PageSpec => []OffersDoNotOverlap
<1>1. PageIInv => OffersDoNotOverlap
  BY PageAssumption DEF PageAssumption, PageIInv, PageInv, PageTypeOK, SessionsAccounted,
     Negotiates, OffersDoNotOverlap
<1> QED
  BY <1>1, PageInductive, PTL
=============================================================================

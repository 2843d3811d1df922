----------------------------- MODULE WhepSession -----------------------------
(***************************************************************************)
(* The viewers of the edge (internal/mediaedge, OpenSession, CloseSession  *)
(* and the reconcile loop), from the bounded slot to the native WHEP       *)
(* session in the MediaMTX child.                                          *)
(*                                                                         *)
(* A session is created by one POST whose reply may be lost.  It owns its  *)
(* slot and its source demand until the native session is known to be      *)
(* gone: by a confirmed DELETE, by a kick found through the inventory, by  *)
(* its absence from a complete inventory, or by the exit of the child.     *)
(***************************************************************************)
EXTENDS Integers, FiniteSets, Sequences

CONSTANTS
  NSessions,      \* bound: session tokens, numbered in their sort order
  SessionLimits,  \* bound: values of config.MaxSessions
  ClosingLimits,  \* bound: those of them under which Close is called
  CloseLimit      \* mediaMTXReconcileCloseLimit

ASSUME ConstantsAssumption ==
  /\ NSessions \in Nat
  /\ SessionLimits \subseteq Nat
  /\ ClosingLimits \subseteq SessionLimits
  /\ CloseLimit \in Nat \ {0}

Session == 1..NSessions

VARIABLES
  maxSessions,      \* config.MaxSessions
  op,               \* progress of OpenSession
  pendingSessions,  \* reserved slots
  registered,       \* server.sessions
  pending, viewers, \* source.pending and source.sessions, by token
  item,             \* the mediaMTXSession records
  native,           \* external: what became of the POST in MediaMTX
  mutex,            \* who holds item.mu across a native call
  step,             \* that native call
  pass,             \* the pass of the reconcile loop
  cursor,           \* server.cleanupCursor
  closing, exited   \* Close has begun; the child is known to have exited

slots == <<pendingSessions, registered>>
lease == <<pending, viewers>>
locks == <<mutex, step>>
loop  == <<pass, cursor>>
vars  == <<maxSessions, op, slots, lease, item, native, locks, loop, closing, exited>>

NewItem == [opening |-> TRUE, closeRequested |-> FALSE, located |-> FALSE,
            observed |-> FALSE, complete |-> FALSE]

\* What a pass makes of its inventory: "odd" sessions are not readers of their
\* source, "missing" ones are not listed and not young.
NoPass == [phase |-> "off", odd |-> {}, missing |-> {}, local |-> <<>>,
           start |-> 0, index |-> 0, attempts |-> 0]

\* "odd" is listed with another path or state than a reader of this source.
Live == {"read", "odd"}

\* The variables have their types.
TypeOK ==
  /\ maxSessions \in SessionLimits
  /\ op \in [Session -> {"idle", "admitted", "reserved", "leased", "registered", "posting", "aborting",
                      "done"}]
  /\ pendingSessions \in Nat
  /\ registered \in SUBSET Session
  /\ pending \in SUBSET Session /\ viewers \in SUBSET Session
  /\ item \in [Session -> [opening : BOOLEAN, closeRequested : BOOLEAN, located : BOOLEAN,
                           observed : BOOLEAN, complete : BOOLEAN]]
  /\ native \in [Session -> {"none", "requested", "rejected", "gone"} \cup Live]
  /\ mutex \in [Session -> {"free", "client", "open", "reconcile", "shutdown"}]
  /\ step \in [Session -> {"none", "delete", "inventory", "kick"}]
  /\ pass \in [phase : {"off", "listed", "walk", "closing", "forget"},
               odd : SUBSET Session, missing : SUBSET Session, local : Seq(Session),
               start : Nat, index : Nat, attempts : 0..CloseLimit]
  /\ cursor \in Nat
  /\ closing \in BOOLEAN /\ exited \in BOOLEAN

Init ==
  /\ maxSessions \in SessionLimits
  /\ op = [s \in Session |-> "idle"]
  /\ pendingSessions = 0 /\ registered = {}
  /\ pending = {} /\ viewers = {}
  /\ item = [s \in Session |-> NewItem]
  /\ native = [s \in Session |-> "none"]
  /\ mutex = [s \in Session |-> "free"] /\ step = [s \in Session |-> "none"]
  /\ pass = NoPass /\ cursor = 0
  /\ closing = FALSE /\ exited = FALSE

-----------------------------------------------------------------------------
(* OpenSession.                                                            *)

Goes(s, from, to) == op[s] = from /\ op' = [op EXCEPT ![s] = to]

HasSlot == Cardinality(registered) + pendingSessions < maxSessions

TakeSlot == pendingSessions' = pendingSessions + 1

Admits(s) ==
  /\ Goes(s, "idle", "admitted")
  /\ ~closing
  /\ UNCHANGED <<slots, lease, item, native, locks, loop, closing, exited, maxSessions>>

\* The call has no token yet: another one may use this.
NoSlot(s) ==
  /\ Goes(s, "admitted", "idle")
  /\ ~HasSlot
  /\ UNCHANGED <<slots, lease, item, native, locks, loop, closing, exited, maxSessions>>

\* Close may have begun since: whether it has is asked again further on.
Reserve(s) ==
  /\ Goes(s, "admitted", "reserved")
  /\ HasSlot
  /\ TakeSlot
  /\ UNCHANGED <<registered, lease, item, native, locks, loop, closing, exited, maxSessions>>

AcquireFails(s) ==
  /\ Goes(s, "reserved", "done")
  /\ pendingSessions' = pendingSessions - 1
  /\ UNCHANGED <<registered, lease, item, native, locks, loop, closing, exited, maxSessions>>

Acquires(s) ==
  /\ Goes(s, "reserved", "leased")
  /\ ~closing
  /\ pending' = pending \cup {s}
  /\ UNCHANGED <<slots, viewers, item, native, locks, loop, closing, exited, maxSessions>>

\* No H264 path in time, or the edge is closing: the defers undo both.
GivesUp(s) ==
  /\ Goes(s, "leased", "done")
  /\ pending' = pending \ {s}
  /\ pendingSessions' = pendingSessions - 1
  /\ UNCHANGED <<registered, viewers, item, native, locks, loop, closing, exited, maxSessions>>

\* The token is owned, in the slot that was reserved, before the POST.
Registers(s) ==
  /\ Goes(s, "leased", "registered")
  /\ ~closing
  /\ registered' = registered \cup {s}
  /\ pendingSessions' = pendingSessions - 1
  /\ UNCHANGED <<lease, item, native, locks, loop, closing, exited, maxSessions>>

Mutant_LeaseAtAnswer(s) == pending' = pending \ {s} /\ UNCHANGED viewers
LeaseMoves(s) == pending' = pending \ {s} /\ viewers' = viewers \cup {s}

Posts(s) ==
  /\ Goes(s, "registered", "posting")
  /\ LeaseMoves(s)
  /\ native' = [native EXCEPT ![s] = "requested"]
  /\ UNCHANGED <<slots, item, locks, loop, closing, exited, maxSessions>>

\* Created: the viewer may have been closed, or the edge, while negotiating.
PostAnswered(s) ==
  /\ op[s] = "posting"
  /\ native[s] \in Live \cup {"gone"}
  /\ mutex[s] = "free"
  /\ LET request == item[s].closeRequested \/ closing IN
       /\ item' = [item EXCEPT ![s] = [@ EXCEPT !.opening = FALSE, !.located = TRUE, !.closeRequested = request]]
       /\ op' = [op EXCEPT ![s] = IF request THEN "aborting" ELSE "done"]
  /\ UNCHANGED <<slots, lease, native, locks, loop, closing, exited, maxSessions>>

\* A complete failure reply, after which nothing is created any more.
PostRejected(s) ==
  /\ Goes(s, "posting", "done")
  /\ native[s] = "rejected"
  /\ mutex[s] = "free"
  /\ item' = [item EXCEPT ![s] = [@ EXCEPT !.opening = FALSE, !.closeRequested = TRUE, !.complete = TRUE]]
  /\ UNCHANGED <<slots, lease, native, locks, loop, closing, exited, maxSessions>>

\* Cancelled, timed out or cut off: the creation may still happen.
PostLost(s) ==
  /\ Goes(s, "posting", "done")
  /\ mutex[s] = "free"
  /\ item' = [item EXCEPT ![s] = [@ EXCEPT !.opening = FALSE, !.closeRequested = TRUE]]
  /\ UNCHANGED <<slots, lease, native, locks, loop, closing, exited, maxSessions>>

\* external: MediaMTX creates the session, rejects the POST or never sees it,
\* and viewers leave.
NativeMoves(s) ==
  /\ ~exited
  /\ \/ native[s] = "requested" /\ \E t \in Live \cup {"rejected"} : native' = [native EXCEPT ![s] = t]
     \/ native[s] \in Live /\ native' = [native EXCEPT ![s] = "gone"]
  /\ UNCHANGED <<op, slots, lease, item, locks, loop, closing, exited, maxSessions>>

-----------------------------------------------------------------------------
(* closeSessionContext.                                                    *)

\* Both ownership records go together.  (removeSession and the delete follow each
\* other under item.mu: the slot is free a moment after the demand is gone, and
\* whoever finds the session in between waits for item.mu and finds it closed.)
Release(s) ==
  /\ viewers' = viewers \ {s}
  /\ registered' = registered \ {s}
  /\ UNCHANGED <<pending, pendingSessions>>

Unlock(s) ==
  /\ mutex' = [mutex EXCEPT ![s] = "free"]
  /\ step' = [step EXCEPT ![s] = "none"]

\* Taking item.mu to close a session upstream.
Lock(s, who) ==
  /\ mutex[s] = "free"
  /\ s \in registered
  /\ item' = [item EXCEPT ![s].closeRequested = TRUE]
  /\ IF item[s].opening
     THEN UNCHANGED locks
     ELSE /\ mutex' = [mutex EXCEPT ![s] = who]
          /\ step' = [step EXCEPT ![s] = IF item[s].located THEN "delete" ELSE "inventory"]

\* The operations have drained when Close itself reaches the sessions.
Drained == \A s \in Session : op[s] \in {"idle", "done"}

ClientCloses(s) ==
  /\ ~closing
  /\ Lock(s, "client")
  /\ UNCHANGED <<op, slots, lease, native, loop, closing, exited, maxSessions>>

OpenCloses(s) ==
  /\ Goes(s, "aborting", "done")
  /\ IF s \in registered THEN Lock(s, "open") ELSE UNCHANGED <<item, locks>>
  /\ UNCHANGED <<slots, lease, native, loop, closing, exited, maxSessions>>

ShutdownCloses(s) ==
  /\ closing /\ Drained /\ ~exited
  /\ Lock(s, "shutdown")
  /\ UNCHANGED <<op, slots, lease, native, loop, closing, exited, maxSessions>>

\* A DELETE or kick that is answered, with 404 for a session that is gone.
Ended(s) == native' = [native EXCEPT ![s] = IF @ \in Live THEN "gone" ELSE @]

DeleteConfirmed(s) ==
  /\ step[s] \in {"delete", "kick"}
  /\ Ended(s)
  /\ Release(s)
  /\ Unlock(s)
  /\ UNCHANGED <<op, item, loop, closing, exited, maxSessions>>

\* No answer, whether or not the session ended: ownership is kept.
CallFails(s) ==
  /\ step[s] # "none"
  /\ \/ step[s] \in {"delete", "kick"} /\ Ended(s)
     \/ UNCHANGED native
  /\ Unlock(s)
  /\ UNCHANGED <<op, slots, lease, item, loop, closing, exited, maxSessions>>

InventoryMatches(s) ==
  /\ step[s] = "inventory"
  /\ native[s] = "read"
  /\ item' = [item EXCEPT ![s].observed = TRUE]
  /\ step' = [step EXCEPT ![s] = "kick"]
  /\ UNCHANGED <<op, slots, lease, native, mutex, loop, closing, exited, maxSessions>>

Mutant_AbsentIsGone(s) == native[s] \notin Live
\* Absence proves the end of what was observed or completely refused.
ProvenAbsent(s) == native[s] \notin Live /\ (item[s].observed \/ item[s].complete)

InventoryAbsent(s) ==
  /\ step[s] = "inventory"
  /\ ProvenAbsent(s)
  /\ Release(s)
  /\ Unlock(s)
  /\ UNCHANGED <<op, item, native, loop, closing, exited, maxSessions>>

-----------------------------------------------------------------------------
(* The reconcile loop.                                                     *)

PassBegins ==
  /\ pass.phase = "off"
  /\ ~closing
  /\ registered # {}
  /\ UNCHANGED <<op, slots, lease, item, native, locks, cursor, closing, exited, maxSessions>>

\* Sessions appear in the inventory within mediaMTXSessionAppearTimeout; who
\* is younger than that is a matter of time.
PassLists(young) ==
  /\ PassBegins
  /\ pass' = [NoPass EXCEPT !.phase = "listed",
                !.odd = {s \in Session : native[s] = "odd"},
                !.missing = {s \in registered \ young : native[s] \notin Live}]

\* Without an inventory nothing is known of any session.
PassListFails ==
  /\ PassBegins
  /\ pass' = [NoPass EXCEPT !.phase = "listed"]

\* The lists of the sessions in the order of their tokens: there is just one.
Ascending(sessions) ==
  {list \in [1..Cardinality(sessions) -> sessions] : \A i, j \in DOMAIN list : i < j => list[i] < list[j]}

Sorted(sessions) == CHOOSE list \in Ascending(sessions) : TRUE

\* The sessions are copied after the inventory was read.
PassCopies ==
  /\ pass.phase = "listed"
  /\ IF registered = {}
     THEN pass' = NoPass
     ELSE pass' = [pass EXCEPT !.phase = "walk", !.local = Sorted(registered),
                               !.start = cursor % Cardinality(registered)]
  /\ UNCHANGED <<op, slots, lease, item, native, locks, cursor, closing, exited, maxSessions>>

Position == (pass.start + pass.index) % Len(pass.local)
Current  == pass.local[Position + 1]

Advance ==
  pass' = IF pass.index + 1 = Len(pass.local) THEN NoPass
          ELSE [pass EXCEPT !.phase = "walk", !.index = @ + 1]

Walks == pass.phase = "walk" /\ mutex[Current] = "free"

Mutant_CursorStays == cursor
NextCursor == (Position + 1) % Len(pass.local)

\* A bounded number of cleanup attempts share one deadline; the cursor lets
\* the next pass begin behind them.
PassCleans ==
  /\ Walks
  /\ item[Current].closeRequested /\ ~item[Current].opening
  /\ pass.attempts < CloseLimit /\ ~closing
  /\ cursor' = NextCursor
  /\ IF Current \in registered
     THEN /\ Lock(Current, "reconcile")
          /\ pass' = [pass EXCEPT !.phase = "closing", !.attempts = @ + 1]
     ELSE /\ pass' = IF pass.index + 1 = Len(pass.local) THEN NoPass
                     ELSE [pass EXCEPT !.index = @ + 1, !.attempts = @ + 1]
          /\ UNCHANGED <<item, locks>>
  /\ UNCHANGED <<op, slots, lease, native, closing, exited, maxSessions>>

PassResumes ==
  /\ pass.phase = "closing"
  /\ mutex[Current] # "reconcile"
  /\ Advance
  /\ UNCHANGED <<op, slots, lease, item, native, locks, cursor, closing, exited, maxSessions>>

PassSkips ==
  /\ Walks
  /\ \/ item[Current].opening
     \/ item[Current].closeRequested /\ (pass.attempts = CloseLimit \/ pass.attempts > 0 \/ closing)
     \/ ~item[Current].closeRequested /\ Current \notin pass.odd \cup pass.missing
  /\ Advance
  /\ UNCHANGED <<op, slots, lease, item, native, locks, cursor, closing, exited, maxSessions>>

PassRejects ==
  /\ Walks
  /\ ~item[Current].opening /\ ~item[Current].closeRequested
  /\ Current \in pass.odd
  /\ item' = [item EXCEPT ![Current].closeRequested = TRUE]
  /\ Advance
  /\ UNCHANGED <<op, slots, lease, native, locks, cursor, closing, exited, maxSessions>>

\* What nobody asked for, and is neither in the inventory nor young, is to be
\* forgotten by closeSession(session, false) ...
PassJudges ==
  /\ Walks
  /\ ~item[Current].opening /\ ~item[Current].closeRequested
  /\ Current \in pass.missing
  /\ pass' = [pass EXCEPT !.phase = "forget"]
  /\ UNCHANGED <<op, slots, lease, item, native, locks, cursor, closing, exited, maxSessions>>

\* ... which takes item.mu again, and does not ask what was requested meanwhile.
PassForgets ==
  /\ pass.phase = "forget" /\ mutex[Current] = "free"
  /\ IF Current \in registered
     THEN Release(Current) /\ item' = [item EXCEPT ![Current].closeRequested = TRUE]
     ELSE UNCHANGED <<slots, lease, item>>
  /\ Advance
  /\ UNCHANGED <<op, native, locks, cursor, closing, exited, maxSessions>>

Pass ==
  \/ \E young \in SUBSET registered : PassLists(young)
  \/ PassListFails
  \/ PassCopies \/ PassCleans \/ PassResumes \/ PassSkips \/ PassRejects
  \/ PassJudges \/ PassForgets

-----------------------------------------------------------------------------
(* Close, as far as the sessions are concerned.                            *)

Shutdown ==
  /\ ~closing
  /\ maxSessions \in ClosingLimits
  /\ closing' = TRUE
  /\ UNCHANGED <<op, slots, lease, item, native, locks, loop, exited, maxSessions>>

\* process.Close confirms the exit of the child.
ChildExits ==
  /\ closing /\ Drained /\ ~exited
  /\ \A s \in Session : mutex[s] # "shutdown"
  /\ exited' = TRUE
  /\ native' = [s \in Session |-> IF native[s] \in Live \cup {"requested"} THEN "gone" ELSE native[s]]
  /\ UNCHANGED <<op, slots, lease, item, locks, loop, closing, maxSessions>>

ExitReleases(s) ==
  /\ exited
  /\ s \in registered
  /\ mutex[s] = "free"
  /\ Release(s)
  /\ item' = [item EXCEPT ![s].closeRequested = TRUE]
  /\ UNCHANGED <<op, native, locks, loop, closing, exited, maxSessions>>

-----------------------------------------------------------------------------

Open(s) ==
  \/ Admits(s) \/ NoSlot(s) \/ Reserve(s) \/ AcquireFails(s) \/ Acquires(s) \/ GivesUp(s)
  \/ Registers(s) \/ Posts(s) \/ PostAnswered(s) \/ PostRejected(s) \/ PostLost(s)

CloseCall(s) ==
  \/ ClientCloses(s) \/ OpenCloses(s) \/ ShutdownCloses(s)
  \/ DeleteConfirmed(s) \/ CallFails(s) \/ InventoryMatches(s) \/ InventoryAbsent(s)

Next ==
  \/ \E s \in Session : Open(s) \/ NativeMoves(s) \/ CloseCall(s) \/ ExitReleases(s)
  \/ Pass
  \/ Shutdown \/ ChildExits

Spec == Init /\ [][Next]_vars

(* The loop runs, a sync.Mutex hands item.mu to whoever waits for long,    *)
(* calls have deadlines, and a MediaMTX that is asked again and again      *)
(* answers at some time, when no session is young any more.                *)
Fairness ==
  /\ WF_vars(PassCopies) /\ WF_vars(PassResumes)
  /\ WF_vars(PassLists({}) \/ PassListFails) /\ SF_vars(PassLists({}))
  /\ SF_vars(PassCleans \/ PassSkips \/ PassRejects \/ PassJudges \/ PassForgets)
  /\ \A s \in Session :
       /\ WF_vars(PostAnswered(s) \/ PostRejected(s) \/ PostLost(s))
       /\ WF_vars(OpenCloses(s))
       /\ WF_vars(CallFails(s))
       /\ SF_vars(DeleteConfirmed(s))

FairSpec == Spec /\ Fairness

-----------------------------------------------------------------------------
(* What the edge promises about its viewers.                               *)

\* Viewers, and negotiations in progress, never exceed the configured bound.
SlotBound == Cardinality(registered) + pendingSessions <= maxSessions

\* A registered session keeps its source from being parked, from before the
\* POST until the session is released; a released one does not.
SessionHoldsDemand ==
  /\ registered \subseteq viewers \cup pending
  /\ viewers \subseteq registered

\* The bookkeeping of sessions is sound: the counters have their types, the
\* slots suffice and demand follows the sessions.
SessionInv == TypeOK /\ SlotBound /\ SessionHoldsDemand

\* What the promise is about, in the edge's terms.
SlotOf ==
  [s \in Session |->
     IF op[s] = "idle" THEN "free" ELSE IF op[s] = "admitted" THEN "waiting"
     ELSE IF s \in registered THEN IF item[s].closeRequested THEN "asked" ELSE "held"
     ELSE IF op[s] \in {"reserved", "leased"} THEN "held" ELSE "released"]

NativeOf ==
  [s \in Session |->
     IF native[s] = "none" THEN "none"
     ELSE IF native[s] \in Live \cup {"requested"} THEN "may exist" ELSE "ended"]

\* Whom the pass is about to forget.
Judged == IF pass.phase = "forget" THEN {Current} ELSE {}

Slots == INSTANCE ViewerSlots WITH
  Viewer <- Session, limit <- maxSessions, shut <- closing, slot <- SlotOf, native <- NativeOf,
  missed <- Judged

\* The counter and the registry of the edge are one bounded set of slots, and a
\* viewer who is asked to leave, by whoever, gives its slot back only when no
\* native session is left and none is still to be created: whatever replies are
\* lost, and whatever an older inventory says, unless a pass has judged by one
\* before the viewer was asked (OpenSession, closeUnknownSession, reconcile).
ImplementsViewerSlots == Slots!Spec

\* A native session belongs to a registered one, whose demand keeps the
\* source: absence must be proved before ownership is given up.
NativeIsOwned ==
  \A s \in Session : native[s] \in Live => s \in registered

\* A viewer who was asked to leave keeps its slot as long as its native session
\* may exist, whenever it was asked.
AskedKeepsSlot ==
  [][\A s \in registered :
       item[s].closeRequested /\ native'[s] \in Live \cup {"requested"} => s \in registered']_vars

\* A session that was created and is to be closed, or whose viewer left, is
\* released: cleanups that fail for ever do not starve it of its attempts.
CreatedSessionsEnd ==
  \A s \in Session :
    s \in registered /\ item[s].located /\ (item[s].closeRequested \/ native[s] = "gone")
      ~> s \notin registered \/ closing
=============================================================================

-------------------------- MODULE SnapshotRetention --------------------------
(***************************************************************************)
(* Captured snapshots that the edge retains for a while                    *)
(* (internal/mediaedge/mediamtx_server.go: CaptureSnapshot, storeSnapshot, *)
(* Snapshot, DeleteSnapshot).                                              *)
(*                                                                         *)
(* Captures of different sources run at the same time; each stamps its     *)
(* snapshot with an expiry and only later takes server.mu and every        *)
(* source.mu to store it.  Readers and deletions take one source.mu.  The  *)
(* retained bytes are not kept as a counter: every store adds up what the  *)
(* sources list in snapshotOrder.                                          *)
(***************************************************************************)
EXTENDS Integers, FiniteSets, Sequences

CONSTANTS
  Source,           \* the media sources
  Job,              \* requests that capture, one at a time each
  Sizes,            \* sizes of a snapshot, JPEG and RGB together
  MaxRetained,      \* MaxRetainedSnapshotBytes
  MaximumSnapshots, \* maximumSnapshots, of one source
  TTL,              \* SnapshotTTL
  NSnapshots,       \* bound: captures that succeed
  MaxTime           \* bound: ticks of the clock

ASSUME RetentionAssumption ==
  /\ IsFiniteSet(Source)
  /\ Sizes \subseteq Nat
  /\ MaxRetained \in Nat /\ MaximumSnapshots \in Nat \ {0} /\ TTL \in Nat \ {0}
  /\ NSnapshots \in Nat /\ MaxTime \in Nat

Id == 1..NSnapshots
NoSnapshot == 0

VARIABLES
  now,             \* time.Now
  made,            \* the snapshots that were captured are 1..made
  size, expiresAt, \* of these
  job,             \* progress of each request
  capturePending,  \* sources with an admitted capture
  snapshots,       \* source.snapshots
  snapshotOrder,   \* source.snapshotOrder
  returned         \* history: snapshots that a client was given

facts         == <<made, size, expiresAt>>
retained      == <<snapshots, snapshotOrder>>
retentionVars == <<now, facts, job, capturePending, retained, returned>>

NoJob == [phase |-> "idle", source |-> "none", id |-> NoSnapshot]

\* The variables have their types.
RetentionTypeOK ==
  /\ now \in 0..MaxTime
  /\ made \in 0..NSnapshots
  /\ size \in [Id -> Sizes \cup {0}]
  /\ expiresAt \in [Id -> 0..(MaxTime + TTL)]
  /\ job \in [Job -> [phase : {"idle", "capturing", "captured", "stored"},
                      source : Source \cup {"none"}, id : Id \cup {NoSnapshot}]]
  /\ capturePending \in SUBSET Source
  /\ snapshots \in [Source -> SUBSET (1..made)]
  /\ snapshotOrder \in [Source -> Seq(1..made)]
  /\ returned \in SUBSET (1..made)

RetentionInit ==
  /\ now = 0 /\ made = 0
  /\ size = [i \in Id |-> 0] /\ expiresAt = [i \in Id |-> 0]
  /\ job = [j \in Job |-> NoJob]
  /\ capturePending = {}
  /\ snapshots = [s \in Source |-> {}] /\ snapshotOrder = [s \in Source |-> <<>>]
  /\ returned = {}

Tick ==
  /\ now < MaxTime
  /\ now' = now + 1
  /\ UNCHANGED <<facts, job, capturePending, retained, returned>>

-----------------------------------------------------------------------------
(* CaptureSnapshot.                                                        *)

\* One capture of a source at a time; others are refused.
Admitted(s) == s \notin capturePending

Admit(j, s) ==
  /\ job[j].phase = "idle"
  /\ Admitted(s)
  /\ job' = [job EXCEPT ![j] = [phase |-> "capturing", source |-> s, id |-> NoSnapshot]]
  /\ capturePending' = capturePending \cup {s}
  /\ UNCHANGED <<now, facts, retained, returned>>

\* The source does not start, the camera fails or its metadata are refused.
CaptureFails(j) ==
  /\ job[j].phase = "capturing"
  /\ job' = [job EXCEPT ![j] = NoJob]
  /\ capturePending' = capturePending \ {job[j].source}
  /\ UNCHANGED <<now, facts, retained, returned>>

Expiry == now + TTL

Capture(j) ==
  /\ job[j].phase = "capturing"
  /\ made < NSnapshots
  /\ made' = made + 1
  /\ \E n \in Sizes : size' = [size EXCEPT ![made + 1] = n]
  /\ expiresAt' = [expiresAt EXCEPT ![made + 1] = Expiry]
  /\ job' = [job EXCEPT ![j] = [@ EXCEPT !.phase = "captured", !.id = made + 1]]
  /\ UNCHANGED <<now, capturePending, retained, returned>>

-----------------------------------------------------------------------------
(* storeSnapshot, under server.mu and every source.mu.                     *)

\* The bytes of some snapshots, counted one by one.
Bytes(ids) == Cardinality(UNION {{i} \X (1..size[i]) : i \in ids})

\* The snapshots in a list.
Listed(list) == {list[n] : n \in DOMAIN list}

\* Where a list has what is kept, and which of these places is the nth.
Places(list, kept) == {n \in DOMAIN list : list[n] \in kept}
Rank(places, p) == Cardinality({q \in places : q <= p})
Nth(places, n) == CHOOSE p \in places : Rank(places, p) = n

\* A list without what is not kept, in its order.
Keep(list, kept) ==
  LET places == Places(list, kept)
  IN  [n \in 1..Cardinality(places) |-> list[Nth(places, n)]]

\* What a source still has of what it lists.
Live(s) == {i \in snapshots[s] : expiresAt[i] > now /\ i \in Listed(snapshotOrder[s])}

LiveOrder(s) == Keep(snapshotOrder[s], Live(s))

Mutant_CapsBefore(s, id) ==
  LET order == Append(LiveOrder(s), id)
  IN  SubSeq(order, IF Len(order) < MaximumSnapshots THEN 1 ELSE Len(order) - MaximumSnapshots + 2, Len(order))
\* The newest few of the source.
Capped(s, id) ==
  LET order == Append(LiveOrder(s), id)
  IN  SubSeq(order, IF Len(order) <= MaximumSnapshots THEN 1 ELSE Len(order) - MaximumSnapshots + 1, Len(order))

\* Whoever expires first makes room, until the rest fits; nobody does in vain.
MakeRoom(id, others, victims) ==
  LET Fits(ids) == Bytes(ids \cup {id}) <= MaxRetained IN
  /\ Fits(others \ victims)
  /\ \A v \in victims, k \in others \ victims : expiresAt[v] <= expiresAt[k]
  /\ victims # {} =>
       \E v \in victims : /\ \A w \in victims : expiresAt[w] <= expiresAt[v]
                          /\ ~Fits((others \ victims) \cup {v})

Mutant_OfSource(order, s, id) == Listed(order[s]) \ {id}
\* The budget is that of all sources together.
Others(order, s, id) == (UNION {Listed(order[q]) : q \in Source}) \ {id}

Store(j) ==
  LET s == job[j].source
      id == job[j].id
      order == [q \in Source |-> IF q = s THEN Capped(s, id) ELSE LiveOrder(q)]
      others == Others(order, s, id) IN
  /\ job[j].phase = "captured"
  /\ size[id] <= MaxRetained
  /\ \E victims \in SUBSET others :
       /\ MakeRoom(id, others, victims)
       /\ snapshotOrder' = [q \in Source |-> Keep(order[q], Id \ victims)]
       /\ snapshots' = [q \in Source |-> Listed(order[q]) \ victims]
  /\ job' = [job EXCEPT ![j].phase = "stored"]
  /\ UNCHANGED <<now, facts, capturePending, returned>>

\* Larger than the whole budget.
StoreRefused(j) ==
  /\ job[j].phase = "captured"
  /\ size[job[j].id] > MaxRetained
  /\ job' = [job EXCEPT ![j] = NoJob]
  /\ capturePending' = capturePending \ {job[j].source}
  /\ UNCHANGED <<now, facts, retained, returned>>

Return(j) ==
  /\ job[j].phase = "stored"
  /\ returned' = returned \cup {job[j].id}
  /\ job' = [job EXCEPT ![j] = NoJob]
  /\ capturePending' = capturePending \ {job[j].source}
  /\ UNCHANGED <<now, facts, retained>>

-----------------------------------------------------------------------------
(* Readers.                                                                *)

\* A snapshot that is found too late leaves the map, its entry in the list
\* stays until the next store.  Finding it in time changes nothing.
ReadExpired(s, id) ==
  /\ id \in returned \cap snapshots[s]
  /\ expiresAt[id] <= now
  /\ snapshots' = [snapshots EXCEPT ![s] = @ \ {id}]
  /\ UNCHANGED <<now, facts, job, capturePending, snapshotOrder, returned>>

Delete(s, id) ==
  /\ id \in returned \cap snapshots[s]
  /\ snapshots' = [snapshots EXCEPT ![s] = @ \ {id}]
  /\ snapshotOrder' = [snapshotOrder EXCEPT ![s] = Keep(@, Id \ {id})]
  /\ UNCHANGED <<now, facts, job, capturePending, returned>>

-----------------------------------------------------------------------------

RetentionNext ==
  \/ \E j \in Job, s \in Source : Admit(j, s)
  \/ \E j \in Job : CaptureFails(j) \/ Capture(j) \/ Store(j) \/ StoreRefused(j) \/ Return(j)
  \/ \E s \in Source, id \in returned : ReadExpired(s, id) \/ Delete(s, id)
  \/ Tick

RetentionSpec == RetentionInit /\ [][RetentionNext]_retentionVars

-----------------------------------------------------------------------------
(* What retention promises.                                                *)

Retained == UNION {snapshots[s] : s \in Source}

\* All sources together never retain more than the configured bytes.
BudgetHeld == Bytes(Retained) <= MaxRetained

\* Every snapshot in a source's map is in its list, once: otherwise no store
\* would ever count or expire it.
RetainedIsListed ==
  \A s \in Source :
    /\ snapshots[s] \subseteq Listed(snapshotOrder[s])
    /\ \A i, k \in DOMAIN snapshotOrder[s] : i # k => snapshotOrder[s][i] # snapshotOrder[s][k]

\* A source lists its snapshots in the order they expire in, although the
\* expiry is stamped before the locks are taken: its cap drops the oldest.
OldestLeavesFirst ==
  \A s \in Source : \A i, k \in DOMAIN snapshotOrder[s] :
    i < k => expiresAt[snapshotOrder[s][i]] <= expiresAt[snapshotOrder[s][k]]

\* Why they are in that order: snapshots expire in the order they are captured
\* in, and as nobody else captures a source in the meantime, the one that is
\* about to be stored is newer than all that its source lists.
CapturesInOrder ==
  /\ \A i \in 1..made : expiresAt[i] <= now + TTL
  /\ \A i, k \in 1..made : i < k => expiresAt[i] <= expiresAt[k]
  /\ \A s \in Source : \A i, k \in DOMAIN snapshotOrder[s] :
       i < k => snapshotOrder[s][i] < snapshotOrder[s][k]
  /\ \A j \in Job : job[j].phase # "idle" => job[j].source \in capturePending
  /\ \A j, k \in Job : /\ j # k
                       /\ job[j].phase # "idle" /\ job[k].phase # "idle"
                       => job[j].source # job[k].source
  /\ \A j \in Job : job[j].phase \in {"captured", "stored"} => job[j].id \in 1..made
  /\ \A j \in Job : job[j].phase = "captured" =>
       \A i \in DOMAIN snapshotOrder[job[j].source] : snapshotOrder[job[j].source][i] < job[j].id

\* The retained bytes fit the budget and none of them escapes the count, with
\* captures of several sources in flight, and each list is in order.
RetentionInv ==
  RetentionTypeOK /\ BudgetHeld /\ RetainedIsListed /\ OldestLeavesFirst /\ CapturesInOrder

\* A source keeps this one no longer when it stores another: it has as many that
\* were captured after it.
BeyondCap(j, s, i) ==
  /\ job[j].source = s
  /\ Cardinality({k \in Live(s) : k > i}) >= MaximumSnapshots - 1

\* The snapshots that expire no earlier leave no room for the new one.
Crowded(j, i) ==
  Bytes({job[j].id} \cup
        UNION {{k \in Live(q) : expiresAt[k] >= expiresAt[i] /\ ~BeyondCap(j, q, k)} : q \in Source})
    > MaxRetained

\* A snapshot that has not expired makes room only for a newer one: of its own
\* source beyond the cap, or when the budget is short even of those that expire
\* no earlier.  Entries of snapshots that are gone take nobody's place.
NothingDroppedInVain ==
  [][\A s \in Source : \A i \in Live(s) \ snapshots'[s] :
       \/ i \in returned /\ Delete(s, i)
       \/ \E j \in Job : /\ job[j].phase = "captured" /\ job'[j].phase = "stored"
                         /\ BeyondCap(j, s, i) \/ Crowded(j, i)]_retentionVars
=============================================================================

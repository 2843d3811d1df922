----------------------------- MODULE DemandLease -----------------------------
(***************************************************************************)
(* What a source lease promises to the users of one media source: whoever  *)
(* is granted the source holds a lease on it, and until the edge shuts     *)
(* down the lease is given up only when nobody uses the source.            *)
(***************************************************************************)
CONSTANT User

VARIABLES
  users,   \* who was granted the source and has not left
  leased,  \* the source is held
  shut     \* the edge is shutting down

vars == <<users, leased, shut>>

Init == users = {} /\ leased = FALSE /\ shut = FALSE

\* An attempt of unknown outcome takes the lease for nobody in particular.
Claim == leased' = TRUE /\ UNCHANGED <<users, shut>>

Grant(u) ==
  /\ u \notin users
  /\ users' = users \cup {u}
  /\ leased' = TRUE
  /\ UNCHANGED shut

Leave(u) ==
  /\ u \in users
  /\ users' = users \ {u}
  /\ UNCHANGED <<leased, shut>>

Park ==
  /\ users = {}
  /\ leased' = FALSE
  /\ UNCHANGED <<users, shut>>

BeginShutdown == shut' = TRUE /\ UNCHANGED <<users, leased>>

\* Shutdown stops the source under its users, then ends them.
Seize == shut /\ leased' = FALSE /\ UNCHANGED <<users, shut>>
Evict == shut /\ users' = {} /\ UNCHANGED <<leased, shut>>

Next ==
  \/ Claim
  \/ \E u \in User : Grant(u) \/ Leave(u)
  \/ Park
  \/ BeginShutdown \/ Seize \/ Evict

Spec == Init /\ [][Next]_vars
=============================================================================

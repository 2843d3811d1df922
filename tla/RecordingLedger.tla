--------------------------- MODULE RecordingLedger ---------------------------
(***************************************************************************)
(* What the edge promises about the recordings of a source: they have it   *)
(* one after the other, a client that was told of one finds it from then   *)
(* on, nothing is settled before its client was told of it and the source  *)
(* is free again, and what is settled as complete has segments to show and *)
(* keeps them through every crash.  Only a start of the edge may hide an   *)
(* entry, and the next start may show it again: it is as it was.           *)
(***************************************************************************)
EXTENDS Integers

CONSTANTS
  Recorded,  \* the recordings
  Count      \* the numbers of segments that a complete one may have

VARIABLES
  holding,   \* the recording that has the source, if any
  entry,     \* what is found under the ID of each recording
  hidden,    \* entries that are kept, but not found before the next start
  told       \* recordings that a client was told of

vars == <<holding, entry, hidden, told>>

Absent      == [state |-> "absent", segments |-> 0]
Open        == [state |-> "open", segments |-> 0]
Failed      == [state |-> "failed", segments |-> 0]
Complete(n) == [state |-> "complete", segments |-> n]
Settled     == {Failed} \cup {Complete(n) : n \in Count}

Init ==
  /\ holding = {}
  /\ entry = [r \in Recorded |-> Absent]
  /\ hidden = {} /\ told = {}

Take(r) ==
  /\ holding = {} /\ entry[r] = Absent
  /\ holding' = {r}
  /\ UNCHANGED <<entry, hidden, told>>

GiveUp(r) ==
  /\ r \in holding /\ entry[r] = Absent
  /\ holding' = {}
  /\ UNCHANGED <<entry, hidden, told>>

Publish(r) ==
  /\ r \in holding /\ entry[r] = Absent
  /\ entry' = [entry EXCEPT ![r] = Open]
  /\ UNCHANGED <<holding, hidden, told>>

Tell(r) ==
  /\ r \in holding /\ entry[r] = Open
  /\ told' = told \cup {r}
  /\ UNCHANGED <<holding, entry, hidden>>

Release(r) ==
  /\ r \in holding \cap told /\ entry[r] = Open
  /\ holding' = {}
  /\ UNCHANGED <<entry, hidden, told>>

Settle(r) ==
  /\ r \in told \ holding /\ entry[r] = Open
  /\ \E e \in Settled : entry' = [entry EXCEPT ![r] = e]
  /\ UNCHANGED <<holding, hidden, told>>

\* What may be found of an entry after a crash.  What failed may turn out to be
\* complete: its last write was reported as failed and took effect.
AfterCrash(e) ==
  CASE e = Absent            -> {Absent, Failed}
    [] e \in {Open, Failed}  -> Settled
    [] e.state = "complete"  -> {e}

Crash ==
  /\ holding' = {}
  /\ entry' \in [Recorded -> {Absent} \cup Settled]
  /\ \A r \in Recorded : entry'[r] \in AfterCrash(entry[r])
  /\ hidden' \in SUBSET {r \in Recorded : entry'[r] # Absent}
  /\ UNCHANGED told

Next ==
  \/ \E r \in Recorded : Take(r) \/ GiveUp(r) \/ Publish(r) \/ Tell(r) \/ Release(r) \/ Settle(r)
  \/ Crash

Spec == Init /\ [][Next]_vars
=============================================================================

----------------------------- MODULE ViewerSlots -----------------------------
(***************************************************************************)
(* What the edge promises about its viewers: each of them holds one of a   *)
(* bounded number of slots, creates at most one native session in it, and  *)
(* once it is asked to leave it gives the slot back only when that session *)
(* is gone for good.  A viewer who is missed before anybody asked it to    *)
(* leave may be forgotten; one at a time is.                               *)
(***************************************************************************)
EXTENDS Integers, FiniteSets

CONSTANT Viewer

VARIABLES
  limit,   \* the number of slots
  slot,    \* what each viewer has: nothing, a wait for a slot, a slot, one it is
           \* asked for, nothing more
  native,  \* its native session: none yet, one that exists or may yet be created, ended
  missed,  \* who is to be forgotten
  shut     \* nobody may come in any more

vars == <<limit, slot, native, missed, shut>>

Holders == {v \in Viewer : slot[v] \in {"held", "asked"}}

Init ==
  /\ limit \in Nat
  /\ slot = [v \in Viewer |-> "free"]
  /\ native = [v \in Viewer |-> "none"]
  /\ missed = {} /\ shut = FALSE

Goes(v, from, to) == slot[v] = from /\ slot' = [slot EXCEPT ![v] = to]

Enter(v)  == Goes(v, "free", "waiting") /\ ~shut /\ UNCHANGED <<limit, native, missed, shut>>
Refuse(v) == Goes(v, "waiting", "free") /\ UNCHANGED <<limit, native, missed, shut>>

Admit(v) ==
  /\ Goes(v, "waiting", "held")
  /\ Cardinality(Holders) < limit
  /\ UNCHANGED <<limit, native, missed, shut>>

\* Nothing was attempted.
Leave(v) ==
  /\ Goes(v, "held", "released") /\ native[v] = "none"
  /\ UNCHANGED <<limit, native, missed, shut>>

Attempt(v) ==
  /\ v \in Holders /\ native[v] = "none"
  /\ native' = [native EXCEPT ![v] = "may exist"]
  /\ UNCHANGED <<limit, slot, missed, shut>>

Ask(v) == Goes(v, "held", "asked") /\ UNCHANGED <<limit, native, missed, shut>>

Ended(v) == [native EXCEPT ![v] = IF @ = "may exist" THEN "ended" ELSE @]

End(v) == native' = Ended(v) /\ UNCHANGED <<limit, slot, missed, shut>>

\* The session may end, at the latest, with the call that gives the slot back.
Release(v) ==
  /\ v \in Holders
  /\ slot' = [slot EXCEPT ![v] = "released"]
  /\ native' = Ended(v)
  /\ UNCHANGED <<limit, missed, shut>>

Miss(v) ==
  /\ slot[v] = "held" /\ missed = {}
  /\ missed' = {v}
  /\ UNCHANGED <<limit, slot, native, shut>>

\* Whatever was asked of the viewer meanwhile, and if it still has its slot.
Forget(v) ==
  /\ v \in missed
  /\ slot' = [slot EXCEPT ![v] = "released"]
  /\ missed' = {}
  /\ UNCHANGED <<limit, native, shut>>

BeginShutdown == shut' = TRUE /\ UNCHANGED <<limit, slot, native, missed>>

\* The process that runs the sessions exits.
EndAll ==
  /\ native' = [v \in Viewer |-> IF native[v] = "may exist" THEN "ended" ELSE native[v]]
  /\ UNCHANGED <<limit, slot, missed, shut>>

Next ==
  \/ \E v \in Viewer : Enter(v) \/ Refuse(v) \/ Admit(v) \/ Leave(v)
                      \/ Attempt(v) \/ Ask(v) \/ End(v) \/ Release(v) \/ Miss(v) \/ Forget(v)
  \/ BeginShutdown \/ EndAll

Spec == Init /\ [][Next]_vars
=============================================================================

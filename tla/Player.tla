------------------------------- MODULE Player -------------------------------
(***************************************************************************)
(* The embedded player (web/src/main.tsx): one page that opens a session   *)
(* at the edge, reconnects with a backoff and retires its sessions.        *)
(*                                                                         *)
(* One flight at a time negotiates a session and awaits: the retirement of *)
(* earlier sessions, ICE gathering, the POST, the remote description.      *)
(* Between any two of these steps the page can be hidden and revealed,     *)
(* timers fire, DELETEs settle and the connection changes.                 *)
(*                                                                         *)
(* generationRef only grows and is only compared with the generation that  *)
(* a flight began with; the model keeps the result of that comparison.     *)
(***************************************************************************)
EXTENDS Integers, FiniteSets

CONSTANTS
  PageSession, \* identities of sessions, used again once they are forgotten
  NoSession,   \* an empty sessionIdRef
  MaxFailures, \* bound: DELETEs that fail though the session exists
  MaxReaped,   \* bound: sessions that end at the edge by themselves
  MaxUntold    \* bound: sessions at a time whose answer never reached the page

ASSUME PageAssumption ==
  /\ NoSession \notin PageSession /\ IsFiniteSet(PageSession)
  /\ MaxFailures \in Nat /\ MaxReaped \in Nat /\ MaxUntold \in Nat

VARIABLES
  hidden,    \* document.hidden
  active,    \* pageActiveRef: FALSE between pagehide and pageshow
  flight,    \* the flight in progress, and whether its generation is current
  resume,    \* resumeAfterJoinRef
  retry,     \* timers that are armed
  peer,      \* peerRef: the connection of the current generation
  held,      \* sessionIdRef
  retiring,  \* the chain of retiringRef: DELETEs that have not settled,
  failed,    \*   and those that were rejected
  live,      \* external: sessions that exist at the edge, of those the page was told of
  untold,    \* external: those of POSTs whose answer was lost, which exist there or may yet
  failures, reaped

page     == <<hidden, active>>
chain    == <<retiring, failed>>
edge     == <<live, untold, failures, reaped>>
pageVars ==  <<page, flight, resume, retry, peer, held, chain, edge>>

NoFlight == [at |-> "none", current |-> FALSE]

\* The variables have their types.
PageTypeOK ==
  /\ hidden \in BOOLEAN /\ active \in BOOLEAN
  /\ flight \in [at : {"none", "retire", "gather", "post", "late", "apply"}, current : BOOLEAN]
  /\ resume \in BOOLEAN /\ retry \in 0..1
  /\ peer \in {"none", "new", "answered", "connected", "failed"}
  /\ held \in PageSession \cup {NoSession}
  /\ retiring \in SUBSET PageSession /\ failed \in SUBSET PageSession /\ live \in SUBSET PageSession
  /\ untold \in SUBSET PageSession
  /\ failures \in 0..MaxFailures /\ reaped \in 0..MaxReaped

Watched == ~hidden /\ active

-----------------------------------------------------------------------------
(* What the callbacks share.                                               *)

\* closeSession disarms the timer, closes the connection, makes the flight
\* stale and sends the DELETE of the session, if there is one; retireRemote
\* chains it to those that have not settled.
Chained == IF held = NoSession THEN retiring ELSE retiring \cup {held}

Closed == /\ retry' = 0 /\ peer' = "none" /\ held' = NoSession
          /\ retiring' = Chained /\ UNCHANGED failed

\* scheduleRetry arms one timer.
Armed(timers) == IF Watched /\ timers = 0 THEN timers + 1 ELSE timers

\* retiringRef is null once everything in the chain has succeeded.
Retirement == Chained # {} \/ failed # {}

\* connect starts a flight, which first joins the retirement.
StartFlight ==
  /\ retry' = 0 /\ held' = NoSession
  /\ retiring' = Chained /\ UNCHANGED failed
  /\ flight' = [at |-> IF Retirement THEN "retire" ELSE "gather", current |-> TRUE]
  /\ peer' = IF Retirement THEN "none" ELSE "new"
  /\ resume' = FALSE

\* A call of connect while a flight is in progress is remembered if that
\* flight is stale, and dropped otherwise.
Mutant_Dropped == resume
Joins == resume \/ ~flight.current

JoinFlight == resume' = Joins /\ UNCHANGED <<flight, peer, held, chain>>

Connect == IF flight.at = "none" THEN StartFlight ELSE JoinFlight /\ UNCHANGED retry

\* finishFlight starts over if connect was called meanwhile.
FinishFlight ==
  IF resume /\ Watched
    THEN StartFlight
    ELSE /\ flight' = NoFlight /\ resume' = FALSE
         /\ UNCHANGED <<retry, peer, held, chain>>

PageInit ==
  /\ hidden = FALSE /\ active = TRUE
  /\ flight = [at |-> "gather", current |-> TRUE] /\ resume = FALSE
  /\ retry = 0 /\ peer = "new" /\ held = NoSession
  /\ retiring = {} /\ failed = {} /\ live = {} /\ untold = {} /\ failures = 0 /\ reaped = 0

-----------------------------------------------------------------------------
(* Events of the page.                                                     *)

MakeStale == flight' = [flight EXCEPT !.current = FALSE]

Leave == Closed /\ MakeStale /\ UNCHANGED resume

Hide ==
  /\ ~hidden /\ hidden' = TRUE
  /\ Leave
  /\ UNCHANGED <<active, edge>>

Reveal ==
  /\ hidden /\ hidden' = FALSE
  /\ IF active THEN Connect ELSE UNCHANGED <<flight, resume, retry, peer, held, chain>>
  /\ UNCHANGED <<active, edge>>

PageHide ==
  /\ active /\ active' = FALSE
  /\ Leave
  /\ UNCHANGED <<hidden, edge>>

PageShow ==
  /\ ~active /\ active' = TRUE
  /\ IF hidden THEN Leave ELSE Connect
  /\ UNCHANGED <<hidden, edge>>

\* The reconnect button, which is disabled while a flight is current.
Reconnect ==
  /\ Watched /\ ~flight.current
  /\ Connect
  /\ UNCHANGED <<page, edge>>

TimerFires ==
  /\ retry > 0 /\ Watched
  /\ IF flight.at = "none" THEN StartFlight ELSE JoinFlight /\ retry' = 0
  /\ UNCHANGED <<page, edge>>

-----------------------------------------------------------------------------
(* The flight, from one await to the next.                                 *)

At(step) == flight.at = step /\ UNCHANGED <<page, edge>>

Proceeds(to) ==
  /\ flight' = [flight EXCEPT !.at = to]
  /\ UNCHANGED <<resume, retry, held, chain>>

\* The retirement has succeeded: the connection is created unless the page
\* was left meanwhile.
Joined ==
  /\ At("retire") /\ chain = <<{}, {}>>
  /\ IF flight.current THEN Proceeds("gather") /\ peer' = "new" ELSE FinishFlight

\* A rejected retirement ends the flight; no timer is armed.
Mutant_Blind == IF flight.current THEN Proceeds("gather") /\ peer' = "new" ELSE FinishFlight
FlightGivesUp == FinishFlight

JoinFails ==
  /\ At("retire") /\ failed # {}
  /\ FlightGivesUp

\* createOffer, setLocalDescription and waitForICEGathering.
Gathered ==
  /\ At("gather")
  /\ IF flight.current THEN Proceeds("post") /\ UNCHANGED peer ELSE FinishFlight

\* Sessions that the edge may open: it never names two alike.
Fresh == PageSession \ (live \cup untold \cup retiring \cup failed)

\* The POST times out or its answer cannot be read, though the edge opened a
\* session, or is still about to: nobody learns its name.
AnswerLost ==
  /\ flight.at = "post" /\ Cardinality(untold) < MaxUntold
  /\ \E s \in Fresh : untold' = untold \cup {s}
  /\ UNCHANGED live

\* Any await may reject: gathering times out, the edge refuses or is not there,
\* its answer is lost or not applied.  A current flight closes the session and
\* arms the timer.
Rejected ==
  /\ flight.at \in {"gather", "post", "apply"}
  /\ AnswerLost \/ UNCHANGED <<live, untold>>
  /\ UNCHANGED <<page, failures, reaped>>
  /\ IF flight.current
       THEN /\ retry' = Armed(0) /\ peer' = "none" /\ held' = NoSession
            /\ retiring' = Chained /\ UNCHANGED failed
            /\ flight' = NoFlight /\ UNCHANGED resume
       ELSE FinishFlight

\* The edge answers with a new session; a stale flight retires it and joins.
Mutant_Ignored(s) == UNCHANGED chain
RetireLate(s) == retiring' = retiring \cup {s} /\ UNCHANGED failed

Answered ==
  \E s \in Fresh :
    /\ flight.at = "post" /\ live' = live \cup {s}
    /\ IF flight.current
         THEN /\ flight' = [flight EXCEPT !.at = "apply"]
              /\ held' = s /\ UNCHANGED chain
         ELSE /\ flight' = [flight EXCEPT !.at = "late"]
              /\ RetireLate(s) /\ UNCHANGED held
    /\ UNCHANGED <<page, resume, retry, peer, untold, failures, reaped>>

LateJoined ==
  /\ At("late") /\ (retiring = {} \/ failed # {})
  /\ FinishFlight

\* The remote description is applied.
Applied ==
  /\ At("apply")
  /\ IF flight.current
       THEN /\ flight' = NoFlight /\ peer' = IF peer = "new" THEN "answered" ELSE peer
            /\ UNCHANGED <<resume, retry, held, chain>>
       ELSE FinishFlight

-----------------------------------------------------------------------------
(* Events of the connection; those of a stale one are ignored.             *)

Connected ==
  /\ \/ peer \in {"answered", "failed"}
     \/ peer = "new" /\ flight.at = "apply"
  /\ peer' = "connected" /\ retry' = 0
  /\ UNCHANGED <<page, flight, resume, held, chain, edge>>

\* Disconnected or failed.  ICE takes seconds for that, a flight that
\* applies an answer does not.
Dropped ==
  /\ peer \in {"answered", "connected", "failed"} /\ flight.at = "none"
  /\ peer' = "failed" /\ retry' = Armed(retry)
  /\ UNCHANGED <<page, flight, resume, held, chain, edge>>

-----------------------------------------------------------------------------
(* The edge.                                                               *)

Settles(s) == s \in retiring /\ retiring' = retiring \ {s}

Deleted(s) ==
  /\ Settles(s) /\ s \in live
  /\ live' = live \ {s}
  /\ UNCHANGED <<page, flight, resume, retry, peer, held, failed, untold, failures, reaped>>

\* A session that no longer exists is answered with 404.
NotFound(s) ==
  /\ Settles(s) /\ s \notin live
  /\ failed' = failed \cup {s}
  /\ UNCHANGED <<page, flight, resume, retry, peer, held, edge>>

\* The network fails, or the edge could not confirm the end of the session.
DeleteFails(s) ==
  /\ Settles(s) /\ failures < MaxFailures
  /\ failed' = failed \cup {s} /\ failures' = failures + 1
  /\ UNCHANGED <<page, flight, resume, retry, peer, held, live, untold, reaped>>

\* The edge ends a session that MediaMTX lost, or is restarted.
Reaped(s) ==
  /\ s \in live /\ reaped < MaxReaped
  /\ live' = live \ {s} /\ reaped' = reaped + 1
  /\ UNCHANGED <<page, flight, resume, retry, peer, held, chain, untold, failures>>

\* A session that no page connects to ends at the edge, or was never opened.
Expires(s) ==
  /\ s \in untold /\ untold' = untold \ {s}
  /\ UNCHANGED <<page, flight, resume, retry, peer, held, chain, live, failures, reaped>>

Awaits == Joined \/ JoinFails \/ Gathered \/ Rejected \/ Answered \/ LateJoined \/ Applied

PageNext ==
  \/ Hide \/ Reveal \/ PageHide \/ PageShow \/ Reconnect \/ TimerFires
  \/ Awaits \/ Connected \/ Dropped
  \/ \E s \in PageSession : Deleted(s) \/ NotFound(s) \/ DeleteFails(s) \/ Reaped(s) \/ Expires(s)

PageSpec == PageInit /\ [][PageNext]_pageVars

(* Awaits end, timers fire and DELETEs settle; an edge and a network that  *)
(* are asked again and again succeed at times.                             *)
PageFairness ==
  /\ WF_pageVars(Awaits) /\ WF_pageVars(TimerFires)
  /\ \A s \in PageSession : WF_pageVars(Deleted(s) \/ NotFound(s))
  /\ SF_pageVars(Gathered) /\ SF_pageVars(Answered) /\ SF_pageVars(Applied)
  /\ WF_pageVars(peer = "answered" /\ (Connected \/ Dropped)) /\ SF_pageVars(peer = "answered" /\ Connected)

FairPageSpec == PageSpec /\ PageFairness

-----------------------------------------------------------------------------
(* What is promised of the player.                                         *)

\* No offer overlaps a session that the page was told of: when one is posted,
\* every such session is known to be over.  (One whose answer was lost may
\* still exist: OneSessionAtATime.)
OffersDoNotOverlap == flight.at = "post" => held = NoSession /\ live = {}

\* A page that is not watched holds no session and no timer, and will not
\* adopt the answer of a flight that it left behind.
UnwatchedIsQuiet ==
  ~Watched => held = NoSession /\ retry = 0 /\ peer = "none" /\ ~flight.current

\* No session that the page was told of is left behind: one that exists is
\* held by a watched page, or its DELETE is on the way or was refused.
SessionsAccounted == live \subseteq {held} \cup retiring \cup failed

\* A page has at most one session at the edge, whatever answer was lost: it
\* posts an offer when there is none.
OneSessionAtATime == flight.at = "post" => live \cup untold = {}

\* One timer at most, a page that is not watched is quiet, and every session
\* that it was told of is somebody's.
PageInv == PageTypeOK /\ UnwatchedIsQuiet /\ SessionsAccounted

\* The player recovers without a reload: watched for good, it is connected
\* again and again, or keeps its connection.
RecoversWithoutReload == <>[]Watched => []<>(peer = "connected")

\* It does so at least as long as the end of every session is confirmed,
\* whatever was hidden, dropped or answered late before.
RecoversOnceConfirmed == <>[](Watched /\ failed = {}) => []<>(peer = "connected")
=============================================================================

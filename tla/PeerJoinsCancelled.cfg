\* A caller joins the attempt that the previous one cancelled.
SPECIFICATION Spec
CONSTANTS
  c1 = c1
  c2 = c2
  Caller = {c1, c2}
  MaxRevision = 0
  MaxIncarnation = 1
  MaxShutdown = 0
INVARIANTS
  JoinedAttemptLives
SYMMETRY Symmetry
\* Callers may stay away and a closed server stops.
CHECK_DEADLOCK FALSE

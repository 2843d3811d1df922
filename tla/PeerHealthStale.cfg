\* A round invalidated after its last reply reports a dead camera healthy.
SPECIFICATION Spec
CONSTANTS
  c1 = c1
  c2 = c2
  Caller = {c1}
  MaxRevision = 0
  MaxIncarnation = 1
  MaxShutdown = 0
INVARIANTS
  HealthFollowsCamera
\* Callers may stay away and a closed server stops.
CHECK_DEADLOCK FALSE

\* A replacement whose revalidation fails once never receives the stop.
SPECIFICATION FairSpec
CONSTANTS
  c1 = c1
  c2 = c2
  Caller = {c1}
  MaxRevision = 2
  MaxIncarnation = 2
  MaxShutdown = 0
PROPERTIES
  StopReachesReplacement
\* Callers may stay away and a closed server stops.
CHECK_DEADLOCK FALSE

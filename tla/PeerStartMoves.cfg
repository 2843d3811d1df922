\* A replacement is started again without a caller.
SPECIFICATION FairSpec
CONSTANTS
  c1 = c1
  c2 = c2
  Caller = {c1}
  MaxRevision = 1
  MaxIncarnation = 2
  MaxShutdown = 0
PROPERTIES
  StartReachesReplacement
\* Callers may stay away and a closed server stops.
CHECK_DEADLOCK FALSE

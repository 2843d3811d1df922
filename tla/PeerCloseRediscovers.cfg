\* Close discovers a replacement process and stops it.
SPECIFICATION Spec
CONSTANTS
  c1 = c1
  c2 = c2
  Caller = {c1}
  MaxRevision = 1
  MaxIncarnation = 2
  MaxShutdown = 1
PROPERTIES
  CleanupStaysFenced
\* Callers may stay away and a closed server stops.
CHECK_DEADLOCK FALSE

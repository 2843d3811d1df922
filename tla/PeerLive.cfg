\* A start and a stop reach the camera, and the worker rests and drains.
SPECIFICATION FairSpec
CONSTANTS
  c1 = c1
  c2 = c2
  Caller = {c1}
  MaxRevision = 2
  MaxIncarnation = 1
  MaxShutdown = 1
PROPERTIES
  OwedLeaseApplied
  RestsWithoutDemand
  WorkerDrains
\* Callers may stay away and a closed server stops.
CHECK_DEADLOCK FALSE

\* A camera that is replaced once, a start and a stop, lost replies, shutdown.
SPECIFICATION Spec
CONSTANTS
  c1 = c1
  c2 = c2
  Caller = {c1}
  MaxRevision = 2
  MaxIncarnation = 2
  MaxShutdown = 1
INVARIANTS
  PeerInv
PROPERTIES
  NoSecondWrite
  ReceiptAnswersCall
\* Callers may stay away and a closed server stops.
CHECK_DEADLOCK FALSE

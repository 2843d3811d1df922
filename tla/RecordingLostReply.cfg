\* A start whose reply is lost leaves MediaMTX recording for nobody.
SPECIFICATION Spec
CONSTANTS
  NRecordings = 1
  MaxSegments = 1
  MaxListed = 1
  MaxUnread = 0
  MaxRestart = 0
  MaxShutdown = 0
INVARIANTS
  NativeRecordingOwned
\* Every recording is asked for once: the system stops when all are over.
CHECK_DEADLOCK FALSE

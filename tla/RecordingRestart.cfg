\* A crash after a finalized segment leaves a manifest without segments.
SPECIFICATION Spec
CONSTANTS
  NRecordings = 1
  MaxSegments = 1
  MaxListed = 1
  MaxUnread = 0
  MaxRestart = 1
  MaxShutdown = 0
PROPERTIES
  RestartKeepsSegments
\* Every recording is asked for once: the system stops when all are over.
CHECK_DEADLOCK FALSE

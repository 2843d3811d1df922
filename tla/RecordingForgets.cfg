\* A finalized recording whose manifest has grown beyond 1 MiB is passed over by
\* the next start.
SPECIFICATION Spec
CONSTANTS
  NRecordings = 1
  MaxSegments = 2
  MaxListed = 1
  MaxUnread = 0
  MaxRestart = 1
  MaxShutdown = 0
PROPERTIES
  RestartKeepsHistory
\* Every recording is asked for once: the system stops when all are over.
CHECK_DEADLOCK FALSE

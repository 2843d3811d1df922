\* Two recordings of one source, failing calls and writes, Close and a crash.
SPECIFICATION FairSpec
CONSTANTS
  NRecordings = 2
  MaxSegments = 2
  MaxListed = 1
  MaxUnread = 1
  MaxRestart = 1
  MaxShutdown = 1
INVARIANTS
  RecordingInv
  AcknowledgedIsFound
PROPERTIES
  ImplementsRecordingLedger
  RecordingEnds
\* Every recording is asked for once: the system stops when all are over.
CHECK_DEADLOCK FALSE

\* Polls, path samples, keyframes and recoveries across two leases and Close.
SPECIFICATION FairSpec
CONSTANTS
  Viewer <- MCViewer
  Kinds <- MCKinds
  MaxEpoch = 3
INVARIANTS
  TelemetryInv
  ReportIsCurrent
PROPERTIES
  FlightsEnd
  ShownCatchesUp
\* After Close, and once the bounded acquisitions are used, the system may stop.
CHECK_DEADLOCK FALSE

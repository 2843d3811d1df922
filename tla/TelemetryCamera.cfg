\* A stop of a camera that its caller gave up on leaves the source reported live.
SPECIFICATION Spec
CONSTANTS
  Viewer <- MCViewer
  Kinds <- MCKinds
  MaxEpoch = 3
INVARIANTS
  ConfirmedStopIsDark
\* After Close, and once the bounded acquisitions are used, the system may stop.
CHECK_DEADLOCK FALSE

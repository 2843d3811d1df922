\* A late start receipt makes Close forget a failed stop of a managed camera.
SPECIFICATION Spec
CONSTANTS
  NoOp = NoOp
  Op = {o1}
  Controllers = {"peer"}
  MaxCloseAttempts = 1
INVARIANTS
  ClosedMeansStopped
\* Operations happen once: the system stops when all of them are done.
CHECK_DEADLOCK FALSE

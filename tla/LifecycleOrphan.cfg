\* An edge started after a crash takes the orphaned MediaMTX for its child.
SPECIFICATION Spec
CONSTANTS
  Op = {o1}
  MaxOperations = 1
  MaxTasks = 0
  MaxRestart = 1
PROPERTIES
  ReadinessIsOurs
\* An edge that has exited for good stops.
CHECK_DEADLOCK FALSE

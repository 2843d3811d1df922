\* After its child has gone and it has closed, the edge waits for a signal.
SPECIFICATION FairSpec
CONSTANTS
  Op = {o1}
  MaxOperations = 1
  MaxTasks = 0
  MaxRestart = 0
PROPERTIES
  ChildExitEndsEdge
\* An edge that has exited for good stops.
CHECK_DEADLOCK FALSE

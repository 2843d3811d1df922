\* A request, a task and three callers of Close, a crash and a restart.
SPECIFICATION FairSpec
CONSTANTS
  Op = {o1}
  MaxOperations = 1
  MaxTasks = 1
  MaxRestart = 1
INVARIANTS
  LifecycleInv
PROPERTIES
  FailedStartLeavesNothing
  SessionsAreReconciled
  ChildExitShutsDown
\* An edge that has exited for good stops.
CHECK_DEADLOCK FALSE

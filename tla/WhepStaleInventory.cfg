\* An inventory older than the session forgets a native session that is live.
SPECIFICATION Spec
CONSTANTS
  NSessions = 1
  SessionLimits = {1}
  CloseLimit = 1
  ClosingLimits = {}
INVARIANTS
  NativeIsOwned
\* Tokens are used once: the system stops when all of them are.
CHECK_DEADLOCK FALSE

\* A pass that has judged by its inventory forgets a session that was asked for
\* meanwhile, in vain.
SPECIFICATION Spec
CONSTANTS
  NSessions = 1
  SessionLimits = {1}
  CloseLimit = 1
  ClosingLimits = {}
PROPERTIES
  AskedKeepsSlot
\* Tokens are used once: the system stops when all of them are.
CHECK_DEADLOCK FALSE

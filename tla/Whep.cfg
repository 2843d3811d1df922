\* Two sessions: one slot with every reply lost and Close, or a slot for each.
SPECIFICATION FairSpec
CONSTANTS
  NSessions = 2
  SessionLimits = {1, 2}
  ClosingLimits = {1}
  CloseLimit = 1
INVARIANTS
  SessionInv
PROPERTIES
  ImplementsViewerSlots
  CreatedSessionsEnd
\* Tokens are used once: the system stops when all of them are.
CHECK_DEADLOCK FALSE

\* A source with each of the controllers: two operations, lost calls, Close.
SPECIFICATION FairSpec
CONSTANTS
  NoOp = NoOp
  Op = {o1, o2}
  Controllers = {"pipeline", "peer", "direct"}
  MaxCloseAttempts = 2
INVARIANTS
  IInv
  NativeOwned
  UnmanagedCloseStops
PROPERTIES
  ImplementsDemandLease
  StopSparesViewers
  EventuallyParked
  CloseTerminates
\* Operations happen once: the system stops when all of them are done.
CHECK_DEADLOCK FALSE

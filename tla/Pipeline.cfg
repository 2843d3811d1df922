\* Two calls at once, two runs of an encoder and its producer that may crash.
SPECIFICATION FairSpec
CONSTANTS
  NoCaller = NoCaller
  Caller = {c1, c2}
  Process = {"encoder", "producer"}
  MaxRuns = 2
  MaxFrames = 1
INVARIANTS
  RunInv
PROPERTIES
  NoStaleFrame
  EitherEndEndsPipeline
  OperationsEnd
\* A closed pipeline takes no more calls.
CHECK_DEADLOCK FALSE

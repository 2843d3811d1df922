\* A start whose run dies just after it has settled returns an applied receipt.
SPECIFICATION Spec
CONSTANTS
  NoCaller = NoCaller
  Caller = {c1}
  Process = {"encoder"}
  MaxRuns = 1
  MaxFrames = 1
PROPERTIES
  ReceiptsAreFinal
\* A closed pipeline takes no more calls.
CHECK_DEADLOCK FALSE

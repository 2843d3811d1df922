\* A restart between the read of a frame and its response renumbers it.
SPECIFICATION Spec
CONSTANTS
  NoCaller = NoCaller
  Caller = {c1, c2}
  Process = {"encoder"}
  MaxRuns = 2
  MaxFrames = 1
PROPERTIES
  SequenceNamesRun
\* A closed pipeline takes no more calls.
CHECK_DEADLOCK FALSE

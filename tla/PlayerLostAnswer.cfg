\* A POST whose answer is lost leaves a session that the next offer overlaps.
SPECIFICATION PageSpec
CONSTANTS
  NoSession = NoSession
  PageSession = {s1, s2}
  MaxFailures = 0
  MaxReaped = 0
  MaxUntold = 1
INVARIANTS
  OneSessionAtATime

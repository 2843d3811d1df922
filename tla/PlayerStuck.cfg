\* A session that ended at the edge is answered with 404, which ends the player.
SPECIFICATION FairPageSpec
CONSTANTS
  NoSession = NoSession
  PageSession = {s1, s2}
  MaxFailures = 0
  MaxReaped = 1
  MaxUntold = 0
PROPERTIES
  RecoversWithoutReload

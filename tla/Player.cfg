\* A page hidden, revealed and left at any await, DELETEs that fail, answers that are lost,
\* sessions that end.
SPECIFICATION FairPageSpec
CONSTANTS
  NoSession = NoSession
  PageSession = {s1, s2, s3}
  MaxFailures = 1
  MaxReaped = 1
  MaxUntold = 2
INVARIANTS
  PageInv
  OffersDoNotOverlap
PROPERTIES
  RecoversOnceConfirmed

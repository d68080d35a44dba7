SPECIFICATION FairSpec
CONSTANTS
  NumKeys = 3
  Call = {c1, c2}
  MaxRetries = 2
  BadKey = {0, 2}
  HasBudget = TRUE
INVARIANTS NeverUnreachable BurstBound PoolSurvivesBadKeys
PROPERTIES StaleKeyOnlyOnRetry CallEnds

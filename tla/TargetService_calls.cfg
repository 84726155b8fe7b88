SPECIFICATION FairSpec
CONSTANTS
  None = None
  c1 = c1
  c2 = c2
  k1 = k1
  k2 = k2
  Calls = {c1, c2}
  Keys = {k1, k2}
  Visits = {v1, v2}
  Pools <- MCPools
  Cooldown = 1
  CacheMaxAge = 2
  FetchTime = 1
  Lifetime = 2
INVARIANTS
  CallsComeClean
PROPERTIES
  KeySetServes
  EverythingEnds
CHECK_DEADLOCK FALSE

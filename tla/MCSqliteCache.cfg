SPECIFICATION FairCacheSpec
CONSTANTS
  t1 = t1
  t2 = t2
  t3 = t3
  g1 = g1
  h1 = h1
  h2 = h2
  h3 = h3
  None = None
  Tasks <- TwoTasks
  GetKeys <- OneGet
  HeadKeys <- OneHead
  Lifetimes <- One
  MaxEntries = 1
  ClearOnStart = TRUE
  MayFail = TRUE
  MaxClock = 1
  MaxBodies = 2
  MaxRestarts = 1
INVARIANTS CacheTypeOK RowNotNewerThanBody
PROPERTIES CallsReturn

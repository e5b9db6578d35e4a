SPECIFICATION FairSpec
CONSTANTS
  r1 = r1
  r2 = r2
  g1 = g1
  h1 = h1
  None = None
  Tasks <- TwoRequests
  GetKeys <- OneGet
  HeadKeys <- OneHead
  Lifetimes <- One
  MaxEntries = 1
  ClearOnStart = FALSE
  MayFail = TRUE
  MaxClock = 1
  MaxBodies = 2
  MaxRestarts = 1
INVARIANTS TypeOK PermitDiscipline CommitWindow ReplayNotOlder
PROPERTIES CacheSpec LookupsDecided CommitsEnd

SPECIFICATION CacheSpec
CONSTANTS
  t1 = t1
  t2 = t2
  t3 = t3
  g1 = g1
  h1 = h1
  h2 = h2
  h3 = h3
  None = None
  Tasks <- ThreeTasks
  GetKeys <- NoKey
  HeadKeys <- ThreeHeads
  Lifetimes <- ZeroOne
  MaxEntries = 1
  ClearOnStart = FALSE
  MayFail = FALSE
  MaxClock = 0
  MaxBodies = 0
  MaxRestarts = 1
INVARIANT EntryLimit
PROPERTY StoreRestoresLimit
SYMMETRY Symmetry

SPECIFICATION HistorySpec
CONSTANTS
  r1 = r1
  r2 = r2
  r3 = r3
  g1 = g1
  g2 = g2
  None = None
  Tasks <- ThreeRequests
  GetKeys <- TwoGets
  HeadKeys <- NoHead
  Lifetimes <- One
  MaxEntries = 1
  ClearOnStart = FALSE
  MayFail = FALSE
  MaxClock = 1
  MaxBodies = 2
  MaxRestarts = 1
INVARIANTS OnlyCutCommitsTear
PROPERTIES KeepsPromise LookupsSpareWhatWasThere
SYMMETRY Symmetry

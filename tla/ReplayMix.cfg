SPECIFICATION Spec
CONSTANTS
  r1 = r1
  r2 = r2
  g1 = g1
  h1 = h1
  None = None
  Tasks <- TwoRequests
  GetKeys <- OneGet
  HeadKeys <- NoHead
  Lifetimes <- One
  MaxEntries = 0
  ClearOnStart = FALSE
  MayFail = FALSE
  MaxClock = 1
  MaxBodies = 2
  MaxRestarts = 0
INVARIANT ReplayIsOneResponse

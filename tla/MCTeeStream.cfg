SPECIFICATION FairSpec
CONSTANTS
  None = None
  Capacity = 2
  MaxSize = 3
  RequireLength = FALSE
  Faults <- EveryFault
  MaxChunks = 4
INVARIANTS TypeOK CommittedBody NoTempLeft
PROPERTIES WriterEnds AbortEnds CommitsBody

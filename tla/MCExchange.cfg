SPECIFICATION FairSpec
CONSTANTS
  p1 = p1
  p2 = p2
  None = None
  Processes <- TwoProcesses
  Configs <- TheConfigs
  Requests <- TheRequests
  Responses <- TheResponses
  Copies <- TheCopies
  I64Max = 7
  MaxClock = 2
INVARIANTS TypeOK RefusedUntouched OnlyPermittedReached UploadWithinLimit WholeOrCut
  StoredWithinDeadlines LoggedIsWhole ReplayAsLong TableWhileServing
PROPERTIES Answered ForwardsAsPromised

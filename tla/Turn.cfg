SPECIFICATION SystemSpec
CONSTANTS
  Still = Still
  MaxAttempts = 3
  BaseDelay = 2
  MaxDelay = 3
  PollSlice = 2
  MaxHeld = 3
  Deadline = 5
  MaxChunks = 4
  Hints <- MCHints
  Calls = {"c1", "c2"}
  Interceptors <- ToolInterceptors
  MaxOrphans = 1
  MaxIterations = 3
  MaxToolCalls = 2
  MaxRecoveries = 1
  MaxContent = 2
  MaxPieces = 1
  CallLists <- TurnCallLists
INVARIANTS
  TypeOK
  StreamFaithful
  FailuresReported
  TurnAsksLawfully
  TurnTellsTheTruth
  ToolResultsAreHonest
  StreamIsFaithful
  RequestIsRight
PROPERTIES
  ResendIsHarmless
  TurnWorkEnds
CHECK_DEADLOCK FALSE

SPECIFICATION SystemSpec
CONSTANT
  Still = Still
  Inputs <- GateInputs
  Conversations = {"x", "y"}
  ConversationOf <- GateConversations
  Messages = {"m", "n", "m1"}
  MessageOf <- GateMessages
  Direct = {"d1"}
  Streaming = {"x1"}
  Concurrency = 1
  LaneSize = 1
  QueueMaxSize = 1
  DedupCapacity = 1
  NoInput = "none"
  Schedule <- CronSchedule
  Origin <- CronOrigin
  Sessions = {"s"}
  MaxJobs = 2
  MinInterval = 1
  Grace = 0
  Ceiling = 2
  MaxTime = 3
  MaxCrashes = 1
  MaxCalls = 1
  Callers = {"s", "t"}
  Operators = {"t"}
  MaxAdds = 2
  MaxOps = 4
  MaxMemoryCrashes = 1
INVARIANTS
  GatewayIsOrderly
  MemoryIntact
  TableIsDurable
  OutsideIsReportedTruly
  AnswerReachesTheCard
PROPERTIES
  ServiceStepsAreLawful
  ServiceWorkEnds
CHECK_DEADLOCK FALSE

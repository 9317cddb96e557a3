SPECIFICATION Spec
CONSTANTS
  x1 = x1
  x2 = x2
  y1 = y1
  d1 = d1
  d2 = d2
  NoInput = NoInput
  Inputs <- MCInputs
  Conversations <- MCConversations
  ConversationOf <- MCConversationOf
  Messages <- MCMessages
  MessageOf <- MCMessageOf
  Direct = {d1, d2}
  Streaming <- MCInputs
  Concurrency = 1
  LaneSize = 1
  QueueMaxSize = 1
  DedupCapacity = 1
INVARIANT
  DeliveriesSerial
CHECK_DEADLOCK FALSE

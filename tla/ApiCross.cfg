SPECIFICATION Spec
CONSTANTS
  Conversations = {{1, 2}}
  Streamed = {1}
  LaneSize = 1
  MaxTracked = 1
  MaxPieces = 1
  MaxResponses = 0
INVARIANT
  AnswerIsOwn

SPECIFICATION Spec
CONSTANTS
  Messages <- MCMessages
  Hints <- MCHints
  Streaming = TRUE
  MaxFaults = 0
INVARIANT
  StreamingIsClosed
CHECK_DEADLOCK FALSE

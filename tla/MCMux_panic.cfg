SPECIFICATION Spec
CONSTANTS
  Workers = {w1}
  Calls <- SessionCalls
  Unreliable = FALSE
  MaxStreams = 1
  MaxFrames <- Frames31
  WriteCap = 1
  AcceptCap = 1
  ReadCap = 1
  WireCap = 1
INVARIANTS ReadLoopSurvives
CHECK_DEADLOCK FALSE

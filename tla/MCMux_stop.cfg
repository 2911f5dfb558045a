SPECIFICATION FairSpec
CONSTANTS
  Workers = {w1}
  Calls <- StopCalls
  Unreliable = TRUE
  MaxStreams = 1
  MaxFrames <- Frames21
  WriteCap = 1
  AcceptCap = 1
  ReadCap = 1
  WireCap = 1
PROPERTIES LoopsStop CloseSpreads HeldStreamsClosed
CHECK_DEADLOCK FALSE

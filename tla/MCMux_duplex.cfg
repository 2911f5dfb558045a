SPECIFICATION Spec
CONSTANTS
  Workers = {w1, w2}
  Calls <- DuplexCalls
  Unreliable = FALSE
  MaxStreams = 1
  MaxFrames <- Frames31
  WriteCap = 1
  AcceptCap = 1
  ReadCap = 1
  WireCap = 1
PROPERTIES KeepsPromise
CHECK_DEADLOCK FALSE

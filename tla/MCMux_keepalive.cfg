SPECIFICATION FairSpec
CONSTANTS
  Workers = {w1}
  Calls <- KeepaliveCalls
  Unreliable = FALSE
  MaxStreams = 1
  MaxFrames <- Frames34
  WriteCap = 1
  AcceptCap = 1
  ReadCap = 1
  WireCap = 1
PROPERTIES FramesArrive
CHECK_DEADLOCK FALSE

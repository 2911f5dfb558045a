SPECIFICATION Spec
CONSTANTS
  Workers = {w1}
  Calls <- CollisionCalls
  Unreliable = FALSE
  MaxStreams = 1
  MaxFrames <- Frames22
  WriteCap = 1
  AcceptCap = 1
  ReadCap = 1
  WireCap = 1
INVARIANTS Isolated
CHECK_DEADLOCK FALSE

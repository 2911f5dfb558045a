SPECIFICATION Spec
CONSTANTS
  Workers = {w1}
  Calls <- SessionCalls
  Unreliable = FALSE
  MaxStreams = 2
  MaxFrames <- Frames41
  WriteCap = 1
  AcceptCap = 1
  ReadCap = 1
  WireCap = 1
INVARIANTS TypeOK CloseOnce ReadInOrder Isolated
PROPERTIES OpenStaysMapped RemoteCloseIsReal
CHECK_DEADLOCK FALSE

SPECIFICATION WireSpec
CONSTANTS
  MaxString = 3
  MaxPacketSize = 300
  MacLen = 2
  BlockSize = 2
  Plans <- RelayPlans
INVARIANTS RelayKept
CHECK_DEADLOCK FALSE

SPECIFICATION FairGatewaySpec
CONSTANTS
  Parts = {"wire", "relay", "proxy", "dial", "generator"}
  MaxString = 3
  MaxPacketSize = 300
  MacLen = 2
  BlockSize = 2
  Plans <- AllPlans
  RelayItems = 2
  Clients = {c1, c2, c3}
  Stoppers = {q1, q2}
  ConnCap = 1
  DomainLens = {0, 3, 254}
  Runs = {r1, r2}
  Versions = {"v1", "v2"}
  Mapping <- Mappings
  Jar <- Jars
  NoFile = NoFile
INVARIANTS
   NoFalseError TwinsAgree 
  RelayInOrder QuietShutdown
  OneOutlivesStop NothingLeftOpen
  DialReleases SocksAligned
  
PROPERTIES RelayStops StopsStart StopReturns
CHECK_DEADLOCK FALSE

SPECIFICATION FairSpec
CONSTANTS
  Channels = {"a", "b"}
  Conns <- MCConns
  OwnerOf <- MCOwnerOf
  LoopOf <- MCLoopOf
  Loops = {"l1", "l2"}
  UseXrpc = {"b"}
  DirectTo <- OneDirect
  Routes = {"s", " "}
  Server = "s"
  Services = {"Login", "Register", "Big", "Huge"}
  CalledBy <- Uneven
  ReqSize <- MCReqSize
  RespSize <- MCRespSize
  MaxCalls = 2
  Resets = TRUE
  Faults = {"crash"}
  Cuts = {}
INVARIANTS
  ChannelTypeOK
  ResponseMatches
  QuietBetweenCalls
  SocketsOwned
PROPERTIES
  CallReturns
CHECK_DEADLOCK FALSE

SPECIFICATION Spec
CONSTANTS
  Channels = {"a"}
  Conns <- MCConns
  OwnerOf <- MCOwnerOf
  LoopOf <- MCLoopOf
  Loops = {"l1", "l2"}
  UseXrpc = {"a"}
  DirectTo <- Direct
  Routes = {"s"}
  Server = "s"
  Services = {"Login"}
  CalledBy <- Logins
  ReqSize <- MCReqSize
  RespSize <- MCRespSize
  MaxCalls = 2
  Resets = TRUE
  Faults = {}
  Cuts = {}
INVARIANTS
  CallsSucceed
CHECK_DEADLOCK FALSE

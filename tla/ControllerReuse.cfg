SPECIFICATION Spec
CONSTANTS
  Channels = {"a"}
  Conns <- MCConns
  OwnerOf <- MCOwnerOf
  LoopOf <- MCLoopOf
  Loops = {"l1", "l2"}
  UseXrpc = {}
  DirectTo <- ZooKeeper
  Routes = {"s"}
  Server = "s"
  Services = {"Login"}
  CalledBy <- Logins
  ReqSize <- MCReqSize
  RespSize <- MCRespSize
  MaxCalls = 2
  Resets = FALSE
  Faults = {"connect"}
  Cuts = {}
INVARIANTS
  FailedIsCurrent
CHECK_DEADLOCK FALSE

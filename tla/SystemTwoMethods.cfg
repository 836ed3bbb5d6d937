SPECIFICATION Spec
CONSTANTS
  Channels = {"a"}
  Conns <- MCConns
  OwnerOf <- MCOwnerOf
  LoopOf <- MCLoopOf
  Loops = {"l1", "l2"}
  UseXrpc = {}
  DirectTo <- ZooKeeper
  Routes = {"s"}
  Server = "s"
  Services = {"Login", "Register"}
  CalledBy <- Both
  ReqSize <- MCReqSize
  RespSize <- MCRespSize
  MaxCalls = 2
  Resets = TRUE
  Faults = {}
  Cuts = {}
INVARIANTS
  MethodHonoured
CHECK_DEADLOCK FALSE

SPECIFICATION FairSpec
CONSTANTS
  Conns = {"c1", "c2"}
  Loops = {"l1", "l2"}
  LoopOf <- OwnLoop
  Mixes <- OneOrTwo
  Services = {"Login"}
  Called = {"Login", "Logout"}
  ReqSize <- MCReqSize
  RespSize <- MCRespSize
  Cuts = {8}
  MaxRequests = 2
  HangUps = {"c2"}
INVARIANTS
  ServerTypeOK
  AnswersInOrder
  BufferAligned
PROPERTIES
  RequestsAnswered
CHECK_DEADLOCK FALSE

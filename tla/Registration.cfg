SPECIFICATION FairSpec
CONSTANTS
  Procs = {"p1", "p2"}
  Files <- MCFiles
  ArgvOf <- MCArgv
  Provided <- OneService
  Numbers = {"8", "9", "2181"}
  MayLoseLink = TRUE
  Persistent = "nobody"
INVARIANTS
  RegTypeOK
  ParentsFirst
  RouteOwned
  ServingIsRegistered
  ConfigMeansFile
PROPERTIES
  StartEnds
  ExpiredEnds
  DeadRoutesExpire
CHECK_DEADLOCK FALSE

SPECIFICATION Spec
CONSTANTS
  Procs = {"p1", "p2"}
  Files <- MCFiles
  ArgvOf <- MCArgv
  Provided <- OneService
  Numbers = {"8", "9", "2181"}
  MayLoseLink = FALSE
  Persistent = "nobody"
INVARIANTS
  NodeRegistered
CHECK_DEADLOCK FALSE

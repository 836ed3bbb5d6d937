SPECIFICATION FairSpec
CONSTANTS
  Callers = {"c1", "c2"}
  Threads <- MCThreads
  WatcherOf <- MCWatcherOf
  NoThread = NoThread
  Paths = {"p1"}
  Nodes = {"n1", "n2"}
  MaxQueries = 1
  MaxChanges = 2
  Faults = {}
PROPERTIES
  RoutesRefreshed
CHECK_DEADLOCK FALSE

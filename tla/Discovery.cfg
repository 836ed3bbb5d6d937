SPECIFICATION FairSpec
CONSTANTS
  Callers = {"c1", "c2"}
  Threads <- MCThreads
  WatcherOf <- MCWatcherOf
  NoThread = NoThread
  Paths = {"p1", "p2"}
  Nodes = {"n1"}
  MaxQueries = 1
  MaxChanges = 2
  Faults = {"zk"}
INVARIANTS
  DiscoveryTypeOK
  NoStaleCopy
  CacheFromRegistry
  EmptyIsNotTrusted
PROPERTIES
  ImplementsCache
  LookupEnds
CHECK_DEADLOCK FALSE

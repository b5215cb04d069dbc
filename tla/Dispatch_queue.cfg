SPECIFICATION Spec
CONSTANTS
  Clients = {c1, c2}
  Acceptors = {a1}
  NThreads = 1
  MaxConnectNum = 1
  TryConnServerTimes = 3
  NULL = null
  Word = 16
INVARIANT QueuedReachesThread
CHECK_DEADLOCK FALSE

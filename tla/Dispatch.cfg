SPECIFICATION FairSpec
CONSTANTS
  Clients = {c1, c2}
  Acceptors = {a1, a2}
  NThreads = 1
  MaxConnectNum = 1
  TryConnServerTimes = 3
  NULL = null
  Word = 16
INVARIANTS TypeOK OnePlace TaskNumLags RecordsAddUp
PROPERTY HandedIsServed
CHECK_DEADLOCK FALSE

SPECIFICATION FairSpec
CONSTANTS
  MaxBytes = 3
  SndBuf = 1
  TryTimes = 3
  UsePool = TRUE
INVARIANTS TypeOK StreamIntact NeverDeaf EofLosesNothing PooledFlushed
PROPERTIES ImplementsStreams EveryByteArrives
CHECK_DEADLOCK FALSE

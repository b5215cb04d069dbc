SPECIFICATION Spec
CONSTANTS
  MaxBytes = 2
  SndBuf = 1
  TryTimes = 3
  UsePool = TRUE
INVARIANT RetryFindsConnection
CHECK_DEADLOCK FALSE

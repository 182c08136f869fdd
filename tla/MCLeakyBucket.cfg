\* Two hosts, clocks one second apart from Redis in either direction, replies
\* lost once, time for the key to expire and be filled again.
SPECIFICATION Spec
CONSTANTS
  Callers = {1, 2}
  Configs <- MCConfigs
  Offset <- MCOffset
  Skew = 1
  MaxDelay = 1
  MaxRetries = 1
  Sec = 1
  Buffer = 3
  StartClock = 4
  MaxClock = 13
  NoKey = NoKey
  NoWatch = NoWatch
INVARIANTS
  TypeOK
  RetryExact
PROPERTIES
  IsTokenBucket

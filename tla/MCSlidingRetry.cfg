\* Hosts in step with Redis, no delay and no resend: a caller who waits exactly
\* retry_after still meets the bucket it was told to wait for.
SPECIFICATION Spec
CONSTANTS
  Callers = {1, 2}
  Configs <- MCConfigs
  Offset <- MCOffset
  Skew = 0
  MaxDelay = 0
  MaxRetries = 0
  Sec = 3
  Buffer = 2
  StartClock = 8
  MaxClock = 24
  NoKey = NoKey
  NoWatch = NoWatch
INVARIANT
  RetryIsEnough

\* Hosts in step with Redis, no delay and no resend: nothing but the one-second
\* counters can let more through than the limit.
SPECIFICATION Spec
CONSTANTS
  Callers = {1, 2}
  Configs <- MCConfigs
  Offset <- MCOffset
  Skew = 0
  MaxDelay = 0
  MaxRetries = 0
  Sec = 3
  Buffer = 2
  StartClock = 8
  MaxClock = 24
  NoKey = NoKey
  NoWatch = NoWatch
INVARIANT
  AnyWindowBound

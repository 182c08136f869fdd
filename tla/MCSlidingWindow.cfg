\* Two hosts, clocks half a second apart from Redis in either direction.  The
\* windows are four and two seconds, so that TrailingBound speaks of a span of
\* three half seconds for the wide one.
SPECIFICATION Spec
CONSTANTS
  Callers = {1, 2}
  Configs <- MCConfigs
  Offset <- MCOffset
  Skew = 1
  MaxDelay = 1
  MaxRetries = 1
  Sec = 2
  Buffer = 2
  StartClock = 8
  MaxClock = 24
  NoKey = NoKey
  NoWatch = NoWatch
INVARIANTS
  TypeOK
  TrailingBound
  RetryWithin
PROPERTIES
  ExpiryForgetsNothing
  IsQuota

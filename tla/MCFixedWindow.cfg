\* Three hosts, one behind Redis by a second and two ahead of it, four
\* windows of three seconds and six of two, and a key that outlives its window
\* by the buffer alone.
SPECIFICATION Spec
CONSTANTS
  Callers = {1, 2, 3}
  Configs <- MCConfigs
  Offset <- MCOffset
  Skew = 1
  MaxDelay = 1
  MaxRetries = 1
  Sec = 1
  Buffer = 3
  StartClock = 6
  MaxClock = 18
  NoKey = NoKey
  NoWatch = NoWatch
INVARIANTS
  TypeOK
  WindowBound
  RetryExact
PROPERTIES
  WindowsOnlyAdvance
  IsQuota

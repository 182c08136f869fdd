\* Exact clocks and no delay: one report after more than the ten minutes that
\* are Quiet, within the half hour for which the record of a good score lives.
SPECIFICATION Spec
CONSTANTS
  Callers = {1}
  Offset <- MCOffset
  Skew = 0
  MaxDelay = 0
  MaxRetries = 0
  Full = 2000
  Rapid = 1
  Quiet = 2
  Hour = 8
  Repeated = 2
  Persistent = 4
  Goods = {7, 18}
  MaxReports = 3
  NoKey = NoKey
  Never = Never
INVARIANTS
  RecoversWithTime

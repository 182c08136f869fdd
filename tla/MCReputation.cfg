\* One unit of time is half of what counts as rapid fire.  Punishment is
\* doubled from the fourth violation on, so that few reports get there.
SPECIFICATION Spec
CONSTANTS
  Callers = {1, 2}
  Offset <- MCOffset
  Skew = 1
  MaxDelay = 1
  MaxRetries = 1
  Full = 2000
  Rapid = 2
  Quiet = 2
  Hour = 4
  Repeated = 2
  Persistent = 4
  Goods = {7, 18}
  MaxReports = 3
  NoKey = NoKey
  Never = Never
INVARIANTS
  TypeOK
  ScoreIsEarned
  RapidWithin
  BanIsFinite
PROPERTIES
  PardonIsEarned

\* Every configuration and pair of requests, and with one configuration the whole
\* life of the process: two requests to the proxy and a scrape of the metrics.
\* The process ends, or has served what is watched: no deadlock check.
SPECIFICATION ProcessSpec
CONSTANTS
  Connections = {1, 2, 3}
  ServerOf <- MCServerOf
  ErrRoom = 2
  Configs <- MCConfigs
  Requests <- MCRequests
  Followed <- MCFollowed
  KeyLength = 3
  Nil = Nil
INVARIANTS
  TypeOK
  GraceGiven
  ExitTellsWhy
  IntakeTypeOK
  BucketsFit
  CheckedIsValid
PROPERTIES
  ProcessEnds
CHECK_DEADLOCK FALSE
